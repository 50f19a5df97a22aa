------------------------------- MODULE Startup -------------------------------
(***************************************************************************)
(* How main (main.c) starts the program's processes: a named semaphore     *)
(* orders cmd_server, which makes the message queues, before video_server  *)
(* and photo_trans, which open them.  The semaphore's name and the queues  *)
(* belong to the kernel: they outlive a run of the program that is killed, *)
(* and the next run finds them (sem_open without O_EXCL, msgget).          *)
(*                                                                         *)
(* A queue is the number it was made with; 0 means that the key has none.  *)
(***************************************************************************)
EXTENDS Naturals

CONSTANT MaxRuns        \* bound on the runs of the program

ASSUME StartupAssumption == MaxRuns \in Nat \ {0}

Keys == {"take", "send"}
NoQueue == 0

VARIABLES
    run,        \* runs of the program so far
    named,      \* the semaphore's name exists
    count,      \* value of the semaphore this run uses
    semRun,     \* the run that created it
    queue,      \* Keys -> the queue msgget finds now
    made,       \* queues made so far
    old,        \* history: queues made before this run
    main,       \* where main is
    cmd,        \* where cmd_server is
    posted,     \* cmd_server has posted in this run
    cmdQ,       \* Keys -> the queue cmd_server uses
    photo,      \* where photo_trans is
    photoQ,     \* the queue photo_trans uses
    video,      \* where the video thread of a session is
    videoQ      \* Keys -> the queue it uses

semVars == <<named, count, semRun>>
queueVars == <<queue, made, old>>
cmdVars == <<cmd, posted, cmdQ>>
photoVars == <<photo, photoQ>>
videoVars == <<video, videoQ>>
vars == <<run, semVars, queueVars, main, cmdVars, photoVars, videoVars>>

NoQueues == [k \in Keys |-> NoQueue]

Init ==
    /\ run = 1 /\ named = FALSE /\ count = 0 /\ semRun = 0
    /\ queue = NoQueues /\ made = 0 /\ old = 0
    /\ main = "open"
    /\ cmd = "none" /\ posted = FALSE /\ cmdQ = NoQueues
    /\ photo = "none" /\ photoQ = NoQueue
    /\ video = "none" /\ videoQ = NoQueues

-----------------------------------------------------------------------------
(* main. *)

\* sem_open with O_CREAT: the initial value counts only for a new semaphore.
SemOpen ==
    /\ main = "open"
    /\ main' = "forkCmd"
    /\ named' = TRUE
    /\ IF named THEN UNCHANGED <<count, semRun>>
       ELSE count' = 0 /\ semRun' = run
    /\ UNCHANGED <<run, queueVars, cmdVars, photoVars, videoVars>>

ForkCmd ==
    /\ main = "forkCmd"
    /\ main' = "wait"
    /\ cmd' = "take"
    /\ UNCHANGED <<run, semVars, queueVars, posted, cmdQ, photoVars, videoVars>>

\* Mutant: main goes on at once.
SemWait_none ==
    /\ main = "wait"
    /\ main' = "unlink"
    /\ UNCHANGED <<run, semVars, queueVars, cmdVars, photoVars, videoVars>>

SemWait ==
    /\ main = "wait"
    /\ count > 0
    /\ count' = count - 1
    /\ main' = "unlink"
    /\ UNCHANGED <<run, named, semRun, queueVars, cmdVars, photoVars, videoVars>>

\* sem_close and sem_unlink.
SemUnlink ==
    /\ main = "unlink"
    /\ named' = FALSE
    /\ main' = "forkVideo"
    /\ UNCHANGED <<run, count, semRun, queueVars, cmdVars, photoVars, videoVars>>

ForkVideo ==
    /\ main = "forkVideo"
    /\ main' = "forkPhoto"
    /\ video' = "idle"
    /\ UNCHANGED <<run, semVars, queueVars, cmdVars, photoVars, videoQ>>

ForkPhoto ==
    /\ main = "forkPhoto"
    /\ main' = "waitpid"
    /\ photo' = "open"
    /\ UNCHANGED <<run, semVars, queueVars, cmdVars, photoQ, videoVars>>

\* A call of main fails and main returns; its children stay.
MainFail ==
    /\ main \in {"open", "forkCmd", "wait", "unlink", "forkVideo", "forkPhoto"}
    /\ main' = "failed"
    /\ UNCHANGED <<run, semVars, queueVars, cmdVars, photoVars, videoVars>>

-----------------------------------------------------------------------------
(* cmd_server, up to its accept loop. *)

\* Makes the queue `k` if the key has none.
MsgGet(k) ==
    IF queue[k] # NoQueue THEN UNCHANGED queueVars
    ELSE /\ made' = made + 1
         /\ queue' = [queue EXCEPT ![k] = made + 1]
         /\ UNCHANGED old

\* Mutant: a queue that exists is kept.
CmdRemoveOld_keep(k, here, next) ==
    /\ cmd = here
    /\ cmd' = next
    /\ MsgGet(k)
    /\ UNCHANGED <<run, semVars, main, posted, cmdQ, photoVars, videoVars>>

\* create_message_queue with is_create_flag: msgget with IPC_EXCL makes the
\* queue, or the one there is removed.
CmdRemoveOld(k, here, next) ==
    /\ cmd = here
    /\ cmd' = next
    /\ IF queue[k] = NoQueue THEN MsgGet(k)
       ELSE queue' = [queue EXCEPT ![k] = NoQueue] /\ UNCHANGED <<made, old>>
    /\ UNCHANGED <<run, semVars, main, posted, cmdQ, photoVars, videoVars>>

\* The second msgget: whatever queue the key has now, or a new one.
CmdMsgGet(k, here, next) ==
    /\ cmd = here
    /\ cmd' = next
    /\ MsgGet(k)
    /\ cmdQ' = [cmdQ EXCEPT ![k] = queue'[k]]
    /\ UNCHANGED <<run, semVars, main, posted, photoVars, videoVars>>

CmdTake == CmdRemoveOld("take", "take", "takeGet")
CmdTakeGet == CmdMsgGet("take", "takeGet", "send")
CmdSend == CmdRemoveOld("send", "send", "sendGet")
CmdSendGet == CmdMsgGet("send", "sendGet", "post")

\* Mutant: no sem_post.
SemPost_none ==
    /\ cmd = "post"
    /\ cmd' = "serve"
    /\ UNCHANGED <<run, semVars, queueVars, main, posted, cmdQ, photoVars, videoVars>>

SemPost ==
    /\ cmd = "post"
    /\ cmd' = "serve"
    /\ count' = count + 1
    /\ posted' = TRUE
    /\ UNCHANGED <<run, named, semRun, queueVars, main, cmdQ, photoVars, videoVars>>

\* An error return before the queues are there.  When create_message_queue
\* fails, for either queue, the code removes msg_id_for_send_file, which is
\* still 0 then; 0 is the identifier of the first queue since the system's
\* boot, and that may be one of these two, or none of the program's.
CmdFail ==
    /\ cmd \in {"take", "takeGet", "send", "sendGet"}
    /\ cmd' = "failed"
    /\ \/ UNCHANGED queue
       \/ \E k \in Keys : queue' = [queue EXCEPT ![k] = NoQueue]
    /\ UNCHANGED <<run, semVars, made, old, main, posted, cmdQ, photoVars, videoVars>>

\* sem_post, the socket or the service fails: both queues are removed.
CmdQuit ==
    /\ cmd \in {"post", "serve"}
    /\ cmd' = "failed"
    /\ queue' = [k \in Keys |-> IF queue[k] = cmdQ[k] THEN NoQueue ELSE queue[k]]
    /\ UNCHANGED <<run, semVars, made, old, main, posted, cmdQ, photoVars, videoVars>>

-----------------------------------------------------------------------------
(* photo_trans and the video threads: is_create_flag is false. *)

PhotoOpen ==
    /\ photo = "open"
    /\ photo' = "recv"
    /\ MsgGet("send")
    /\ photoQ' = queue'["send"]
    /\ UNCHANGED <<run, semVars, main, cmdVars, videoVars>>

\* msgrcv fails once the queue is removed: photo_trans returns.
PhotoGone ==
    /\ photo = "recv"
    /\ photoQ # queue["send"]
    /\ photo' = "failed"
    /\ UNCHANGED <<run, semVars, queueVars, main, cmdVars, photoQ, videoVars>>

VideoOpenTake ==
    /\ video = "idle"
    /\ video' = "send"
    /\ MsgGet("take")
    /\ videoQ' = [videoQ EXCEPT !["take"] = queue'["take"]]
    /\ UNCHANGED <<run, semVars, main, cmdVars, photoVars>>

VideoOpenSend ==
    /\ video = "send"
    /\ video' = "loop"
    /\ MsgGet("send")
    /\ videoQ' = [videoQ EXCEPT !["send"] = queue'["send"]]
    /\ UNCHANGED <<run, semVars, main, cmdVars, photoVars>>

\* The session ends, or a queue is gone.
VideoEnd ==
    /\ video \in {"send", "loop"}
    /\ video' = "idle"
    /\ videoQ' = NoQueues
    /\ UNCHANGED <<run, semVars, queueVars, main, cmdVars, photoVars>>

-----------------------------------------------------------------------------
\* All processes are killed, at any moment, and the program is started again.
Restart ==
    /\ run < MaxRuns
    /\ run' = run + 1
    /\ old' = made
    /\ main' = "open"
    /\ cmd' = "none" /\ posted' = FALSE /\ cmdQ' = NoQueues
    /\ photo' = "none" /\ photoQ' = NoQueue
    /\ video' = "none" /\ videoQ' = NoQueues
    /\ UNCHANGED <<semVars, queue, made>>

MainNext == SemOpen \/ ForkCmd \/ SemWait \/ SemUnlink \/ ForkVideo \/ ForkPhoto
CmdNext == CmdTake \/ CmdTakeGet \/ CmdSend \/ CmdSendGet \/ SemPost
PhotoNext == PhotoOpen \/ PhotoGone
VideoNext == VideoOpenTake \/ VideoOpenSend \/ VideoEnd

Next ==
    \/ MainNext \/ MainFail \/ CmdNext \/ CmdFail \/ CmdQuit
    \/ PhotoNext \/ VideoNext \/ Restart

Spec == Init /\ [][Next]_vars

\* main and cmd_server run; what fails, and when, is open.
FairSpec == Spec /\ WF_vars(MainNext) /\ WF_vars(CmdNext)

-----------------------------------------------------------------------------
(* Properties. *)

\* Types; a semaphore holds at most one post of each run that has used it.
TypeOK ==
    /\ run \in 1 .. MaxRuns /\ semRun \in 0 .. run
    /\ named \in BOOLEAN /\ posted \in BOOLEAN
    /\ count \in 0 .. run - semRun + 1
    /\ made \in Nat /\ old \in 0 .. made
    /\ queue \in [Keys -> 0 .. made]
    /\ cmdQ \in [Keys -> 0 .. made] /\ videoQ \in [Keys -> 0 .. made]
    /\ photoQ \in 0 .. made
    /\ main \in {"open", "forkCmd", "wait", "unlink", "forkVideo", "forkPhoto",
                 "waitpid", "failed"}
    /\ cmd \in {"none", "take", "takeGet", "send", "sendGet", "post", "serve", "failed"}
    /\ photo \in {"none", "open", "recv", "failed"}
    /\ video \in {"none", "idle", "send", "loop"}

\* In a run that created its own semaphore, whoever opens a queue gets the one
\* that cmd_server uses: while it serves, the three processes share them.
QueuesShared ==
    semRun = run /\ cmd = "serve" =>
        /\ photo = "recv" => photoQ = cmdQ["send"]
        /\ video \in {"send", "loop"} => videoQ["take"] = cmdQ["take"]
        /\ video = "loop" => videoQ["send"] = cmdQ["send"]

\* cmd_server never serves from a queue an earlier run has left, with that
\* run's requests and answers in it.
NoOldQueue == \A k \in Keys : cmdQ[k] # NoQueue => cmdQ[k] > old

\* main gets past the semaphore, and starts everything, unless cmd_server or
\* main itself fails or the run is killed.
StartsUp ==
    \A r \in 1 .. MaxRuns :
        (run = r /\ main = "wait")
            ~> (main \in {"waitpid", "failed"} \/ cmd = "failed" \/ run # r)

=============================================================================
