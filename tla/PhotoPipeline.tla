---------------------------- MODULE PhotoPipeline ----------------------------
(***************************************************************************)
(* How a photo gets from the phone's command to the phone's disk: the      *)
(* process cmd_server (cmd_server.c), the photo part of the video thread's *)
(* loop (video.c) and the process photo_trans (photo_send.c), over the two *)
(* System V message queues and the shared memory word with the client's    *)
(* address.                                                                *)
(*                                                                         *)
(*   phone --TAKE--> cmd_server --(takeq)--> video thread --(sendq)-->     *)
(*   photo_trans --> phone;  results come back over the same two queues.   *)
(*                                                                         *)
(* Requests are numbered as cmd_server reads them; the number stands for   *)
(* the photo's name.  A message is its type, its number and `succeed`.     *)
(* The video thread exists while an RTSP session does (VideoSession).      *)
(***************************************************************************)
EXTENDS Naturals, Sequences, SequencesExt, FiniteSets

CONSTANTS
    MaxPhotos,      \* bound on the photos asked for
    MaxClients,     \* bound on the phones that connect one after the other
    Room            \* messages a queue holds before msgsnd blocks (msg_qbytes)

ASSUME PipelineAssumption ==
    /\ MaxPhotos \in Nat \ {0}
    /\ MaxClients \in Nat \ {0}
    /\ Room \in Nat \ {0}

Photos == 1 .. MaxPhotos
Clients == 1 .. MaxClients
NoPhoto == 0

Message == [type : {"TAKE", "TAKE_OVER", "TRANS", "TRANS_OVER"},
            photo : Photos, ok : BOOLEAN]

VARIABLES
    takeq, sendq,   \* the two queues
    removed,        \* cmd_server has removed both (IPC_RMID)
    globalAddr,     \* *global_addr: the client that connected last, or 0
    phone,          \* cmd_server's peer: "none", "open" or "closed"
    cmd,            \* where cmd_server is
    inHand,         \* the photo cmd_server is passing on
    asked,          \* photos asked for so far
    vt,             \* where the video thread is
    vtQueue,        \* the queues it has open: "shared", or "fresh" after RMID
    vtPhoto,        \* take_photo_msg: the photo it is at
    pt,             \* where photo_trans is
    ptPhoto,        \* send_photo_msg: the photo it is at
    disk,           \* photos saved
    answered,       \* history: TAKE_OVER results the phone was sent
    delivered,      \* history: photos sent, with the client they went to
    lost            \* history: requests that will never be answered

cmdVars == <<globalAddr, phone, cmd, inHand, asked, answered>>
vidVars == <<vt, vtQueue, vtPhoto, disk>>
ptVars == <<pt, ptPhoto, delivered>>
vars == <<takeq, sendq, removed, cmdVars, vidVars, ptVars, lost>>

Init ==
    /\ takeq = << >> /\ sendq = << >> /\ removed = FALSE
    /\ globalAddr = 0 /\ phone = "none" /\ cmd = "accept"
    /\ inHand = NoPhoto /\ asked = 0 /\ answered = << >>
    /\ vt = "off" /\ vtQueue = "shared" /\ vtPhoto = NoPhoto /\ disk = {}
    /\ pt = "wait" /\ ptPhoto = NoPhoto /\ delivered = << >>
    /\ lost = {}

-----------------------------------------------------------------------------
(* The queues. *)

Msg(type, p, ok) == [type |-> type, photo |-> p, ok |-> ok]

\* msgsnd with flag 0 blocks while the queue is full.
HasRoom(q) == Len(q) < Room

OfType(q, type) == {i \in 1 .. Len(q) : q[i].type = type}

\* Mutant: the newest message of the type.
Oldest_newest(q, type) ==
    CHOOSE i \in OfType(q, type) : \A j \in OfType(q, type) : j <= i

\* msgrcv takes the oldest message of the type.
Oldest(q, type) ==
    CHOOSE i \in OfType(q, type) : \A j \in OfType(q, type) : i <= j

-----------------------------------------------------------------------------
(* cmd_server. *)

\* accept, and the client's address goes to the shared memory.
Connect ==
    /\ cmd = "accept"
    /\ globalAddr < MaxClients
    /\ globalAddr' = globalAddr + 1
    /\ phone' = "open"
    /\ cmd' = "recv"
    /\ UNCHANGED <<takeq, sendq, removed, inHand, asked, answered, vidVars,
                   ptVars, lost>>

PhoneCloses ==
    /\ phone = "open"
    /\ phone' = "closed"
    /\ UNCHANGED <<takeq, sendq, removed, globalAddr, cmd, inHand, asked,
                   answered, vidVars, ptVars, lost>>

\* recv_cmd finds no data: on to check_take_photo_results.
NoCommand ==
    /\ cmd = "recv"
    /\ cmd' = "check"
    /\ UNCHANGED <<takeq, sendq, removed, globalAddr, phone, inHand, asked,
                   answered, vidVars, ptVars, lost>>

\* TAKE_PHOTO_CMD, possibly sent before the phone closed.
TakeCommand ==
    /\ cmd = "recv"
    /\ asked < MaxPhotos
    /\ asked' = asked + 1
    /\ inHand' = asked'
    /\ cmd' = "post"
    /\ UNCHANGED <<takeq, sendq, removed, globalAddr, phone, answered, vidVars,
                   ptVars, lost>>

\* dispose_take_photo_cmd: the blocking msgsnd.
PostTake ==
    /\ cmd = "post"
    /\ HasRoom(takeq)
    /\ takeq' = Append(takeq, Msg("TAKE", inHand, FALSE))
    /\ inHand' = NoPhoto
    /\ cmd' = "check"
    /\ UNCHANGED <<sendq, removed, globalAddr, phone, asked, answered, vidVars,
                   ptVars, lost>>

\* SYN_TIME_CMD: the clock is set and the echo is sent.
SynTime ==
    /\ cmd = "recv"
    /\ cmd' = "echoTime"
    /\ UNCHANGED <<takeq, sendq, removed, globalAddr, phone, inHand, asked,
                   answered, vidVars, ptVars, lost>>

\* An error return of cmd_server: both queues are removed, for every process
\* that has them open, and the process ends.
Quit ==
    /\ cmd' = "dead"
    /\ removed' = TRUE
    /\ takeq' = << >>
    /\ sendq' = << >>
    /\ lost' = lost \union {takeq[i].photo : i \in 1 .. Len(takeq)}
                    \union ({inHand} \ {NoPhoto})
    /\ inHand' = NoPhoto
    /\ UNCHANGED <<globalAddr, phone, asked, answered, vidVars, ptVars>>

\* Every call of the loop has an error return: accept, recv (reset by the
\* peer), an unknown command, a clock that cannot be set, msgsnd and msgrcv,
\* and a send that reports an error.
CmdFails == cmd \notin {"dead", "killed"} /\ Quit

\* The peer has closed: back to accept.
SeesClose ==
    /\ cmd = "recv"
    /\ phone = "closed"
    /\ phone' = "none"
    /\ cmd' = "accept"
    /\ UNCHANGED <<takeq, sendq, removed, globalAddr, inHand, asked, answered,
                   vidVars, ptVars, lost>>

\* check_take_photo_results, msgrcv with IPC_NOWAIT: nothing (more).
CheckNone ==
    /\ cmd = "check"
    /\ OfType(takeq, "TAKE_OVER") = {}
    /\ cmd' = "recv"
    /\ UNCHANGED <<takeq, sendq, removed, globalAddr, phone, inHand, asked,
                   answered, vidVars, ptVars, lost>>

CheckOne ==
    /\ cmd = "check"
    /\ OfType(takeq, "TAKE_OVER") # {}
    /\ LET i == Oldest(takeq, "TAKE_OVER") IN
          /\ inHand' = takeq[i].photo
          /\ takeq' = RemoveAt(takeq, i)
          /\ cmd' = IF takeq[i].ok THEN "echoTrue" ELSE "echoFalse"
    /\ UNCHANGED <<sendq, removed, globalAddr, phone, asked, answered, vidVars,
                   ptVars, lost>>

\* Where cmd_server is in tcp_send_data, a blocking send without a timeout.
EchoPlaces == {"echoTrue", "echoFalse", "echoTime"}

\* tcp_send_data to a peer that is there, or into the buffer of a connection
\* whose other end is gone already.
Echo ==
    /\ cmd \in EchoPlaces
    /\ IF cmd = "echoTime" \/ phone = "closed" THEN UNCHANGED answered
       ELSE answered' = Append(answered, <<inHand, cmd = "echoTrue">>)
    /\ lost' = IF phone = "closed" THEN lost \union ({inHand} \ {NoPhoto}) ELSE lost
    /\ inHand' = NoPhoto
    /\ cmd' = "check"
    /\ UNCHANGED <<takeq, sendq, removed, globalAddr, phone, asked, vidVars,
                   ptVars>>

\* SIGPIPE, which the process does not ignore, kills it inside send: nothing
\* is removed.
Killed ==
    /\ cmd \in EchoPlaces
    /\ phone = "closed"
    /\ cmd' = "killed"
    /\ lost' = lost \union ({inHand} \ {NoPhoto})
    /\ inHand' = NoPhoto
    /\ UNCHANGED <<takeq, sendq, removed, globalAddr, phone, asked, answered,
                   vidVars, ptVars>>

-----------------------------------------------------------------------------
(* The photo part of the video thread's loop. *)

vidOther == <<removed, cmdVars, ptVars>>

\* A session's video thread opens the queues; msgget makes new ones when
\* cmd_server has removed them.
VidStart ==
    /\ vt = "off"
    /\ vt' = "loop"
    /\ vtQueue' = IF removed THEN "fresh" ELSE "shared"
    /\ UNCHANGED <<takeq, sendq, vidOther, vtPhoto, disk, lost>>

\* The session ends: every place is a cancellation point (poll, fopen, msgrcv
\* or msgsnd).  So do camera errors.
VidStop ==
    /\ vt # "off"
    /\ vt' = "off"
    /\ vtPhoto' = NoPhoto
    /\ lost' = IF vt \in {"take", "sayTrue", "sayFalse"}
               THEN lost \union {vtPhoto} ELSE lost
    /\ UNCHANGED <<takeq, sendq, vidOther, vtQueue, disk>>

\* Mutant: the request stays in the queue.
VidTake_keep ==
    /\ vt = "loop" /\ vtQueue = "shared" /\ ~removed
    /\ OfType(takeq, "TAKE") # {}
    /\ vtPhoto' = takeq[Oldest(takeq, "TAKE")].photo
    /\ vt' = "take"
    /\ UNCHANGED <<takeq, sendq, vidOther, vtQueue, disk, lost>>

\* msgrcv with IPC_NOWAIT after each frame.
VidTake ==
    /\ vt = "loop" /\ vtQueue = "shared" /\ ~removed
    /\ OfType(takeq, "TAKE") # {}
    /\ LET i == Oldest(takeq, "TAKE") IN
          /\ vtPhoto' = takeq[i].photo
          /\ takeq' = RemoveAt(takeq, i)
    /\ vt' = "take"
    /\ UNCHANGED <<sendq, vidOther, vtQueue, disk, lost>>

\* take_pohto succeeds: the file is written.
Photo ==
    /\ vt = "take"
    /\ disk' = disk \union {vtPhoto}
    /\ vt' = "sayTrue"
    /\ UNCHANGED <<takeq, sendq, vidOther, vtQueue, vtPhoto, lost>>

\* Mutant: the result of take_pohto is not looked at.
PhotoFail_ignored ==
    /\ vt = "take"
    /\ vt' = "sayTrue"
    /\ UNCHANGED <<takeq, sendq, vidOther, vtQueue, vtPhoto, disk, lost>>

\* Mutant: a photo that failed is not answered.
PhotoFail_silent ==
    /\ vt = "take"
    /\ vt' = "reset"
    /\ UNCHANGED <<takeq, sendq, vidOther, vtQueue, vtPhoto, disk, lost>>

\* take_pohto fails; the file may have been written (stat is its last step).
PhotoFail ==
    /\ vt = "take"
    /\ vt' = "sayFalse"
    /\ disk' \in {disk, disk \union {vtPhoto}}
    /\ UNCHANGED <<takeq, sendq, vidOther, vtQueue, vtPhoto, lost>>

\* Mutant: the file is queued whether it was written or not.
SayResult_always ==
    /\ vt \in {"sayTrue", "sayFalse"}
    /\ ~removed
    /\ HasRoom(takeq)
    /\ takeq' = Append(takeq, Msg("TAKE_OVER", vtPhoto, vt = "sayTrue"))
    /\ vt' = "queue"
    /\ UNCHANGED <<sendq, vidOther, vtQueue, vtPhoto, disk, lost>>

\* return_take_photo_result_to_message_queue: the blocking msgsnd.
SayResult ==
    /\ vt \in {"sayTrue", "sayFalse"}
    /\ ~removed
    /\ HasRoom(takeq)
    /\ takeq' = Append(takeq, Msg("TAKE_OVER", vtPhoto, vt = "sayTrue"))
    /\ vt' = IF vt = "sayTrue" THEN "queue" ELSE "reset"
    /\ UNCHANGED <<sendq, vidOther, vtQueue, vtPhoto, disk, lost>>

\* dispose_send_file: the blocking msgsnd.
QueueFile ==
    /\ vt = "queue"
    /\ ~removed
    /\ HasRoom(sendq)
    /\ sendq' = Append(sendq, Msg("TRANS", vtPhoto, FALSE))
    /\ vt' = "reset"
    /\ UNCHANGED <<takeq, vidOther, vtQueue, vtPhoto, disk, lost>>

\* The camera is back at preview.
VidReset ==
    /\ vt = "reset"
    /\ vt' = "loop"
    /\ vtPhoto' = NoPhoto
    /\ UNCHANGED <<takeq, sendq, vidOther, vtQueue, disk, lost>>

\* The queues are gone (EIDRM): the thread ends, at the next msgrcv or msgsnd.
VidGone ==
    /\ vt \in {"loop", "sayTrue", "sayFalse", "queue"}
    /\ removed /\ vtQueue = "shared"
    /\ VidStop

-----------------------------------------------------------------------------
(* photo_trans. *)

ptOther == <<takeq, removed, cmdVars, vidVars, lost>>

\* The blocking msgrcv, and access: without the file the answer is FALSE.
PtRecv ==
    /\ pt = "wait" /\ ~removed
    /\ OfType(sendq, "TRANS") # {}
    /\ LET i == Oldest(sendq, "TRANS") IN
          /\ ptPhoto' = sendq[i].photo
          /\ sendq' = RemoveAt(sendq, i)
    /\ pt' = IF ptPhoto' \in disk THEN "connect" ELSE "sayFalse"
    /\ UNCHANGED <<delivered, ptOther>>

\* Mutant: the address is read once, when the first phone has connected.
PtConnect_once ==
    /\ pt = "connect"
    /\ pt' = "send"
    /\ delivered' = Append(delivered, <<ptPhoto, 1, FALSE>>)
    /\ UNCHANGED <<sendq, ptPhoto, ptOther>>

\* init_tcp_client_socket with the address found in the shared memory now.
PtConnect ==
    /\ pt = "connect"
    /\ pt' = "send"
    /\ delivered' = Append(delivered, <<ptPhoto, globalAddr, FALSE>>)
    /\ UNCHANGED <<sendq, ptPhoto, ptOther>>

\* The phone refuses: photo_trans returns, and nothing starts it again.
PtConnectFail ==
    /\ pt = "connect"
    /\ pt' = "dead"
    /\ UNCHANGED <<sendq, ptPhoto, delivered, ptOther>>

\* send_photo_data sends the size and the file.  send blocks while the phone
\* does not read (net_trans.c sets no timeout), and its loop over the file
\* never ends when the file is shorter than the size that was sent.
PtSend ==
    /\ pt = "send"
    /\ pt' = "sayTrue"
    /\ delivered' = [delivered EXCEPT ![Len(delivered)][3] = TRUE]
    /\ UNCHANGED <<sendq, ptPhoto, ptOther>>

\* Mutant: a transfer that failed has no result.
PtSendFail_silent ==
    /\ pt = "send"
    /\ pt' = "wait"
    /\ UNCHANGED <<sendq, ptPhoto, delivered, ptOther>>

\* It cannot open or read the file, or send reports an error.
PtSendFail ==
    /\ pt = "send"
    /\ pt' = "sayFalse"
    /\ UNCHANGED <<sendq, ptPhoto, delivered, ptOther>>

\* The phone closed: SIGPIPE kills the process.
PtKilled ==
    /\ pt = "send"
    /\ pt' = "dead"
    /\ UNCHANGED <<sendq, ptPhoto, delivered, ptOther>>

\* Mutant: the wrong message type.
PtSay_trans ==
    /\ pt \in {"sayTrue", "sayFalse"} /\ ~removed
    /\ HasRoom(sendq)
    /\ sendq' = Append(sendq, Msg("TRANS", ptPhoto, pt = "sayTrue"))
    /\ pt' = "wait"
    /\ UNCHANGED <<ptPhoto, delivered, ptOther>>

\* return_trans_photo_result_to_message_queue: the blocking msgsnd.
PtSay ==
    /\ pt \in {"sayTrue", "sayFalse"} /\ ~removed
    /\ HasRoom(sendq)
    /\ sendq' = Append(sendq, Msg("TRANS_OVER", ptPhoto, pt = "sayTrue"))
    /\ pt' = "wait"
    /\ UNCHANGED <<ptPhoto, delivered, ptOther>>

\* The queue is gone: msgrcv or msgsnd fails and photo_trans returns.
PtGone ==
    /\ pt \in {"wait", "sayTrue", "sayFalse"}
    /\ removed
    /\ pt' = "dead"
    /\ UNCHANGED <<sendq, ptPhoto, delivered, ptOther>>

-----------------------------------------------------------------------------
CmdProgress ==
    \/ NoCommand \/ PostTake \/ SeesClose \/ CheckNone \/ CheckOne \/ Echo

CmdNext ==
    \/ CmdProgress \/ Connect \/ PhoneCloses \/ TakeCommand \/ SynTime
    \/ CmdFails \/ Killed

VidProgress ==
    \/ VidTake \/ Photo \/ PhotoFail \/ SayResult \/ QueueFile \/ VidReset
    \/ VidGone

VidNext == VidProgress \/ VidStart \/ VidStop

PtProgress == PtRecv \/ PtConnect \/ PtSend \/ PtSay \/ PtGone

PtNext == PtProgress \/ PtConnectFail \/ PtSendFail \/ PtKilled

Next == CmdNext \/ VidNext \/ PtNext

(***************************************************************************)
(* The three processes run: one that can go on does.  Nothing is assumed   *)
(* of phones, commands, sessions or failures; a send to a phone that does  *)
(* not read may block for ever, so the two that send have no fairness.     *)
(***************************************************************************)
Fairness ==
    /\ WF_vars(cmd \notin EchoPlaces /\ CmdProgress)
    /\ WF_vars(VidProgress)
    /\ WF_vars(pt # "send" /\ PtProgress)

Spec == Init /\ [][Next]_vars
FairSpec == Spec /\ Fairness

-----------------------------------------------------------------------------
(* Properties. *)

InQueue(q, type, p) == {i \in OfType(q, type) : q[i].photo = p}

\* Types, and no queue holds more than msg_qbytes lets in.
TypeOK ==
    /\ takeq \in Seq(Message) /\ Len(takeq) <= Room
    /\ sendq \in Seq(Message) /\ Len(sendq) <= Room
    /\ removed \in BOOLEAN
    /\ globalAddr \in 0 .. MaxClients
    /\ phone \in {"none", "open", "closed"}
    /\ cmd \in {"accept", "recv", "post", "check", "echoTrue", "echoFalse",
                "echoTime", "dead", "killed"}
    /\ inHand \in 0 .. MaxPhotos /\ asked \in 0 .. MaxPhotos
    /\ vt \in {"off", "loop", "take", "sayTrue", "sayFalse", "queue", "reset"}
    /\ vtQueue \in {"shared", "fresh"}
    /\ vtPhoto \in 0 .. MaxPhotos
    /\ pt \in {"wait", "connect", "send", "sayTrue", "sayFalse", "dead"}
    /\ ptPhoto \in 0 .. MaxPhotos
    /\ disk \subseteq Photos /\ lost \subseteq Photos
    /\ answered \in Seq(Photos \X BOOLEAN)
    /\ delivered \in Seq(Photos \X Clients \X BOOLEAN)

Increasing(s) == \A i, j \in 1 .. Len(s) : i < j => s[i][1] < s[j][1]

\* The phone gets its answers in the order of its commands, none twice: over
\* sessions that end, phones that come and go, and photos that fail.
AnswersInOrder == Increasing(answered)

\* A success the phone is told of, or will be, is a file on the disk.
AnswersTruthful ==
    /\ \A i \in 1 .. Len(answered) : answered[i][2] => answered[i][1] \in disk
    /\ \A i \in OfType(takeq, "TAKE_OVER") : takeq[i].ok => takeq[i].photo \in disk
    /\ cmd = "echoTrue" => inHand \in disk

\* A photo on its way to the phone, or sent, was saved, and nothing has told
\* the phone, or will, that taking it failed.
Transferring ==
    {p \in Photos : InQueue(sendq, "TRANS", p) # {}}
    \union {delivered[i][1] : i \in 1 .. Len(delivered)}
    \union (IF pt = "wait" THEN {} ELSE {ptPhoto} \ {NoPhoto})

ReportedFailed ==
    {answered[i][1] : i \in {j \in 1 .. Len(answered) : ~answered[j][2]}}
    \union {takeq[i].photo : i \in {j \in OfType(takeq, "TAKE_OVER") : ~takeq[j].ok}}
    \union (IF cmd = "echoFalse" THEN {inHand} ELSE {})

TransfersAreOfTaken ==
    /\ Transferring \subseteq disk
    /\ Transferring \intersect ReportedFailed = {}

\* photo_trans opens one connection for a photo, in the order they were taken.
SentInOrder == Increasing(delivered)

\* A request is in exactly one place: cmd_server's hand, the queue (as request
\* or as answer), the video thread's hand, the answers, or lost for a known
\* reason.  So none is dropped or answered twice.
Places(p) ==
    (IF inHand = p THEN {<<"hand">>} ELSE {})
    \union {<<"request", i>> : i \in InQueue(takeq, "TAKE", p)}
    \union {<<"answer", i>> : i \in InQueue(takeq, "TAKE_OVER", p)}
    \union (IF vt \in {"take", "sayTrue", "sayFalse"} /\ vtPhoto = p
            THEN {<<"video">>} ELSE {})
    \union {<<"answered", i>> : i \in {j \in 1 .. Len(answered) : answered[j][1] = p}}
    \union (IF p \in lost THEN {<<"lost">>} ELSE {})

EveryRequestAccountedFor ==
    \A p \in 1 .. asked : Cardinality(Places(p)) = 1

\* The three processes and their queues keep what the photo service promises:
\* each step of theirs is one it may take, or nothing a phone could see.
Service == INSTANCE PhotoService WITH
              client <- globalAddr, told <- answered, sent <- delivered

ServiceKept == Service!Spec

Answered(p) == \E i \in 1 .. Len(answered) : answered[i][1] = p

\* While a viewer keeps the video thread going, cmd_server keeps serving and
\* the queues have room, every photo asked for is answered: taken or failed.
\* It needs a phone that reads: no echo blocks cmd_server for ever.
RequestAnswered ==
    []<>(cmd \notin EchoPlaces) =>
        \A p \in Photos :
            (p <= asked) ~> \/ Answered(p) \/ p \in lost
                            \/ vt = "off"
                            \/ cmd \in {"accept", "dead", "killed"}

\* While the queue has room, every photo queued for transfer gets a result,
\* success or not, unless photo_trans has ended.  It needs phones that read
\* and files as long as stat said: no transfer lasts for ever.
TransferEnds ==
    []<>(pt # "send") =>
        \A p \in Photos :
            (InQueue(sendq, "TRANS", p) # {})
                ~> \/ InQueue(sendq, "TRANS_OVER", p) # {}
                   \/ pt = "dead" \/ removed

\* cmd_server.c:367: the process is not killed when the peer closes.
NotKilledByPeer == cmd # "killed"
=============================================================================
