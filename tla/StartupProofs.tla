---------------------------- MODULE StartupProofs ----------------------------
(***************************************************************************)
(* What holds of the start for any number of runs.  The properties are not *)
(* inductive: they rest on what cmd_server has done by the time it posts,  *)
(* and on a semaphore created in this run having no post before that.      *)
(***************************************************************************)
EXTENDS Startup, TLAPS

\* The semaphore has no post of this run before cmd_server's.
CountInv == ~posted => count <= run - semRun

\* What goes with where the processes are.
PlaceInv ==
    /\ main = "open" => cmd = "none" /\ semRun < run
    /\ main \in {"open", "forkCmd"} => cmd = "none"
    /\ cmd = "none" => main \in {"open", "forkCmd", "failed"} /\ ~posted
    /\ posted => cmd \in {"serve", "failed"}
    /\ main \in {"open", "forkCmd", "wait", "unlink", "forkVideo"}
          => video = "none" /\ photo = "none"
    /\ semRun = run /\ main \in {"unlink", "forkVideo", "forkPhoto", "waitpid"} => posted
    /\ semRun = run /\ (video # "none" \/ photo # "none") => posted
    /\ cmd = "none" => video = "none" /\ photo = "none"

\* cmd_server's queues: its own, and what the keys have.
QueueInv ==
    /\ cmd \in {"none", "take", "takeGet"} => cmdQ = NoQueues
    /\ cmd \in {"send", "sendGet", "post", "serve"}
          => cmdQ["take"] # NoQueue /\ queue["take"] = cmdQ["take"]
    /\ cmd \in {"post", "serve"}
          => cmdQ["send"] # NoQueue /\ queue["send"] = cmdQ["send"]
    /\ cmd = "takeGet" => queue["take"] = NoQueue \/ queue["take"] > old
    /\ cmd = "sendGet" => queue["send"] = NoQueue \/ queue["send"] > old

Inv == TypeOK /\ CountInv /\ PlaceInv /\ QueueInv /\ NoOldQueue /\ QueuesShared

LEMMA InitInv == Init => Inv
<1> SUFFICES ASSUME Init PROVE Inv
  OBVIOUS
<1>1. TypeOK
  <2>1. NoQueues \in [Keys -> 0 .. made]
    BY DEF Init, NoQueues, NoQueue
  <2>2. run \in 1 .. MaxRuns /\ semRun \in 0 .. run
    BY StartupAssumption DEF Init
  <2>3. count \in 0 .. run - semRun + 1 /\ made \in Nat /\ old \in 0 .. made
    BY DEF Init
  <2>4. photoQ \in 0 .. made
    BY DEF Init, NoQueue
  <2>5. QED
    BY <2>1, <2>2, <2>3, <2>4 DEF Init, TypeOK
<1>2. CountInv /\ PlaceInv
  <2>1. 0 <= run - semRun
    BY DEF Init
  <2>2. CountInv
    BY <2>1 DEF Init, CountInv
  <2>3. PlaceInv
    BY DEF Init, PlaceInv
  <2>4. QED
    BY <2>2, <2>3
<1>3. QueueInv
  BY DEF Init, QueueInv
<1>4. NoOldQueue /\ QueuesShared
  BY DEF Init, NoOldQueue, QueuesShared, NoQueues
<1>5. QED
  BY <1>1, <1>2, <1>3, <1>4 DEF Inv

LEMMA StepInv == Inv /\ [Next]_vars => Inv'
<1> SUFFICES ASSUME Inv, [Next]_vars PROVE Inv'
  OBVIOUS
<1> USE StartupAssumption
    DEF Inv, TypeOK, CountInv, PlaceInv, QueueInv, NoOldQueue, QueuesShared,
        NoQueues, Keys, NoQueue, vars, semVars, queueVars, cmdVars, photoVars, videoVars
<1>1. CASE UNCHANGED vars
  BY <1>1
<1>2. CASE SemOpen
  BY <1>2 DEF SemOpen
<1>3. CASE ForkCmd
  BY <1>3 DEF ForkCmd
<1>4. CASE SemWait
  BY <1>4 DEF SemWait
<1>5. CASE SemUnlink
  BY <1>5 DEF SemUnlink
<1>6. CASE ForkVideo
  BY <1>6 DEF ForkVideo
<1>7. CASE ForkPhoto
  BY <1>7 DEF ForkPhoto
<1>8. CASE MainFail
  BY <1>8 DEF MainFail
<1>9. CASE CmdTake
  BY <1>9 DEF CmdTake, CmdRemoveOld, MsgGet
<1>10. CASE CmdTakeGet
  BY <1>10 DEF CmdTakeGet, CmdMsgGet, MsgGet
<1>11. CASE CmdSend
  BY <1>11 DEF CmdSend, CmdRemoveOld, MsgGet
<1>12. CASE CmdSendGet
  BY <1>12 DEF CmdSendGet, CmdMsgGet, MsgGet
<1>13. CASE SemPost
  BY <1>13 DEF SemPost
<1>14. CASE CmdFail
  BY <1>14 DEF CmdFail
<1>15. CASE CmdQuit
  BY <1>15 DEF CmdQuit
<1>16. CASE PhotoOpen
  BY <1>16 DEF PhotoOpen, MsgGet
<1>17. CASE PhotoGone
  BY <1>17 DEF PhotoGone
<1>18. CASE VideoOpenTake
  BY <1>18 DEF VideoOpenTake, MsgGet
<1>19. CASE VideoOpenSend
  BY <1>19 DEF VideoOpenSend, MsgGet
<1>20. CASE VideoEnd
  BY <1>20 DEF VideoEnd
<1>21. CASE Restart
  <2>1. NoQueues \in [Keys -> 0 .. made'] /\ \A k \in Keys : NoQueues[k] = NoQueue
    <3>1. made' \in Nat
      BY <1>21 DEF Restart
    <3>2. QED
      BY <3>1
  <2>2. TypeOK'
    <3>1. run' \in 1 .. MaxRuns /\ semRun' \in 0 .. run'
      BY <1>21 DEF Restart
    <3>2. count' \in 0 .. run' - semRun' + 1
      BY <1>21 DEF Restart
    <3>3. made' \in Nat /\ old' \in 0 .. made' /\ photoQ' \in 0 .. made'
      BY <1>21 DEF Restart
    <3>4. QED
      BY <1>21, <2>1, <3>1, <3>2, <3>3 DEF Restart
  <2>3. CountInv' /\ PlaceInv'
    <3>1. count <= run' - semRun
      BY <1>21 DEF Restart
    <3>2. CountInv'
      BY <1>21, <3>1 DEF Restart
    <3>3. PlaceInv'
      BY <1>21 DEF Restart
    <3>4. QED
      BY <3>2, <3>3
  <2>4. QueueInv' /\ NoOldQueue' /\ QueuesShared'
    BY <1>21, <2>1 DEF Restart
  <2>5. QED
    BY <2>2, <2>3, <2>4
<1>22. QED
  BY <1>1, <1>2, <1>3, <1>4, <1>5, <1>6, <1>7, <1>8, <1>9, <1>10, <1>11, <1>12,
     <1>13, <1>14, <1>15, <1>16, <1>17, <1>18, <1>19, <1>20, <1>21
     DEF Next, MainNext, CmdNext, PhotoNext, VideoNext

\* The strengthened invariant holds of every run.
THEOREM StartupInvariant == Spec => []Inv
  BY InitInv, StepInv, PTL DEF Spec

\* Types hold, and the semaphore never holds more than one post of each run
\* that has used it.
THEOREM StartupTypeCorrect == Spec => []TypeOK
<1>1. Inv => TypeOK
  BY DEF Inv
<1>2. QED
  BY <1>1, StartupInvariant, PTL

\* When the semaphore is new, the processes meet on the same two queues.
THEOREM QueuesAreShared == Spec => []QueuesShared
<1>1. Inv => QueuesShared
  BY DEF Inv
<1>2. QED
  BY <1>1, StartupInvariant, PTL

\* cmd_server never serves an earlier run's queue, left semaphore or not.
THEOREM QueuesAreNew == Spec => []NoOldQueue
<1>1. Inv => NoOldQueue
  BY DEF Inv
<1>2. QED
  BY <1>1, StartupInvariant, PTL
=============================================================================
