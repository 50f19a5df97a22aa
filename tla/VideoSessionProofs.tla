-------------------------- MODULE VideoSessionProofs --------------------------
(***************************************************************************)
(* Proofs about the RTSP sessions, for every number of connections and of  *)
(* frames.  The invariant Inv ties the place of the server thread to what  *)
(* the two other threads can be doing: it is what the sequence of          *)
(* pthread_create, sem_wait, pthread_cancel and pthread_join maintains     *)
(* through the many breaks of video_server's inner loop.                   *)
(***************************************************************************)
EXTENDS VideoSession, TLAPS

VideoPlaces == {"none", "init", "header", "post", "put", "capture", "photo", "dead"}

Commands == {"OPTIONS", "DESCRIBE", "SETUP", "PLAY"}

\* The types.
TypeInv ==
    /\ at \in [Threads -> Slot!Places]
    /\ owner \in Threads \union {"nobody"}
    /\ isFull \in BOOLEAN
    /\ buffer \in NALUs \union {None}
    /\ offered \in NALUs \union {None}
    /\ taken \in NALUs \union {None}
    /\ srv \in {"accept", "semwait", "recv", "destroy", "cancel", "join", "exit"}
    /\ mask \in SUBSET Commands
    /\ todo \in {<< >>, <<"video">>, <<"rtp">>, <<"rtp", "video">>, <<"video", "rtp">>}
    /\ goal \in {"accept", "exit"}
    /\ session \in SessionNrs
    /\ clientPort \in SessionNrs
    /\ cancelled \in SUBSET Threads
    /\ freed \in BOOLEAN
    /\ sem \in 0 .. 1
    /\ header \in SessionNrs
    /\ vid \in VideoPlaces
    /\ cleanup \in {"off", "pushed", "run"}
    /\ rtp \in {"none", "start", "get", "send", "dead"}
    /\ target \in SessionNrs \X SessionNrs
    /\ udpPort \in {"free", "bound"}
    /\ lastSent \in NALUs \union {None}

\* The mutex is held by the thread in its critical section and by no dead one,
\* and no thread sleeps on a buffer it could use.
MonitorSound == Slot!MutexHeldInside /\ Slot!NoLostWakeup

\* The monitor, and where the threads are in their calls of it.
MonitorInv ==
    /\ MonitorSound
    /\ isFull => buffer \in NALUs
    /\ at["video"] # "out" => vid = "put" \/ srv = "exit"
    /\ at["rtp"] # "out" => rtp = "get" \/ srv = "exit"
    /\ vid \in {"put", "capture", "photo"} => offered \in NALUs

\* The video thread before and after sem_post.
VideoInv ==
    /\ vid = "init" => cleanup = "off"
    /\ vid \in {"header", "post", "put", "capture", "photo"} => cleanup = "pushed"
    /\ vid \in {"post", "put", "capture", "photo"} => header = session
    /\ vid \in {"init", "header", "post"} => (srv = "semwait" \/ freed) /\ sem = 0
    /\ sem = 1 => (srv = "semwait" \/ freed) /\ header = session /\ cleanup # "off"

\* The RTP thread, its socket and its client.
RtpInv ==
    /\ "PLAY" \in mask => "SETUP" \in mask
    /\ "SETUP" \in mask => "DESCRIBE" \in mask /\ clientPort = session
    /\ "DESCRIBE" \in mask => "OPTIONS" \in mask
    /\ rtp # "none" => "PLAY" \in mask
    /\ (udpPort = "bound") <=> (rtp \in {"get", "send"})
    /\ rtp \in {"get", "send"} => target = <<session, session>>

\* The threads the server still has to end are the ones there are.
EndingInv ==
    /\ todo \in {<<"rtp">>, <<"video", "rtp">>} => goal = "accept" /\ rtp # "none"
    /\ todo = <<"rtp", "video">> => goal = "accept" /\ vid # "none" /\ rtp # "none"
    /\ todo \in {<<"video">>, <<"video", "rtp">>} => vid # "none"
    /\ todo = <<"rtp">> => vid = "none"
    /\ todo = <<"video">> /\ goal = "accept" => rtp = "none"

\* What the place of the server thread says of everything else.
ServerInv ==
    /\ srv = "accept" =>
          /\ vid = "none" /\ rtp = "none" /\ mask = {} /\ udpPort = "free"
          /\ at = [t \in Threads |-> "out"]
          /\ session > 0 => cleanup # "off"
    /\ srv = "semwait" =>
          /\ vid # "none" /\ rtp = "none" /\ mask = {}
    /\ srv = "recv" => header = session /\ cleanup # "off"
    /\ srv \in {"recv", "destroy"} =>
          /\ vid # "none"
          /\ ("PLAY" \in mask) <=> (rtp # "none")
    /\ srv \in {"cancel", "join"} =>
          /\ todo # << >>
          /\ goal = "accept" => cleanup # "off"
          /\ EndingInv
    /\ srv \notin {"join", "exit"} => cancelled = {}
    /\ srv = "join" => cancelled = {Head(todo)}
    /\ srv = "exit" /\ cancelled # {} /\ cleanup = "off" => freed /\ goal = "exit"
    /\ srv = "exit" => vid = "none" /\ rtp = "none"
    /\ freed => srv \in {"destroy", "exit"} \/ (srv \in {"cancel", "join"} /\ goal = "exit")
    /\ srv = "destroy" \/ (srv \in {"cancel", "join"} /\ goal = "exit") => freed

Inv == TypeInv /\ MonitorInv /\ VideoInv /\ RtpInv /\ ServerInv

-----------------------------------------------------------------------------
\* A NAL unit of a session is one of NALUs, and its number can be read back.
LEMMA UnitIsNALU ==
    ASSUME NEW s \in SessionNrs, NEW n \in 0 .. LastFrame
    PROVE  NALU(s, n) \in NALUs /\ NALU(s, n).n = n
  BY DEF NALU, NALUs

\* The number after a unit's is the number of a unit.
LEMMA AfterIsUnit ==
    ASSUME NEW n \in 0 .. LastFrame
    PROVE  After(n) \in 0 .. LastFrame
  BY BoundsAssumption DEF After, FirstFrame

\* What cancelling and joining the threads of todo one by one means.
LEMMA TodoFacts ==
    /\ Len(<<"video">>) = 1 /\ Len(<<"rtp">>) = 1
    /\ Len(<<"rtp", "video">>) = 2 /\ Len(<<"video", "rtp">>) = 2
    /\ Head(<<"video">>) = "video" /\ Head(<<"rtp">>) = "rtp"
    /\ Head(<<"rtp", "video">>) = "rtp" /\ Head(<<"video", "rtp">>) = "video"
    /\ Tail(<<"video">>) = << >> /\ Tail(<<"rtp">>) = << >>
    /\ Tail(<<"rtp", "video">>) = <<"video">> /\ Tail(<<"video", "rtp">>) = <<"rtp">>
    /\ << >> # <<"video">> /\ << >> # <<"rtp">>
    /\ << >> # <<"rtp", "video">> /\ << >> # <<"video", "rtp">>
    /\ <<"video">> # <<"rtp">> /\ <<"rtp", "video">> # <<"video", "rtp">>
    /\ <<"video">> # <<"rtp", "video">> /\ <<"video">> # <<"video", "rtp">>
    /\ <<"rtp">> # <<"rtp", "video">> /\ <<"rtp">> # <<"video", "rtp">>
  OBVIOUS

\* The thread whose turn it is, and the rest.
LEMMA TodoTypes ==
    ASSUME todo \in {<< >>, <<"video">>, <<"rtp">>, <<"rtp", "video">>, <<"video", "rtp">>},
           todo # << >>
    PROVE  /\ Head(todo) \in {"video", "rtp"}
           /\ Tail(todo) \in {<< >>, <<"video">>, <<"rtp">>}
           /\ Len(todo) = 1 <=> Tail(todo) = << >>
           /\ Head(todo) = "video" <=> todo \in {<<"video">>, <<"video", "rtp">>}
<1>1. CASE todo = <<"video">>
  BY <1>1, TodoFacts
<1>2. CASE todo = <<"rtp">>
  BY <1>2, TodoFacts
<1>3. CASE todo = <<"rtp", "video">>
  BY <1>3, TodoFacts
<1>4. CASE todo = <<"video", "rtp">>
  BY <1>4, TodoFacts
<1> QED
  BY <1>1, <1>2, <1>3, <1>4

\* The initial state satisfies the invariant.
LEMMA InitInv == Init => Inv
<1> SUFFICES ASSUME Init
             PROVE  Inv
  OBVIOUS
<1> USE DEF Init, Slot!Init, Slot!Threads, Threads
<1>1. TypeInv
  <2>1. 0 \in SessionNrs
    BY BoundsAssumption DEF SessionNrs
  <2>2. at \in [Threads -> Slot!Places]
    BY DEF Slot!Places
  <2>3. mask \in SUBSET Commands /\ cancelled \in SUBSET Threads
    OBVIOUS
  <2>4. target \in SessionNrs \X SessionNrs
    BY <2>1
  <2>5. todo \in {<< >>, <<"video">>, <<"rtp">>, <<"rtp", "video">>, <<"video", "rtp">>}
    BY Zenon
  <2>6. sem \in 0 .. 1
    OBVIOUS
  <2>7. /\ owner \in Threads \union {"nobody"} /\ isFull \in BOOLEAN
        /\ buffer \in NALUs \union {None} /\ offered \in NALUs \union {None}
        /\ taken \in NALUs \union {None} /\ lastSent \in NALUs \union {None}
    OBVIOUS
  <2> QED
    BY <2>1, <2>2, <2>3, <2>4, <2>5, <2>6, <2>7 DEF TypeInv, VideoPlaces
<1>2. MonitorInv
  BY DEF MonitorInv, MonitorSound, Slot!MutexHeldInside, Slot!NoLostWakeup,
         Slot!Waiters
<1>3. VideoInv
  BY DEF VideoInv
<1>4. RtpInv
  BY DEF RtpInv
<1>5. ServerInv
  BY DEF ServerInv, EndingInv
<1> QED
  BY <1>1, <1>2, <1>3, <1>4, <1>5 DEF Inv

\* The steps of the server thread preserve it.
LEMMA ServerStep == Inv /\ ServerNext => Inv'
<1> SUFFICES ASSUME Inv, ServerNext
             PROVE  Inv'
  OBVIOUS
<1> USE DEF Inv, TypeInv, MonitorInv, VideoInv, RtpInv, ServerInv, EndingInv,
            Threads, Commands, VideoPlaces, MonitorSound,
            Slot!MutexHeldInside, Slot!NoLostWakeup, Slot!Waiters,
            Slot!MustWait, Slot!Threads, slotVars, vidVars, rtpVars
<1>1. CASE Accept
  BY <1>1, BoundsAssumption DEF Accept, SessionNrs
<1>2. CASE AcceptFail
  <2>1. TypeInv'
    BY <1>2 DEF AcceptFail
  <2>2. MonitorInv'
    BY <1>2 DEF AcceptFail
  <2>3. VideoInv'
    BY <1>2 DEF AcceptFail
  <2>4. RtpInv'
    BY <1>2 DEF AcceptFail
  <2>5. ServerInv'
    BY <1>2 DEF AcceptFail
  <2> QED
    BY <2>1, <2>2, <2>3, <2>4, <2>5
<1>3. CASE SemWait
  BY <1>3 DEF SemWait
<1>10. CASE SemWaitFail
  BY <1>10 DEF SemWaitFail, FreeAll
<1>4. CASE Serve
  <2> USE DEF Request, OutOfOrder, NotServed, Served, Required, End, Running
  <2>1. CASE Options
    BY <2>1, TodoFacts DEF Options
  <2>2. CASE Describe
    BY <2>2, TodoFacts, SMTT(20) DEF Describe
  <2>3. CASE Setup
    BY <2>3, TodoFacts DEF Setup
  <2>4. CASE Play
    BY <2>4, TodoFacts DEF Play
  <2>5. CASE Teardown
    <3>1. TypeInv'
      BY <2>5, TodoFacts DEF Teardown
    <3>2. MonitorInv'
      BY <2>5, TodoFacts DEF Teardown
    <3>3. VideoInv'
      BY <2>5, TodoFacts DEF Teardown
    <3>4. RtpInv'
      BY <2>5, TodoFacts DEF Teardown
    <3>5. ServerInv'
      BY <2>5, TodoFacts DEF Teardown
    <3> QED
      BY <3>1, <3>2, <3>3, <3>4, <3>5
  <2>6. CASE Unknown
    BY <2>6, TodoFacts DEF Unknown
  <2> QED
    BY <1>4, <2>1, <2>2, <2>3, <2>4, <2>5, <2>6 DEF Serve
<1>5. CASE Abandon
  BY <1>5 DEF Abandon, FreeAll
<1>6. CASE Destroyed
  BY <1>6, TodoFacts DEF Destroyed
<1>7. CASE Cancel
  <2>1. Head(todo) \in Threads
    BY <1>7, TodoTypes DEF Cancel
  <2>2. TypeInv'
    <3>1. cancelled' = cancelled \union {Head(todo)} /\ cancelled' \in SUBSET Threads
      BY <1>7, <2>1 DEF Cancel
    <3> QED
      BY <1>7, <3>1 DEF Cancel
  <2>3. MonitorInv' /\ VideoInv' /\ RtpInv'
    BY <1>7 DEF Cancel
  <2>4. ServerInv'
    BY <1>7, TodoFacts DEF Cancel
  <2> QED
    BY <2>2, <2>3, <2>4
<1>8. CASE Join
  <2>1. /\ todo # << >>
        /\ goal = "accept" \/ todo = <<"video">>
    BY <1>8 DEF Join
  <2>2. CASE todo = <<"video">>
    <3>1. TypeInv' /\ MonitorInv' /\ VideoInv' /\ RtpInv'
      BY <1>8, <2>2, TodoFacts DEF Join, IsDead
    <3>2. ServerInv'
      BY <1>8, <2>2, TodoFacts DEF Join, IsDead
    <3> QED
      BY <3>1, <3>2
  <2>3. CASE todo = <<"rtp">>
    <3>1. TypeInv' /\ MonitorInv' /\ VideoInv' /\ RtpInv'
      BY <1>8, <2>3, TodoFacts DEF Join, IsDead
    <3>2. ServerInv'
      BY <1>8, <2>3, TodoFacts DEF Join, IsDead
    <3> QED
      BY <3>1, <3>2
  <2>4. CASE todo = <<"rtp", "video">>
    <3>1. TypeInv' /\ MonitorInv' /\ VideoInv' /\ RtpInv'
      BY <1>8, <2>4, TodoFacts DEF Join, IsDead
    <3>2. ServerInv'
      BY <1>8, <2>4, TodoFacts DEF Join, IsDead
    <3> QED
      BY <3>1, <3>2
  <2>5. CASE todo = <<"video", "rtp">>
    <3>1. TypeInv' /\ MonitorInv' /\ VideoInv' /\ RtpInv'
      BY <1>8, <2>5, TodoFacts DEF Join, IsDead
    <3>2. ServerInv'
      BY <1>8, <2>5, TodoFacts DEF Join, IsDead
    <3> QED
      BY <3>1, <3>2
  <2> QED
    BY <2>1, <2>2, <2>3, <2>4, <2>5
<1>9. CASE Crash
  <2>1. TypeInv'
    BY <1>9 DEF Crash
  <2>2. MonitorInv'
    BY <1>9 DEF Crash
  <2>3. VideoInv'
    BY <1>9 DEF Crash
  <2>4. RtpInv'
    BY <1>9 DEF Crash
  <2>5. ServerInv'
    BY <1>9 DEF Crash
  <2> QED
    BY <2>1, <2>2, <2>3, <2>4, <2>5
<1> QED
  BY <1>1, <1>2, <1>3, <1>4, <1>5, <1>6, <1>7, <1>8, <1>9, <1>10 DEF ServerNext

\* The steps of the video thread preserve it.
LEMMA VideoStep == Inv /\ VideoNext => Inv'
<1> SUFFICES ASSUME Inv, VideoNext
             PROVE  Inv'
  OBVIOUS
<1> USE DEF Inv, TypeInv, MonitorInv, VideoInv, RtpInv, ServerInv, EndingInv,
            Threads, Commands, VideoPlaces, MonitorSound,
            Slot!MutexHeldInside, Slot!NoLostWakeup, Slot!Waiters,
            Slot!MustWait, Slot!Threads, slotVars, Slot!slotVars, srvVars, vidVars,
            rtpVars, VidStep, Slot!Places
<1>1. CASE VidOpen
  BY <1>1 DEF VidOpen
<1>2. CASE VidOpenFail
  BY <1>2 DEF VidOpenFail
<1>3. CASE VidHeader
  BY <1>3 DEF VidHeader
<1>4. CASE VidHeaderFail
  BY <1>4 DEF VidHeaderFail, VidExit
<1>5. CASE VidPost
  <2>1. NALU(session, SPS) \in NALUs
    BY UnitIsNALU, BoundsAssumption DEF SPS
  <2> QED
    BY <1>5, <2>1 DEF VidPost, VidOffer, Slot!EnterPut
<1>6. CASE VidPutDone
  <2>1. NALU(session, PPS) \in NALUs
    BY UnitIsNALU, BoundsAssumption DEF PPS
  <2> QED
    BY <1>6, <2>1 DEF VidPutDone, VidOffer, Slot!EnterPut
<1>7. CASE VidCapture
  <2>1. offered.n \in 0 .. LastFrame
    BY <1>7 DEF VidCapture, NALUs
  <2>2. NALU(session, After(offered.n)) \in NALUs
    BY <2>1, AfterIsUnit, UnitIsNALU
  <2> QED
    BY <1>7, <2>2 DEF VidCapture, VidOffer, Slot!EnterPut
<1>8. CASE VidPhotoDone
  BY <1>8 DEF VidPhotoDone
<1>9. CASE VidStop
  BY <1>9 DEF VidStop, VidExit
<1>10. CASE VidReturn
  BY <1>10 DEF VidReturn
<1>11. CASE VidInCall
  <2>1. CASE Slot!Lock("video")
    BY <1>11, <2>1 DEF VidInCall, Slot!Lock
  <2>2. CASE Slot!Wait("video")
    BY <1>11, <2>2 DEF VidInCall, Slot!Wait
  <2>3. CASE Slot!Fill
    BY <1>11, <2>3 DEF VidInCall, Slot!Fill, Slot!MoveAndSignal
  <2>4. CASE Slot!Unlock("video")
    BY <1>11, <2>4 DEF VidInCall, Slot!Unlock
  <2>5. CASE Slot!CancelLock("video")
    BY <1>11, <2>5 DEF VidInCall, Slot!CancelLock
  <2> QED
    BY <1>11, <2>1, <2>2, <2>3, <2>4, <2>5 DEF VidInCall
<1>12. CASE VidCancelInWait
  BY <1>12 DEF VidCancelInWait, Slot!CancelWait
<1>13. CASE VidDie
  BY <1>13 DEF VidDie, VidExit, Slot!CancelUnlock
<1>14. CASE VidSpurious
  BY <1>14 DEF VidSpurious, Slot!SpuriousWakeup
<1> QED
  BY <1>1, <1>2, <1>3, <1>4, <1>5, <1>6, <1>7, <1>8, <1>9, <1>10, <1>11, <1>12,
     <1>13, <1>14 DEF VideoNext, VideoProgress

\* The steps of the RTP thread preserve it.
LEMMA RtpThreadStep == Inv /\ RtpNext => Inv'
<1> SUFFICES ASSUME Inv, RtpNext
             PROVE  Inv'
  OBVIOUS
<1> USE DEF Inv, TypeInv, MonitorInv, VideoInv, RtpInv, ServerInv, EndingInv,
            Threads, Commands, VideoPlaces, MonitorSound,
            Slot!MutexHeldInside, Slot!NoLostWakeup, Slot!Waiters,
            Slot!MustWait, Slot!Threads, slotVars, Slot!slotVars, srvVars, vidVars,
            rtpVars, RtpStep, Slot!Places
<1>1. CASE RtpStart
  BY <1>1 DEF RtpStart, Slot!EnterGet
<1>2. CASE RtpStartFail
  BY <1>2 DEF RtpStartFail
<1>3. CASE RtpGot
  BY <1>3 DEF RtpGot
<1>4. CASE RtpSend
  BY <1>4 DEF RtpSend, Slot!EnterGet
<1>5. CASE RtpStop
  BY <1>5 DEF RtpStop, RtpExit
<1>6. CASE RtpInCall
  <2>1. CASE Slot!Lock("rtp")
    BY <1>6, <2>1 DEF RtpInCall, Slot!Lock
  <2>2. CASE Slot!Wait("rtp")
    BY <1>6, <2>2 DEF RtpInCall, Slot!Wait
  <2>3. CASE Slot!Take
    <3>1. MonitorInv'
      BY <1>6, <2>3 DEF RtpInCall, Slot!Take, Slot!MoveAndSignal
    <3>2. TypeInv'
      <4>1. at' \in [Threads -> Slot!Places]
        BY <1>6, <2>3 DEF RtpInCall, Slot!Take, Slot!MoveAndSignal
      <4>2. taken' \in NALUs \union {None} /\ isFull' \in BOOLEAN
        BY <1>6, <2>3 DEF RtpInCall, Slot!Take
      <4> QED
        BY <1>6, <2>3, <4>1, <4>2 DEF RtpInCall, Slot!Take
    <3>3. VideoInv' /\ RtpInv'
      BY <1>6, <2>3 DEF RtpInCall, Slot!Take
    <3>4. \A t \in Threads : at[t] = "out" => at'[t] = "out"
      BY <1>6, <2>3 DEF RtpInCall, Slot!Take, Slot!MoveAndSignal
    <3>5. ServerInv'
      BY <1>6, <2>3, <3>4 DEF RtpInCall, Slot!Take
    <3> QED
      BY <3>1, <3>2, <3>3, <3>5
  <2>4. CASE Slot!Unlock("rtp")
    BY <1>6, <2>4 DEF RtpInCall, Slot!Unlock
  <2>5. CASE Slot!CancelLock("rtp")
    BY <1>6, <2>5 DEF RtpInCall, Slot!CancelLock
  <2> QED
    BY <1>6, <2>1, <2>2, <2>3, <2>4, <2>5 DEF RtpInCall
<1>7. CASE RtpCancelInWait
  BY <1>7 DEF RtpCancelInWait, Slot!CancelWait
<1>8. CASE RtpDie
  BY <1>8 DEF RtpDie, RtpExit, Slot!CancelUnlock
<1>9. CASE RtpSpurious
  BY <1>9 DEF RtpSpurious, Slot!SpuriousWakeup
<1> QED
  BY <1>1, <1>2, <1>3, <1>4, <1>5, <1>6, <1>7, <1>8, <1>9 DEF RtpNext, RtpProgress

\* The invariant holds of every behaviour of the video_server process.
THEOREM SessionInvariant == Spec => []Inv
<1>1. Inv /\ [Next]_vars => Inv'
  <2>1. ASSUME Inv, UNCHANGED vars
        PROVE  Inv'
    BY <2>1
    DEF vars, slotVars, srvVars, vidVars, rtpVars, Inv, TypeInv, MonitorInv,
        VideoInv, RtpInv, ServerInv, EndingInv, MonitorSound,
        Slot!MutexHeldInside, Slot!NoLostWakeup, Slot!Waiters, Slot!MustWait
  <2> QED
    BY <2>1, ServerStep, VideoStep, RtpThreadStep DEF Next
<1> QED
  BY <1>1, InitInv, PTL DEF Spec

\* Type correctness.
THEOREM SessionTypeCorrect == Spec => []TypeOK
<1>1. Inv => TypeOK
  BY DEF Inv, TypeInv, TypeOK, Slot!TypeOK, Slot!Threads, Threads, Commands,
         VideoPlaces
<1> QED
  BY <1>1, SessionInvariant, PTL

\* Nothing of a session is left when the server accepts the next one,
\* whichever of the breaks ended it.
THEOREM SessionsAreSeparate == Spec => []NothingOutlivesSession
<1>1. Inv => NothingOutlivesSession
  <2> SUFFICES ASSUME Inv, srv = "accept"
               PROVE  /\ vid = "none" /\ rtp = "none"
                      /\ cancelled = {} /\ sem = 0
                      /\ owner = "nobody" /\ \A t \in Threads : at[t] = "out"
                      /\ udpPort = "free"
    BY DEF NothingOutlivesSession
  <2>1. vid = "none" /\ rtp = "none" /\ cancelled = {} /\ udpPort = "free"
    BY DEF Inv, ServerInv
  <2>2. sem = 0
    BY DEF Inv, TypeInv, VideoInv, ServerInv
  <2>3. \A t \in Threads : at[t] = "out"
    BY DEF Inv, ServerInv
  <2>4. owner = "nobody"
    BY <2>3 DEF Inv, TypeInv, MonitorInv, MonitorSound, Slot!MutexHeldInside,
                Slot!Threads, Threads
  <2> QED
    BY <2>1, <2>2, <2>3, <2>4
<1> QED
  BY <1>1, SessionInvariant, PTL

\* DESCRIBE always answers with the SPS and PPS of the running encoder.
THEOREM HeaderIsCurrent == Spec => []HeaderIsOurs
<1>1. Inv => HeaderIsOurs
  BY DEF Inv, ServerInv, HeaderIsOurs
<1> QED
  BY <1>1, SessionInvariant, PTL

\* The semaphore lets the server go once per session, for this session.
THEOREM SemaphoreIsBalanced == Spec => []SemaphoreBalanced
<1>1. Inv => SemaphoreBalanced
  BY DEF Inv, TypeInv, VideoInv, SemaphoreBalanced
<1> QED
  BY <1>1, SessionInvariant, PTL

\* Whatever ends a session, a cancellation finds the handler that closes the
\* camera and the encoder, or the whole process is about to end (sem_wait has
\* failed); and no session begins behind a thread that never had a handler.
THEOREM CancelIsSafe == Spec => []CancelFindsHandler
<1>1. Inv => CancelFindsHandler
  BY DEF Inv, TypeInv, ServerInv, CancelFindsHandler
<1> QED
  BY <1>1, SessionInvariant, PTL

\* RTP packets go to the session's client and the port it gave.
THEOREM RtpGoesToClient == Spec => []RtpServesClient
<1>1. Inv => RtpServesClient
  BY DEF Inv, RtpInv, RtpServesClient
<1> QED
  BY <1>1, SessionInvariant, PTL

\* There is an RTP thread only after PLAY was served.
THEOREM RtpImpliesPlay == Spec => []RtpNeedsPlay
<1>1. Inv => RtpNeedsPlay
  BY DEF Inv, TypeInv, RtpInv, RtpNeedsPlay, Required, Commands
<1> QED
  BY <1>1, SessionInvariant, PTL

-----------------------------------------------------------------------------
(* Delivery: the units of a session from the encoder to its client. *)

\* The RTP thread has a unit it has not sent yet.
Fresh == rtp = "send" \/ (rtp = "get" /\ at["rtp"] \in {"unlock", "out"})

\* The unit the client has, or will have when the RTP thread is done with it.
Given == IF Fresh THEN taken ELSE lastSent

\* The unit behind which the next one of the video thread belongs.
Newest == IF isFull THEN buffer ELSE Given

\* The RTP thread of this session has not ended; it may not have begun.
NotYet == rtp = "start" \/ (rtp = "none" /\ srv \in {"semwait", "recv"})
Listening == NotYet \/ rtp \in {"get", "send"}

\* The video thread has not put its unit into the buffer yet, or it has.
Putting == vid = "put" /\ at["video"] \in {"lock", "check", "waiting", "woken"}
Put == \/ vid \in {"capture", "photo"}
       \/ vid = "put" /\ at["video"] \in {"unlock", "out"}

\* The number of the unit that belongs behind u.
Behind(u) == IF u = None THEN SPS
             ELSE IF u.ses = session THEN After(u.n) ELSE SPS

AgeInv ==
    /\ isFull => buffer.ses <= session
    /\ taken # None => taken.ses <= session
    /\ lastSent # None => lastSent.ses <= session
    /\ vid \in {"put", "capture", "photo"} => offered.ses = session

DeliveryInv ==
    /\ NotYet => lastSent = None
    /\ Fresh => taken # None /\ InOrder(lastSent, taken)
    /\ Listening /\ isFull => InOrder(Given, buffer)
    /\ Listening /\ vid \in {"init", "header", "post"} =>
          Newest = None \/ Newest.ses < session
    /\ Listening /\ Putting => offered.n = Behind(Newest)
    /\ Listening /\ Put => Newest = offered

\* The next number is never that of the SPS, and behind the SPS is the PPS.
LEMMA AfterFacts == After(SPS) = PPS
  BY BoundsAssumption DEF After, SPS, PPS

\* The facts about types and sessions the steps below need.
LEMMA SessionTypes ==
    ASSUME Inv
    PROVE  /\ session \in Nat
           /\ \A u \in NALUs : u.ses \in Nat /\ u.n \in 0 .. LastFrame
  BY BoundsAssumption DEF Inv, TypeInv, SessionNrs, NALUs

\* A step that changes nothing the delivery depends on, except to end a
\* thread, preserves it.
LEMMA DeliveryKept ==
    ASSUME AgeInv, DeliveryInv,
           UNCHANGED <<session, isFull, buffer, taken, lastSent, offered>>,
           NotYet' => NotYet,
           Listening' => Listening /\ Given' = Given,
           Fresh' => Fresh,
           Putting' => Putting,
           Put' => Put,
           vid' \in {"init", "header", "post"} => vid \in {"init", "header", "post"},
           vid' \in {"put", "capture", "photo"} => vid \in {"put", "capture", "photo"}
    PROVE  AgeInv' /\ DeliveryInv'
<1>1. AgeInv'
  BY DEF AgeInv
<1>2. Listening' => Newest' = Newest
  BY DEF Newest
<1>3. Behind(Newest)' = Behind(Newest') /\ \A u, v : InOrder(u, v)' = InOrder(u, v)
  BY DEF Behind, InOrder
<1> QED
  BY <1>1, <1>2, <1>3 DEF DeliveryInv

\* Nothing is delivered before the first session.
LEMMA InitDelivery == Init => AgeInv /\ DeliveryInv
  BY DEF Init, Slot!Init, AgeInv, DeliveryInv, NotYet, Listening, Fresh, Given,
         Newest, Putting, Put, Slot!Threads

\* The steps of the server thread preserve it: accept starts afresh, and a
\* thread that is joined listens no more.
LEMMA ServerDelivery ==
    Inv /\ Inv' /\ AgeInv /\ DeliveryInv /\ ServerNext => AgeInv' /\ DeliveryInv'
<1> SUFFICES ASSUME Inv, Inv', AgeInv, DeliveryInv, ServerNext
             PROVE  AgeInv' /\ DeliveryInv'
  OBVIOUS
<1> USE DEF slotVars, vidVars, rtpVars
<1>1. CASE Accept
  <2>1. /\ session' = session + 1 /\ session \in Nat
        /\ vid' = "init" /\ rtp' = "none" /\ lastSent' = None
        /\ UNCHANGED <<isFull, buffer, taken>>
    BY <1>1, SessionTypes DEF Accept, Inv, ServerInv
  <2>2. isFull => buffer.ses \in Nat /\ buffer.ses < session'
    BY <2>1, SessionTypes DEF AgeInv, Inv, MonitorInv
  <2>3. taken # None => taken.ses \in Nat /\ taken.ses < session'
    BY <2>1, SessionTypes DEF AgeInv, Inv, TypeInv
  <2>4. AgeInv'
    BY <2>1, <2>2, <2>3 DEF AgeInv, Inv, TypeInv
  <2>5. ~Fresh' /\ ~Putting' /\ ~Put' /\ Given' = None
    BY <2>1 DEF Fresh, Putting, Put, Given
  <2> QED
    BY <2>1, <2>2, <2>4, <2>5 DEF DeliveryInv, InOrder, Newest
<1>2. CASE AcceptFail
  BY <1>2, DeliveryKept
  DEF AcceptFail, NotYet, Listening, Fresh, Given, Putting, Put
<1>3. CASE SemWait
  BY <1>3, DeliveryKept
  DEF SemWait, NotYet, Listening, Fresh, Given, Putting, Put
<1>10. CASE SemWaitFail
  BY <1>10, DeliveryKept
  DEF SemWaitFail, FreeAll, NotYet, Listening, Fresh, Given, Putting, Put
<1>4. CASE Serve
  <2>1. UNCHANGED <<slotVars, session, taken, lastSent, vid>> /\ srv = "recv"
    BY <1>4 DEF Serve, Request, Options, Describe, Setup, Play, Teardown, Unknown
  <2>2. rtp' = rtp \/ (rtp = "none" /\ rtp' = "start")
    BY <1>4 DEF Serve, Request, Options, Describe, Setup, Play, Teardown, Unknown,
                Served, NotServed, OutOfOrder, End, Required, Inv, ServerInv
  <2> QED
    BY <2>1, <2>2, DeliveryKept DEF NotYet, Listening, Fresh, Given, Putting, Put
<1>5. CASE Abandon
  BY <1>5, DeliveryKept
  DEF Abandon, FreeAll, NotYet, Listening, Fresh, Given, Putting, Put
<1>6. CASE Destroyed
  BY <1>6, DeliveryKept
  DEF Destroyed, NotYet, Listening, Fresh, Given, Putting, Put
<1>7. CASE Cancel
  BY <1>7, DeliveryKept
  DEF Cancel, NotYet, Listening, Fresh, Given, Putting, Put
<1>8. CASE Join
  <2>1. /\ UNCHANGED <<slotVars, session, lastSent>> /\ srv = "join"
        /\ srv' \notin {"semwait", "recv"}
        /\ rtp' \in {rtp, "none"} /\ vid' \in {vid, "none"}
    BY <1>8 DEF Join, Inv, TypeInv
  <2> QED
    BY <2>1, DeliveryKept DEF NotYet, Listening, Fresh, Given, Putting, Put
<1>9. CASE Crash
  BY <1>9, DeliveryKept
  DEF Crash, NotYet, Listening, Fresh, Given, Putting, Put
<1> QED
  BY <1>1, <1>2, <1>3, <1>4, <1>5, <1>6, <1>7, <1>8, <1>9, <1>10 DEF ServerNext

\* pthread_cond_signal changes the place of the caller, and of the other
\* thread if that one is asleep.
LEMMA Signalled ==
    ASSUME NEW t \in Threads, at \in [Threads -> Slot!Places], Slot!MoveAndSignal(t),
           at[t] = "check"
    PROVE  /\ at'[t] = "unlock"
           /\ \A u \in Threads \ {t} :
                 at'[u] = at[u] \/ (at[u] = "waiting" /\ at'[u] = "woken")
<1>1. CASE at' = [at EXCEPT ![t] = "unlock"]
  BY <1>1
<1>2. ASSUME NEW w \in Threads, at[w] = "waiting",
             at' = [at EXCEPT ![t] = "unlock", ![w] = "woken"]
      PROVE  /\ at'[t] = "unlock"
             /\ \A u \in Threads \ {t} :
                   at'[u] = at[u] \/ (at[u] = "waiting" /\ at'[u] = "woken")
  BY <1>2
<1> QED
  BY <1>1, <1>2 DEF Slot!MoveAndSignal, Slot!Waiters, Slot!Threads, Threads

\* The steps of the video thread preserve it: each unit offered is the one
\* behind the unit offered before it, and it is put when that one is taken.
LEMMA VideoDelivery ==
    Inv /\ Inv' /\ AgeInv /\ DeliveryInv /\ VideoNext => AgeInv' /\ DeliveryInv'
<1> SUFFICES ASSUME Inv, Inv', AgeInv, DeliveryInv, VideoNext
             PROVE  AgeInv' /\ DeliveryInv'
  OBVIOUS
<1> USE DEF VidStep, srvVars, rtpVars, vidVars, slotVars
<1>1. CASE VidOpen \/ VidOpenFail \/ VidHeader \/ VidHeaderFail
  BY <1>1, DeliveryKept
  DEF VidOpen, VidOpenFail, VidHeader, VidHeaderFail, VidExit,
      NotYet, Listening, Fresh, Given, Putting, Put
<1>2. ASSUME NEW n \in 0 .. LastFrame, VidOffer(n),
             UNCHANGED <<srvVars, rtpVars>>,
             Listening => n = Behind(Newest)
      PROVE  AgeInv' /\ DeliveryInv'
  <2>1. /\ UNCHANGED <<session, isFull, buffer, taken, lastSent, rtp, srv>>
        /\ vid' = "put" /\ offered' = NALU(session, n)
        /\ at' = [at EXCEPT !["video"] = "lock"]
    BY <1>2 DEF VidOffer, Slot!EnterPut
  <2>2. offered'.ses = session /\ offered'.n = n
    BY <2>1 DEF NALU
  <2>3. at'["rtp"] = at["rtp"] /\ at'["video"] = "lock"
    BY <2>1 DEF Inv, TypeInv, Threads
  <2>4. /\ NotYet' = NotYet /\ Listening' = Listening /\ Fresh' = Fresh
        /\ Given' = Given /\ Newest' = Newest /\ ~Put'
    BY <2>1, <2>3 DEF NotYet, Listening, Fresh, Given, Newest, Put
  <2>5. AgeInv'
    BY <2>1, <2>2 DEF AgeInv
  <2> QED
    BY <1>2, <2>1, <2>2, <2>4, <2>5 DEF DeliveryInv, Behind, InOrder
<1>3. CASE VidPost
  <2>1. Listening => SPS = Behind(Newest)
    BY <1>3, SessionTypes DEF VidPost, DeliveryInv, Behind
  <2>2. SPS \in 0 .. LastFrame
    BY BoundsAssumption DEF SPS
  <2> QED
    BY <1>2, <1>3, <2>1, <2>2 DEF VidPost
<1>4. CASE VidPutDone
  <2>1. CASE offered.n = SPS /\ VidOffer(PPS)
    <3>1. Listening => PPS = Behind(Newest)
      <4>1. ASSUME Listening
            PROVE  PPS = Behind(Newest)
        <5>1. Newest = offered /\ offered # None /\ offered.ses = session
          BY <1>4, <4>1, NoneAssumption
          DEF VidPutDone, DeliveryInv, AgeInv, Put, Inv, MonitorInv
        <5> QED
          BY <2>1, <5>1, AfterFacts DEF Behind
      <4> QED
        BY <4>1
    <3>2. PPS \in 0 .. LastFrame
      BY BoundsAssumption DEF PPS
    <3> QED
      BY <1>2, <1>4, <2>1, <3>1, <3>2 DEF VidPutDone
  <2>2. CASE vid' \in {"capture", "photo"} /\ UNCHANGED slotVars
    BY <1>4, <2>2, DeliveryKept
    DEF VidPutDone, NotYet, Listening, Fresh, Given, Putting, Put
  <2> QED
    BY <1>4, <2>1, <2>2 DEF VidPutDone
<1>5. CASE VidCapture
  <2>1. offered \in NALUs /\ offered # None /\ offered.ses = session
    BY <1>5, NoneAssumption DEF VidCapture, AgeInv, Inv, MonitorInv
  <2>2. Listening => Newest = offered
    BY <1>5 DEF VidCapture, DeliveryInv, Put
  <2>3. Listening => After(offered.n) = Behind(Newest)
    BY <2>1, <2>2 DEF Behind
  <2>4. After(offered.n) \in 0 .. LastFrame
    BY <2>1, SessionTypes, AfterIsUnit
  <2> QED
    BY <1>2, <1>5, <2>3, <2>4 DEF VidCapture
<1>6. CASE VidPhotoDone \/ VidStop \/ VidReturn
  BY <1>6, DeliveryKept
  DEF VidPhotoDone, VidStop, VidExit, VidReturn,
      NotYet, Listening, Fresh, Given, Putting, Put
<1>7. CASE vid = "put" /\ Slot!Fill /\ UNCHANGED <<srvVars, rtpVars, vidVars>>
  <2>1. /\ UNCHANGED <<session, taken, lastSent, rtp, srv, vid, offered>>
        /\ isFull' /\ ~isFull /\ buffer' = offered
        /\ at["video"] = "check" /\ at'["video"] = "unlock"
        /\ \/ at'["rtp"] = at["rtp"]
           \/ at["rtp"] = "waiting" /\ at'["rtp"] = "woken"
    <3>1. /\ at'["video"] = "unlock"
          /\ \/ at'["rtp"] = at["rtp"]
             \/ at["rtp"] = "waiting" /\ at'["rtp"] = "woken"
      <4>1. /\ at \in [Threads -> Slot!Places] /\ Slot!MoveAndSignal("video")
            /\ at["video"] = "check"
        BY <1>7 DEF Slot!Fill, Inv, TypeInv
      <4>2. "video" \in Threads /\ "rtp" \in Threads \ {"video"}
        BY DEF Threads
      <4> QED
        BY <4>1, <4>2, Signalled, Zenon
    <3>2. isFull' /\ ~isFull /\ buffer' = offered /\ at["video"] = "check"
      BY <1>7 DEF Slot!Fill, Slot!MustWait
    <3> QED
      BY <1>7, <3>1, <3>2 DEF Slot!Fill
  <2>2. /\ NotYet' = NotYet /\ Listening' = Listening /\ Fresh' = Fresh
        /\ Given' = Given /\ ~Putting'
    BY <2>1 DEF NotYet, Listening, Fresh, Given, Putting
  <2>3. offered # None /\ offered.ses = session
    BY <1>7, NoneAssumption DEF AgeInv, Inv, MonitorInv
  <2>4. AgeInv'
    BY <2>1, <2>3, SessionTypes DEF AgeInv
  <2>5. Listening => offered.n = Behind(Given)
    BY <1>7, <2>1 DEF DeliveryInv, Putting, Newest
  <2>6. Listening => InOrder(Given, offered)
    <3>1. Given = None \/ (Given.ses \in Nat /\ Given.ses <= session)
      BY SessionTypes DEF Given, AgeInv, Inv, TypeInv
    <3> QED
      BY <2>3, <2>5, <3>1, SessionTypes DEF Behind, InOrder
  <2> QED
    BY <1>7, <2>1, <2>2, <2>4, <2>6 DEF DeliveryInv, Newest, InOrder
<1>8. CASE vid = "put" /\ UNCHANGED <<srvVars, rtpVars, vidVars>>
           /\ \/ Slot!Lock("video") \/ Slot!Wait("video") \/ Slot!Unlock("video")
              \/ Slot!CancelLock("video") \/ Slot!CancelWait("video")
              \/ Slot!SpuriousWakeup("video")
  <2>1. /\ UNCHANGED <<session, isFull, buffer, taken, lastSent, rtp, srv, vid, offered>>
        /\ at'["rtp"] = at["rtp"]
        /\ \/ at["video"] \in {"lock", "woken", "check", "waiting", "dying"}
              /\ at'["video"] \in {"check", "waiting", "handler", "dying", "woken"}
              /\ (at["video"] = "dying" => at'["video"] = "handler")
           \/ at["video"] = "unlock" /\ at'["video"] = "out"
    BY <1>8 DEF Slot!Lock, Slot!Wait, Slot!Unlock, Slot!CancelLock, Slot!CancelWait,
                Slot!SpuriousWakeup, Threads, Inv, TypeInv
  <2>2. /\ NotYet' = NotYet /\ Listening' = Listening /\ Fresh' = Fresh
        /\ Given' = Given /\ (Putting' => Putting) /\ (Put' => Put)
    BY <2>1 DEF NotYet, Listening, Fresh, Given, Putting, Put
  <2> QED
    BY <2>1, <2>2, DeliveryKept
<1>9. CASE VidDie
  BY <1>9, DeliveryKept
  DEF VidDie, VidExit, Slot!CancelUnlock, NotYet, Listening, Fresh, Given,
      Putting, Put, Inv, TypeInv, Threads
<1> QED
  BY <1>1, <1>3, <1>4, <1>5, <1>6, <1>7, <1>8, <1>9
  DEF VideoNext, VideoProgress, VidInCall, VidCancelInWait, VidSpurious

\* The steps of the RTP thread preserve it: what it takes is what was in the
\* buffer, and it takes again only when that has been sent.
LEMMA RtpDelivery ==
    Inv /\ Inv' /\ AgeInv /\ DeliveryInv /\ RtpNext => AgeInv' /\ DeliveryInv'
<1> SUFFICES ASSUME Inv, Inv', AgeInv, DeliveryInv, RtpNext
             PROVE  AgeInv' /\ DeliveryInv'
  OBVIOUS
<1> USE DEF RtpStep, srvVars, rtpVars, vidVars, slotVars
<1>1. CASE RtpStart
  <2>1. /\ UNCHANGED <<session, isFull, buffer, taken, lastSent, srv, vid, offered>>
        /\ rtp = "start" /\ rtp' = "get"
        /\ at'["rtp"] = "lock" /\ at'["video"] = at["video"]
    BY <1>1 DEF RtpStart, Slot!EnterGet, Inv, TypeInv, Threads
  <2>2. /\ ~NotYet' /\ Listening /\ ~Fresh /\ ~Fresh' /\ Given' = Given
        /\ Putting' = Putting /\ Put' = Put
    BY <2>1 DEF NotYet, Listening, Fresh, Given, Putting, Put
  <2> QED
    BY <2>1, <2>2, DeliveryKept
<1>2. CASE RtpStartFail \/ RtpStop
  BY <1>2, DeliveryKept
  DEF RtpStartFail, RtpStop, RtpExit, NotYet, Listening, Fresh, Given, Putting, Put
<1>3. CASE RtpGot
  <2>1. Fresh /\ Fresh' /\ Listening
    BY <1>3 DEF RtpGot, Fresh, Listening
  <2> QED
    BY <1>3, <2>1, DeliveryKept
    DEF RtpGot, NotYet, Listening, Given, Putting, Put
<1>4. CASE RtpSend
  <2>1. /\ UNCHANGED <<session, isFull, buffer, taken, srv, vid, offered>>
        /\ rtp = "send" /\ rtp' = "get" /\ lastSent' = taken
        /\ at'["rtp"] = "lock" /\ at'["video"] = at["video"]
    BY <1>4 DEF RtpSend, Slot!EnterGet, Inv, TypeInv, Threads
  <2>2. /\ ~NotYet' /\ Listening /\ Fresh /\ ~Fresh' /\ Given' = Given
        /\ Newest' = Newest /\ Putting' = Putting /\ Put' = Put
    BY <2>1 DEF NotYet, Listening, Fresh, Given, Newest, Putting, Put
  <2>3. AgeInv'
    BY <2>1 DEF AgeInv
  <2> QED
    BY <2>1, <2>2, <2>3 DEF DeliveryInv, InOrder, Behind
<1>5. CASE rtp = "get" /\ Slot!Take /\ UNCHANGED <<srvVars, vidVars, rtpVars>>
  <2>1. /\ at'["rtp"] = "unlock"
        /\ \/ at'["video"] = at["video"]
           \/ at["video"] = "waiting" /\ at'["video"] = "woken"
    <3>1. /\ at \in [Threads -> Slot!Places] /\ Slot!MoveAndSignal("rtp")
          /\ at["rtp"] = "check"
      BY <1>5 DEF Slot!Take, Inv, TypeInv
    <3>2. "rtp" \in Threads /\ "video" \in Threads \ {"rtp"}
      BY DEF Threads
    <3> QED
      BY <3>1, <3>2, Signalled, Zenon
  <2>2. isFull /\ ~isFull' /\ taken' = buffer /\ at["rtp"] = "check"
    BY <1>5 DEF Slot!Take, Slot!MustWait
  <2>3. UNCHANGED <<session, srv, vid, rtp, lastSent, buffer, offered>>
    BY <1>5 DEF Slot!Take
  <2>4. /\ ~Fresh /\ Fresh' /\ Listening /\ ~NotYet'
        /\ Given = lastSent /\ Given' = buffer /\ Newest = buffer /\ Newest' = buffer
        /\ Putting' = Putting /\ Put' = Put
    BY <1>5, <2>1, <2>2, <2>3
    DEF NotYet, Listening, Fresh, Given, Newest, Putting, Put
  <2>5. buffer # None
    BY <2>2, NoneAssumption DEF Inv, MonitorInv
  <2>6. AgeInv'
    BY <2>2, <2>3 DEF AgeInv
  <2> QED
    BY <2>2, <2>3, <2>4, <2>5, <2>6 DEF DeliveryInv, InOrder, Behind
<1>6. CASE rtp = "get" /\ UNCHANGED <<srvVars, vidVars, rtpVars>>
           /\ \/ Slot!Lock("rtp") \/ Slot!Wait("rtp") \/ Slot!Unlock("rtp")
              \/ Slot!CancelLock("rtp") \/ Slot!CancelWait("rtp")
              \/ Slot!SpuriousWakeup("rtp")
  <2>1. /\ UNCHANGED <<session, isFull, buffer, taken, lastSent, rtp, srv, vid, offered>>
        /\ at'["video"] = at["video"]
        /\ \/ at["rtp"] \notin {"unlock", "out"} /\ at'["rtp"] \notin {"unlock", "out"}
           \/ at["rtp"] = "unlock" /\ at'["rtp"] = "out"
    BY <1>6 DEF Slot!Lock, Slot!Wait, Slot!Unlock, Slot!CancelLock, Slot!CancelWait,
                Slot!SpuriousWakeup, Threads, Inv, TypeInv
  <2>2. /\ NotYet' = NotYet /\ Listening' = Listening /\ Fresh' = Fresh
        /\ Given' = Given /\ Putting' = Putting /\ Put' = Put
    BY <2>1 DEF NotYet, Listening, Fresh, Given, Putting, Put
  <2> QED
    BY <2>1, <2>2, DeliveryKept
<1>7. CASE RtpDie
  <2>1. /\ UNCHANGED <<session, isFull, buffer, taken, lastSent, srv, vid, offered>>
        /\ rtp' = "dead" /\ at'["video"] = at["video"]
    BY <1>7 DEF RtpDie, RtpExit, Slot!CancelUnlock, Threads, Inv, TypeInv
  <2> QED
    BY <2>1, DeliveryKept DEF NotYet, Listening, Fresh, Given, Putting, Put
<1> QED
  BY <1>1, <1>2, <1>3, <1>4, <1>5, <1>6, <1>7
  DEF RtpNext, RtpProgress, RtpInCall, RtpCancelInWait, RtpSpurious

\* The delivery invariant holds of every behaviour.
THEOREM DeliveryInvariant == Spec => [](AgeInv /\ DeliveryInv)
<1>1. Inv /\ Inv' /\ AgeInv /\ DeliveryInv /\ [Next]_vars => AgeInv' /\ DeliveryInv'
  <2>1. ASSUME AgeInv, DeliveryInv, UNCHANGED vars
        PROVE  AgeInv' /\ DeliveryInv'
    <3>1. UNCHANGED <<session, isFull, buffer, taken, lastSent, offered, rtp, srv, vid, at>>
      BY <2>1 DEF vars, slotVars, srvVars, vidVars, rtpVars
    <3> QED
      BY <2>1, <3>1, DeliveryKept DEF NotYet, Listening, Fresh, Given, Putting, Put
  <2> QED
    BY <2>1, ServerDelivery, VideoDelivery, RtpDelivery DEF Next
<1> QED
  BY <1>1, InitDelivery, SessionInvariant, PTL DEF Spec

\* Only RtpSend takes the RTP thread from sending back to asking.
LEMMA OnlySendDelivers ==
    ASSUME [Next]_vars, rtp = "send", rtp' = "get"
    PROVE  RtpSend
<1>1. CASE ServerNext
  BY <1>1
  DEF ServerNext, Accept, AcceptFail, SemWait, SemWaitFail, FreeAll, Serve, Options,
      Describe, Setup, Play, Teardown, Unknown, Request, OutOfOrder, NotServed, Served,
      End, Abandon, Destroyed, Cancel, Join, Crash, rtpVars
<1>2. CASE VideoNext
  BY <1>2
  DEF VideoNext, VideoProgress, VidOpen, VidHeader, VidPost, VidPutDone, VidInCall,
      VidCancelInWait, VidDie, VidExit, VidOpenFail, VidHeaderFail, VidCapture,
      VidPhotoDone, VidStop, VidReturn, VidSpurious, VidStep, rtpVars
<1>3. CASE RtpNext
  BY <1>3
  DEF RtpNext, RtpProgress, RtpStart, RtpGot, RtpInCall, RtpCancelInWait, RtpDie,
      RtpExit, RtpStartFail, RtpStop, RtpSpurious, rtpVars
<1>4. CASE UNCHANGED vars
  BY <1>4 DEF vars, rtpVars
<1> QED
  BY <1>1, <1>2, <1>3, <1>4 DEF Next

\* Each unit sent to the client of a session is the one behind the unit it got
\* before, with no gap, none twice and none out of order; only the first can
\* be a left-over of an earlier session.
THEOREM DeliveryIsInOrder == Spec => DeliveredInOrder
<1>1. DeliveryInv /\ [Next]_vars
         => [rtp = "send" /\ rtp' = "get" => InOrder(lastSent, lastSent')]_vars
  <2> SUFFICES ASSUME DeliveryInv, [Next]_vars, rtp = "send", rtp' = "get"
               PROVE  InOrder(lastSent, lastSent')
    OBVIOUS
  <2>1. RtpSend
    BY OnlySendDelivers
  <2>2. Fresh /\ lastSent' = taken
    BY <2>1 DEF RtpSend, Fresh
  <2> QED
    BY <2>2 DEF DeliveryInv, InOrder
<1> QED
  BY <1>1, DeliveryInvariant, PTL DEF Spec, DeliveredInOrder

-----------------------------------------------------------------------------
\* Each step of the process is a step of the monitor or leaves it alone, and
\* each unit offered is a NAL unit.
LEMMA MonitorStep == Inv /\ Inv' /\ [Next]_vars => [Slot!Next]_slotVars
<1> SUFFICES ASSUME Inv, Inv', [Next]_vars
             PROVE  Slot!Next \/ UNCHANGED slotVars
  BY Zenon
<1>1. CASE ServerNext
  BY <1>1
  DEF ServerNext, Accept, AcceptFail, SemWait, SemWaitFail, FreeAll, Serve, Options,
      Describe, Setup, Play, Teardown, Unknown, Request, Abandon, Destroyed, Cancel,
      Join, Crash
<1>2. CASE VideoNext
  <2>1. ASSUME NEW n, VidOffer(n), vid' = "put"
        PROVE  Slot!Next
    <3>1. Slot!EnterPut(NALU(session, n)) /\ offered' = NALU(session, n)
      BY <2>1 DEF VidOffer, Slot!EnterPut
    <3>2. NALU(session, n) \in NALUs
      BY <2>1, <3>1 DEF Inv, MonitorInv
    <3> QED
      BY <3>1, <3>2 DEF Slot!Next
  <2>2. \/ \E n \in {SPS, PPS, After(offered.n)} : VidOffer(n)
        \/ Slot!Fill
        \/ \E A \in {"video"} : \/ Slot!Lock(A) \/ Slot!Wait(A) \/ Slot!Unlock(A)
                                \/ Slot!CancelLock(A) \/ Slot!CancelUnlock(A)
                                \/ Slot!CancelWait(A) \/ Slot!SpuriousWakeup(A)
        \/ UNCHANGED slotVars
    BY <1>2
    DEF VideoNext, VideoProgress, VidOpen, VidHeader, VidPost, VidPutDone, VidInCall,
        VidCancelInWait, VidDie, VidOpenFail, VidHeaderFail, VidCapture,
        VidPhotoDone, VidStop, VidReturn, VidSpurious
  <2>3. \A n : VidOffer(n) => vid' = "put"
    BY DEF VidOffer
  <2> QED
    BY <2>1, <2>2, <2>3 DEF Slot!Next, Slot!Inside, Slot!Threads
<1>3. CASE RtpNext
  <2>1. \/ Slot!EnterGet \/ Slot!Take
        \/ \E A \in {"rtp"} : \/ Slot!Lock(A) \/ Slot!Wait(A) \/ Slot!Unlock(A)
                              \/ Slot!CancelLock(A) \/ Slot!CancelUnlock(A)
                              \/ Slot!CancelWait(A) \/ Slot!SpuriousWakeup(A)
        \/ UNCHANGED slotVars
    BY <1>3
    DEF RtpNext, RtpProgress, RtpStart, RtpGot, RtpInCall, RtpCancelInWait, RtpDie,
        RtpStartFail, RtpSend, RtpStop, RtpSpurious
  <2> QED
    BY <2>1 DEF Slot!Next, Slot!Inside, Slot!Threads
<1>4. CASE UNCHANGED vars
  BY <1>4 DEF vars
<1> QED
  BY <1>1, <1>2, <1>3, <1>4 DEF Next

\* The process uses the frame buffer only as the monitor FrameSlot, so what
\* is proved of the monitor for every caller holds of the real callers.
THEOREM SessionsUseMonitor == Spec => Slot!Spec
<1>1. Init => Slot!Init
  BY DEF Init
<1>2. Inv /\ Inv' /\ [Next]_vars => [Slot!Next]_Slot!slotVars
  BY MonitorStep DEF slotVars, Slot!slotVars
<1> QED
  BY <1>1, <1>2, SessionInvariant, PTL DEF Spec, Slot!Spec
=============================================================================
