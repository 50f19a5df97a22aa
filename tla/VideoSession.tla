---------------------------- MODULE VideoSession ----------------------------
(***************************************************************************)
(* The process video_server: the RTSP server thread (video_server.c), the  *)
(* video thread it creates for each RTSP connection (video_pthread in      *)
(* video.c) and the RTP thread it creates on PLAY (rtp_pthread in rtp.c).  *)
(* They share struct_frame_buffer (the monitor of FrameSlot, SPS and PPS,  *)
(* the semaphore), the address of the client, and the mask of the commands *)
(* already served; the server ends the others by pthread_cancel and        *)
(* pthread_join.                                                           *)
(*                                                                         *)
(* Abstracted: text of requests and replies (a request is its command and  *)
(* whether its handler accepts it), camera, encoder and photo (a step that *)
(* succeeds or fails), RTP packets (RtpPacketizer).  A NAL unit is the     *)
(* number of its session and its place: 0 is SPS, 1 is PPS, then frames.   *)
(***************************************************************************)
EXTENDS Naturals, Sequences

CONSTANTS
    MaxSession,     \* bound on the connections accepted
    LastFrame,      \* frames are numbered 2 .. LastFrame, then from 2 again
    None            \* no NAL unit

ASSUME BoundsAssumption ==
    /\ MaxSession \in Nat \ {0}
    /\ LastFrame \in Nat \ {0, 1, 2}

SessionNrs == 0 .. MaxSession

NALUs == [ses : SessionNrs, n : 0 .. LastFrame]

ASSUME NoneAssumption == None \notin NALUs

NALU(s, n) == [ses |-> s, n |-> n]

SPS == 0
PPS == 1
FirstFrame == 2
After(n) == IF n = LastFrame THEN FirstFrame ELSE n + 1

VARIABLES
    at, owner, isFull, buffer, offered, taken,  \* the frame buffer: FrameSlot
    srv,            \* where the server thread is
    mask,           \* rtsp_bit_mask, as the set of the commands served
    todo,           \* threads the server still has to cancel and join
    goal,           \* where it goes then: "accept" or "exit"
    session,        \* the connection accepted last; also addr_client
    clientPort,     \* client_port: the session whose SETUP stored it
    sem,            \* the semaphore in struct_frame_buffer
    header,         \* whose encoder header the arrays SPS and PPS hold
    vid,            \* where the video thread is
    cleanup,        \* cleanup_video_pthread: "off", "pushed" or "run"
    rtp,            \* where the RTP thread is
    target,         \* the RTP thread's copies of addr_client and client_port
    udpPort,        \* UDP port 5004: "free" or "bound"
    lastSent,       \* the NAL unit the client of this session got last
    cancelled,      \* threads with a cancellation request
    freed           \* the buffers are freed, mutex, cond and sem destroyed

slotVars == <<at, owner, isFull, buffer, offered, taken>>
srvVars == <<srv, mask, todo, goal, session, clientPort, cancelled, freed>>
vidVars == <<sem, header, vid, cleanup>>
rtpVars == <<rtp, target, udpPort, lastSent>>
vars == <<slotVars, srvVars, vidVars, rtpVars>>

Slot == INSTANCE FrameSlot

Threads == {"video", "rtp"}

Init ==
    /\ Slot!Init
    /\ srv = "accept" /\ mask = {} /\ todo = << >> /\ goal = "accept"
    /\ session = 0 /\ clientPort = 0
    /\ cancelled = {} /\ freed = FALSE
    /\ sem = 0 /\ header = 0 /\ vid = "none" /\ cleanup = "off"
    /\ rtp = "none" /\ target = <<0, 0>> /\ udpPort = "free"
    /\ lastSent = None

-----------------------------------------------------------------------------
(* The server thread: sessions. *)

Accept ==
    /\ srv = "accept"
    /\ session < MaxSession
    /\ session' = session + 1
    /\ vid' = "init"
    /\ cleanup' = "off"
    /\ srv' = "semwait"
    /\ lastSent' = None
    /\ UNCHANGED <<slotVars, mask, todo, goal, clientPort, cancelled, freed,
                   sem, header, rtp, target, udpPort>>

\* accept or pthread_create fails: everything is freed, video_server returns.
AcceptFail ==
    /\ srv = "accept"
    /\ srv' = "exit"
    /\ freed' = TRUE
    /\ UNCHANGED <<slotVars, mask, todo, goal, session, clientPort, cancelled,
                   vidVars, rtpVars>>

\* Mutant: the server does not wait for the video thread.
SemWait_none ==
    /\ srv = "semwait"
    /\ sem' = IF sem > 0 THEN sem - 1 ELSE 0
    /\ srv' = "recv"
    /\ UNCHANGED <<slotVars, mask, todo, goal, session, clientPort, cancelled,
                   freed, header, vid, cleanup, rtpVars>>

SemWait ==
    /\ srv = "semwait"
    /\ sem > 0
    /\ sem' = sem - 1
    /\ srv' = "recv"
    /\ UNCHANGED <<slotVars, mask, todo, goal, session, clientPort, cancelled,
                   freed, header, vid, cleanup, rtpVars>>

\* Everything the threads share is freed and destroyed in front of the last
\* pthread_cancel, on the error paths that end the process.
FreeAll ==
    /\ freed' = TRUE
    /\ srv' = "destroy"
    /\ UNCHANGED <<slotVars, mask, todo, goal, session, clientPort, cancelled,
                   vidVars, rtpVars>>

\* sem_wait fails (a signal, say) while the video thread is wherever it is:
\* perhaps it has not opened the camera, perhaps it has not pushed its handler.
SemWaitFail ==
    /\ srv = "semwait"
    /\ FreeAll

\* The cancel-and-join sequence in front of every break of the inner loop.
End(threads) ==
    /\ todo' = threads
    /\ goal' = "accept"
    /\ srv' = "cancel"
    /\ UNCHANGED <<mask, rtp>>

\* Mutant: the RTP thread is forgotten.
Running_videoOnly == <<"video">>

Running == IF "PLAY" \in mask THEN <<"rtp", "video">> ELSE <<"video">>

\* The commands that must have been served, no more and no less.
Required(cmd) ==
    CASE cmd = "OPTIONS"  -> {}
      [] cmd = "DESCRIBE" -> {"OPTIONS"}
      [] cmd = "SETUP"    -> {"OPTIONS", "DESCRIBE"}
      [] cmd = "PLAY"     -> {"OPTIONS", "DESCRIBE", "SETUP"}
      [] cmd = "TEARDOWN" -> {"OPTIONS", "DESCRIBE", "SETUP", "PLAY"}

\* A request out of order, or an unknown one, ends the session.
OutOfOrder(cmd) ==
    /\ mask # Required(cmd)
    /\ End(Running)

\* The handler refuses the request or the reply cannot be sent.
NotServed(cmd) ==
    /\ mask = Required(cmd)
    /\ End(<<"video">>)

Served(cmd) ==
    /\ mask = Required(cmd)
    /\ mask' = mask \union {cmd}
    /\ UNCHANGED <<srv, todo, goal>>

Request ==
    /\ srv = "recv"
    /\ UNCHANGED <<slotVars, session, cancelled, freed, vidVars,
                   target, udpPort, lastSent>>

Options ==
    /\ Request
    /\ \/ OutOfOrder("OPTIONS")
       \/ NotServed("OPTIONS")
       \/ Served("OPTIONS") /\ UNCHANGED rtp
    /\ UNCHANGED clientPort

\* The reply carries the arrays SPS and PPS, read without a lock.
Describe ==
    /\ Request
    /\ \/ OutOfOrder("DESCRIBE")
       \/ NotServed("DESCRIBE")
       \/ Served("DESCRIBE") /\ UNCHANGED rtp
    /\ UNCHANGED clientPort

\* Mutant: the port of an earlier session is kept.
Setup_noPort ==
    /\ Request
    /\ \/ OutOfOrder("SETUP")
       \/ NotServed("SETUP")
       \/ Served("SETUP") /\ UNCHANGED rtp
    /\ UNCHANGED clientPort

\* get_port stores the client's port before Handle_SETUP looks at the request.
Setup ==
    /\ Request
    /\ \/ OutOfOrder("SETUP") /\ UNCHANGED clientPort
       \/ NotServed("SETUP") /\ clientPort' \in {clientPort, session}
       \/ Served("SETUP") /\ clientPort' = session /\ UNCHANGED rtp

Play ==
    /\ Request
    /\ \/ OutOfOrder("PLAY")
       \/ NotServed("PLAY")
       \/ Served("PLAY") /\ rtp' = "start"
    /\ UNCHANGED clientPort

\* TEARDOWN ends the video thread first; the bit it sets afterwards is cleared
\* at the top of the outer loop before anything reads it.
Teardown ==
    /\ Request
    /\ \/ OutOfOrder("TEARDOWN")
       \/ mask = Required("TEARDOWN") /\ End(<<"video", "rtp">>)
    /\ UNCHANGED clientPort

Unknown ==
    /\ Request
    /\ End(Running)
    /\ UNCHANGED clientPort

\* The peer is gone (recv <= 0), or pthread_create for the RTP thread fails:
\* the buffers are freed and the mutex and cond destroyed while both threads
\* may be using them, then the video thread is cancelled and joined (the RTP
\* thread is not) and the process ends.
Abandon ==
    /\ srv = "recv"
    /\ FreeAll

\* pthread_cond_destroy with a thread asleep is undefined: some versions
\* return at once, others wait until it has been woken up.
Destroyed ==
    /\ srv = "destroy"
    /\ srv' = "cancel"
    /\ todo' = <<"video">>
    /\ goal' = "exit"
    /\ UNCHANGED <<slotVars, mask, session, clientPort, cancelled, freed,
                   vidVars, rtpVars>>

Cancel ==
    /\ srv = "cancel"
    /\ cancelled' = cancelled \union {Head(todo)}
    /\ srv' = "join"
    /\ UNCHANGED <<slotVars, mask, todo, goal, session, clientPort, freed,
                   vidVars, rtpVars>>

IsDead(t) == IF t = "video" THEN vid = "dead" ELSE rtp = "dead"

\* pthread_join returns.  After the last one the server closes the connection
\* and clears the mask, or video_server returns and the process ends with
\* every thread it still has.
Join ==
    /\ srv = "join"
    /\ IsDead(Head(todo))
    /\ todo' = Tail(todo)
    /\ cancelled' = cancelled \ {Head(todo)}
    /\ srv' = IF Len(todo) = 1 THEN goal ELSE "cancel"
    /\ mask' = IF srv' = "accept" THEN {} ELSE mask
    /\ vid' = IF Head(todo) = "video" \/ srv' = "exit" THEN "none" ELSE vid
    /\ rtp' = IF Head(todo) = "rtp" \/ srv' = "exit" THEN "none" ELSE rtp
    /\ udpPort' = IF srv' = "exit" THEN "free" ELSE udpPort
    /\ UNCHANGED <<slotVars, goal, session, clientPort, freed, sem, header,
                   cleanup, target, lastSent>>

\* A thread that touches the freed buffers can take the whole process down:
\* the frame, SPS and PPS, the destroyed mutex, condition and semaphore.
Crash ==
    /\ freed
    /\ srv # "exit"
    /\ \/ vid \in {"header", "post"}
       \/ \E t \in Threads : at[t] \notin {"out", "waiting"}
    /\ srv' = "exit"
    /\ vid' = "none"
    /\ rtp' = "none"
    /\ udpPort' = "free"
    /\ UNCHANGED <<slotVars, mask, todo, goal, session, clientPort, cancelled,
                   freed, sem, header, cleanup, target, lastSent>>

-----------------------------------------------------------------------------
(* The video thread. *)

VidStep == UNCHANGED <<srvVars, rtpVars>>

\* Mutant: the handler is not pushed.
VidOpen_noHandler ==
    /\ vid = "init"
    /\ vid' = "header"
    /\ VidStep /\ UNCHANGED <<slotVars, sem, header, cleanup>>

\* Queues, camera and encoder are opened and cleanup_video_pthread is pushed.
VidOpen ==
    /\ vid = "init"
    /\ vid' = "header"
    /\ cleanup' = "pushed"
    /\ VidStep /\ UNCHANGED <<slotVars, sem, header>>

\* pthread_exit, or a cancellation (open is a cancellation point), before the
\* handler is pushed, and before sem_post.
VidOpenFail ==
    /\ vid = "init"
    /\ vid' = "dead"
    /\ VidStep /\ UNCHANGED <<slotVars, sem, header, cleanup>>

\* The handler runs: stream off, unmap, close the camera and the encoder.
VidExit ==
    /\ vid' = "dead"
    /\ cleanup' = "run"
    /\ VidStep /\ UNCHANGED <<sem, header>>

VidHeader ==
    /\ vid = "header"
    /\ header' = session
    /\ vid' = "post"
    /\ VidStep /\ UNCHANGED <<slotVars, sem, cleanup>>

\* The encoder's header or sem_post fails, or a cancellation takes effect in
\* the prints around them (DEBUG, as the Makefile builds).
VidHeaderFail ==
    /\ vid \in {"header", "post"}
    /\ VidExit /\ UNCHANGED slotVars

VidOffer(n) ==
    /\ Slot!EnterPut(NALU(session, n))
    /\ vid' = "put"

\* Mutant: no sem_post.
VidPost_none ==
    /\ vid = "post"
    /\ VidOffer(SPS)
    /\ VidStep /\ UNCHANGED <<sem, header, cleanup>>

\* sem_post, then the first call of update_globe_frame_info, with the SPS.
VidPost ==
    /\ vid = "post"
    /\ sem' = sem + 1
    /\ VidOffer(SPS)
    /\ VidStep /\ UNCHANGED <<header, cleanup>>

\* update_globe_frame_info has returned: after the SPS the PPS is offered,
\* after the PPS the loop begins, after a frame the photo queue is looked at.
VidPutDone ==
    /\ vid = "put"
    /\ at["video"] = "out"
    /\ \/ offered.n = SPS /\ VidOffer(PPS)
       \/ offered.n = PPS /\ vid' = "capture" /\ UNCHANGED slotVars
       \/ offered.n >= FirstFrame /\ vid' = "photo" /\ UNCHANGED slotVars
    /\ VidStep /\ UNCHANGED <<sem, header, cleanup>>

\* poll, dequeue, encode and offer one frame.  poll is a cancellation point.
VidCapture ==
    /\ vid = "capture"
    /\ "video" \notin cancelled
    /\ VidOffer(After(offered.n))
    /\ VidStep /\ UNCHANGED <<sem, header, cleanup>>

\* No photo is asked for, or it is taken (or not) and answered and the camera
\* is reset to preview.
VidPhotoDone ==
    /\ vid = "photo"
    /\ "video" \notin cancelled
    /\ vid' = "capture"
    /\ VidStep /\ UNCHANGED <<slotVars, sem, header, cleanup>>

\* A camera or encoder error, a queue that is gone, or a cancellation.
VidStop ==
    /\ vid \in {"capture", "photo"}
    /\ VidExit /\ UNCHANGED slotVars

\* dispose_send_file fails: the thread RETURNS between pthread_cleanup_push
\* and pop.  POSIX leaves that undefined; as built (C, no -fexceptions) the
\* handler does not run.
VidReturn ==
    /\ vid = "photo"
    /\ vid' = "dead"
    /\ VidStep /\ UNCHANGED <<slotVars, sem, header, cleanup>>

VidInCall ==
    /\ vid = "put"
    /\ \/ Slot!Lock("video")
       \/ Slot!Wait("video")
       \/ Slot!Fill
       \/ Slot!Unlock("video")
       \/ Slot!CancelLock("video")
    /\ VidStep /\ UNCHANGED vidVars

VidCancelInWait ==
    /\ vid = "put"
    /\ "video" \in cancelled
    /\ Slot!CancelWait("video")
    /\ VidStep /\ UNCHANGED vidVars

\* The two handlers run one after the other: unlock, then the camera.
VidDie ==
    /\ vid = "put"
    /\ Slot!CancelUnlock("video")
    /\ VidExit

VidSpurious ==
    /\ vid = "put"
    /\ Slot!SpuriousWakeup("video")
    /\ VidStep /\ UNCHANGED vidVars

-----------------------------------------------------------------------------
(* The RTP thread. *)

RtpStep == UNCHANGED <<srvVars, vidVars>>

\* Copies addr_client and client_port, binds the port, asks for a frame.
RtpStart ==
    /\ rtp = "start"
    /\ udpPort = "free"
    /\ target' = <<session, clientPort>>
    /\ udpPort' = "bound"
    /\ rtp' = "get"
    /\ Slot!EnterGet
    /\ RtpStep /\ UNCHANGED lastSent

\* socket or bind fails; bind does when the port is still taken.
RtpStartFail ==
    /\ rtp = "start"
    /\ target' = <<session, clientPort>>
    /\ rtp' = "dead"
    /\ RtpStep /\ UNCHANGED <<slotVars, udpPort, lastSent>>

RtpGot ==
    /\ rtp = "get"
    /\ at["rtp"] = "out"
    /\ rtp' = "send"
    /\ RtpStep /\ UNCHANGED <<slotVars, target, udpPort, lastSent>>

\* All packets of the frame are sent; sendto is a cancellation point.
RtpSend ==
    /\ rtp = "send"
    /\ "rtp" \notin cancelled
    /\ lastSent' = taken
    /\ Slot!EnterGet
    /\ rtp' = "get"
    /\ RtpStep /\ UNCHANGED <<target, udpPort>>

\* cleanup_rtp_pthread: the socket is closed, nalu_buf is freed.
RtpExit ==
    /\ rtp' = "dead"
    /\ udpPort' = "free"
    /\ RtpStep /\ UNCHANGED <<target, lastSent>>

\* udp_send_data fails, or the cancellation takes effect in sendto.
RtpStop ==
    /\ rtp = "send"
    /\ RtpExit /\ UNCHANGED slotVars

RtpInCall ==
    /\ rtp = "get"
    /\ \/ Slot!Lock("rtp")
       \/ Slot!Wait("rtp")
       \/ Slot!Take
       \/ Slot!Unlock("rtp")
       \/ Slot!CancelLock("rtp")
    /\ RtpStep /\ UNCHANGED rtpVars

RtpCancelInWait ==
    /\ rtp = "get"
    /\ "rtp" \in cancelled
    /\ Slot!CancelWait("rtp")
    /\ RtpStep /\ UNCHANGED rtpVars

RtpDie ==
    /\ rtp = "get"
    /\ Slot!CancelUnlock("rtp")
    /\ RtpExit

RtpSpurious ==
    /\ rtp = "get"
    /\ Slot!SpuriousWakeup("rtp")
    /\ RtpStep /\ UNCHANGED rtpVars

-----------------------------------------------------------------------------
Serve == Options \/ Describe \/ Setup \/ Play \/ Teardown \/ Unknown

ServerNext ==
    \/ Accept \/ AcceptFail \/ SemWait \/ SemWaitFail \/ Serve
    \/ Abandon \/ Destroyed \/ Cancel \/ Join \/ Crash

VideoProgress ==
    \/ VidOpen \/ VidHeader \/ VidPost \/ VidPutDone \/ VidInCall
    \/ VidCancelInWait \/ VidDie

VideoNext ==
    \/ VideoProgress \/ VidOpenFail \/ VidHeaderFail \/ VidCapture
    \/ VidPhotoDone \/ VidStop \/ VidReturn \/ VidSpurious

RtpProgress ==
    \/ RtpStart \/ RtpGot \/ RtpInCall \/ RtpCancelInWait \/ RtpDie

RtpNext ==
    \/ RtpProgress \/ RtpStartFail \/ RtpSend \/ RtpStop \/ RtpSpurious

Next == ServerNext \/ VideoNext \/ RtpNext

Spec == Init /\ [][Next]_vars

(***************************************************************************)
(* Every thread that can go on does; a mutex asked for again and again is  *)
(* obtained, and a cancellation request is acted on by a thread that       *)
(* reaches pthread_cond_wait again and again.  Nothing is assumed of the   *)
(* client, of failures, of photos, of spurious wake-ups, nor of            *)
(* pthread_cond_destroy while a thread sleeps on the condition variable.   *)
(***************************************************************************)
Fairness ==
    /\ WF_vars(SemWait) /\ WF_vars(Cancel) /\ WF_vars(Join)
    /\ WF_vars(Slot!Waiters = {} /\ Destroyed)
    /\ WF_vars(VideoProgress) /\ WF_vars(RtpProgress)
    /\ WF_vars(VidOpen \/ VidOpenFail) /\ WF_vars(VidCapture)
    /\ WF_vars("video" \in cancelled /\ VidStop)
    /\ WF_vars(RtpStart \/ RtpStartFail) /\ WF_vars(RtpSend \/ RtpStop)
    /\ SF_vars(vid = "put" /\ VidInCall /\ owner' = "video")
    /\ SF_vars(rtp = "get" /\ RtpInCall /\ owner' = "rtp")
    /\ SF_vars(VidCancelInWait) /\ SF_vars(RtpCancelInWait)

FairSpec == Spec /\ Fairness

-----------------------------------------------------------------------------
TypeOK ==
    /\ Slot!TypeOK
    /\ srv \in {"accept", "semwait", "recv", "destroy", "cancel", "join", "exit"}
    /\ mask \subseteq {"OPTIONS", "DESCRIBE", "SETUP", "PLAY"}
    /\ todo \in {<< >>, <<"video">>, <<"rtp">>, <<"rtp", "video">>, <<"video", "rtp">>}
    /\ goal \in {"accept", "exit"}
    /\ session \in SessionNrs /\ clientPort \in SessionNrs
    /\ cancelled \subseteq Threads /\ freed \in BOOLEAN
    /\ sem \in 0 .. 1 /\ header \in SessionNrs
    /\ vid \in {"none", "init", "header", "post", "put", "capture", "photo", "dead"}
    /\ cleanup \in {"off", "pushed", "run"}
    /\ rtp \in {"none", "start", "get", "send", "dead"}
    /\ target \in SessionNrs \X SessionNrs
    /\ udpPort \in {"free", "bound"}
    /\ lastSent \in NALUs \union {None}

\* When the server waits for the next connection nothing of the last session
\* is left: no thread, no cancellation request, no token in the semaphore, the
\* mutex free, the RTP port closed.  Every break of the inner loop of
\* video_server must have cancelled and joined exactly the threads that run.
NothingOutlivesSession ==
    srv = "accept" =>
        /\ vid = "none" /\ rtp = "none"
        /\ cancelled = {} /\ sem = 0
        /\ owner = "nobody" /\ \A t \in Threads : at[t] = "out"
        /\ udpPort = "free"

\* Once the server answers requests, the SPS and PPS it describes the stream
\* with, read outside the mutex, are those of this session's encoder.
HeaderIsOurs == srv = "recv" => header = session

\* A token of the semaphore is the present session's: it is there only while
\* the server is about to consume it, or when the server has given up and
\* freed everything, so no later session starts too early.
SemaphoreBalanced ==
    sem > 0 => (srv = "semwait" \/ freed) /\ sem = 1 /\ header = session

\* The handler that closes the camera and the encoder is always pushed before
\* the video thread is cancelled, with one exception: when sem_wait fails the
\* server cancels at once, but then the process ends (and its descriptors
\* with it).  No next session opens the camera over a video thread that was
\* ended without its handler.
CancelFindsHandler ==
    /\ "video" \in cancelled /\ cleanup = "off" => freed /\ goal = "exit"
    /\ srv = "accept" /\ session > 0 => cleanup # "off"

\* RTP packets go to the client of the present session only, at the port this
\* client gave: the server's addr_client and client_port, which the RTP
\* thread reads by pointer, do not change under it.
RtpServesClient ==
    rtp \in {"get", "send"} => target = <<session, session>>

\* An RTP thread exists only in a session whose PLAY was served, so the breaks
\* that test the PLAY bit know of it.
RtpNeedsPlay == rtp # "none" => mask = Required("TEARDOWN")

\* The client gets the units of its session in order, without a gap and none
\* twice: SPS, PPS, frames; only the very first one may be a left-over of an
\* earlier session (is_full is never reset).
InOrder(old, new) ==
    IF old = None THEN new.ses < session \/ new.n = SPS
    ELSE /\ new.ses = session
         /\ new.n = IF old.ses = session THEN After(old.n) ELSE SPS

DeliveredInOrder ==
    [][rtp = "send" /\ rtp' = "get" => InOrder(lastSent, lastSent')]_vars

\* Ending a session ends: each join returns, whatever the two threads were
\* doing when they were cancelled, and the server accepts again or exits.
SessionEnds == srv \in {"cancel", "join"} ~> srv \in {"accept", "exit"}

\* While the RTP thread asks for a frame and one is there, it gets it.
FramesFlow == (isFull /\ rtp = "get") ~> (~isFull \/ rtp \in {"dead", "none"})

\* A photo asked for while a client watches is looked at: the video thread
\* comes out of its wait for the RTP thread and to the photo queue after every
\* frame (dispose_send_file is called between two frames only), as long as
\* the RTP thread serves the client.
PhotosLookedAt ==
    (vid = "capture" /\ rtp \in {"get", "send"})
        ~> (vid \notin {"capture", "put"} \/ rtp \notin {"get", "send"})

\* After accept the server begins to answer or, if sem_wait fails, gives up,
\* unless the video thread failed before sem_post (then video_server waits
\* for ever: see the README).
Answered == srv = "semwait" ~> (srv = "recv" \/ freed \/ vid = "dead")

\* video.c:1666 says that the SPS and PPS come first: the first unit the
\* client of a session gets is an SPS.
FirstIsSPS ==
    [][lastSent = None /\ lastSent' # None => lastSent'.n = SPS]_vars

=============================================================================
