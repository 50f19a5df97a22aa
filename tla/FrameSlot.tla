------------------------------ MODULE FrameSlot ------------------------------
(***************************************************************************)
(* The monitor in struct_frame_buffer (video.h): one frame, the flag       *)
(* is_full, a mutex and ONE condition variable on which both threads wait. *)
(* The video thread is in update_globe_frame_info (video.c), the RTP       *)
(* thread in get_globe_frame_info (rtp.c).  Either can be cancelled by the *)
(* RTSP server while it waits: pthread_cond_wait then takes the mutex back *)
(* and the handler pushed by pthread_cleanup_push releases it.             *)
(*                                                                         *)
(* VideoSession composes this module with the threads' lives.              *)
(***************************************************************************)
EXTENDS Naturals

CONSTANTS
    NALUs,      \* what the video thread hands over: SPS, PPS, encoded frames
    None        \* no NAL unit

ASSUME NoneAssumption == None \notin NALUs

Threads == {"video", "rtp"}

Places == {"out",       \* not in the call
           "lock",      \* in pthread_mutex_lock
           "check",     \* holds the mutex, about to test is_full
           "waiting",   \* blocked in pthread_cond_wait
           "woken",     \* woken up, taking the mutex back
           "unlock",    \* holds the mutex, the frame is moved
           "dying",     \* cancelled, taking the mutex back
           "handler"}   \* cancelled, holds the mutex, in the cleanup handler

VARIABLES
    at,         \* at[t]: where thread t is in its call
    owner,      \* the thread that holds mtx, or "nobody"
    isFull,     \* is_full
    buffer,     \* frame_buffer, frame_length and time_stamp
    offered,    \* the argument of the video thread's current call
    taken       \* what the RTP thread's last call copied to nalu_buf

slotVars == <<at, owner, isFull, buffer, offered, taken>>

Waiters == {t \in Threads : at[t] = "waiting"}

\* Mutant: the video thread stores its frame without looking at is_full.
MustWait_unchecked(t) == IF t = "video" THEN FALSE ELSE ~isFull

\* The condition of each thread's while loop around pthread_cond_wait.
MustWait(t) == IF t = "video" THEN isFull ELSE ~isFull

Init ==
    /\ at = [t \in Threads |-> "out"]
    /\ owner = "nobody"
    /\ isFull = FALSE
    /\ buffer = None
    /\ offered = None
    /\ taken = None

EnterPut(x) ==
    /\ at["video"] = "out"
    /\ at' = [at EXCEPT !["video"] = "lock"]
    /\ offered' = x
    /\ UNCHANGED <<owner, isFull, buffer, taken>>

EnterGet ==
    /\ at["rtp"] = "out"
    /\ at' = [at EXCEPT !["rtp"] = "lock"]
    /\ UNCHANGED <<owner, isFull, buffer, offered, taken>>

\* pthread_mutex_lock, and the end of pthread_cond_wait.
Lock(t) ==
    /\ at[t] \in {"lock", "woken"}
    /\ owner = "nobody"
    /\ owner' = t
    /\ at' = [at EXCEPT ![t] = "check"]
    /\ UNCHANGED <<isFull, buffer, offered, taken>>

Wait(t) ==
    /\ at[t] = "check"
    /\ MustWait(t)
    /\ owner' = "nobody"
    /\ at' = [at EXCEPT ![t] = "waiting"]
    /\ UNCHANGED <<isFull, buffer, offered, taken>>

\* Mutant: nobody is signalled.
MoveAndSignal_silent(t) == at' = [at EXCEPT ![t] = "unlock"]

\* pthread_cond_signal by thread t: one of the waiters, if any, wakes up.
MoveAndSignal(t) ==
    \/ /\ Waiters = {}
       /\ at' = [at EXCEPT ![t] = "unlock"]
    \/ \E w \in Waiters :
          at' = [at EXCEPT ![t] = "unlock", ![w] = "woken"]

\* Mutant: the video thread does not signal.
Fill_silent ==
    /\ at["video"] = "check"
    /\ ~MustWait("video")
    /\ buffer' = offered
    /\ isFull' = TRUE
    /\ at' = [at EXCEPT !["video"] = "unlock"]
    /\ UNCHANGED <<owner, offered, taken>>

Fill ==
    /\ at["video"] = "check"
    /\ ~MustWait("video")
    /\ buffer' = offered
    /\ isFull' = TRUE
    /\ MoveAndSignal("video")
    /\ UNCHANGED <<owner, offered, taken>>

\* Mutant: the RTP thread does not signal.
Take_silent ==
    /\ at["rtp"] = "check"
    /\ ~MustWait("rtp")
    /\ taken' = buffer
    /\ isFull' = FALSE
    /\ at' = [at EXCEPT !["rtp"] = "unlock"]
    /\ UNCHANGED <<owner, buffer, offered>>

Take ==
    /\ at["rtp"] = "check"
    /\ ~MustWait("rtp")
    /\ taken' = buffer
    /\ isFull' = FALSE
    /\ MoveAndSignal("rtp")
    /\ UNCHANGED <<owner, buffer, offered>>

Unlock(t) ==
    /\ at[t] = "unlock"
    /\ owner' = "nobody"
    /\ at' = [at EXCEPT ![t] = "out"]
    /\ UNCHANGED <<isFull, buffer, offered, taken>>

\* POSIX lets pthread_cond_wait return without a signal.
SpuriousWakeup(t) ==
    /\ at[t] = "waiting"
    /\ at' = [at EXCEPT ![t] = "woken"]
    /\ UNCHANGED <<owner, isFull, buffer, offered, taken>>

\* pthread_cancel takes effect in pthread_cond_wait ...
CancelWait(t) ==
    /\ at[t] = "waiting"
    /\ at' = [at EXCEPT ![t] = "dying"]
    /\ UNCHANGED <<owner, isFull, buffer, offered, taken>>

\* ... which takes the mutex back before the cleanup handlers run.
CancelLock(t) ==
    /\ at[t] = "dying"
    /\ owner = "nobody"
    /\ owner' = t
    /\ at' = [at EXCEPT ![t] = "handler"]
    /\ UNCHANGED <<isFull, buffer, offered, taken>>

\* Mutant: no handler is pushed, a cancelled thread keeps the mutex.
CancelUnlock_none(t) ==
    /\ at[t] = "handler"
    /\ at' = [at EXCEPT ![t] = "out"]
    /\ UNCHANGED <<owner, isFull, buffer, offered, taken>>

\* The handler of pthread_cleanup_push(pthread_mutex_unlock, &mtx).
CancelUnlock(t) ==
    /\ at[t] = "handler"
    /\ owner' = "nobody"
    /\ at' = [at EXCEPT ![t] = "out"]
    /\ UNCHANGED <<isFull, buffer, offered, taken>>

\* The steps of thread t inside its call.
Inside(t) ==
    \/ Lock(t)
    \/ Wait(t)
    \/ t = "video" /\ Fill
    \/ t = "rtp" /\ Take
    \/ Unlock(t)
    \/ CancelLock(t)
    \/ CancelUnlock(t)

Next ==
    \/ \E x \in NALUs : EnterPut(x)
    \/ EnterGet
    \/ \E t \in Threads : \/ Inside(t)
                          \/ SpuriousWakeup(t)
                          \/ CancelWait(t)

(***************************************************************************)
(* A thread in the call goes on when it can, and the mutex is handed out   *)
(* to a thread that asks again and again (the kernel's futex queue);       *)
(* nothing is assumed about callers, cancellation or spurious wake-ups.    *)
(***************************************************************************)
Fairness ==
    \A t \in Threads : /\ WF_slotVars(Inside(t))
                       /\ SF_slotVars(Lock(t))
                       /\ SF_slotVars(CancelLock(t))

Spec == Init /\ [][Next]_slotVars
FairSpec == Spec /\ Fairness

-----------------------------------------------------------------------------
TypeOK ==
    /\ at \in [Threads -> Places]
    /\ owner \in Threads \union {"nobody"}
    /\ isFull \in BOOLEAN
    /\ buffer \in NALUs \union {None}
    /\ offered \in NALUs \union {None}
    /\ taken \in NALUs \union {None}

\* The mutex is held exactly by the thread inside its critical section, also
\* after a cancellation: pthread_cancel in pthread_cond_wait leaves through
\* the cleanup handler and neither keeps mtx nor unlocks one it does not hold.
MutexHeldInside ==
    \A t \in Threads : at[t] \in {"check", "unlock", "handler"} <=> owner = t

\* No wake-up is lost although both threads share one condition variable and
\* signal it once per frame: a thread sleeps only while its while-condition
\* holds, so the two are never both asleep.
NoLostWakeup == \A t \in Waiters : MustWait(t)

\* The buffer implements the one-place channel: each frame is handed over
\* once and in order.  (video.c update_globe_frame_info, rtp.c
\* get_globe_frame_info.)
Channel == INSTANCE FrameChannel WITH
              chan <- IF isFull THEN << buffer >> ELSE << >>,
              got <- taken

ChannelSpec == Channel!Spec

\* Frames go through: one in the buffer is taken once the RTP thread is in its
\* call and has not been cancelled, and an empty buffer is filled once the
\* video thread is; neither sleeps on over a buffer it could use.
FramesGoThrough ==
    /\ (isFull /\ at["rtp"] \in {"lock", "check", "waiting", "woken"}) ~> ~isFull
    /\ (~isFull /\ at["video"] \in {"lock", "check", "waiting", "woken"}) ~> isFull
=============================================================================
