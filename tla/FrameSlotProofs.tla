--------------------------- MODULE FrameSlotProofs ---------------------------
(***************************************************************************)
(* Proofs about the frame buffer, for every set of NAL units: the mutex,   *)
(* the single condition variable, and the refinement of the one-place      *)
(* channel.  NoLostWakeup is inductive together with the type and mutex    *)
(* facts because each change of is_full happens under the mutex and wakes  *)
(* the one thread that can be asleep.                                      *)
(***************************************************************************)
EXTENDS FrameSlot, Sequences, TLAPS

\* A buffer marked full holds a NAL unit, and so does the argument of a call
\* that may still store it.
FrameKnown ==
    /\ isFull => buffer \in NALUs
    /\ at["video"] \in {"lock", "check", "waiting", "woken"} => offered \in NALUs

SlotInv ==
    /\ TypeOK
    /\ MutexHeldInside
    /\ NoLostWakeup
    /\ FrameKnown

\* The initial state satisfies the invariant.
LEMMA SlotInit == Init => SlotInv
  BY DEF Init, SlotInv, TypeOK, MutexHeldInside, NoLostWakeup, FrameKnown,
         Threads, Places, Waiters, MustWait

\* Every step of either thread, and every cancellation, preserves it.
LEMMA SlotStep == SlotInv /\ [Next]_slotVars => SlotInv'
<1> SUFFICES ASSUME SlotInv, [Next]_slotVars
             PROVE  SlotInv'
  OBVIOUS
<1> USE DEF SlotInv, TypeOK, MutexHeldInside, NoLostWakeup, FrameKnown,
            Threads, Places, Waiters, MustWait
<1>1. CASE \E x \in NALUs : EnterPut(x)
  BY <1>1 DEF EnterPut
<1>2. CASE EnterGet
  BY <1>2 DEF EnterGet
<1>3. ASSUME NEW t \in Threads, Inside(t)
      PROVE  SlotInv'
  <2>1. CASE Lock(t)
    BY <2>1 DEF Lock
  <2>2. CASE Wait(t)
    BY <2>2 DEF Wait
  <2>3. CASE t = "video" /\ Fill
    BY <2>3 DEF Fill, MoveAndSignal
  <2>4. CASE t = "rtp" /\ Take
    BY <2>4 DEF Take, MoveAndSignal
  <2>5. CASE Unlock(t)
    BY <2>5 DEF Unlock
  <2>6. CASE CancelLock(t)
    BY <2>6 DEF CancelLock
  <2>7. CASE CancelUnlock(t)
    BY <2>7 DEF CancelUnlock
  <2> QED
    BY <1>3, <2>1, <2>2, <2>3, <2>4, <2>5, <2>6, <2>7 DEF Inside
<1>4. ASSUME NEW t \in Threads, SpuriousWakeup(t)
      PROVE  SlotInv'
  BY <1>4 DEF SpuriousWakeup
<1>5. ASSUME NEW t \in Threads, CancelWait(t)
      PROVE  SlotInv'
  BY <1>5 DEF CancelWait
<1>6. CASE UNCHANGED slotVars
  BY <1>6 DEF slotVars
<1> QED
  BY <1>1, <1>2, <1>3, <1>4, <1>5, <1>6 DEF Next

\* The invariant holds of the whole behaviour.
THEOREM SlotInvariant == Spec => []SlotInv
  BY SlotInit, SlotStep, PTL DEF Spec

\* Type correctness of the frame buffer.
THEOREM SlotTypeCorrect == Spec => []TypeOK
  BY SlotInvariant, PTL DEF SlotInv

\* mtx is held exactly by the thread in its critical section, cancelled or
\* not.
THEOREM MutexIsHeldInside == Spec => []MutexHeldInside
  BY SlotInvariant, PTL DEF SlotInv

\* No wake-up of the shared condition variable is ever lost.
THEOREM WakeupsAreNotLost == Spec => []NoLostWakeup
  BY SlotInvariant, PTL DEF SlotInv

-----------------------------------------------------------------------------
\* Every step of the monitor is a Put, a Get or a stutter of the channel.
LEMMA ChannelStep ==
    SlotInv /\ [Next]_slotVars
      => [Channel!Next]_<<IF isFull THEN << buffer >> ELSE << >>, taken>>
<1> SUFFICES ASSUME SlotInv, [Next]_slotVars
             PROVE  [Channel!Next]_<<IF isFull THEN << buffer >> ELSE << >>, taken>>
  OBVIOUS
<1> DEFINE same == UNCHANGED <<isFull, buffer, taken>>
<1>1. CASE same
  BY <1>1
<1>2. CASE Fill
  <2>1. ~isFull /\ isFull' /\ buffer' = offered /\ taken' = taken
    BY <1>2 DEF Fill, MustWait
  <2>2. offered \in NALUs
    BY <1>2 DEF Fill, SlotInv, FrameKnown
  <2>3. Channel!Put
    BY <2>1, <2>2 DEF Channel!Put
  <2> QED
    BY <2>3 DEF Channel!Next
<1>3. CASE Take
  <2>1. isFull /\ ~isFull' /\ taken' = buffer
    BY <1>3 DEF Take, MustWait, SlotInv, TypeOK
  <2>2. Head(<< buffer >>) = buffer /\ << buffer >> # << >>
    OBVIOUS
  <2>3. Channel!Get
    BY <2>1, <2>2 DEF Channel!Get
  <2> QED
    BY <2>3 DEF Channel!Next
<1>4. same \/ Fill \/ Take
  BY DEF Next, slotVars, EnterPut, EnterGet, Inside, Lock, Wait, Unlock,
         CancelLock, CancelUnlock, SpuriousWakeup, CancelWait
<1> QED
  BY <1>1, <1>2, <1>3, <1>4

\* The buffer of video.c and rtp.c implements the one-place channel: every
\* frame is handed over once and in order, whatever the interleaving, the
\* wake-ups and the cancellations.
THEOREM SlotIsChannel == Spec => ChannelSpec
<1>1. Init => Channel!Init
  BY DEF Init, Channel!Init
<1> QED
  BY <1>1, ChannelStep, SlotInvariant, PTL
  DEF Spec, ChannelSpec, Channel!Spec
=============================================================================
