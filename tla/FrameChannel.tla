---------------------------- MODULE FrameChannel ----------------------------
(***************************************************************************)
(* What the frame buffer between the video thread and the RTP thread       *)
(* promises: a channel that holds at most one NAL unit.  A unit that was   *)
(* put is handed over exactly once, before the next one can be put, so     *)
(* none is lost, repeated or overtaken.  FrameSlot, the monitor of         *)
(* video.c and rtp.c, implements it.                                       *)
(***************************************************************************)
EXTENDS Sequences

CONSTANTS
    NALUs,      \* the NAL units the video thread produces
    None        \* nothing has been handed over yet

VARIABLES
    chan,       \* the unit in the channel, if any: a sequence of length 0 or 1
    got         \* the unit handed over last

Init ==
    /\ chan = << >>
    /\ got = None

Put ==
    /\ chan = << >>
    /\ \E x \in NALUs : chan' = << x >>
    /\ UNCHANGED got

Get ==
    /\ chan # << >>
    /\ got' = Head(chan)
    /\ chan' = << >>

Next == Put \/ Get

Spec == Init /\ [][Next]_<<chan, got>>
=============================================================================
