----------------------------- MODULE MCFrameSlot -----------------------------
(* FrameSlot on three NAL units: enough that a frame overtaken, repeated or  *)
(* lost differs from its neighbours.                                         *)
EXTENDS FrameSlot
=============================================================================
