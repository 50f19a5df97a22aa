--------------------------- MODULE MCVideoSession ---------------------------
(* VideoSession on three connections: two show everything one session can   *)
(* leave behind for the next, three what the second can do to the third.    *)
EXTENDS VideoSession
=============================================================================
