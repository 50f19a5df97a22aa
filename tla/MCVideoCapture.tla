---------------------------- MODULE MCVideoCapture ----------------------------
(***************************************************************************)
(* VideoCapture with two buffers, so that a loop over them can fail        *)
(* half-way, one or two waiting requests, and photos of 4x4 pixels.        *)
(***************************************************************************)
EXTENDS VideoCapture
=============================================================================
