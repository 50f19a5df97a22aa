--------------------------- MODULE MCRtpPacketizer ---------------------------
(***************************************************************************)
(* Payloads of 4 bytes and NALUs of up to 14: single packets, two to four  *)
(* fragments, every remainder.  The headers are those of an SPS, a PPS, an *)
(* IDR and a P slice; sequence numbers wrap at 8.                          *)
(***************************************************************************)
EXTENDS RtpPacketizer

SomeHeaders == {103, 104, 101, 65}
=============================================================================
