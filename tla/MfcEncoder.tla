------------------------------ MODULE MfcEncoder ------------------------------
(***************************************************************************)
(* The H.264 encoder as the video thread uses it (SsbSipMfcEncAPI.c): the  *)
(* context of an open encoder and what each call of the library does to    *)
(* it.  The encoder has one input buffer and one stream buffer of two      *)
(* halves; encode_cnt says which half the next output goes to.             *)
(*                                                                         *)
(* What a buffer holds is told by its age: "new" is the frame captured     *)
(* last, "old" any earlier one.                                            *)
(***************************************************************************)
EXTENDS Integers

Contents == {"none", "header", "old", "new"}
Halves == 0 .. 1
Sizes == {"preview", "snapshot"}

\* _MFCLIB, the fields the calls read or write.
Contexts == [open : BOOLEAN,                \* between EncOpen and EncClose
             size : Sizes \union {"none"},  \* width and height
             frmBuf : {"none", "yuv"},      \* the address the input is taken from
             encode_cnt : Halves,
             input : Contents,              \* virFrmBuf, the YUV buffer
             stream : [Halves -> Contents]] \* virStrmBuf

ClosedContext == [open |-> FALSE, size |-> "none", frmBuf |-> "none",
                  encode_cnt |-> 0,
                  input |-> "none", stream |-> [h \in Halves |-> "none"]]

Magnitude(x) == IF x < 0 THEN -x ELSE x

\* init_h264_encoder_param: what the video thread asks for.
H264Param ==
    [codecType |-> "H264_ENC", Source |-> "preview", SliceMode |-> 0,
     LumaPadVal |-> 0, CbPadVal |-> 0, CrPadVal |-> 0,
     FrameQp |-> 20, FrameQp_P |-> 21, FrameQp_B |-> 23,
     QSCodeMin |-> 10, QSCodeMax |-> 51, NumberBFrames |-> 0,
     NumberRefForPframes |-> 1, NumberReferenceFrames |-> 1,
     LoopFilterAlphaC0Offset |-> 0, LoopFilterBetaOffset |-> 0]

\* SsbSipMfcEncInit's checks: the codec, and the parameters of H.264.
CodecKnown(p) == p.codecType \in {"MPEG4_ENC", "H263_ENC", "H264_ENC"}

ParamAccepted(p) ==
    /\ p.codecType = "H264_ENC" =>
          /\ p.SliceMode \in {0, 1, 2, 4}
          /\ \A v \in {p.LumaPadVal, p.CbPadVal, p.CrPadVal} : v <= 255
          /\ \A v \in {p.FrameQp, p.FrameQp_P, p.FrameQp_B,
                       p.QSCodeMin, p.QSCodeMax} : v <= 51
          /\ p.NumberBFrames <= 2
          /\ p.NumberRefForPframes <= 2 /\ p.NumberReferenceFrames <= 2
          /\ Magnitude(p.LoopFilterAlphaC0Offset) <= 6
          /\ Magnitude(p.LoopFilterBetaOffset) <= 6

-----------------------------------------------------------------------------
(* The calls, when they succeed. *)

EncOpened(c) == [ClosedContext EXCEPT !.open = TRUE]

\* The size of the pictures is the source's, for every codec.
Sized(c, p) == [c EXCEPT !.encode_cnt = 0, !.size = p.Source]

\* IOCTL_MFC_ENC_INIT leaves the header at the start of the stream buffer.
EncInitialised(c, p) ==
    [Sized(c, p) EXCEPT !.stream[0] = "header"]

\* SsbSipMfcEncGetInBuf has the driver allocate the input buffer.
EncInBuf(c) == [c EXCEPT !.frmBuf = "yuv"]

\* SsbSipMfcEncSetInBuf
EncInBufSet(c, address) == [c EXCEPT !.frmBuf = address]

\* The video thread writes a captured frame into the input buffer: what was
\* the last frame until now is an earlier one.
Aged(x) == IF x = "new" THEN "old" ELSE x

EncFilled(c) ==
    [c EXCEPT !.input = "new", !.stream = [h \in Halves |-> Aged(c.stream[h])]]

EncInput(c) == IF c.frmBuf = "yuv" THEN c.input ELSE "none"

\* Mutant: the call that encodes moves on to the other half too.
EncExecuted_toggles(c) ==
    [c EXCEPT !.stream[c.encode_cnt] = EncInput(c), !.encode_cnt = 1 - c.encode_cnt]

\* SsbSipMfcEncExe: the input is encoded into the half encode_cnt names.
EncExecuted(c) == [c EXCEPT !.stream[c.encode_cnt] = EncInput(c)]

\* SsbSipMfcEncGetOutBuf: that half, and the other one is next.
EncOutput(c) == c.stream[c.encode_cnt]
EncOutputTaken(c) == [c EXCEPT !.encode_cnt = (c.encode_cnt + 1) % 2]

EncClosed(c) == ClosedContext
=============================================================================
