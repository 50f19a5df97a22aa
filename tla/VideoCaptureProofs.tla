-------------------------- MODULE VideoCaptureProofs --------------------------
(***************************************************************************)
(* What holds of the video thread between camera and encoder, for every    *)
(* number of buffers and every size of photo.  The properties are not      *)
(* inductive: that a frame comes from a camera that is wholly set up rests *)
(* on what each call of the set-up and of the two resets has left behind,  *)
(* in the thread and in the driver, wherever the one before it ended.      *)
(***************************************************************************)
EXTENDS VideoCapture, TLAPS

SetUpCalls == {"s_fmt", "s_fmt_is", "s_ctrl", "cacheable", "reqbufs", "querybuf",
               "qbuf", "streamon"}

\* Which calls each task is made of.
PlaceInv ==
    /\ task = "setup" =>
          at \in SetUpCalls \union
                 {"off", "open", "query", "s_input", "enum_fmt", "enc_open", "gone"}
    /\ task = "encoder" => at \in {"enc_init", "get_in_buf", "header", "header_out"}
    /\ task = "loop" => at \in {"poll", "dqbuf", "requeue", "encode", "get_out",
                                "hand_over", "recv"}
    /\ task = "snapshot" =>
          at \in SetUpCalls \union
                 {"streamoff", "munmap", "photo_poll", "photo_dqbuf", "convert",
                  "photo_requeue", "save", "stat", "say_true", "say_false",
                  "send_file", "gone", "off"}
    /\ task = "preview" => at \in SetUpCalls \union {"streamoff", "munmap"}
    /\ task = "cleanup" => at \in {"streamoff", "munmap", "close", "enc_close",
                                   "gone", "off"}

AfterReqBufs == {"querybuf", "qbuf", "streamon"}
AfterScenario == {"cacheable", "reqbufs"} \union AfterReqBufs
AfterIsp == {"s_ctrl"} \union AfterScenario
AfterFmt == {"s_fmt_is"} \union AfterIsp

\* What the calls made so far have left in the driver and in framebuf.
SettingInv ==
    /\ at \in AfterFmt => cam.fmt = Wanted
    /\ at \in AfterIsp => cam.isp = Wanted
    /\ at \in AfterScenario => cam.scenario = Wanted
    /\ at \in AfterReqBufs => cam.buffers = Wanted
    /\ at \in {"qbuf", "streamon"} => framebuf = [i \in Bufs |-> Wanted]
    /\ at = "streamon" => cam.queued = Bufs
    /\ at \notin {"off", "open", "enc_close", "gone"} => cam.open

\* Ready(s), but for the queue.
SetUp(s) ==
    /\ cam.open /\ cam.streaming
    /\ cam.fmt = s /\ cam.isp = s /\ cam.scenario = s
    /\ framebuf = [i \in Bufs |-> s]

\* The camera is in preview from the end of its set-up on, and for a photo
\* until the photo's frame is there.
StreamInv ==
    /\ at = "enc_open" \/ task \in {"encoder", "loop"} => SetUp("preview")
    /\ at = "enc_open" \/ task = "encoder" \/ (task = "loop" /\ at # "requeue")
          => cam.queued = Bufs
    /\ at = "requeue" => cam.queued \union {held} = Bufs
    /\ at \in {"photo_poll", "photo_dqbuf"} => SetUp("snapshot") /\ cam.queued = Bufs

\* Nothing is mapped before VIDIOC_QUERYBUF, nor behind the last munmap.
MappingInv ==
    /\ at \in {"open", "query", "s_input", "enum_fmt", "s_fmt", "s_fmt_is", "s_ctrl",
               "cacheable", "reqbufs", "querybuf", "close", "enc_close"} => Live = {}
    /\ at = "enc_close" => ~cam.open
    /\ at = "gone" /\ mishap = "none" => ~cam.open /\ ~enc.open /\ Live = {}

\* What is in the encoder, and in the half of its stream buffer that is next.
EncoderInv ==
    /\ at \in {"get_in_buf", "header", "header_out"} => enc.size = "preview"
    /\ task \in {"loop", "snapshot", "preview"} => enc.size = "preview"
    /\ at \in {"get_in_buf", "header"} => EncOutput(enc) = "header"
    /\ at = "header_out" => out = "header"
    /\ at \in {"requeue", "encode"} => enc.input = "new"
    /\ at = "get_out" => EncOutput(enc) = "new"
    /\ at = "hand_over" => out = "new"

\* The photo in hand, and whether it was answered.
PhotoInv ==
    /\ at = "convert" => picture = Nv12
    /\ at \in {"photo_requeue", "save", "stat", "say_true", "send_file"} =>
          jpeg = FramePlanes
    /\ at \in {"say_true", "send_file"} => file # "none" /\ size = "its"
    /\ at = "send_file" \/ task \in {"setup", "encoder", "loop", "preview"} => ~owed

Inv ==
    /\ TypeOK /\ PlaceInv /\ SettingInv /\ StreamInv /\ MappingInv
    /\ EncoderInv /\ PhotoInv

\* How the actions are abbreviated.
USE DEF Step, device, others, photoVars, threadVars

\* An offset into a plane of w by h stays in the plane.
LEMMA OffsetInPlane ==
    ASSUME NEW w \in Nat, NEW h \in Nat, NEW r \in 0 .. h - 1, NEW x \in 0 .. w - 1
    PROVE  w * r + x \in 0 .. w * h - 1
<1>1. h - r - 1 \in Nat
  OBVIOUS
<1>2. PICK d \in Nat : h = r + 1 + d
  BY <1>1
<1>3. w * h = w * r + w + w * d
  BY <1>2
<1>4. w * d \in Nat /\ w * r \in Nat
  OBVIOUS
<1> QED
  BY <1>3, <1>4

\* Dimensions of a photo and of its chroma planes.
LEMMA Quarters ==
    /\ ChromaRow \in Nat /\ Height \div 2 \in Nat /\ Area \in Nat
    /\ Area \div 4 = ChromaRow * (Height \div 2)
    /\ Area \div 2 = 2 * (Area \div 4)
    /\ Area = 4 * (Area \div 4)
<1>1. PICK a \in Nat : Width = 2 * a
  BY CaptureAssumption
<1>2. PICK b \in Nat : Height = 2 * b
  BY CaptureAssumption
<1>3. a * b \in Nat
  OBVIOUS
<1>4. Width * Height = 4 * (a * b)
  BY <1>1, <1>2
<1>5. ChromaRow = a /\ Height \div 2 = b
  BY <1>1, <1>2 DEF ChromaRow
<1> QED
  BY <1>3, <1>4, <1>5 DEF Area

\* ConvertNV12toIYUV puts the three planes one behind the other.
LEMMA FrameConverted ==
    ASSUME NEW k \in Nat
    PROVE  /\ k < Area => ConvertNV12toIYUV(Nv12)[k] = <<"Y", k>>
           /\ k < Area \div 4 =>
                 /\ ConvertNV12toIYUV(Nv12)[Area + k] = <<"U", k>>
                 /\ ConvertNV12toIYUV(Nv12)[Area + Area \div 4 + k] = <<"V", k>>
<1> DEFINE n == Area \div 4
<1>0. n \in Nat /\ Area = 4 * n /\ Area \div 2 = 2 * n
  BY Quarters
<1>1. DOMAIN Nv12 = 0 .. 6 * n - 1
  BY <1>0 DEF Nv12
<1>2. ASSUME k < Area PROVE ConvertNV12toIYUV(Nv12)[k] = <<"Y", k>>
  <2>1. k \in DOMAIN Nv12
    BY <1>0, <1>1, <1>2
  <2>2. Nv12[k] = <<"Y", k>>
    BY <1>0, <1>2 DEF Nv12
  <2> QED
    BY <1>2, <2>1, <2>2 DEF ConvertNV12toIYUV
<1>3. ASSUME k < n PROVE ConvertNV12toIYUV(Nv12)[Area + k] = <<"U", k>>
  <2>1. Area + k \in DOMAIN Nv12 /\ ~(Area + k < Area) /\ (Area + k) - Area = k
    BY <1>0, <1>1, <1>3
  <2>2. ConvertNV12toIYUV(Nv12)[Area + k] = Nv12[Area + 2 * k]
    BY <1>3, <2>1 DEF ConvertNV12toIYUV
  <2>3. /\ Area + 2 * k \in 0 .. (Area + Area \div 2) - 1 /\ ~(Area + 2 * k < Area)
        /\ (Area + 2 * k) - Area = 2 * k /\ (2 * k) % 2 = 0 /\ (2 * k) \div 2 = k
    BY <1>0, <1>3
  <2>4. Nv12[Area + 2 * k] = <<"U", k>>
    BY <2>3 DEF Nv12
  <2> QED
    BY <2>2, <2>4
<1>4. ASSUME k < n PROVE ConvertNV12toIYUV(Nv12)[Area + n + k] = <<"V", k>>
  <2>1. /\ Area + n + k \in DOMAIN Nv12 /\ ~(Area + n + k < Area)
        /\ ~((Area + n + k) - Area < n)
        /\ ((Area + n + k) - Area) - n = k
    BY <1>0, <1>1, <1>4
  <2>2. ConvertNV12toIYUV(Nv12)[Area + n + k] = Nv12[Area + (2 * k + 1)]
    BY <2>1 DEF ConvertNV12toIYUV
  <2>3. /\ Area + (2 * k + 1) \in 0 .. (Area + Area \div 2) - 1
        /\ ~(Area + (2 * k + 1) < Area)
        /\ (Area + (2 * k + 1)) - Area = 2 * k + 1
        /\ (2 * k + 1) % 2 # 0 /\ (2 * k + 1) \div 2 = k
    BY <1>0, <1>4
  <2>4. Nv12[Area + (2 * k + 1)] = <<"V", k>>
    BY <2>3 DEF Nv12
  <2> QED
    BY <2>2, <2>4
<1> QED
  BY <1>2, <1>3, <1>4

\* What is compressed is the frame.
LEMMA PlanesOfFrame == JpegPlanes(ConvertNV12toIYUV(Nv12)) = FramePlanes
<1> DEFINE image == ConvertNV12toIYUV(Nv12)
<1> HIDE DEF image
<1>0. /\ Width \in Nat /\ Height \in Nat /\ Area \in Nat
      /\ ChromaRow \in Nat /\ Height \div 2 \in Nat /\ Area \div 4 \in Nat
      /\ Area \div 4 = ChromaRow * (Height \div 2)
  BY CaptureAssumption, Quarters
<1>1. ASSUME NEW r \in 0 .. Height - 1, NEW x \in 0 .. Width - 1
      PROVE  image[0 + Width * r + x] = <<"Y", Width * r + x>>
  <2>1. Width * r + x \in 0 .. Area - 1
    BY <1>0, OffsetInPlane DEF Area
  <2>2. 0 + Width * r + x = Width * r + x
    BY <1>0
  <2> QED
    BY <1>0, <2>1, <2>2, FrameConverted DEF image
<1>2. ASSUME NEW r \in 0 .. (Height \div 2) - 1, NEW x \in 0 .. ChromaRow - 1
      PROVE  /\ image[Area + ChromaRow * r + x] = <<"U", ChromaRow * r + x>>
             /\ image[Area + Area \div 4 + ChromaRow * r + x] = <<"V", ChromaRow * r + x>>
  <2>1. ChromaRow * r + x \in 0 .. Area \div 4 - 1
    BY <1>0, OffsetInPlane
  <2>2. ChromaRow * r \in Nat
    BY <1>0
  <2>3. /\ Area + ChromaRow * r + x = Area + (ChromaRow * r + x)
        /\ Area + Area \div 4 + ChromaRow * r + x
              = Area + Area \div 4 + (ChromaRow * r + x)
    BY <1>0, <2>2
  <2>4. ChromaRow * r + x \in Nat /\ ChromaRow * r + x < Area \div 4
    BY <1>0, <2>1
  <2> QED
    BY <2>3, <2>4, FrameConverted DEF image
<1>3. JpegPlanes(image) = FramePlanes
  BY <1>1, <1>2 DEF JpegPlanes, FramePlanes
<1> QED
  BY <1>3 DEF image

\* The encoder's calls keep the type of its context.
LEMMA EncoderTypes ==
    ASSUME NEW c \in Contexts
    PROVE  /\ ClosedContext \in Contexts /\ EncOpened(c) \in Contexts
           /\ EncInitialised(c, H264Param) \in Contexts
           /\ EncOutputTaken(c) \in Contexts
           /\ EncOutput(c) \in Contents
<1>1. 0 \in Halves /\ (c.encode_cnt + 1) % 2 \in Halves
  BY DEF Contexts, Halves
<1>2. "header" \in Contents /\ "none" \in Contents /\ "preview" \in Sizes
  BY DEF Contents, Sizes
<1>3. ClosedContext \in Contexts /\ EncOpened(c) \in Contexts
  BY <1>1, <1>2, Zenon DEF EncOpened, ClosedContext, Contexts
<1>4. EncInitialised(c, H264Param) \in Contexts
  BY <1>1, <1>2, Zenon DEF EncInitialised, Sized, H264Param, Contexts
<1>5. EncOutputTaken(c) \in Contexts
  BY <1>1, Zenon DEF EncOutputTaken, Contexts
<1>6. EncOutput(c) \in Contents
  BY Zenon DEF EncOutput, Contexts
<1> QED
  BY <1>3, <1>4, <1>5, <1>6

\* The types are kept by every step.
LEMMA CameraTyped == ASSUME Inv, Next PROVE cam' \in Cameras
<1>1. CASE DeviceNext
  <2>1. CASE Open
    BY <2>1, Zenon DEF Inv, TypeOK, Cameras, ClosedCamera, Sizes, Bufs, Wanted, Open
  <2>2. CASE SFmt \/ SFmtIs \/ SCtrl
    BY <2>2, SMT DEF Inv, TypeOK, Cameras, ClosedCamera, Sizes, Bufs, Wanted, SFmt,
         SFmtIs, SCtrl
  <2>3. CASE ReqBufs
    BY <2>3, Zenon DEF Inv, TypeOK, Cameras, ClosedCamera, Sizes, Bufs, Wanted, ReqBufs
  <2>4. CASE QBuf
    BY <2>4, Zenon DEF Inv, TypeOK, Cameras, ClosedCamera, Sizes, Bufs, Wanted, QBuf,
         Queued
  <2>5. CASE StreamOn
    BY <2>5, Zenon DEF Inv, TypeOK, Cameras, ClosedCamera, Sizes, Bufs, Wanted,
         StreamOn
  <2>6. CASE StreamOff
    BY <2>6, Zenon DEF Inv, TypeOK, Cameras, ClosedCamera, Sizes, Bufs, Wanted,
         StreamOff
  <2>7. CASE Close
    BY <2>7, Zenon DEF Inv, TypeOK, Cameras, ClosedCamera, Sizes, Bufs, Wanted, Close
  <2>8. CASE Query \/ SInput \/ EnumFmt \/ QueryBuf \/ Munmap
    BY <2>8, Zenon DEF Inv, TypeOK, Cameras, ClosedCamera, Sizes, Bufs, Wanted, Query,
         SInput, EnumFmt, QueryBuf, Munmap
  <2> QED
    BY <1>1, <2>1, <2>2, <2>3, <2>4, <2>5, <2>6, <2>7, <2>8 DEF DeviceNext
<1>2. CASE EncoderNext
  BY <1>2, Zenon DEF Inv, TypeOK, Cameras, ClosedCamera, Sizes, Bufs, Wanted,
       EncoderNext, EncOpen, EncInit, EncGetInBuf, Header, EncClose
<1>3. CASE LoopNext
  <2>1. CASE DqBuf
    BY <2>1, Zenon DEF Inv, TypeOK, Cameras, ClosedCamera, Sizes, Bufs, Wanted, DqBuf,
         Dequeue
  <2>2. CASE Requeue
    BY <2>2, Zenon DEF Inv, TypeOK, Cameras, ClosedCamera, Sizes, Bufs, Wanted, Requeue
  <2>3. CASE Poll \/ Encode \/ GetOut \/ NoRequest \/ TakeRequest
    BY <2>3, Zenon DEF Inv, TypeOK, Cameras, ClosedCamera, Sizes, Bufs, Wanted, Poll,
         Encode, GetOut, NoRequest, TakeRequest
  <2> QED
    BY <1>3, <2>1, <2>2, <2>3 DEF LoopNext
<1>4. CASE PhotoNext
  <2>1. CASE PhotoDqBuf
    BY <2>1, Zenon DEF Inv, TypeOK, Cameras, ClosedCamera, Sizes, Bufs, Wanted,
         PhotoDqBuf, Dequeue
  <2>2. CASE PhotoRequeue
    BY <2>2, Zenon DEF Inv, TypeOK, Cameras, ClosedCamera, Sizes, Bufs, Wanted,
         PhotoRequeue
  <2>3. CASE PhotoPoll \/ Compress \/ Save \/ Stat \/ SayFalse \/ SayTrue \/ SendFile
    BY <2>3, Zenon DEF Inv, TypeOK, Cameras, ClosedCamera, Sizes, Bufs, Wanted,
         PhotoPoll, Compress, Save, Stat, SayFalse, SayTrue, SendFile
  <2> QED
    BY <1>4, <2>1, <2>2, <2>3 DEF PhotoNext
<1>5. CASE FailNext
  BY <1>5, ZenonT(40) DEF Inv, TypeOK, Cameras, ClosedCamera, Sizes, Bufs, Wanted, FailNext,
       SetupFails, PhotoFails, SaveFails, ThreadFails, SendFileFails, CleanupFails,
       HalfDone, Queued
<1>6. CASE \/ Cancelled \/ CancelledEarly \/ HeaderOut \/ HandOver \/ Create
           \/ Cancel \/ Join \/ Ask
  <2>1. CASE Create
    BY <2>1, Zenon DEF Inv, TypeOK, Cameras, ClosedCamera, Sizes, Bufs, Wanted, Create
  <2>2. CASE \/ Cancelled \/ CancelledEarly \/ HeaderOut \/ HandOver
             \/ Cancel \/ Join \/ Ask
    BY <2>2, Zenon DEF Inv, TypeOK, Cameras, ClosedCamera, Sizes, Bufs, Wanted,
         Cancelled, CancelledEarly, HeaderOut, HandOver, Cancel, Join, Ask
  <2> QED
    BY <1>6, <2>1, <2>2
<1> QED
  BY <1>1, <1>2, <1>3, <1>4, <1>5, <1>6 DEF Next, Progress

LEMMA EncoderTyped == ASSUME Inv, Next PROVE enc' \in Contexts /\ out' \in Contents
<1>1. CASE DeviceNext
  BY <1>1, EncoderTypes, ZenonT(40) DEF Inv, TypeOK, Contexts, Contents, DeviceNext, Open,
       Query, SInput, EnumFmt, SFmt, SFmtIs, SCtrl, ReqBufs, QueryBuf, QBuf, StreamOn,
       StreamOff, Munmap, Close
<1>2. CASE EncoderNext
  <2>1. CASE EncOpen
    BY <2>1, EncoderTypes, Zenon DEF Inv, TypeOK, Contexts, Contents, EncOpen
  <2>2. CASE EncInit
    BY <2>2, EncoderTypes, Zenon DEF Inv, TypeOK, Contexts, Contents, EncInit
  <2>3. CASE EncGetInBuf
    BY <2>3, EncoderTypes, Zenon DEF Inv, TypeOK, Contexts, Contents, EncGetInBuf,
         EncInBuf
  <2>4. CASE Header
    BY <2>4, EncoderTypes, Zenon DEF Inv, TypeOK, Contexts, Contents, Header
  <2>5. CASE EncClose
    BY <2>5, EncoderTypes, Zenon DEF Inv, TypeOK, Contexts, Contents, EncClose,
         EncClosed
  <2> QED
    BY <1>2, <2>1, <2>2, <2>3, <2>4, <2>5 DEF EncoderNext
<1>3. CASE LoopNext
  <2>1. CASE DqBuf
    BY <2>1, EncoderTypes, Zenon DEF Inv, TypeOK, Contexts, Contents, DqBuf, EncFilled,
         Aged
  <2>2. CASE Encode
    BY <2>2, EncoderTypes, ZenonT(40) DEF Inv, TypeOK, Contexts, Contents, Encode,
         EncInBufSet, EncInput, EncExecuted
  <2>3. CASE GetOut
    BY <2>3, EncoderTypes, Zenon DEF Inv, TypeOK, Contexts, Contents, GetOut
  <2>4. CASE Poll \/ Requeue \/ NoRequest \/ TakeRequest
    BY <2>4, EncoderTypes, ZenonT(40) DEF Inv, TypeOK, Contexts, Contents, Poll, Requeue,
         NoRequest, TakeRequest
  <2> QED
    BY <1>3, <2>1, <2>2, <2>3, <2>4 DEF LoopNext
<1>4. CASE PhotoNext
  BY <1>4, EncoderTypes, Zenon DEF Inv, TypeOK, Contexts, Contents, PhotoNext,
       PhotoPoll, PhotoDqBuf, Compress, PhotoRequeue, Save, Stat, SayFalse, SayTrue,
       SendFile
<1>5. CASE FailNext
  BY <1>5, EncoderTypes, ZenonT(40) DEF Inv, TypeOK, Contexts, Contents, FailNext,
       SetupFails, PhotoFails, SaveFails, ThreadFails, SendFileFails, CleanupFails
<1>6. CASE \/ Cancelled \/ CancelledEarly \/ HeaderOut \/ HandOver \/ Create
           \/ Cancel \/ Join \/ Ask
  <2>1. CASE Create
    BY <2>1, EncoderTypes, Zenon DEF Inv, TypeOK, Contexts, Contents, Create
  <2>2. CASE \/ Cancelled \/ CancelledEarly \/ HeaderOut \/ HandOver
             \/ Cancel \/ Join \/ Ask
    BY <2>2, EncoderTypes, ZenonT(40) DEF Inv, TypeOK, Contexts, Contents, Cancelled,
         CancelledEarly, HeaderOut, HandOver, Cancel, Join, Ask
  <2> QED
    BY <1>6, <2>1, <2>2
<1> QED
  BY <1>1, <1>2, <1>3, <1>4, <1>5, <1>6 DEF Next, Progress

LEMMA FlagsTyped ==
    ASSUME Inv, Next
    PROVE  cancelled' \in BOOLEAN /\ owed' \in BOOLEAN
<1>1. CASE DeviceNext
  BY <1>1, Zenon DEF Inv, TypeOK, DeviceNext, Open, Query, SInput, EnumFmt, SFmt,
       SFmtIs, SCtrl, ReqBufs, QueryBuf, QBuf, StreamOn, StreamOff, Munmap, Close
<1>2. CASE EncoderNext
  BY <1>2, Zenon DEF Inv, TypeOK, EncoderNext, EncOpen, EncInit, EncGetInBuf, Header,
       EncClose
<1>3. CASE LoopNext
  BY <1>3, Zenon DEF Inv, TypeOK, LoopNext, Poll, DqBuf, Requeue, Encode, GetOut,
       NoRequest, TakeRequest
<1>4. CASE PhotoNext
  BY <1>4, Zenon DEF Inv, TypeOK, PhotoNext, PhotoPoll, PhotoDqBuf, Compress,
       PhotoRequeue, Save, Stat, SayFalse, SayTrue, SendFile
<1>5. CASE FailNext
  BY <1>5, Zenon DEF Inv, TypeOK, FailNext, SetupFails, PhotoFails, SaveFails,
       ThreadFails, SendFileFails, CleanupFails
<1>6. CASE \/ Cancelled \/ CancelledEarly \/ HeaderOut \/ HandOver \/ Create
           \/ Cancel \/ Join \/ Ask
  BY <1>6, Zenon DEF Inv, TypeOK, Cancelled, CancelledEarly, HeaderOut, HandOver,
       Create, Cancel, Join, Ask
<1> QED
  BY <1>1, <1>2, <1>3, <1>4, <1>5, <1>6 DEF Next, Progress

LEMMA PlaceTyped == ASSUME Inv, Next PROVE at' \in Places
<1>1. CASE DeviceNext
  BY <1>1 DEF Inv, TypeOK, Places, ResetCalls, DeviceNext, Open, Query, SInput,
       EnumFmt, SFmt, SFmtIs, SCtrl, ReqBufs, QueryBuf, QBuf, StreamOn, StreamOff,
       Munmap, Close, AfterStreamOn
<1>2. CASE EncoderNext
  BY <1>2 DEF Inv, TypeOK, Places, ResetCalls, EncoderNext, EncOpen, EncInit,
       EncGetInBuf, Header, EncClose
<1>3. CASE LoopNext
  BY <1>3 DEF Inv, TypeOK, Places, ResetCalls, LoopNext, Poll, DqBuf, Requeue, Encode,
       GetOut, NoRequest, TakeRequest, ToReset
<1>4. CASE PhotoNext
  BY <1>4 DEF Inv, TypeOK, Places, ResetCalls, PhotoNext, PhotoPoll, PhotoDqBuf,
       Compress, PhotoRequeue, Save, Stat, SayFalse, SayTrue, SendFile, ToReset
<1>5. CASE FailNext
  BY <1>5 DEF Inv, TypeOK, Places, ResetCalls, FailNext, SetupFails, PhotoFails,
       SaveFails, ThreadFails, SendFileFails, CleanupFails, ToHandler
<1>6. CASE \/ Cancelled \/ CancelledEarly \/ HeaderOut \/ HandOver \/ Create
           \/ Cancel \/ Join \/ Ask
  BY <1>6 DEF Inv, TypeOK, Places, ResetCalls, Cancelled, CancelledEarly, HeaderOut,
       HandOver, Create, Cancel, Join, Ask, ToHandler
<1> QED
  BY <1>1, <1>2, <1>3, <1>4, <1>5, <1>6 DEF Next, Progress

LEMMA BuffersTyped ==
    ASSUME Inv, Next
    PROVE  framebuf' \in [Bufs -> Address] /\ held' \in Bufs
<1>1. CASE DeviceNext
  BY <1>1, CaptureAssumption DEF Inv, TypeOK, Bufs, Address, Sizes, Cameras,
       SettingInv, Wanted, AfterFmt, AfterIsp, AfterScenario, AfterReqBufs, DeviceNext,
       Open, Query, SInput, EnumFmt, SFmt, SFmtIs, SCtrl, ReqBufs, QueryBuf, QBuf,
       StreamOn, StreamOff, Munmap, Close, Mapped
<1>2. CASE EncoderNext
  BY <1>2, CaptureAssumption DEF Inv, TypeOK, Bufs, Address, Sizes, Cameras,
       SettingInv, Wanted, AfterFmt, AfterIsp, AfterScenario, AfterReqBufs,
       EncoderNext, EncOpen, EncInit, EncGetInBuf, Header, EncClose
<1>3. CASE LoopNext
  BY <1>3, CaptureAssumption DEF Inv, TypeOK, Bufs, Address, Sizes, Cameras,
       SettingInv, Wanted, AfterFmt, AfterIsp, AfterScenario, AfterReqBufs, LoopNext,
       Poll, DqBuf, Requeue, Encode, GetOut, NoRequest, TakeRequest, Dequeue
<1>4. CASE PhotoNext
  BY <1>4, CaptureAssumption DEF Inv, TypeOK, Bufs, Address, Sizes, Cameras,
       SettingInv, Wanted, AfterFmt, AfterIsp, AfterScenario, AfterReqBufs, PhotoNext,
       PhotoPoll, PhotoDqBuf, Compress, PhotoRequeue, Save, Stat, SayFalse, SayTrue,
       SendFile, Dequeue
<1>5. CASE FailNext
  BY <1>5, CaptureAssumption DEF Inv, TypeOK, Bufs, Address, Sizes, Cameras,
       SettingInv, Wanted, AfterFmt, AfterIsp, AfterScenario, AfterReqBufs, FailNext,
       SetupFails, PhotoFails, SaveFails, ThreadFails, SendFileFails, CleanupFails,
       HalfDone, Mapped
<1>6. CASE \/ Cancelled \/ CancelledEarly \/ HeaderOut \/ HandOver \/ Create
           \/ Cancel \/ Join \/ Ask
  BY <1>6, CaptureAssumption DEF Inv, TypeOK, Bufs, Address, Sizes, Cameras,
       SettingInv, Wanted, AfterFmt, AfterIsp, AfterScenario, AfterReqBufs, Cancelled,
       CancelledEarly, HeaderOut, HandOver, Create, Cancel, Join, Ask
<1> QED
  BY <1>1, <1>2, <1>3, <1>4, <1>5, <1>6 DEF Next, Progress

LEMMA RestTyped ==
    ASSUME Inv, Next
    PROVE  /\ task' \in {"setup", "encoder", "loop", "snapshot", "preview", "cleanup"}
           /\ asked' \in 0 .. MaxAsked
           /\ file' \in {"none", "short", "whole"}
           /\ size' \in {"zero", "its", "earlier"}
           /\ mishap' \in {"none", "early", "streamoff", "returned"}
<1>1. CASE DeviceNext
  BY <1>1, CaptureAssumption DEF Inv, TypeOK, DeviceNext, Open, Query, SInput, EnumFmt,
       SFmt, SFmtIs, SCtrl, ReqBufs, QueryBuf, QBuf, StreamOn, StreamOff, Munmap, Close
<1>2. CASE EncoderNext
  BY <1>2, CaptureAssumption DEF Inv, TypeOK, EncoderNext, EncOpen, EncInit,
       EncGetInBuf, Header, EncClose
<1>3. CASE LoopNext
  BY <1>3, CaptureAssumption DEF Inv, TypeOK, LoopNext, Poll, DqBuf, Requeue, Encode,
       GetOut, NoRequest, TakeRequest, ToReset
<1>4. CASE PhotoNext
  BY <1>4, CaptureAssumption DEF Inv, TypeOK, PhotoNext, PhotoPoll, PhotoDqBuf,
       Compress, PhotoRequeue, Save, Stat, SayFalse, SayTrue, SendFile, ToReset
<1>5. CASE FailNext
  BY <1>5, CaptureAssumption DEF Inv, TypeOK, FailNext, SetupFails, PhotoFails,
       SaveFails, ThreadFails, SendFileFails, CleanupFails, ToHandler
<1>6. CASE \/ Cancelled \/ CancelledEarly \/ HeaderOut \/ HandOver \/ Create
           \/ Cancel \/ Join \/ Ask
  BY <1>6, CaptureAssumption DEF Inv, TypeOK, Cancelled, CancelledEarly, HeaderOut,
       HandOver, Create, Cancel, Join, Ask, ToHandler
<1> QED
  BY <1>1, <1>2, <1>3, <1>4, <1>5, <1>6 DEF Next, Progress

\* Where the thread is fits what it is doing.
LEMMA PlaceStep == ASSUME Inv, Next PROVE PlaceInv'
<1>1. CASE DeviceNext
  BY <1>1 DEF Inv, TypeOK, PlaceInv, SetUpCalls, ResetCalls, DeviceNext, Open, Query,
       SInput, EnumFmt, SFmt, SFmtIs, SCtrl, ReqBufs, QueryBuf, QBuf, StreamOn,
       StreamOff, Munmap, Close, AfterStreamOn
<1>2. CASE EncoderNext
  BY <1>2 DEF Inv, TypeOK, PlaceInv, SetUpCalls, ResetCalls, EncoderNext, EncOpen,
       EncInit, EncGetInBuf, Header, EncClose
<1>3. CASE LoopNext
  BY <1>3 DEF Inv, TypeOK, PlaceInv, SetUpCalls, ResetCalls, LoopNext, Poll, DqBuf,
       Requeue, Encode, GetOut, NoRequest, TakeRequest, ToReset
<1>4. CASE PhotoNext
  BY <1>4 DEF Inv, TypeOK, PlaceInv, SetUpCalls, ResetCalls, PhotoNext, PhotoPoll,
       PhotoDqBuf, Compress, PhotoRequeue, Save, Stat, SayFalse, SayTrue, SendFile,
       ToReset
<1>5. CASE FailNext
  BY <1>5 DEF Inv, TypeOK, PlaceInv, SetUpCalls, ResetCalls, FailNext, SetupFails,
       PhotoFails, SaveFails, ThreadFails, SendFileFails, CleanupFails, ToHandler
<1>6. CASE \/ Cancelled \/ CancelledEarly \/ HeaderOut \/ HandOver \/ Create
           \/ Cancel \/ Join \/ Ask
  BY <1>6 DEF Inv, TypeOK, PlaceInv, SetUpCalls, ResetCalls, Cancelled,
       CancelledEarly, HeaderOut, HandOver, Create, Cancel, Join, Ask, ToHandler
<1> QED
  BY <1>1, <1>2, <1>3, <1>4, <1>5, <1>6 DEF Next, Progress

\* Each call of a set-up leaves what the later ones build on; those that fail
\* leave nothing the next reset does not make anew.
LEMMA SettingStep == ASSUME Inv, Next PROVE SettingInv'
<1>1. CASE DeviceNext
  <2>1. CASE Open \/ Query \/ SInput \/ EnumFmt
    BY <2>1, CaptureAssumption DEF Inv, PlaceInv, SettingInv, Wanted, AfterFmt,
         AfterIsp, AfterScenario, AfterReqBufs, TypeOK, Cameras, ClosedCamera, Bufs,
         SetUpCalls, ResetCalls, Open, Query, SInput, EnumFmt
  <2>2. CASE SFmt \/ SFmtIs \/ SCtrl
    BY <2>2, CaptureAssumption, SMTT(30) DEF Inv, PlaceInv, SettingInv, Wanted, AfterFmt,
         AfterIsp, AfterScenario, AfterReqBufs, TypeOK, Cameras, ClosedCamera, Bufs,
         SetUpCalls, ResetCalls, SFmt, SFmtIs, SCtrl
  <2>3. CASE ReqBufs
    BY <2>3, CaptureAssumption DEF Inv, PlaceInv, SettingInv, Wanted, AfterFmt,
         AfterIsp, AfterScenario, AfterReqBufs, TypeOK, Cameras, ClosedCamera, Bufs,
         SetUpCalls, ResetCalls, ReqBufs
  <2>4. CASE QueryBuf
    BY <2>4, CaptureAssumption DEF Inv, PlaceInv, SettingInv, Wanted, AfterFmt,
         AfterIsp, AfterScenario, AfterReqBufs, TypeOK, Cameras, ClosedCamera, Bufs,
         SetUpCalls, ResetCalls, QueryBuf, Mapped
  <2>5. CASE QBuf
    BY <2>5, CaptureAssumption DEF Inv, PlaceInv, SettingInv, Wanted, AfterFmt,
         AfterIsp, AfterScenario, AfterReqBufs, TypeOK, Cameras, ClosedCamera, Bufs,
         SetUpCalls, ResetCalls, QBuf, Queued
  <2>6. CASE StreamOn \/ StreamOff \/ Munmap \/ Close
    BY <2>6, CaptureAssumption, ZenonT(40) DEF Inv, PlaceInv, SettingInv, Wanted, AfterFmt,
         AfterIsp, AfterScenario, AfterReqBufs, TypeOK, Cameras, ClosedCamera, Bufs,
         SetUpCalls, ResetCalls, StreamOn, StreamOff, Munmap, Close, AfterStreamOn
  <2> QED
    BY <1>1, <2>1, <2>2, <2>3, <2>4, <2>5, <2>6 DEF DeviceNext
<1>2. CASE EncoderNext
  BY <1>2, CaptureAssumption DEF Inv, PlaceInv, SettingInv, Wanted, AfterFmt, AfterIsp,
       AfterScenario, AfterReqBufs, TypeOK, Cameras, ClosedCamera, Bufs, SetUpCalls,
       ResetCalls, EncoderNext, EncOpen, EncInit, EncGetInBuf, Header, EncClose
<1>3. CASE LoopNext
  BY <1>3, CaptureAssumption DEF Inv, PlaceInv, SettingInv, Wanted, AfterFmt, AfterIsp,
       AfterScenario, AfterReqBufs, TypeOK, Cameras, ClosedCamera, Bufs, SetUpCalls,
       ResetCalls, LoopNext, Poll, DqBuf, Requeue, Encode, GetOut, NoRequest,
       TakeRequest, Dequeue, ToReset
<1>4. CASE PhotoNext
  BY <1>4, CaptureAssumption DEF Inv, PlaceInv, SettingInv, Wanted, AfterFmt, AfterIsp,
       AfterScenario, AfterReqBufs, TypeOK, Cameras, ClosedCamera, Bufs, SetUpCalls,
       ResetCalls, PhotoNext, PhotoPoll, PhotoDqBuf, Compress, PhotoRequeue, Save,
       Stat, SayFalse, SayTrue, SendFile, Dequeue, ToReset
<1>5. CASE FailNext
  BY <1>5, CaptureAssumption DEF Inv, PlaceInv, SettingInv, Wanted, AfterFmt, AfterIsp,
       AfterScenario, AfterReqBufs, TypeOK, Cameras, ClosedCamera, Bufs, SetUpCalls,
       ResetCalls, FailNext, SetupFails, PhotoFails, SaveFails, ThreadFails,
       SendFileFails, CleanupFails, HalfDone, Mapped, Queued, ToHandler
<1>6. CASE \/ Cancelled \/ CancelledEarly \/ HeaderOut \/ HandOver \/ Create
           \/ Cancel \/ Join \/ Ask
  BY <1>6, CaptureAssumption DEF Inv, PlaceInv, SettingInv, Wanted, AfterFmt,
       AfterIsp, AfterScenario, AfterReqBufs, TypeOK, Cameras, ClosedCamera, Bufs,
       SetUpCalls, ResetCalls, Cancelled, CancelledEarly, HeaderOut, HandOver, Create,
       Cancel, Join, Ask, ToHandler
<1> QED
  BY <1>1, <1>2, <1>3, <1>4, <1>5, <1>6 DEF Next, Progress

\* The camera stays in preview through the main loop, and comes back to it.
LEMMA StreamStep == ASSUME Inv, Next PROVE StreamInv'
<1>1. CASE DeviceNext
  BY <1>1 DEF Inv, PlaceInv, SettingInv, StreamInv, SetUp, Wanted, AfterFmt, AfterIsp,
       AfterScenario, AfterReqBufs, TypeOK, Cameras, Bufs, SetUpCalls, DeviceNext,
       Open, Query, SInput, EnumFmt, SFmt, SFmtIs, SCtrl, ReqBufs, QueryBuf, QBuf,
       StreamOn, StreamOff, Munmap, Close, Mapped, Queued, AfterStreamOn
<1>2. CASE EncoderNext
  BY <1>2 DEF Inv, PlaceInv, SettingInv, StreamInv, SetUp, Wanted, AfterFmt, AfterIsp,
       AfterScenario, AfterReqBufs, TypeOK, Cameras, Bufs, SetUpCalls, EncoderNext,
       EncOpen, EncInit, EncGetInBuf, Header, EncClose
<1>3. CASE LoopNext
  <2>1. CASE DqBuf
    BY <2>1, CaptureAssumption DEF Inv, PlaceInv, SettingInv, StreamInv, SetUp, Wanted,
         AfterFmt, AfterIsp, AfterScenario, AfterReqBufs, TypeOK, Cameras, Bufs,
         SetUpCalls, DqBuf, Dequeue
  <2>2. CASE Requeue
    BY <2>2 DEF Inv, PlaceInv, SettingInv, StreamInv, SetUp, Wanted, AfterFmt,
         AfterIsp, AfterScenario, AfterReqBufs, TypeOK, Cameras, Bufs, SetUpCalls,
         Requeue
  <2>3. CASE Poll \/ Encode \/ GetOut \/ NoRequest \/ TakeRequest
    BY <2>3 DEF Inv, PlaceInv, SettingInv, StreamInv, SetUp, Wanted, AfterFmt,
         AfterIsp, AfterScenario, AfterReqBufs, TypeOK, Cameras, Bufs, SetUpCalls,
         Poll, Encode, GetOut, NoRequest, TakeRequest, ToReset
  <2> QED
    BY <1>3, <2>1, <2>2, <2>3 DEF LoopNext
<1>4. CASE PhotoNext
  BY <1>4 DEF Inv, PlaceInv, SettingInv, StreamInv, SetUp, Wanted, AfterFmt, AfterIsp,
       AfterScenario, AfterReqBufs, TypeOK, Cameras, Bufs, SetUpCalls, PhotoNext,
       PhotoPoll, PhotoDqBuf, Compress, PhotoRequeue, Save, Stat, SayFalse, SayTrue,
       SendFile, Dequeue, ToReset
<1>5. CASE FailNext
  BY <1>5 DEF Inv, PlaceInv, SettingInv, StreamInv, SetUp, Wanted, AfterFmt, AfterIsp,
       AfterScenario, AfterReqBufs, TypeOK, Cameras, Bufs, SetUpCalls, FailNext,
       SetupFails, PhotoFails, SaveFails, ThreadFails, SendFileFails, CleanupFails,
       HalfDone, Mapped, Queued, ResetCalls, ToHandler
<1>6. CASE \/ Cancelled \/ CancelledEarly \/ HeaderOut \/ HandOver \/ Create
           \/ Cancel \/ Join \/ Ask
  BY <1>6 DEF Inv, PlaceInv, SettingInv, StreamInv, SetUp, Wanted, AfterFmt, AfterIsp,
       AfterScenario, AfterReqBufs, TypeOK, Cameras, Bufs, SetUpCalls, Cancelled,
       CancelledEarly, HeaderOut, HandOver, Create, Cancel, Join, Ask, ToHandler
<1> QED
  BY <1>1, <1>2, <1>3, <1>4, <1>5, <1>6 DEF Next, Progress

\* What is mapped is unmapped before it is mapped again.
LEMMA MappingStep == ASSUME Inv, Next PROVE MappingInv'
<1>1. CASE DeviceNext
  <2>1. CASE Open \/ Query \/ SInput \/ EnumFmt
    BY <2>1 DEF Inv, PlaceInv, MappingInv, SettingInv, Live, SetUpCalls, Sizes,
         AfterFmt, AfterIsp, AfterScenario, AfterReqBufs, Bufs, TypeOK, Contexts,
         ClosedCamera, ClosedContext, Open, Query, SInput, EnumFmt
  <2>2. CASE SFmt \/ SFmtIs \/ SCtrl \/ ReqBufs
    BY <2>2 DEF Inv, PlaceInv, MappingInv, SettingInv, Live, SetUpCalls, Sizes,
         AfterFmt, AfterIsp, AfterScenario, AfterReqBufs, Bufs, TypeOK, Contexts,
         ClosedCamera, ClosedContext, SFmt, SFmtIs, SCtrl, ReqBufs
  <2>3. CASE QueryBuf
    BY <2>3 DEF Inv, PlaceInv, MappingInv, SettingInv, Live, SetUpCalls, Sizes,
         AfterFmt, AfterIsp, AfterScenario, AfterReqBufs, Bufs, TypeOK, Contexts,
         ClosedCamera, ClosedContext, QueryBuf, Mapped
  <2>4. CASE QBuf
    BY <2>4 DEF Inv, PlaceInv, MappingInv, SettingInv, Live, SetUpCalls, Sizes,
         AfterFmt, AfterIsp, AfterScenario, AfterReqBufs, Bufs, TypeOK, Contexts,
         ClosedCamera, ClosedContext, QBuf, Queued
  <2>5. CASE StreamOn
    BY <2>5 DEF Inv, PlaceInv, MappingInv, SettingInv, Live, SetUpCalls, Sizes,
         AfterFmt, AfterIsp, AfterScenario, AfterReqBufs, Bufs, TypeOK, Contexts,
         ClosedCamera, ClosedContext, StreamOn, AfterStreamOn
  <2>6. CASE StreamOff
    BY <2>6 DEF Inv, PlaceInv, MappingInv, SettingInv, Live, SetUpCalls, Sizes,
         AfterFmt, AfterIsp, AfterScenario, AfterReqBufs, Bufs, TypeOK, Contexts,
         ClosedCamera, ClosedContext, StreamOff
  <2>7. CASE Munmap
    BY <2>7 DEF Inv, PlaceInv, MappingInv, SettingInv, Live, SetUpCalls, Sizes,
         AfterFmt, AfterIsp, AfterScenario, AfterReqBufs, Bufs, TypeOK, Contexts,
         ClosedCamera, ClosedContext, Munmap
  <2>8. CASE Close
    BY <2>8 DEF Inv, PlaceInv, MappingInv, SettingInv, Live, SetUpCalls, Sizes,
         AfterFmt, AfterIsp, AfterScenario, AfterReqBufs, Bufs, TypeOK, Contexts,
         ClosedCamera, ClosedContext, Close
  <2> QED
    BY <1>1, <2>1, <2>2, <2>3, <2>4, <2>5, <2>6, <2>7, <2>8 DEF DeviceNext
<1>2. CASE EncoderNext
  <2>1. CASE EncOpen
    BY <2>1 DEF Inv, PlaceInv, MappingInv, SettingInv, Live, SetUpCalls, Sizes,
         AfterFmt, AfterIsp, AfterScenario, AfterReqBufs, Bufs, TypeOK, Contexts,
         ClosedCamera, ClosedContext, EncOpen
  <2>2. CASE EncInit
    BY <2>2 DEF Inv, PlaceInv, MappingInv, SettingInv, Live, SetUpCalls, Sizes,
         AfterFmt, AfterIsp, AfterScenario, AfterReqBufs, Bufs, TypeOK, Contexts,
         ClosedCamera, ClosedContext, EncInit
  <2>3. CASE EncGetInBuf
    BY <2>3 DEF Inv, PlaceInv, MappingInv, SettingInv, Live, SetUpCalls, Sizes,
         AfterFmt, AfterIsp, AfterScenario, AfterReqBufs, Bufs, TypeOK, Contexts,
         ClosedCamera, ClosedContext, EncGetInBuf
  <2>4. CASE Header
    BY <2>4 DEF Inv, PlaceInv, MappingInv, SettingInv, Live, SetUpCalls, Sizes,
         AfterFmt, AfterIsp, AfterScenario, AfterReqBufs, Bufs, TypeOK, Contexts,
         ClosedCamera, ClosedContext, Header
  <2>5. CASE EncClose
    BY <2>5 DEF Inv, PlaceInv, MappingInv, SettingInv, Live, SetUpCalls, Sizes,
         AfterFmt, AfterIsp, AfterScenario, AfterReqBufs, Bufs, TypeOK, Contexts,
         ClosedCamera, ClosedContext, EncClose, EncClosed
  <2> QED
    BY <1>2, <2>1, <2>2, <2>3, <2>4, <2>5 DEF EncoderNext
<1>3. CASE LoopNext
  BY <1>3 DEF Inv, PlaceInv, MappingInv, SettingInv, Live, SetUpCalls, Sizes, AfterFmt,
       AfterIsp, AfterScenario, AfterReqBufs, Bufs, TypeOK, Contexts, ClosedCamera,
       ClosedContext, LoopNext, Poll, DqBuf, Requeue, Encode, GetOut, NoRequest,
       TakeRequest, Dequeue, ToReset
<1>4. CASE PhotoNext
  BY <1>4 DEF Inv, PlaceInv, MappingInv, SettingInv, Live, SetUpCalls, Sizes, AfterFmt,
       AfterIsp, AfterScenario, AfterReqBufs, Bufs, TypeOK, Contexts, ClosedCamera,
       ClosedContext, PhotoNext, PhotoPoll, PhotoDqBuf, Compress, PhotoRequeue, Save,
       Stat, SayFalse, SayTrue, SendFile, Dequeue, ToReset
<1>5. CASE FailNext
  BY <1>5 DEF Inv, PlaceInv, MappingInv, SettingInv, Live, SetUpCalls, Sizes, AfterFmt,
       AfterIsp, AfterScenario, AfterReqBufs, Bufs, TypeOK, Contexts, ClosedCamera,
       ClosedContext, FailNext, SetupFails, PhotoFails, SaveFails, ThreadFails,
       SendFileFails, CleanupFails, HalfDone, Mapped, Queued, ResetCalls, ToHandler
<1>6. CASE \/ Cancelled \/ CancelledEarly \/ HeaderOut \/ HandOver \/ Create
           \/ Cancel \/ Join \/ Ask
  BY <1>6, ZenonT(40) DEF Inv, PlaceInv, MappingInv, SettingInv, Live, SetUpCalls,
       Sizes, AfterFmt, AfterIsp, AfterScenario, AfterReqBufs, Bufs, TypeOK, Contexts,
       ClosedCamera, ClosedContext, Cancelled, CancelledEarly, HeaderOut, HandOver,
       Create, Cancel, Join, Ask, ToHandler
<1> QED
  BY <1>1, <1>2, <1>3, <1>4, <1>5, <1>6 DEF Next, Progress

\* The half that is written and the half that is read.
LEMMA EncoderStep == ASSUME Inv, Next PROVE EncoderInv'
<1>1. CASE DeviceNext
  BY <1>1 DEF Inv, PlaceInv, EncoderInv, TypeOK, Contexts, Halves, EncOutput,
       SetUpCalls, DeviceNext, Open, Query, SInput, EnumFmt, SFmt, SFmtIs, SCtrl,
       ReqBufs, QueryBuf, QBuf, StreamOn, StreamOff, Munmap, Close, AfterStreamOn
<1>2. CASE EncoderNext
  <2>1. CASE EncOpen
    BY <2>1 DEF Inv, PlaceInv, EncoderInv, TypeOK, Contexts, Halves, EncOutput,
         SetUpCalls, EncOpen, EncOpened, ClosedContext
  <2>2. CASE EncInit
    BY <2>2 DEF Inv, PlaceInv, EncoderInv, TypeOK, Contexts, Halves, EncOutput,
         SetUpCalls, EncInit, EncInitialised, Sized, H264Param
  <2>3. CASE EncGetInBuf
    BY <2>3 DEF Inv, PlaceInv, EncoderInv, TypeOK, Contexts, Halves, EncOutput,
         SetUpCalls, EncGetInBuf, EncInBuf
  <2>4. CASE Header
    BY <2>4 DEF Inv, PlaceInv, EncoderInv, TypeOK, Contexts, Halves, EncOutput,
         SetUpCalls, Header, EncOutputTaken
  <2>5. CASE EncClose
    BY <2>5 DEF Inv, PlaceInv, EncoderInv, TypeOK, Contexts, Halves, EncOutput,
         SetUpCalls, EncClose, EncClosed, ClosedContext
  <2> QED
    BY <1>2, <2>1, <2>2, <2>3, <2>4, <2>5 DEF EncoderNext
<1>3. CASE LoopNext
  <2>1. CASE DqBuf
    BY <2>1 DEF Inv, PlaceInv, EncoderInv, TypeOK, Contexts, Halves, EncOutput,
         SetUpCalls, DqBuf, EncFilled, Aged
  <2>2. CASE Encode
    BY <2>2 DEF Inv, PlaceInv, EncoderInv, TypeOK, Contexts, Halves, EncOutput,
         SetUpCalls, Encode, EncInBufSet, EncInput, EncExecuted
  <2>3. CASE GetOut
    BY <2>3 DEF Inv, PlaceInv, EncoderInv, TypeOK, Contexts, Halves, EncOutput,
         SetUpCalls, GetOut, EncOutputTaken
  <2>4. CASE Poll \/ Requeue \/ NoRequest \/ TakeRequest
    BY <2>4 DEF Inv, PlaceInv, EncoderInv, TypeOK, Contexts, Halves, EncOutput,
         SetUpCalls, Poll, Requeue, NoRequest, TakeRequest, ToReset
  <2> QED
    BY <1>3, <2>1, <2>2, <2>3, <2>4 DEF LoopNext
<1>4. CASE PhotoNext
  BY <1>4 DEF Inv, PlaceInv, EncoderInv, TypeOK, Contexts, Halves, EncOutput,
       SetUpCalls, PhotoNext, PhotoPoll, PhotoDqBuf, Compress, PhotoRequeue, Save,
       Stat, SayFalse, SayTrue, SendFile, ToReset
<1>5. CASE FailNext
  BY <1>5 DEF Inv, PlaceInv, EncoderInv, TypeOK, Contexts, Halves, EncOutput,
       SetUpCalls, FailNext, SetupFails, PhotoFails, SaveFails, ThreadFails,
       SendFileFails, CleanupFails, ResetCalls, ToHandler
<1>6. CASE \/ Cancelled \/ CancelledEarly \/ HeaderOut \/ HandOver \/ Create
           \/ Cancel \/ Join \/ Ask
  BY <1>6 DEF Inv, PlaceInv, EncoderInv, TypeOK, Contexts, Halves, EncOutput,
       SetUpCalls, Cancelled, CancelledEarly, HeaderOut, HandOver, Create, Cancel,
       Join, Ask, ToHandler
<1> QED
  BY <1>1, <1>2, <1>3, <1>4, <1>5, <1>6 DEF Next, Progress

\* The photo in hand.
LEMMA PhotoStep == ASSUME Inv, Next PROVE PhotoInv'
<1>1. CASE DeviceNext
  BY <1>1, PlanesOfFrame DEF Inv, TypeOK, PlaceInv, PhotoInv, SetUpCalls,
       AfterStreamOn, DeviceNext, Open, Query, SInput, EnumFmt, SFmt, SFmtIs, SCtrl,
       ReqBufs, QueryBuf, QBuf, StreamOn, StreamOff, Munmap, Close
<1>2. CASE EncoderNext
  BY <1>2, PlanesOfFrame DEF Inv, TypeOK, PlaceInv, PhotoInv, SetUpCalls,
       AfterStreamOn, EncoderNext, EncOpen, EncInit, EncGetInBuf, Header, EncClose
<1>3. CASE LoopNext
  BY <1>3, PlanesOfFrame DEF Inv, TypeOK, PlaceInv, PhotoInv, SetUpCalls,
       AfterStreamOn, LoopNext, Poll, DqBuf, Requeue, Encode, GetOut, NoRequest,
       TakeRequest, ToReset
<1>4. CASE PhotoNext
  BY <1>4, PlanesOfFrame DEF Inv, TypeOK, PlaceInv, PhotoInv, SetUpCalls,
       AfterStreamOn, PhotoNext, PhotoPoll, PhotoDqBuf, Compress, PhotoRequeue, Save,
       Stat, SayFalse, SayTrue, SendFile, ToReset
<1>5. CASE FailNext
  BY <1>5, PlanesOfFrame DEF Inv, TypeOK, PlaceInv, PhotoInv, SetUpCalls,
       AfterStreamOn, FailNext, SetupFails, PhotoFails, SaveFails, ThreadFails,
       SendFileFails, CleanupFails, ResetCalls, ToHandler
<1>6. CASE \/ Cancelled \/ CancelledEarly \/ HeaderOut \/ HandOver \/ Create
           \/ Cancel \/ Join \/ Ask
  BY <1>6, PlanesOfFrame DEF Inv, TypeOK, PlaceInv, PhotoInv, SetUpCalls,
       AfterStreamOn, Cancelled, CancelledEarly, HeaderOut, HandOver, Create, Cancel,
       Join, Ask, ToHandler
<1> QED
  BY <1>1, <1>2, <1>3, <1>4, <1>5, <1>6 DEF Next, Progress

LEMMA TypeStep == ASSUME Inv, Next PROVE TypeOK'
BY CameraTyped, EncoderTyped, FlagsTyped, PlaceTyped, BuffersTyped, RestTyped,
   Zenon DEF TypeOK

-----------------------------------------------------------------------------

LEMMA InitInv == Init => Inv
<1> SUFFICES ASSUME Init PROVE Inv
  OBVIOUS
<1>1. TypeOK
  <2>1. 0 \in Bufs /\ 0 \in Halves /\ 0 \in 0 .. MaxAsked
    BY CaptureAssumption DEF Bufs, Halves
  <2>2. cam \in Cameras
    BY Zenon DEF Init, Cameras, ClosedCamera
  <2>3. enc \in Contexts
    BY <2>1, Zenon DEF Init, Contexts, ClosedContext, Contents
  <2>4. cancelled \in BOOLEAN /\ owed \in BOOLEAN
    BY Zenon DEF Init
  <2>5. framebuf \in [Bufs -> Address] /\ at \in Places /\ out \in Contents
    BY DEF Init, Address, Places, Contents
  <2> QED
    BY <2>1, <2>2, <2>3, <2>4, <2>5, Zenon DEF Init, TypeOK
<1>2. PlaceInv /\ SettingInv /\ StreamInv /\ EncoderInv
  BY DEF Init, PlaceInv, SettingInv, StreamInv, EncoderInv,
         AfterFmt, AfterIsp, AfterScenario, AfterReqBufs
<1>3. MappingInv /\ PhotoInv
  BY DEF Init, MappingInv, PhotoInv
<1> QED
  BY <1>1, <1>2, <1>3 DEF Inv

LEMMA StepInv == Inv /\ [Next]_vars => Inv'
<1> SUFFICES ASSUME Inv, [Next]_vars PROVE Inv'
  OBVIOUS
<1>1. CASE Next
  BY <1>1, TypeStep, PlaceStep, SettingStep, StreamStep, MappingStep,
     EncoderStep, PhotoStep DEF Inv
<1>2. CASE UNCHANGED vars
  BY <1>2 DEF Inv, TypeOK, PlaceInv, SettingInv, StreamInv, MappingInv, EncoderInv,
     PhotoInv, Wanted, SetUp, Live, vars
<1> QED
  BY <1>1, <1>2

\* The inductive invariant, for every number of buffers and of requests and
\* every even size of photo.
THEOREM CaptureInvariant == Spec => []Inv
BY InitInv, StepInv, PTL DEF Spec

\* Types of the thread's, the camera's and the encoder's state (video.c).
THEOREM CaptureTypeCorrect == Spec => []TypeOK
<1>1. Inv => TypeOK
  BY DEF Inv
<1> QED
  BY <1>1, CaptureInvariant, PTL

\* Frames and photos come from a camera that is set up for them, after any
\* number of photos and failures: reset_v4l2_stream makes everything anew.
THEOREM CameraIsReady == Spec => []CaptureReady
<1>1. Inv => CaptureReady
  <2> SUFFICES ASSUME Inv PROVE CaptureReady
    OBVIOUS
  <2>1. at \in {"poll", "dqbuf"} => task = "loop"
    BY DEF Inv, TypeOK, PlaceInv, SetUpCalls
  <2> QED
    BY <2>1 DEF Inv, CaptureReady, Ready, SetUp, StreamInv, EncoderInv
<1> QED
  BY <1>1, CaptureInvariant, PTL

\* What update_globe_frame_info gets is the encoding of the frame captured
\* last: encode_cnt is the same in SsbSipMfcEncExe and SsbSipMfcEncGetOutBuf.
THEOREM OutputIsCurrent == Spec => []OutputIsThisFrame
<1>1. Inv => OutputIsThisFrame
  BY DEF Inv, EncoderInv, OutputIsThisFrame
<1> QED
  BY <1>1, CaptureInvariant, PTL

\* A photo answered as taken is on the disk with its own three planes and its
\* own size, for every even width and height; no request stays unanswered.
THEOREM PhotosAreAnswered == Spec => []PhotoAnswered
<1>1. Inv => PhotoAnswered
  <2> SUFFICES ASSUME Inv PROVE PhotoAnswered
    OBVIOUS
  <2>1. at = "poll" => task = "loop"
    BY DEF Inv, TypeOK, PlaceInv, SetUpCalls
  <2> QED
    BY <2>1 DEF Inv, PhotoInv, PhotoAnswered
<1> QED
  BY <1>1, CaptureInvariant, PTL

\* No mapping is lost, and the thread leaves nothing open but in the three
\* ways in which the code skips cleanup_video_pthread's work.
THEOREM ThreadEndsClean == Spec => []EndsClean
<1>1. Inv => EndsClean
  BY DEF Inv, MappingInv, EndsClean
<1> QED
  BY <1>1, CaptureInvariant, PTL
=============================================================================
