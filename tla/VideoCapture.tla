----------------------------- MODULE VideoCapture -----------------------------
(***************************************************************************)
(* The video thread (video.c) between the camera, a V4L2 device, and the   *)
(* MFC encoder: it sets both up, copies each captured frame into the       *)
(* encoder, and for a photo takes the camera out of preview, photographs,  *)
(* answers, and puts the camera back.  Every call of a driver can fail;    *)
(* the thread can be cancelled at every cancellation point.                *)
(*                                                                         *)
(* `at' is the call the thread makes next and `task' what it makes it for: *)
(*   "setup"    up to pthread_cleanup_push                                 *)
(*   "encoder"  from there to the main loop                                *)
(*   "loop"     the main loop                                              *)
(*   "snapshot" take_pohto                                                 *)
(*   "preview"  reset_v4l2_stream, back to preview                         *)
(*   "cleanup"  clear_video_pthread_mem, run by cleanup_video_pthread      *)
(*                                                                         *)
(* The frame slot, the queues and the server are other modules' business:  *)
(* here the server creates, cancels and joins the thread, and requests for *)
(* photos arrive.                                                          *)
(***************************************************************************)
EXTENDS MfcEncoder, FiniteSets, Sequences

CONSTANTS
    NBuf,       \* MAX_NR_BUFFERS
    MaxAsked,   \* bound on the requests for photos that wait
    Width,      \* of a photo, in pixels
    Height

ASSUME CaptureAssumption ==
    /\ NBuf \in Nat \ {0}
    /\ MaxAsked \in Nat \ {0}
    /\ Width \in Nat /\ Width % 2 = 0
    /\ Height \in Nat /\ Height % 2 = 0

Bufs == 0 .. NBuf - 1

\* What an entry of framebuf is: no address yet, the address of a mapping of
\* a buffer of a size, or the address of a mapping that is gone.
Address == Sizes \union {"null", "stale"}

VARIABLES
    at, task,
    cancelled,  \* pthread_cancel was called
    cam,        \* the camera, seen through the thread's descriptor
    framebuf,   \* the thread's VideoBuffer array
    held,       \* v4l2_buf.index: the buffer dequeued last
    enc,        \* the encoder's context
    out,        \* what the thread hands over
    asked,      \* requests for photos in the queue
    owed,       \* the thread has taken one and not answered it
    picture,    \* the photo in memory
    jpeg,       \* the planes it was compressed from
    file,       \* the photo on the disk
    size,       \* photo_file_size
    mishap      \* history: why the thread ended without a full clean-up

threadVars == <<at, task, cancelled>>
photoVars == <<asked, owed, picture, jpeg, file, size>>
vars == <<threadVars, cam, framebuf, held, enc, out, photoVars, mishap>>

Cameras == [open : BOOLEAN, streaming : BOOLEAN,
            fmt : Sizes \union {"none"},        \* VIDIOC_S_FMT, capture
            isp : Sizes \union {"none"},        \* VIDIOC_S_FMT, private
            scenario : Sizes \union {"none"},   \* V4L2_CID_IS_S_SCENARIO_MODE
            buffers : Sizes \union {"none"},    \* those VIDIOC_REQBUFS made
            queued : SUBSET Bufs]

ClosedCamera == [open |-> FALSE, streaming |-> FALSE, fmt |-> "none",
                 isp |-> "none", scenario |-> "none", buffers |-> "none",
                 queued |-> {}]

Init ==
    /\ at = "off" /\ task = "setup" /\ cancelled = FALSE
    /\ cam = ClosedCamera /\ framebuf = [i \in Bufs |-> "null"] /\ held = 0
    /\ enc = ClosedContext /\ out = "none"
    /\ asked = 0 /\ owed = FALSE /\ picture = << >> /\ jpeg = << >>
    /\ file = "none" /\ size = "zero" /\ mishap = "none"

\* The size the camera is being set up for.
Wanted == IF task = "snapshot" THEN "snapshot" ELSE "preview"

Live == {i \in Bufs : framebuf[i] \in Sizes}

Step(from, to) == at = from /\ at' = to /\ UNCHANGED <<task, cancelled>>

-----------------------------------------------------------------------------
(* Photos: NV12 in, the three planes of the JPEG compressor out.  Pixels   *)
(* are tags, and offsets count from 0 as in the code.                      *)

Area == Width * Height
ChromaRow == Width \div 2

\* An NV12 image: the Y plane, then U and V of each 2x2 block by turns.
Nv12 ==
    [k \in 0 .. (Area + Area \div 2) - 1 |->
        IF k < Area THEN <<"Y", k>>
        ELSE IF (k - Area) % 2 = 0 THEN <<"U", (k - Area) \div 2>>
        ELSE <<"V", (k - Area) \div 2>>]

\* ConvertNV12toIYUV: the bytes at even offsets of the second part fill its
\* first half, the others its second half.
ConvertNV12toIYUV(image) ==
    LET quarter == Area \div 4
        uv(i) == image[Area + i]
    IN  [k \in DOMAIN image |->
            IF k < Area THEN image[k]
            ELSE IF k - Area < quarter THEN uv(2 * (k - Area))
            ELSE uv(2 * (k - Area - quarter) + 1)]

\* Mutant: both chroma planes start where Cb does.
JpegPlanes_cr(image) ==
    LET row(start, width, r) == [x \in 0 .. width - 1 |-> image[start + width * r + x]]
    IN  [y |-> [r \in 0 .. Height - 1 |-> row(0, Width, r)],
         cb |-> [r \in 0 .. (Height \div 2) - 1 |-> row(Area, ChromaRow, r)],
         cr |-> [r \in 0 .. (Height \div 2) - 1 |-> row(Area, ChromaRow, r)]]

\* I420_data_to_JPEG_data: the rows its pointers name.
JpegPlanes(image) ==
    LET row(start, width, r) == [x \in 0 .. width - 1 |-> image[start + width * r + x]]
    IN  [y |-> [r \in 0 .. Height - 1 |-> row(0, Width, r)],
         cb |-> [r \in 0 .. (Height \div 2) - 1 |-> row(Area, ChromaRow, r)],
         cr |-> [r \in 0 .. (Height \div 2) - 1 |->
                    row(Area + Area \div 4, ChromaRow, r)]]

-----------------------------------------------------------------------------
(* The server, and whoever asks for photos. *)

\* pthread_create behind accept: new locals, nothing open.
Create ==
    /\ at = "off"
    /\ at' = "open" /\ task' = "setup"
    /\ cam' = ClosedCamera /\ framebuf' = [i \in Bufs |-> "null"] /\ held' = 0
    /\ enc' = ClosedContext /\ out' = "none"
    /\ owed' = FALSE /\ picture' = << >> /\ jpeg' = << >> /\ file' = "none"
    /\ size' = "zero" /\ mishap' = "none"
    /\ UNCHANGED <<cancelled, asked>>

\* The server cancels a thread once sem_wait has returned: mostly after the
\* thread's sem_post, but at any moment when sem_wait has failed.
Cancel ==
    /\ at # "off" /\ ~cancelled
    /\ cancelled' = TRUE
    /\ UNCHANGED <<at, task, cam, framebuf, held, enc, out, photoVars, mishap>>

Join ==
    /\ cancelled /\ at = "gone"
    /\ at' = "off" /\ cancelled' = FALSE
    /\ UNCHANGED <<task, cam, framebuf, held, enc, out, photoVars, mishap>>

Ask ==
    /\ asked < MaxAsked
    /\ asked' = asked + 1
    /\ UNCHANGED <<threadVars, cam, framebuf, held, enc, out, owed, picture,
                   jpeg, file, size, mishap>>

-----------------------------------------------------------------------------
(* The calls of the camera's driver, when they succeed.  fimc_v4l2_*.      *)

device == <<cam, framebuf>>
others == <<held, enc, out, photoVars, mishap>>

Open ==
    /\ Step("open", "query")
    /\ cam' = [ClosedCamera EXCEPT !.open = TRUE]
    /\ UNCHANGED <<framebuf, others>>

\* querycap, enuminput and enum_fmt are asked by the DEBUG build, which is
\* the one the makefile makes.
Query == Step("query", "s_input") /\ UNCHANGED <<device, others>>

\* The camera has one input.
SInput == Step("s_input", "enum_fmt") /\ UNCHANGED <<device, others>>

EnumFmt == Step("enum_fmt", "s_fmt") /\ UNCHANGED <<device, others>>

SFmt ==
    /\ Step("s_fmt", "s_fmt_is")
    /\ cam' = [cam EXCEPT !.fmt = Wanted]
    /\ UNCHANGED <<framebuf, others>>

SFmtIs ==
    /\ Step("s_fmt_is", "s_ctrl")
    /\ cam' = [cam EXCEPT !.isp = Wanted]
    /\ UNCHANGED <<framebuf, others>>

\* The scenario mode, and then the cacheable flag, which is always 1.
SCtrl ==
    /\ \/ /\ Step("s_ctrl", "cacheable")
          /\ cam' = [cam EXCEPT !.scenario = Wanted]
       \/ /\ Step("cacheable", "reqbufs")
          /\ UNCHANGED cam
    /\ UNCHANGED <<framebuf, others>>

ReqBufs ==
    /\ Step("reqbufs", "querybuf")
    /\ cam' = [cam EXCEPT !.buffers = cam.fmt, !.queued = {}]
    /\ UNCHANGED <<framebuf, others>>

\* VIDIOC_QUERYBUF and mmap of the first k buffers.
Mapped(k) == [i \in Bufs |-> IF i < k THEN cam.buffers ELSE framebuf[i]]

QueryBuf ==
    /\ Step("querybuf", "qbuf")
    /\ framebuf' = Mapped(NBuf)
    /\ UNCHANGED <<cam, others>>

\* VIDIOC_QBUF of the first k buffers.
Queued(k) == [cam EXCEPT !.queued = @ \union {i \in Bufs : i < k}]

QBuf ==
    /\ Step("qbuf", "streamon")
    /\ cam' = Queued(NBuf)
    /\ UNCHANGED <<framebuf, others>>

AfterStreamOn == CASE task = "setup" -> "enc_open"
                   [] task = "snapshot" -> "photo_poll"
                   [] OTHER -> "poll"

StreamOn ==
    /\ at = "streamon"
    /\ at' = AfterStreamOn
    /\ task' = IF task = "preview" THEN "loop" ELSE task
    /\ cam' = [cam EXCEPT !.streaming = TRUE]
    /\ UNCHANGED <<cancelled, framebuf, others>>

\* The driver gives every buffer back.
StreamOff ==
    /\ Step("streamoff", "munmap")
    /\ cam' = [cam EXCEPT !.streaming = FALSE, !.queued = {}]
    /\ UNCHANGED <<framebuf, others>>

\* VIDIOC_DQBUF: the driver fills queued buffers in any order.
Dequeue ==
    /\ cam.streaming
    /\ held' \in cam.queued
    /\ cam' = [cam EXCEPT !.queued = @ \ {held'}]

\* clear_v4l2_stream_mmap begins, for a photo or for going back to preview.
ToReset(for) == at' = "streamoff" /\ task' = for

\* clear_v4l2_mmap unmaps every entry; the addresses stay in framebuf.
Munmap ==
    /\ at = "munmap"
    /\ at' = IF task = "cleanup" THEN "close" ELSE "s_fmt"
    /\ framebuf' = [i \in Bufs |-> IF framebuf[i] = "null" THEN "null" ELSE "stale"]
    /\ UNCHANGED <<task, cancelled, cam, others>>

\* close(fd): the driver stops and forgets.
Close ==
    /\ Step("close", "enc_close")
    /\ cam' = ClosedCamera
    /\ UNCHANGED <<framebuf, others>>

-----------------------------------------------------------------------------
(* The encoder's set-up. *)

\* SsbSipMfcEncOpen, and pthread_cleanup_push.
EncOpen ==
    /\ at = "enc_open"
    /\ at' = "enc_init" /\ task' = "encoder"
    /\ enc' = EncOpened(enc)
    /\ UNCHANGED <<cancelled, device, held, out, photoVars, mishap>>

EncInit ==
    /\ CodecKnown(H264Param) /\ ParamAccepted(H264Param)
    /\ Step("enc_init", "get_in_buf")
    /\ enc' = EncInitialised(enc, H264Param)
    /\ UNCHANGED <<device, held, out, photoVars, mishap>>

\* SsbSipMfcEncGetInBuf: the address of the input buffer.
EncGetInBuf ==
    /\ Step("get_in_buf", "header")
    /\ enc' = EncInBuf(enc)
    /\ UNCHANGED <<device, held, out, photoVars, mishap>>

\* SsbSipMfcEncGetOutBuf gives the header, which get_sps_and_pps_from_header
\* splits; then sem_post.
Header ==
    /\ at = "header"
    /\ at' = "header_out"
    /\ out' = EncOutput(enc)
    /\ enc' = EncOutputTaken(enc)
    /\ UNCHANGED <<task, cancelled, device, held, photoVars, mishap>>

\* update_globe_frame_info, for the SPS and for the PPS.
HeaderOut ==
    /\ at = "header_out"
    /\ at' = "poll" /\ task' = "loop"
    /\ UNCHANGED <<cancelled, device, others>>

EncClose ==
    /\ Step("enc_close", "gone")
    /\ enc' = EncClosed(enc)
    /\ UNCHANGED <<device, held, out, photoVars, mishap>>

-----------------------------------------------------------------------------
(* The main loop. *)

\* fimc_poll: a frame, or an error the next call meets.
Poll ==
    /\ ~cancelled
    /\ Step("poll", "dqbuf")
    /\ UNCHANGED <<device, others>>

\* VIDIOC_DQBUF, and the frame is copied into the encoder's input buffer.
DqBuf ==
    /\ Step("dqbuf", "requeue")
    /\ Dequeue
    /\ enc' = EncFilled(enc)
    /\ UNCHANGED <<framebuf, out, photoVars, mishap>>

Requeue ==
    /\ Step("requeue", "encode")
    /\ cam' = [cam EXCEPT !.queued = @ \union {held}]
    /\ UNCHANGED <<framebuf, others>>

\* SsbSipMfcEncSetInBuf with the addresses the thread has had since
\* SsbSipMfcEncGetInBuf, and SsbSipMfcEncExe.
Encode ==
    /\ Step("encode", "get_out")
    /\ enc' = EncExecuted(EncInBufSet(enc, "yuv"))
    /\ UNCHANGED <<device, held, out, photoVars, mishap>>

GetOut ==
    /\ Step("get_out", "hand_over")
    /\ out' = EncOutput(enc)
    /\ enc' = EncOutputTaken(enc)
    /\ UNCHANGED <<device, held, photoVars, mishap>>

\* update_globe_frame_info (FrameSlot): it returns when the RTP thread has
\* taken the frame before.
HandOver ==
    /\ Step("hand_over", "recv")
    /\ UNCHANGED <<device, others>>

\* recv_message_from_queue with IPC_NOWAIT: no message.
NoRequest ==
    /\ ~cancelled /\ asked = 0
    /\ Step("recv", "poll")
    /\ UNCHANGED <<device, others>>

\* A request: take_pohto begins with reset_v4l2_stream.
TakeRequest ==
    /\ ~cancelled /\ asked > 0
    /\ at = "recv"
    /\ ToReset("snapshot")
    /\ asked' = asked - 1 /\ owed' = TRUE
    /\ picture' = << >> /\ jpeg' = << >> /\ file' = "none"
    /\ size' = IF size = "its" THEN "earlier" ELSE size
    /\ UNCHANGED <<cancelled, device, held, enc, out, mishap>>

-----------------------------------------------------------------------------
(* take_pohto, after its reset. *)

PhotoPoll ==
    /\ ~cancelled
    /\ Step("photo_poll", "photo_dqbuf")
    /\ UNCHANGED <<device, others>>

\* VIDIOC_DQBUF, and the frame is copied to memory.
PhotoDqBuf ==
    /\ Step("photo_dqbuf", "convert")
    /\ Dequeue
    /\ picture' = Nv12
    /\ UNCHANGED <<framebuf, enc, out, asked, owed, jpeg, file, size, mishap>>

\* ConvertNV12toIYUV, the day's directory, and the compression.
Compress ==
    /\ Step("convert", "photo_requeue")
    /\ picture' = ConvertNV12toIYUV(picture)
    /\ jpeg' = JpegPlanes(picture')
    /\ UNCHANGED <<device, held, enc, out, asked, owed, file, size, mishap>>

PhotoRequeue ==
    /\ Step("photo_requeue", "save")
    /\ cam' = [cam EXCEPT !.queued = @ \union {held}]
    /\ UNCHANGED <<framebuf, others>>

\* fopen, fwrite and fclose.  What fclose could not write is missing: its
\* result is not looked at.
Save ==
    /\ Step("save", "stat")
    /\ file' \in {"whole", "short"}
    /\ UNCHANGED <<device, held, enc, out, asked, owed, picture, jpeg, size, mishap>>

\* fopen fails, or fwrite does and the file is removed.
SaveFails ==
    /\ Step("save", "say_false")
    /\ file' \in {"none", file}
    /\ UNCHANGED <<device, held, enc, out, asked, owed, picture, jpeg, size, mishap>>

\* stat, which take_pohto copies the size from.
Stat ==
    /\ file # "none"
    /\ Step("stat", "say_true")
    /\ size' = "its"
    /\ UNCHANGED <<device, held, enc, out, asked, owed, picture, jpeg, file, mishap>>

-----------------------------------------------------------------------------
(* The answer, and back to preview. *)

\* Mutant: after a photo that failed the camera is left as it is.
SayFalse_stays ==
    /\ ~cancelled
    /\ at = "say_false"
    /\ at' = "poll" /\ task' = "loop"
    /\ owed' = FALSE
    /\ UNCHANGED <<cancelled, device, held, enc, out, asked, picture,
                   jpeg, file, size, mishap>>

\* return_take_photo_result_to_message_queue.
SayFalse ==
    /\ ~cancelled
    /\ at = "say_false"
    /\ ToReset("preview")
    /\ owed' = FALSE
    /\ UNCHANGED <<cancelled, device, held, enc, out, asked, picture,
                   jpeg, file, size, mishap>>

SayTrue ==
    /\ ~cancelled
    /\ Step("say_true", "send_file")
    /\ owed' = FALSE
    /\ UNCHANGED <<device, held, enc, out, asked, picture, jpeg, file, size, mishap>>

\* dispose_send_file.
SendFile ==
    /\ ~cancelled
    /\ at = "send_file"
    /\ ToReset("preview")
    /\ UNCHANGED <<cancelled, device, others>>

-----------------------------------------------------------------------------
(* Calls that fail. *)

ResetCalls == {"streamoff", "s_fmt", "s_fmt_is", "s_ctrl", "cacheable",
               "reqbufs", "querybuf", "qbuf", "streamon"}

\* A failing call changes nothing, but VIDIOC_QUERYBUF and VIDIOC_QBUF are
\* called for one buffer after the other.
HalfDone ==
    \/ at = "querybuf" /\ (\E k \in Bufs : framebuf' = Mapped(k)) /\ UNCHANGED cam
    \/ at = "qbuf" /\ (\E k \in Bufs : cam' = Queued(k)) /\ UNCHANGED framebuf
    \/ at \notin {"querybuf", "qbuf"} /\ UNCHANGED device

\* pthread_exit before pthread_cleanup_push: nobody closes anything.
SetupFails ==
    /\ task = "setup"
    /\ at \in {"open", "query", "s_input", "enum_fmt", "enc_open"} \union ResetCalls
    /\ HalfDone
    /\ at' = "gone" /\ mishap' = "early"
    /\ UNCHANGED <<task, cancelled, held, enc, out, photoVars>>

\* Mutant: the photo is tried again.
PhotoFails_again ==
    /\ task = "snapshot"
    /\ at \in {"photo_poll", "photo_dqbuf", "convert", "photo_requeue", "stat"}
              \union ResetCalls
    /\ HalfDone
    /\ at' = "streamoff"
    /\ UNCHANGED <<task, cancelled, others>>

\* take_pohto returns the error of a call.
PhotoFails ==
    /\ task = "snapshot"
    /\ at \in {"photo_poll", "photo_dqbuf", "convert", "photo_requeue", "stat"}
              \union ResetCalls
    /\ HalfDone
    /\ at' = "say_false"
    /\ UNCHANGED <<task, cancelled, others>>

\* Mutant: the handler closes the descriptor only.
ToHandler_close == at' = "close" /\ task' = "cleanup"

\* cleanup_video_pthread begins.
ToHandler == at' = "streamoff" /\ task' = "cleanup"

\* pthread_exit after pthread_cleanup_push.
ThreadFails ==
    /\ \/ task = "encoder" /\ at \in {"enc_init", "get_in_buf", "header"}
       \/ task = "loop" /\ at \in {"poll", "dqbuf", "requeue", "encode", "recv"}
       \/ task = "snapshot" /\ at \in {"say_true", "say_false"}
       \/ task = "preview" /\ at \in ResetCalls
    /\ HalfDone
    /\ ToHandler
    /\ UNCHANGED <<cancelled, others>>

\* dispose_send_file fails and the thread returns past the handler.
SendFileFails ==
    /\ at = "send_file"
    /\ at' = "gone" /\ mishap' = "returned"
    /\ UNCHANGED <<task, cancelled, device, held, enc, out, photoVars>>

\* VIDIOC_STREAMOFF fails in clear_video_pthread_mem, which returns.
CleanupFails ==
    /\ at = "streamoff" /\ task = "cleanup"
    /\ at' = "gone" /\ mishap' = "streamoff"
    /\ UNCHANGED <<task, cancelled, device, held, enc, out, photoVars>>

\* pthread_cancel takes effect before pthread_cleanup_push, in open (camera and
\* encoder) or in the prints of the capabilities: nobody closes anything.
CancelledEarly ==
    /\ cancelled
    /\ task = "setup"
    /\ at \in {"open", "query", "enum_fmt", "enc_open"}
    /\ at' = "gone" /\ mishap' = "early"
    /\ UNCHANGED <<task, cancelled, device, held, enc, out, photoVars>>

\* pthread_cancel takes effect after it, and the handler runs.  In fopen,
\* fwrite and fclose it may leave any part of the file.  (The FILE and the
\* compressor's buffers are not modelled; no handler releases those.)
Cancelled ==
    /\ cancelled
    /\ at \in {"header", "header_out", "poll", "hand_over", "recv", "photo_poll", "save",
               "say_true", "say_false", "send_file"}
    /\ ToHandler
    /\ file' \in IF at = "save" THEN {file, "short"} ELSE {file}
    /\ UNCHANGED <<cancelled, device, held, enc, out, asked, owed,
                   picture, jpeg, size, mishap>>

-----------------------------------------------------------------------------
DeviceNext ==
    \/ Open \/ Query \/ SInput \/ EnumFmt \/ SFmt \/ SFmtIs \/ SCtrl
    \/ ReqBufs \/ QueryBuf \/ QBuf \/ StreamOn \/ StreamOff \/ Munmap \/ Close

EncoderNext ==
    EncOpen \/ EncInit \/ EncGetInBuf \/ Header \/ EncClose

LoopNext ==
    Poll \/ DqBuf \/ Requeue \/ Encode \/ GetOut \/ NoRequest \/ TakeRequest

PhotoNext ==
    \/ PhotoPoll \/ PhotoDqBuf \/ Compress \/ PhotoRequeue \/ Save \/ Stat
    \/ SayFalse \/ SayTrue \/ SendFile

FailNext ==
    \/ SetupFails \/ PhotoFails \/ SaveFails \/ ThreadFails \/ SendFileFails
    \/ CleanupFails

\* Everything but the two calls that wait for the RTP thread.
Progress ==
    \/ DeviceNext \/ EncoderNext \/ LoopNext \/ PhotoNext \/ FailNext
    \/ CancelledEarly \/ Cancelled

Next == Progress \/ HeaderOut \/ HandOver \/ Create \/ Cancel \/ Join \/ Ask

Spec == Init /\ [][Next]_vars

(***************************************************************************)
(* The thread runs, and every call returns: fimc_poll after five seconds   *)
(* at most, msgsnd as long as the queue has room (PhotoPipeline has it     *)
(* full).  Nothing is assumed of the RTP thread, the server or the phone.  *)
(***************************************************************************)
FairSpec == Spec /\ WF_vars(Progress)

-----------------------------------------------------------------------------
(* Properties. *)

Places ==
    ResetCalls \union
    {"off", "open", "query", "s_input", "enum_fmt", "munmap", "close",
     "enc_open", "enc_init", "get_in_buf", "header", "header_out", "enc_close",
     "poll", "dqbuf", "requeue", "encode", "get_out", "hand_over", "recv",
     "photo_poll", "photo_dqbuf", "convert", "photo_requeue", "save", "stat",
     "say_true", "say_false", "send_file", "gone"}

\* Types of the thread's and the devices' state.
TypeOK ==
    /\ at \in Places
    /\ task \in {"setup", "encoder", "loop", "snapshot", "preview", "cleanup"}
    /\ cancelled \in BOOLEAN
    /\ cam \in Cameras
    /\ framebuf \in [Bufs -> Address]
    /\ held \in Bufs
    /\ enc \in Contexts
    /\ out \in Contents
    /\ asked \in 0 .. MaxAsked /\ owed \in BOOLEAN
    /\ file \in {"none", "short", "whole"}
    /\ size \in {"zero", "its", "earlier"}
    /\ mishap \in {"none", "early", "streamoff", "returned"}

\* The camera streams frames of size s from buffers that are all queued and
\* mapped.
Ready(s) ==
    /\ cam.open /\ cam.streaming
    /\ cam.fmt = s /\ cam.isp = s /\ cam.scenario = s
    /\ cam.queued = Bufs
    /\ \A i \in Bufs : framebuf[i] = s

\* Each frame the main loop copies into the encoder comes from a camera that
\* is wholly set up for the size the encoder was initialised with, and each
\* photo from one wholly set up for photos: however many photos were taken
\* before, and wherever one of them failed.
CaptureReady ==
    /\ at \in {"poll", "dqbuf"} => Ready(enc.size)
    /\ at \in {"photo_poll", "photo_dqbuf"} => Ready("snapshot")

\* What is handed to the RTP thread is the encoding of the frame captured
\* last, and before the first frame the header: the half that is read is
\* the one that was written, though two calls move encode_cnt and use it.
OutputIsThisFrame ==
    /\ at = "header_out" => out = "header"
    /\ at = "hand_over" => out = "new"

\* The three planes of a captured frame.
FramePlanes ==
    [y |-> [r \in 0 .. Height - 1 |-> [x \in 0 .. Width - 1 |-> <<"Y", Width * r + x>>]],
     cb |-> [r \in 0 .. (Height \div 2) - 1 |->
                [x \in 0 .. ChromaRow - 1 |-> <<"U", ChromaRow * r + x>>]],
     cr |-> [r \in 0 .. (Height \div 2) - 1 |->
                [x \in 0 .. ChromaRow - 1 |-> <<"V", ChromaRow * r + x>>]]]

\* A photo reported as taken is on the disk, has the size reported, and was
\* compressed from the frame's own three planes; and whatever went wrong, no
\* request is left without an answer when the loop goes on.
PhotoAnswered ==
    /\ at \in {"say_true", "send_file"} =>
          file # "none" /\ size = "its" /\ jpeg = FramePlanes
    /\ at = "poll" => ~owed

\* No mapping is lost: the buffers are mapped only when none is, and a thread
\* that has ended left nothing open and nothing mapped, wherever it was
\* cancelled or failed, except in the three ways the code has to skip its
\* clean-up: it ended before the handler was pushed ("early"), the handler
\* gave up at VIDIOC_STREAMOFF, or the thread returned past the handler.
EndsClean ==
    /\ at = "querybuf" => Live = {}
    /\ at = "gone" /\ mishap = "none" => ~cam.open /\ ~enc.open /\ Live = {}

\* A photo that is begun comes to an answer, and the camera is in preview
\* again, unless the thread ends; and a thread that is cancelled ends.
PhotoEnds ==
    /\ (at = "streamoff" /\ task = "snapshot") 
          ~> (at \in {"say_true", "say_false", "gone"} \/ task = "cleanup")
    /\ (task = "preview") ~> (at \in {"poll", "gone"})
    /\ cancelled ~> (at = "gone")

\* video.c:546: framebuf holds the addresses the buffers are mapped at, so
\* what clear_v4l2_mmap unmaps is mapped.
UnmapsMappings == at = "munmap" => \A i \in Bufs : framebuf[i] # "stale"
=============================================================================
