# HandleWifiCamera: specifications, model checks and proofs

The repository is the server side of a Wi-Fi camera on an itop4412 board. It
streams H.264 over RTSP/RTP to a viewer on a phone, takes photos on the phone's
command and sends them to the phone. This directory specifies that program in
TLA+; every definition is translated from the C source, and `PROJECT.json`
("map") names the lines it stands for.

Run a check with `tlc -config X.cfg M`, where `X.cfg` belongs to the module `M`
named in the table of runs, and a proof with `tlapm M.tla`.

## 1. The system

Three processes, started by `main`, and inside one of them three threads.

    phone ==RTSP/TCP==> video_server --pthread_create--> video thread --frame buffer--> RTP thread ==RTP/UDP==> phone
    phone ==commands==> cmd_server --take queue--> video thread --send queue--> photo_trans ==TCP==> phone
                            \--- shared memory word: address of the client that connected last ---^

| component | state | operations | interacts with |
|---|---|---|---|
| program start (`main.c`) | named semaphore, processes | `sem_open`, three `fork`s, `sem_wait`, `sem_unlink`, `waitpid` | starts all; the semaphore orders `cmd_server` before the others |
| message queues (`message_queue.c`) | two System V queues, of typed messages | create (which removes an old one), open, send, receive by type, remove | shared by the three processes; outlive them |
| RTSP server (`video_server.c`) | place in the protocol (`rtsp_bit_mask`), client address and port, the thread ids | `accept`, OPTIONS, DESCRIBE, SETUP, PLAY, TEARDOWN, cancel-and-join | creates and cancels the video and RTP threads, waits on `sem` |
| RTSP handlers (`rtsp.c`) | none; they append to the server's `send_buf` | search a request, format a reply, encode the parameter sets | called by the RTSP server; read SPS and PPS |
| frame buffer (`struct_frame_buffer`) | one frame, `is_full`, `mtx`, `cond`, `sem`, SPS, PPS | `update_globe_frame_info`, `get_globe_frame_info` | video thread to RTP thread |
| video thread (`video.c`) | cleanup handler, camera and encoder, photo in hand | open, header, capture and encode, photo, answer, exit | frame buffer, both queues, camera, encoder |
| RTP thread (`rtp.c`) | copies of address and port, socket, sequence number | take a frame, cut it into packets, send | frame buffer, UDP |
| command server (`cmd_server.c`) | connection, command in hand | read a command, queue a photo request, set the time, report results | phone, both queues, shared address |
| photo transfer (`photo_send.c`) | photo in hand, connection | receive order, connect, send, report | send queue, shared address, phone |
| sockets (`net_trans.c`) | none | framed send and receive | all network users |
| camera (V4L2 part of `video.c`) | format, scenario, buffers, which of them are queued, stream on or off; the thread's addresses of them | set up, reset for a photo and back, dequeue, queue, unmap, close | video thread |
| MFC encoder (`SsbSipMfcEncAPI.c`) | the context: size, input buffer, two halves of a stream buffer and which is next | open, init, buffers, encode, take output, close | video thread |
| errors and log (`public.c`) | none | text | everyone |

What is hard in it, and what makes it correct:

* **Frame buffer.** Two threads wait on *one* condition variable with
  `pthread_cond_signal`, and either can be cancelled inside
  `pthread_cond_wait`. Correct: each frame is handed over once and in order, no
  wake-up is lost, the mutex is never left locked.
* **Sessions.** `video_server` ends its threads by cancellation at eleven
  places, each with its own copy of the sequence. Correct: nothing of a session
  outlives it, every join returns, the client gets this session's stream.
* **Photos.** A request goes through three processes and two queues, and each
  process, phone and session can go away at any step. Correct: no request
  disappears unaccounted for or is answered twice, and what the phone is told
  agrees with the disk.
* **Capture.** The camera is taken out of preview for each photo and put back,
  and every one of nine driver calls can fail half-way through; the thread can be
  cancelled in between. Correct: frames and photos come from a camera set up for
  them, the encoder's output is the frame just captured, nothing stays open.
* **RTSP text.** One `recv` is taken for one request. Correct: a reply answers the
  request its client waits with, and carries this session's data.
* **Commands.** The length of a command is read without waiting, the command
  itself with waiting, and TCP cuts both anywhere. Correct: commands come out
  whole and in order, and an empty read has swallowed nothing.
* **Packets.** Lengths around the payload size. Correct: a receiver can put the
  fragments together and gets each byte once.
* **Start.** Kernel objects survive a killed run. Correct: the processes of a
  run meet on the same, new queues.

The 40 hazards, each at its line with the properties that cover it (or the
reason why none does), are in `PROJECT.json`.

## 2. Modules

| module | models | role |
|---|---|---|
| `FrameChannel` | | abstract: a channel of capacity one |
| `FrameSlot` | the monitor in `struct_frame_buffer` | detailed; implements `FrameChannel` |
| `VideoSession` | the process `video_server` with its three threads | composes `FrameSlot` (INSTANCE) with the RTSP server, video and RTP threads |
| `RtpPacketizer` | the packet loop of `rtp_pthread` | |
| `PhotoService` | | abstract: what the phones are promised of their photos |
| `PhotoPipeline` | `cmd_server`, the photo part of the video thread, `photo_trans`, two queues | detailed; implements `PhotoService` |
| `CommandChannel` | | abstract: commands come out whole, once and in order |
| `CommandStream` | `recv_cmd` and the echoes of `cmd_server` over `tcp_recv_data` and `tcp_send_data` | the same connection as in `PhotoPipeline`, byte by byte; implements `CommandChannel` |
| `Startup` | `main`, the making and opening of the queues | |
| `MfcEncoder` | the encoder's library: what each call does to a context | operators, used by `VideoCapture` |
| `VideoCapture` | the video thread between camera and encoder, call by call | extends `MfcEncoder` |
| `RtspText` | requests, handlers and replies of `rtsp.c` and `video_server`'s use of them | the sessions of `VideoSession`, word by word |
| `FrameSlotProofs`, `VideoSessionProofs`, `VideoCaptureProofs`, `RtpPacketizerProofs`, `PhotoPipelineProofs`, `CommandStreamProofs`, `StartupProofs`, `RtspTextProofs` | | theorems |
| `MC*` | | instances for TLC |

Definitions with a suffix such as `SemWait_none`, introduced by a comment
"Mutant", are plausible bugs of the definition that follows them. No
specification uses them; substituting one must break the property that
`PROJECT.json` ("mutants") pairs with it.

### FrameSlot

`at[t]` is where thread `t` is in its call: `lock` (`pthread_mutex_lock`),
`check` (the while condition), `waiting` and `woken` (`pthread_cond_wait`),
`unlock` (the frame is moved), `dying` and `handler` (cancelled). `owner` is
`mtx`; `buffer` stands for `frame_buffer`, `frame_length` and `time_stamp`,
which are only ever written together. `MoveAndSignal` wakes an arbitrary waiter.
Spurious wake-ups are allowed, and cancellation takes effect in
`pthread_cond_wait`, the only cancellation point of the call: the mutex is taken
back first and the handler `pthread_cleanup_push(pthread_mutex_unlock, &mtx)`
releases it.

### VideoSession

`srv` is where the server thread is: `accept`, `semwait` (the `sem_wait` after
`pthread_create`), `recv`, `cancel` and `join` (one pair for each thread left in
`todo`), `destroy`, `exit`. A command is served when `mask` holds exactly the
commands before it (`Required`); otherwise the session ends with the sequence of
that break (`Running`, or `<<"video">>` when the handler fails). `Setup` stores
the client's port before the request is looked at, as `get_port` does. `vid` and
`rtp` are the places of the other threads. All cancellation points the code has
are there: `poll` and the photo part for the video thread, `sendto` for the RTP
thread, `pthread_cond_wait` for both.

Undefined behaviour is a choice:

* `SemWaitFail` and `Abandon`: when `sem_wait` fails, and when the client disconnects
  (`recv <= 0`), `video_server` frees the buffers and destroys mutex, condition
  variable and semaphore while the threads may be using them. Afterwards the threads
  either go on as if nothing had happened or take the process down (`Crash`), and
  `pthread_cond_destroy` may or may not wait for a sleeper (`Destroyed` without
  fairness then).
* `VidReturn`: `return` between `pthread_cleanup_push` and `pop`. POSIX leaves
  it undefined; `makefile` builds C without `-fexceptions`, where the handler
  does not run.

A NAL unit is the number of its session and its place in the stream, so that a unit of
an old session, a gap and a repetition differ. Frame numbers wrap at `LastFrame`.

Two paths free what the threads share before the video thread is cancelled
(`FreeAll`), and end the process: `SemWaitFail`, a `sem_wait` that fails, and
`Abandon`. In the first the thread can be anywhere, in particular before its
`pthread_cleanup_push`; `CancelFindsHandler` says that this happens on no path
that leads to a next session.

### RtpPacketizer

A packet is the range of positions of `nalu_buf` it carries and its header
bits. `PayloadLength(l) == l + 1` is what the code computes; the payload without
its header byte has `l - 1` bytes, so the packets always carry two bytes
from beyond the NALU (left over from an earlier, longer one). Merely changing
it to `l - 1` would not be right either: a NALU of `PAYLOAD_MAX_SIZE + 1` bytes,
which is too long for a single packet, would become one fragment with both the
start and the end bit; `FragmentsWellFormed` is what forbids that, and its
mutant is this change.

### PhotoPipeline

A request is numbered when `cmd_server` reads it, and its number stands for the
photo's name. `takeq` carries requests one way and answers the other, `sendq` orders
and results; `msgrcv` by type takes the oldest message of that type (`Oldest`),
`msgsnd` waits for `HasRoom`. `cmd`, `vt` and `pt` are the places of the three
processes. `CmdFails` is every error return of `cmd_server`, from `accept` to the last
`send`, each of which removes the queues. `answered`, `delivered` and `lost` are
history variables: `lost` records a request at the step after which nothing can answer
it (the session ended with it in hand, `cmd_server` quit and removed the queues, or
the phone was gone).

`PhotoService` has no processes and no queues, only what can be seen from outside:
the phone that connected last, the photos asked for, the files on the disk, the
answers, the transfers, and what is lost. `ServiceKept` maps its variables to
`globalAddr`, `asked`, `disk`, `answered`, `lost` and `delivered`; every other step
of the pipeline is a stutter.

### CommandStream

A byte from the phone is its place in the stream, so that a byte lost, repeated
or taken for another is visible; a byte to the phone is its place in its echo.
`at` is where `cmd_server` is: `recv` (about to call `recv_cmd`), `length` and
`command` (in the two calls of `tcp_recv_data`), `dispose` (`dispose_cmd`),
`check` (`check_take_photo_results`), `send` (in `tcp_send_data`), `closed` and
`failed`. `buf` and `left` are the buffer and `buff_len` of the call; `Portion`
is what one `recv` may return. `LengthIn` reads the four bytes as a number: of
bytes that are a command's length it is that length, of any other bytes it could
be anything, so a slip by one byte shows in the commands returned. `NoData` is
`EAGAIN` with nothing read. `EAGAIN` with a part of the length read makes the
loop go round and changes nothing. `PhotoPipeline` has `recv_cmd` as
one step; `CommandsIntact`, `BetweenCommands` and `CommandsInOrder` (the
stream implements `CommandChannel`, a call of `recv_cmd` being one `Receive` or
nothing) are what justifies that, and
`ResultsLookedAt` says where it does not: a phone that sends a length and no
command holds `cmd_server` in the blocking read.

### Startup

`named`, `count` and `semRun` are the kernel's semaphore; `queue` is what
`msgget` finds, and a queue is the number it was made with. `CmdRemoveOld` and
`CmdMsgGet` are the two calls of `create_message_queue`, between which any other
process can run. `Restart` kills all processes at any moment and starts the
program again; kernel objects stay. An error return of `cmd_server` (`CmdFail`) calls
`msgctl(id, IPC_RMID)` on ids that may still be 0: the kernel may have a queue with
id 0, so it may remove one of this program's. `main` can fail at each of its steps,
`sem_wait` included (`MainFail`).

### MfcEncoder and VideoCapture

`at` is the call the thread makes next and `task` what it makes it for: `setup`
(before `pthread_cleanup_push`), `encoder` (up to the main loop), `loop`,
`snapshot` (`take_pohto`), `preview` (the reset behind a photo), `cleanup` (the
handler). `reset_v4l2_stream`, which serves `snapshot` and `preview`, makes the same
calls as the set-up, so an action such as `SFmt` belongs to all three and `Wanted` says
for which size. `cam` is what the driver has been told through the thread's
descriptor; `framebuf` holds for each entry the size of the buffer it maps, or
`stale`: an address whose mapping is gone, because `clear_v4l2_mmap` leaves it.

Every call of a driver can fail (`SetupFails`, `PhotoFails`, `ThreadFails`,
`CleanupFails`), and where the code loops over buffers it can fail behind any of
them (`HalfDone`). What the code does then is different in each task: before the
handler is pushed the thread exits and leaves all open; in `snapshot` the photo is
answered as failed and the camera reset; anywhere else the handler runs; in the
handler a failing `VIDIOC_STREAMOFF` ends it. `Cancelled` has the cancellation
points (`poll`, `pthread_cond_wait`, `msgrcv`, `msgsnd`, files). The server can ask for
it at any moment (`Cancel`), also before the thread has pushed its handler: that is the
`sem_wait` which fails. `mishap` is history: by which of the three ways around the
clean-up the thread ended, `early` (before the push, by an error or by that
cancellation), the `return` behind a failing `dispose_send_file`, or a handler that
itself fails. `EndsClean` is about the camera, the mappings and the encoder; a `FILE` and
buffers that a cancellation inside `fopen` or `fwrite` (`video.c:1249-1275`) leaves
are not modelled.

The encoder's buffers tell the frame captured last (`new`) from all earlier ones
(`old`) and from the header; a photo is a function from offsets to pixels, each
tagged with its plane and place, so that `ConvertNV12toIYUV` and the row pointers of
`I420_data_to_JPEG_data` are checked pixel by pixel. The build is the one of
`makefile`, with `-DDEBUG`, in which the capabilities are asked too (`Query`,
`EnumFmt`). `mmap` succeeds when `VIDIOC_QUERYBUF` has: the code could not notice
otherwise (`video.c:363` compares `MAP_FAILED` with `< 0`, as a pointer).

Its composition with the other modules is by interface: `HandOver` and `HeaderOut`
are `update_globe_frame_info` (`FrameSlot`), `Create`, `Cancel` and `Join` are what
`VideoSession`'s server does, `Ask` and the answers are `PhotoPipeline`'s messages.

### RtspText

A text is a sequence of words, and a search for a string is a search for
consecutive words; what the code takes apart (a command, the `_` in
`client_port=`, a number's digits) is several words, so that `recv` can end inside
it (`Recv`: any prefix of what was sent) and `get_port` can stop at another `_`
(`GetPort`). Parameter sets are bytes, and `Base64Encode`, `Base16Encode` and
`Split` work on them as the code does. A handler is an operator from what is in
`send_buf` and `recv_buf` to what it has appended, and whether it succeeded.
`reply` is history: the last reply and the request it went to. `TransportInfos`
has both outcomes of a `transport_info` without room for its terminating zero: a zero
happens to follow, or something else does, which is one opaque word (what stands behind
the array is undefined).
`Content-Length` counts words here, as everything does, and is written digit by
digit (`Decimal`).

What is assumed of the clients is `WellFormed`, a request as RFC 2326 has it: no
`CSeq` and no `Transport` twice, `Transport` only in a SETUP, digits where numbers
stand and a port of 16 bits, and a URI of any words but those the server looks for (a
command, `CSeq: `, `Transport: `, `port=`). The code needs all of this. It takes the
first match of `strstr` wherever it stands, so a URI with a command's name is that
command; and it answers as soon as it has found what it looks for and leaves the rest
of a cut request in the stream, so a second `CSeq`, or the `Transport` of another
command, would be taken for the next request's. Any other words, `_` included, may
stand in the URI; `User-Agent` comes in two variants, one with a `_`, before the
`Transport` line or behind it. The `Transport` line is the one players send, with a
pair of ports: `client_port=<port>-<rtcp>`. A single port without `-` is not offered:
`get_port`'s `sscanf` would copy into ten bytes all up to the next `-` or the end of
the request. The client waits for a reply before its next request, and its `Transport`
line is at most as long as `transport_info` (`RoomAssumption`); beyond that the code
writes past the array. Of an encoder `HeaderAssumption` says that its parameter sets
are bytes, that the SPS has a profile and a level, and that no start code is in it,
which H.264's emulation prevention guarantees: `get_sps_and_pps_from_header` splits at
the next one. Disconnecting clients and what happens to the threads are
`VideoSession`'s.

## 3. Runs

| run | module / cfg | bounds | what it shows |
|---|---|---|---|
| `slot` | `MCFrameSlot` | 3 NAL units; 1,837 states | mutual exclusion, no lost wake-up, refinement of the channel; a frame offered or asked for gets through |
| `sessions` | `MCVideoSession` | 3 sessions, 2 frames; 57,345 states | separation of sessions, header, cancellation and its handler, delivery in order; every ending ends, frames flow, photos are looked at while a client watches, a connection is answered unless its video thread died first |
| `camera` | `MCVideoCapture` | 2 buffers, 2 waiting requests, photos of 4x4; 36,207 states | camera and encoder agree with what the thread believes, photos are true and answered, the end is clean, a photo ends |
| `rtsp` | `MCRtspText` | 3 headers, 10 requests, every cut; 348,609 states | replies fit requests, the port is the client's, the description decodes to the encoder's parameter sets |
| `photos` | `MCPhotoPipeline` | 3 photos, 2 phones, queues of 2; 757,675 states | order, truth and accounting of photo requests, refinement of the photo service, with every `msgsnd` able to block |
| `photos_live` | `MCPhotoPipeline` / `MCPhotoLive` | 2 photos, 2 phones, queues of 4; 65,076 states | while phones read: a request is answered, a transfer gets a result |
| `packets` | `MCRtpPacketizer` | payload 4, lengths to 14, sequence numbers mod 8; 3,074 states | fragments are well formed, every byte goes out once |
| `commands` | `MCCommandStream` | 3 commands of 1 or 3 bytes behind lengths of 2, 2 echoes of 2; 38,968 states | commands and echoes whole and in order however TCP cuts the stream, refinement of the channel of commands, a complete command is served, results are looked at again and again |
| `startup` | `MCStartup` | 3 runs of the program; 42,951 states | shared and new queues, `main` gets through |
| `first_unit` | `MCVideoSession` / `MCVideoFirst` | 2 sessions | finding 1 |
| `peer_closes` | `MCPhotoPipeline` / `MCPhotoKilled` | 1 photo, 1 phone | finding 2 |
| `stale_unmap` | `MCVideoCapture` / `MCVideoUnmap` | as `camera` | finding 3 |

Why the bounds are enough. What one session leaves behind can only meet the next one,
because a session ends by joining its threads; three sessions show also what the
second, begun on a left-over, does to the third. Two frame numbers are enough to tell
a successor from a repetition, since only neighbours are ever in the buffer and the
RTP thread at a time; a loss of a whole lap of numbers would not be seen, and is
excluded by the theorem `DeliveryIsInOrder`, for every `LastFrame`. Three photos let
one be answered while another is being taken and a third asked for; with queues of two
messages the third sender blocks. Payload 4 with lengths to 14 gives single packets,
two, three and four fragments and every remainder; sequence numbers wrap within a few
NALUs. A length of two bytes and commands of one and three are the smallest that can
arrive in one portion, in two, and with the end of one command and the beginning of
the next together; the proofs hold for all sizes. Two buffers let a loop over them
fail before, between and behind; a second waiting request is a photo taken right after
one that failed; a 4x4 photo has two chroma rows of two. The parameter sets have every
length modulo 3, and requests come with the lines in several orders, with another `_`
before the port, with a URI without port, and with a `Transport` line of exactly 50
bytes. Three runs of the program are one that leaves a post in the semaphore, one that
uses it up and one that starts clean after it.

Deadlock is checked in `slot`. Elsewhere the system may really stop (the bounds
on sessions, photos and runs; a process that has returned), so
`CHECK_DEADLOCK FALSE` is set.

Fairness, and why the code justifies it:

* `FrameSlot`: a thread inside the call goes on when it can (the scheduler), and
  a thread that asks for the mutex again and again gets it (futex queue). Nothing
  is assumed of callers, cancellation or spurious wake-ups.
* `VideoSession`: the same for both threads; a cancellation request takes effect
  in a thread that reaches `pthread_cond_wait` again and again; the camera
  delivers a frame or fails, `sendto` (UDP) returns. The server goes on with
  `sem_wait`, `pthread_cancel` and `pthread_join` when they can. Nothing is
  assumed of the client, of failures or of photos.
* `PhotoPipeline`: each of the three processes goes on when it can, except in a
  `send`: that has no timeout (`net_trans.c:176`) and blocks for ever when a phone
  does not read, and a file shorter than `stat` said keeps `photo_send.c:113` in its
  loop. So neither an echo (`EchoPlaces`) nor a transfer (`pt = "send"`) is fair.
  The `SF` of a mutex has no counterpart here. Nothing is assumed of commands,
  sessions or failures.
* `CommandStream`: the server runs, and the phone takes its echoes so that `send`
  goes on. Nothing is assumed of what the phone sends, or when.
* `Startup`: `main` and `cmd_server` go on when they can.
* `VideoCapture`: the thread runs and every call it makes returns (`fimc_poll` after
  five seconds at most; `msgsnd` as long as the queue has room). Nothing is assumed
  of the RTP thread, for which `HandOver` waits, of the server or of the phone.

The liveness properties say what they depend on, because the program does:

* `PhotosLookedAt`: only while the RTP thread lives; when it has ended in
  mid-session the video thread stands still at the full buffer, and so do photos.
* `Answered`: a video thread that fails before `sem_post` leaves `video_server`
  in `sem_wait` for ever. No later client is served.
* `RequestAnswered`: photos are looked at after a frame has been handed over, so
  only while a viewer plays the stream; a request waits until then. It needs a phone
  that reads its echoes: `[]<>(cmd \notin EchoPlaces)`.
* `TransferEnds` needs phones that read and files as long as `stat` said:
  `[]<>(pt # "send")`.
* Both are checked with queues that have room. The two
  ends of `takeq` can block each other when it is full, and nobody reads the
  `TRANS_OVER` results in `sendq` (`check_send_photo_results` is never called),
  so after enough photos `photo_trans` and then the video thread block.

### Findings

1. `src/video.c:1666` says SPS and PPS come first. `is_full` is initialised once
   per process: a frame left in the buffer by a cancelled session is the first
   unit of the next client. `DeliveredInOrder` shows that this one unit is all
   that leaks.
2. `src/cmd_server.c:367` means to survive a peer that closes, but ignores
   SIGCLD instead of SIGPIPE.
3. `src/video.c:546` (and 584, 618, 664) says that `framebuf` holds the addresses
   the buffers are mapped at. `clear_v4l2_mmap` leaves them there: when
   `fimc_v4l2_s_fmt` or a later call fails in a photo's reset, the reset to preview
   unmaps the same addresses again, whatever another thread has mapped there since.

Other departures, which are as the modules have them and need no run to see:

* `src/video.c:1605` says the cleanup handler runs on termination; behind a
  failing `dispose_send_file` (line 1826) the thread returns, and camera and encoder
  stay open (`SendFileFails`, one of the exceptions of `EndsClean`).
* `src/rtp.c:159` says F and NRI of the FU indicator are the NALU's;
  `*nalu_buf & 0x80>>7` shifts the mask and not the byte (`F`, `NRI`).
* `src/main.c:63` says `main` waits for the command server; a semaphore left behind
  by a killed run makes it go on at once, and `QueuesShared` is stated for a run that
  made its semaphore.
* `src/video.c:1794` answers a failed photo with the size of the last one.

## 4. Proofs

All theorems hold for every value of the constants that satisfies the named
assumptions: `NoneAssumption` (`None` is not a NAL unit), `BoundsAssumption`,
`StartupAssumption`, `StreamAssumption`, `PipelineAssumption`, `PacketizerAssumption`
(bounds are positive), `CaptureAssumption` (there is a buffer; width and height of a
photo are even), and of the RTSP text `RequestAssumption` (every request is
`WellFormed`), `HeaderAssumption` and `RoomAssumption` (section 2, RtspText).

* **FrameSlotProofs.** `SlotInv` = `TypeOK`, `MutexHeldInside`, `NoLostWakeup`
  and `FrameKnown` (a full buffer, and a call that may still store, hold a NAL
  unit). `NoLostWakeup` alone is not inductive: that a signal reaches the right
  thread needs that the signaller is awake, hence only one can sleep, hence that
  `is_full` changes only under the mutex. Theorems: `SlotTypeCorrect`,
  `MutexIsHeldInside`, `WakeupsAreNotLost`, and `SlotIsChannel`, the refinement
  of `FrameChannel` (its safety part; the initial state maps to the empty
  channel, each step to a put, a get or a stutter).
* **VideoSessionProofs.** `Inv` = `TypeInv`, `MonitorInv` (the monitor's
  invariants, and a thread is in the call only when its own place says so),
  `VideoInv` (semaphore and header before and after `sem_post`), `RtpInv` (mask
  bits imply their predecessors; port and target belong to the session) and
  `ServerInv` (for each place of the server, which threads can exist; `EndingInv`
  says that `todo` is just the threads there are). `NothingOutlivesSession` rests
  on all of it: the thread that is not joined must be known not to exist. Theorems:
  the safety invariants of the run `sessions`, the types, and two the
  invariant gives on the way, `SemaphoreIsBalanced` (a token always belongs to the
  session that is being started, or nobody will ever take it) and `RtpImpliesPlay`.
  `CancelIsSafe` is `CancelFindsHandler` with its only exception, a `sem_wait` that
  failed and so ends the process; the invariant behind it says at which places of the
  server, freed or not, the video thread may still be without a handler.
  `DeliveryIsInOrder` needs an invariant of its own, `DeliveryInvariant`: `AgeInv`
  (no unit is of a later session) and `DeliveryInv` (the units in the buffer, in the
  RTP thread's hand and about to be put follow each other, and follow what the
  client got last, as far as they are of this session). It says in particular where a
  left-over of an earlier session can be, and that only one is.
  `SessionsUseMonitor` shows each step of the process to be a step of `FrameSlot`,
  with a thread's end or a new session as a stutter or the monitor's own
  cancellation, so what `FrameSlotProofs` proves of the monitor holds in this process.
* **VideoCaptureProofs.** `Inv` = `TypeOK`, `PlaceInv` (which calls a task is made
  of), `SettingInv` (what the calls of a set-up made so far have left),
  `StreamInv` (the camera is in preview through the main loop), `MappingInv` (what is
  mapped when), `EncoderInv` (which half is next and what is in it) and `PhotoInv`.
  `CaptureReady` alone is not inductive: that a reset ends in the right state, after a
  reset that failed anywhere, needs what each call leaves for the later ones.
  `PlanesOfFrame` proves the conversion of a photo right for every even size; it
  needs that an offset stays in its plane (`OffsetInPlane`). Theorems:
  `CameraIsReady`, `OutputIsCurrent`, `PhotosAreAnswered`, `ThreadEndsClean` and
  `CaptureTypeCorrect`, for every number of buffers, of requests, and every even
  photo size.
* **CommandStreamProofs.** `Inv` = `TypeOK`, `Layout` (the commands lie one behind
  the other in the stream), `Reading` (in a call of `tcp_recv_data` the buffer is
  the piece of the stream from the beginning of the next length, or of the next
  command, and `buff_len` is what it lacks) and the two properties.
  `CommandsIntact` alone is not inductive: it says nothing of a command until it
  is complete. That the bytes read are the length of the *next* command and of no
  other (`LengthIsRead`) needs the layout. `EchoInv` is the same for the other
  direction: what the socket was given is a beginning of all echoes, and what is
  left of the echo in hand follows it. The echoes one behind the other are
  `FlattenSeq`, a recursive function of the community modules; since induction is
  out of reach, `JoinsExist` and `JoinsUnique` prove its equation from a least
  counterexample (`Least`), and `FlattenAppend` is what the proof uses.
  `StreamIsChannel` is the refinement of `CommandChannel`: a command the phone
  begins to send appends to `Sending`, and the last byte of one appends just that
  one to `commands`. Theorems: `StreamTypeCorrect`, `CommandsAreIntact`,
  `CallsEndBetweenCommands`, `EchoesAreIntact`, `StreamIsChannel`, for every
  number and size of commands and echoes and every portioning.
* **RtpPacketizerProofs.** `Inv` = `TypeOK`, `PlaceInv` (what the counters say at
  each place of the loop), `SeqInv` (consecutive sequence numbers, modulo their
  width) and: nothing is sent yet, or the NALU is one packet (`Whole`), or packet
  `j` is slice `j` of it (`Cut`). The two properties are not inductive: that the
  last fragment ends where it must, and that it alone has the end bit, follows from
  where the earlier ones are. The arithmetic is in `Division` and `OneFragment` (a
  byte is in one fragment only). Theorems: `PacketizerTypeCorrect`,
  `FragmentsAreWellFormed`, `EveryByteIsSentOnce`, for every packet size and length.
* **PhotoPipelineProofs.** A request moves through stages, and `Inv` says that each
  stage is ahead of the next: `OrderInv` has the two chains (`AnswerChain`: answered,
  being echoed, answer queued, with the camera, request queued, being queued;
  `SendChain`: sent, being connected, file queued, with the camera, and the same
  end), `PlayInv` that what is in play or lost is exactly what was asked for,
  `DiskInv` and `FailInv` that results and transfers agree with the disk. No one
  property is inductive: that answers come in order needs that a queue hands out the
  oldest message of a type (`TakeOldest`), which needs each queue in order and ahead
  of the stage behind it; that a queued file is not reported as failed needs that
  the report of it, which another process sends, said success. Theorems:
  `PipelineTypeCorrect`, `AnswersComeInOrder`, `FilesAreSentInOrder`,
  `AnswersAreTruthful`, `TransfersAreOfTakenPhotos` and `NoRequestVanishes`, for
  every number of photos and phones and every `Room`. `PipelineImplementsService`
  uses the whole invariant: what a process holds is `Pending` in the service
  (`InWorkIsPending`), so a step that saves, tells or loses a photo does it to one
  the service may still save, tell or lose (`EchoServes`, `LosingServes`), and a
  connection is made for a file that is saved, comes behind the ones sent and was
  not reported as failed (`PtServes`).
* **StartupProofs.** `Inv` = `TypeOK`, `CountInv` (before `cmd_server` posts, a
  semaphore has no post of this run), `PlaceInv`, `QueueInv` (what the keys and
  `cmd_server` hold at each of its steps) and the two properties. Theorems:
  `StartupTypeCorrect`, `QueuesAreShared`, `QueuesAreNew`.
* **RtspTextProofs.** First the functions the handlers are made of, for texts, ports
  and parameter sets of every length: `LinesAreTakenWhole` (a line is copied up to its
  CRLF and no further), `PortIsRead` (the first port of the pair, if the first `_` of
  the request is the one of `client_port`), `SetsAreSplit` (both parameter sets
  come out whole of every header without a start code in its SPS; the zeros behind the
  header do no harm), `GroupsAreWhole` (base64 comes in groups of four with at most
  three pads) and `Base64RoundTrip` (what `base64_encode` writes decodes to what it was
  given: every byte is in two characters, `SixIs` and `ByteIs`).

  Then the session, for every set of well-formed requests and every way TCP cuts them.
  A text has *marks* (`Marks`: which of a set of words stand in it, each once, and the
  piece that each begins), and marks add up when texts are joined (`MarksJoin`); for
  the lines of a request, which `FlattenSeq` joins, this is an induction over their
  number, made with a least counterexample (`FlattenMarks`). So `RequestText` has its
  command and its fields once each (`RequestIsSent`). `SessionInv` says what
  `recv_buf` and the stream hold *together*: with no request waiting no word the
  server looks for, else of these words only those of the request that waits, each
  once and with all that belongs to it behind it (`Sent`). None of the properties is
  inductive without it: that a port is the client's needs that what `recv` gave is a
  beginning of this, so that a line with its CRLF in sight is the whole line
  (`LinesReceived`), that the command that is found is the command of the request that
  waits (`CommandIsRequests`), that `_` and `port=` stand together only in the
  `Transport` line (`PortIsIn`, `PortReceived`), and that what remains when a command
  is served is harmless (`RestIsHarmless`). Theorems: `SessionInvariant` and
  `PortIsTheClients`.

  The replies are built the same way. `Tracked` are the words a reply has once or
  not at all; `Lines` is a text of non-empty lines with its tracked words and the pieces
  it holds, `AddLine` appends one, and `Shaped` is the whole: first word, tracked
  words, pieces, and a body behind the only empty line (`HeadAndBody`). One lemma per
  handler gives its shape (`OptionsShape` to `DescribeShape`), one per command turns
  that into what `ReplyFitsRequest` asks (`OptionsFits` to `DescribeFits`), and
  `Outcomes` says that a step answers, forgets the reply or leaves it with its session
  and its encoder. `BetweenIs` gives back what stands between two words; the characters
  of base64 and base16 are none of them (`EncodedPlain`, `LevelSays`).
  Theorems: `RepliesFitRequests` and `SetsAreTheEncoders`, for every header, every
  well-formed request and every cut; with them every safety property the passing
  runs check is also a theorem.

Only model-checked: all liveness (`FramesGoThrough`, `SessionEnds`, `FramesFlow`,
`PhotosLookedAt`, `Answered`, `RequestAnswered`, `TransferEnds`, `CommandServed`,
`ResultsLookedAt`, `StartsUp`, `PhotoEnds`), which is outside the prover's reach, with
it the liveness part of the refinements. The type invariants are theorems and not
properties of runs; so is `CommandsIntact`, which says of each state what
`CommandsInOrder` says of each step.

## 5. Not modelled

* The drivers beyond what their callers tell them; `videodev2.h`,
  `videodev2_samsung.h`, `jpeglib.h` and the other JPEG headers, `compiler.h`, which
  are vendored declarations. Error texts and log.
* Functions nothing calls: `SsbSipMfcEncSetConfig`, `SsbSipMfcEncGetConfig`,
  `check_send_photo_results`, `del_message_queue`. `Get_NTP` is called, twice
  (`rtsp.c:196`), and its value, the time in the `o=` line, left out.
* RTSP requests of 1400 bytes and more, `Transport` lines beyond 50 or with a single
  port, clients that do not wait for a reply, user agents other than the two.
* Commands whose length is 0 or larger than the buffer of `recv_cmd`.
* The byte order of a command's length, which the phone's program and this one
  take unchanged; more than one connection in `CommandStream` (nothing but the
  queues, which `PhotoPipeline` has, outlives a connection).
* The byte framing of `photo_send.c`, which uses `tcp_send_data` in the same way:
  a transfer in `PhotoPipeline` succeeds or fails at any place.
* Photo names that repeat, time stamps, the shared memory's life.

## 6. Plan

Done: the frame buffer, the sessions, the photo pipeline, the packets, the
framing of commands, the start, camera and encoder, the RTSP text; proofs of the
safety properties of all of them; the refinements of the frame channel, the channel of
commands and the photo service.

Next, in this order:

1. Photo names as data, so that a photo can be taken again under a name being
   sent.
2. `RtspText` as a refinement of what `VideoSession` says of a request, so that the
   two models of a session are one.
