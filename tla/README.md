# RtspClientSharp in TLA+

Models, model-checking runs and machine-checked proofs for
[RtspClientSharp](../src), a C# library that receives video and audio over
RTSP (interleaved TCP, UDP, multicast, HTTP tunnel) or over plain RTP/UDP,
reassembles frames, hands them to an application, records them, and shows them
in a WinForms control.

The interest of this code is in its concurrency and in what it does with a bad
network. Receive loops run on pool threads, frames change threads through a
bounded queue, every blocking call is ended by disposing something under it, a
timeout abandons work without stopping it, and packets arrive late, twice or
never. Further up, the video control shares its decoders between the UI thread and
threads it does not always wait for, and below it one native context goes through
hardware, software and two Direct3D devices. Those are the parts modelled.

Paths below are relative to `src/RtspClientSharp/` unless they begin with
another project's name.

## 1. Inventory

### The parts and how they interact

```
 application ── RtspClient ── RtspClientInternal ── transport client (TCP / HTTP tunnel)
      │             │                │  └─ TpktStream: media interleaved with RTSP
      │             │                └─ UDP sockets, one pair for each track
      │         RtpClient (direct RTP/UDP, one socket)
      │                              │ datagrams
      │        RtpSequenceAssembler ── RtpStream ── payload parser (H264, H265, MJPEG, audio, TS)
      │                              │ frames
      └──── handler ── dispatch thread ── RawFrameDispatcher
                         │
       recorders, rolling buffer, WinForms frame source and control
```

Calls go down, packets and frames come up as callbacks (`PacketPassed`,
`FrameGenerated`) on the thread that received them, as far as the dispatcher,
which moves them to a thread of its own. Shared state is small: the dispatcher's
queue, `_frameDispatcher` (made lazily, taken by `Dispose`), the `_disposed`
flags, the socket maps, the counters, and the parser's storage, into which every
frame points until it was copied.

### Components

For each: its state, its operations, what is hard, what makes it correct.

**RTP sequence assembly** (`Rtp/RtpSequenceAssembler.cs`, `Rtp/RtpStream.cs`,
`Utils/ChunksArray.cs`, `Rtcp/RtcpReceiverReportsProvider.cs`). State: the
reordering buffer with its sorted index lists, a pool of payload chunks, the
expected sequence number and timestamp, the stream's counters and clock.
Operations: process a datagram, draw a receiver report. Hard: loss,
duplication, reordering and wrap-around all at once; a parser that throws in the
middle of the hand-over. Correct: order restored, every chunk given back once,
payloads intact, the parser told of every gap, counters that add up.

**Frame dispatcher** (`Utils/RawFrameDispatcher.cs`, `Utils/RawFrameCopier.cs`).
State: a bounded queue, "waiting for an I-frame", the disposed flag, pooled
copies. Operations: `TryEnqueue` by receive threads, the dispatch loop, `Dispose`
by any thread, the handler's own included. Hard: `Count` and the free slots of a
`BlockingCollection` disagree for a moment; the flush runs beside the consumer;
`Dispose` against everything. Correct: a FIFO channel, no pooled buffer lost,
no damaged H.264 chain shown, shutdown ends the loop.

**Direct RTP client** (`RtpClient/RtpClient.cs`). State: the socket, one receive
buffer, the parser's storage, the dispatcher field, counters. Operations:
`ConnectAsync`, `ReceiveAsync`, `ReceiveLoopAsync`, frame delivery, `Dispose`.
Hard: a receive abandoned on timeout goes on; the dispatcher is published with a
compare-and-swap against `Dispose`; closing the socket is the only way to wake a
blocking receive. Correct: cancellation ends a call, dispatchers are never
forgotten, frames are stable until copied, counters tell the truth.

**RTSP session** (`RtspClient.cs`, `Rtsp/RtspClientInternal.cs`,
`Rtsp/RtspTcpTransportClient.cs`). State: the current session, its transport, the
sockets of each track and the map of them, the server's cancellation token, the
tasks of the receive loops, the disposed flags. Operations: connect (OPTIONS,
DESCRIBE, SETUP for each track, PLAY), receive with keep-alives, TEARDOWN,
cancel, `Dispose`. Hard: the application gives up on a connect that goes on by
itself; `Dispose` between any two awaits; receive loops that fail one by one.
Correct: what was opened is closed, a call ends after cancellation, TEARDOWN
after BYE.

**Session timers** (`RtspClient.cs:148-178`, `Rtsp/RtspClientInternal.cs:118-149,
183-187,442-450`). State: the flag that a frame arrived, the delays. Operations:
the receive watchdog and the keep-alive loop. Hard: a flag reset before the wait
it guards; a delay that starts before the request it follows. Correct: silence is
noticed in bounded time and never invented; the server hears from the client
within its session timeout.

**RTSP requests and authentication** (`Rtsp/RtspTransportClient.cs`,
`Rtsp/RtspRequestMessageFactory.cs`, `Rtsp/Authentication/*`). State: CSeq,
session id, the authenticator, the buffer of the last response. Operations: execute a
request, repeat it once after a challenge. Hard: TCP cuts a response anywhere, and the
bytes after the last one already belong to media. Correct: bodies are whole; the
byte stream is handed over without loss.

**Interleaved framing** (`Tpkt/TpktStream.cs`). State: a buffer with the
unparsed rest. Operations: read a packet, write one. Hard: TCP may cut the stream
anywhere, RTSP text lies between the packets. Correct: every packet exactly
once, for every way the stream is cut.

**HTTP tunnel** (`Rtsp/RtspHttpTransportClient.cs`). State: two connections, the
second made anew for each request. Hard: `Dispose` between the two.

**Depacketizers** (`MediaParsers/H264*.cs`, `H265*.cs`, `MJPEG*.cs`, `RawJpeg*.cs`).
State: the unfinished frame, the fragment in progress, parameter sets.
Operations: `Parse` a payload, `ResetState` after a gap. Hard: a lost fragment in the
middle. Correct: a frame never joins parts of two frames.

**Audio parsers** (`MediaParsers/AAC*.cs`, `G711*.cs`, `G726*.cs`, `PCM*.cs`).
No state between packets.

**Transport and codec detection** (`Rtp/AutoDetectingTransportStream.cs`,
`MediaParsers/AutoDetectingVideoPayloadParser.cs`). State: what was decided, the
packets held until then. Hard: replay without loss or repetition.

**MPEG transport stream** (`Ts/TsStream.cs`, `TransportStream/*`). State: PAT, PMT,
the PES in progress for each PID, a partial packet. Hard: tables that change,
continuity counters, losses inside a PES.

**Recording** (`Recording/*`, and what feeds them in
`RtspClientSharp.WinForms/RtspVideoControl.cs`). State: the rolling buffer of the frames
before a recording, the recorder and whether it waits for a key frame, the two flags
that decide whether frames are captured at all. Operations: add and prune, start and stop a
recording, write a frame, start and stop the source. Hard: a write fails on one
thread while another starts the next recording; a recorder throws when it is stopped;
`Stop` does not wait for ever. Correct: pruning loses nothing a recording may still begin
with; a file has every frame since its first key frame.

**SDP** (`Sdp/SdpParser.cs`). Text to tracks, no state.

**WinForms control** (`RtspClientSharp.WinForms/RtspVideoControl.cs`,
`RawFrameSources.cs`, `BitmapVideoRollingBuffer.cs`). State: whether it plays and with which
source, a generation that outdates frames, the decoders, the front bitmap and
whether it was painted, "wait for a key frame", the time of the last frame, the
pipeline mode asked for and the one in effect. Operations: `Start`, `Stop`, the settings, the
timer's look at the no-video timeout, paint, resize, and the frame that comes on the
thread of a source. Hard: `Stop` waits two seconds for that thread and no
longer; the lock around the decoders does not cover the gate before it nor the flag set after
it; the timer acts on a time it read before; a recorder that is stopped and the application's
handlers may throw in the middle of `Stop` or of a frame. Correct: a stopped control is
empty, no picture without video, the display does not block itself, a decoder gets frames in
the order of their references - each with the exceptions named in section 4.

**Decoding and the native helper** (`RtspClientSharp.WinForms/FfmpegVideoInterop.cs`,
`Examples/libffmpeghelper/videodecoding.cpp`). State: the codec context and its device,
the format that stands for hardware, the frame in hand, what the renderer made (shaders, swap
chain, view, textures) and on which device, the cached scalers. Operations: create, parameter
sets, decode to memory, decode to the GPU, scale, render, dispose. Hard: everything
may be refused half-way, and what was made before stays; a texture is known by its address.
Correct: what is scaled or drawn is what was decoded, with resources of one device.

**Examples** (`Examples/Simple*`). Demonstrations; what they do with the client is
the application of the models.

`PROJECT.json` lists under `hazards` where this code is hard to test, line by
line, with the properties that would notice.

## 2. Plan

Modules, in the order of their importance, with what is done marked.

| order | module | models | status |
|---|---|---|---|
| 1 | `ChunksArray`, `RtpStream`, `RtpSequenceAssembler` | the receive path of a UDP stream, the first two composed into the third | done, proofs |
| 2 | `FrameChannel`, `RawFrameDispatcher` | the promise of the dispatcher, and its threads shown to keep it | done, proofs |
| 3 | `RtpClient` | the direct client with racing receives and `Dispose` | done, proofs |
| 4 | `RtspSession` | RTSP sessions over TCP, UDP and multicast | done, proofs |
| 5 | `SessionTimers` | the receive watchdog and the keep-alive loop, with clocks | done, proofs |
| 6 | `RtspConnection` | request, challenge, repetition, and the media that follows, under any segmentation | done, proofs |
| 7 | `CompressedRecording` | the rolling buffer, the recorders and what feeds them | done, proofs |
| 8 | `RtspVideoControl` | the control's UI thread against the threads of its sessions | done, proofs |
| 9 | `VideoDecoder` | the native decoder, its fallbacks, scalers and render resources | done, proofs |

What would be next: the depacketizers (a fragment lost in the middle), the packets held
by codec detection, the TS parser's continuity counters, the HTTP tunnel as a third
transport of `RtspSession`. All but the last are sequential code of one thread, with unit tests.

Theorems worth proving next: an abstract specification of the assembler, a stream that is
delivered in order with gaps, and of the rolling buffer, and that the modules implement them. Every
invariant the runs check is stated by a theorem.

## 3. The modules

### ChunksArray, RtpStream, RtpSequenceAssembler

`ChunksArray` is the pool of payloads: a list of chunk sizes, a count and a list
of free chunks, with `Add`, `RemoveAt` and the indexer as the code has them.
`RtpStream` is `ProcessImmediately`: first packet, stale packets, gap detection
with `ResetState`, the cycles of the extended sequence number, the interval and
cumulative loss counters, the clock, and the call of the parser. Both are modules
of definitions over their own variables; `RtpSequenceAssembler` extends them and
has the actions.

| code | model |
|---|---|
| `_bufferedRtpPackets`, `_rtpPacketIndexToChunkIndexMap`, `_removeList` | `buffered`, `chunkMap`, `removeList` |
| `ProcessPacket`, up to the first call of the subscriber | `ProcessPacket(n)` and its cases |
| `ProcessBufferedPackets` with its scan and removal loops | `pc` = scanning, removing |
| `PassNearestBufferedPacket` when the buffer is full or the frame ends | `pc` = full, flushing |
| an exception of the payload parser | `CallbackThrows`: fields stay, locals are gone |
| the receiver report drawn between two datagrams | `SendReport` |

A packet is a number, the sender's order. Sequence numbers and time stamps are
functions of it that wrap around (`SeqModulus`, `TimestampModulus`), so that
"in order" can be told from "has the next number"; `SenderClock` is the sender's time before it
was cut to a time stamp. The network delivers each packet up
to `Copies[n]` times, at most `MaxDisplacement` late, losing at most `MaxGap` in
a row. The parser generates nothing here: what matters is which payloads it is
given, in which order, and where it is reset. Variables at the end of the list
(`arrivals`, `handed`, `parsed`, `joined`, `totals`) are histories; `totals.first` is the packet
that began the stream.

### FrameChannel, RawFrameDispatcher

`RawFrameDispatcher` has one action for each step another thread can see: taking
the lock, the decision on `Count`, each `TryTake` of a flush, the `TryAdd`, and the
three steps of the blocking take (claim the semaphore, dequeue, free the slot).
`BlockingCollection` is modelled from how the code uses it, as a queue between two
semaphores. `Dispose` sets the flag, waits for the lock, completes adding and joins the
loop unless it runs on it. A frame is a number, a kind (I, P, other) and the H.264
frame it depends on. `FrameChannel` is what all that should amount to: `Accept`,
`Overflow`, `Discard`, `FlushEnds`, `HandOver`, `Handled`, `Close`, `End` over a sequence of frames. The
refinement maps the queue to `waiting`, the frame in the loop to `inHand` and the
states of a flush to `flushing`.

### RtpClient

Each socket receive is a process: pending, received, parsed, generated, then the
steps of `OnFrameGeneratedThreadSafe` and `GetFrameDispatcher` one by one
(look at `_disposed`, read the field, create, look again, compare-and-swap, dispose
the loser). `ReceiveAsync` may time out and leave its receive pending, which then
runs beside the next one: `receiveBuffer` and `storage` say which datagram is in
the shared memory, `frameOf` which one a frame was made of. `Dispose` is three steps
(flag, take and dispose the dispatcher, close the client).

### RtspSession

A session is a `RtspClientInternal`. Its `ConnectAsync` is the sequence
created, made, connecting, describing, settingUp, mapping, setUp, playing, done,
with a step for everything that opens something: the transport object, its socket,
the sockets of a track, their entry in the map. Its `ReceiveAsync` has the receive
loops (one over TCP, two for each track over UDP), the keep-alive in progress, the
TEARDOWN. The application's calls run beside both and may give up on
either. `Dispose` (of the client, by another thread; of the session, by the
application's own calls) is flag, sockets in the map, transport. `late` is a
history: something was opened or mapped during or after the session's `Dispose`.
`parameters` is the `ConnectionParameters` of the client, chosen at the start.

### SessionTimers

The same two `ReceiveAsync` as in `RtspSession`, seen as loops with clocks. The watchdog is
resetting (the flag), starting (the delay), waiting, testing; frames set the flag
at any moment. The keep-alive loop is starting, waiting, sending, answering; over
TCP it does not wait for the answer. `Tick` is the only step in which time passes, and
it is disabled when somebody is about to be later than the constants allow: a thread
goes on within `Latency`, a request reaches the server within `DeliveryTime`,
an answer is awaited for at most `AnswerTime`. Clocks count from an event (the last frame, the
start of a delay, the server's last news), so none has to be bounded: each stops growing
where its loop goes on. The interval is drawn as the code draws it,
with 32-bit arithmetic scaled down to `IntRange`; when it overflows,
`Random.Next` throws (`IntervalOverflows`).

### RtspConnection

One connection, from the first request to the media. What the server sends is on the `wire`;
instead of bytes it has tokens: a status line, the two CRLF that end the headers, the
bytes of a body, the four of a media header, those of a payload. A read of the client takes any
number of tokens from the front, at most what its count allows, so TCP cuts at
every place. `ReadHeaders` is a turn of `ReadUntilEndOfHeadersAsync`, `Parse` and
`ReadBody` the rest of `GetResponseAsync`, `Decide` what `ExecuteRequest` and its callers make of
the status; `FindNextPacket`, `ReadHeader` and `ReadPayload` are `TpktStream.ReadAsync`. Two
histories name what the code gives away: `swallowed`, bytes behind a response were
dropped with it, which happens when PLAY itself is challenged, and `misframed`, a `$` in the answer
to a keep-alive request was taken for a packet.

### CompressedRecording

The rolling buffer is kept as all the frames added to it and the index of the first
that is still there, so that what was pruned can be compared with what
is asked for. `Pruned` and `StartIndex` are `Prune` and `GetFramesForRecording`. The UI
thread has `Start`, `StartRecording`, `StopRecording` and the steps of `Stop` (unsubscribe, wait for
the thread, stop the recording, clear the buffer), the thread of each session takes a
frame, records it under the lock, and handles a write that failed outside of it. A
recorder may throw when it is stopped. `file` is a history: the frames in the file.

### RtspVideoControl

Two kinds of threads. `ui` is the UI thread: between two messages (`idle`), in the steps of
`Start` and `Stop`, in the timer's `CheckForVideoTimeout` (`FindStale`, then
`EnterNoVideo`), in `DropVideoDecoders` (`Drop` under the lock, `DropEnd` after it). Each session
that was started has a thread that brings one frame after the other: the choice of path
(`Receive`), the gate before the lock (`Gate`), decoding (`CpuDecode`, `GpuDecode`), scaling or
rendering under the lock (`Publish`, `Render`), and the fallback from the GPU path in its
three steps. `Waits(late)` is where `Stop` waits for that thread or stops waiting, after
which it is in `outlived` and may do all of this beside the next session. `Stop` goes on
(`Joined`, `Drop`, `DropEnd`, `ClearAfterStop`) or ends there by an exception (`StopThrows`): the recorder
throws when it is stopped, or the wait rethrows what ended the receive loop. It then leaves the
decoders, the picture and the no-video state as they were until the next `Stop` or `Start`, and
`cutShort` remembers it. A handler of `StatusChanged` or `FrameDecoded` may throw wherever it is
called: the frame ends, a key frame is needed (`CpuThrows`, `Caught`, the second disjuncts of
`Publish` and `FallbackDropEnd`), and a `Start` may end after its `Stop` (`ClearAfterStop`). `Run` has
a `Start` that cannot create or start its source. What happens under
`_frameSyncRoot` is one step; `_decoderSyncRoot` is `lock`. The decoder is kept as the path that made it
and whether hardware is in use. `chain` says what of the stream the decoder has, and why
something is missing.

| code | model |
|---|---|
| `_frontBitmap` | `front`: none, published, or `"late"`, published after the image was hidden |
| `_frontFrameSequence # _presentedFrameSequence`, `_pendingFrame` | `unseen`, `pending` |
| `_generation` read by a frame | `current` of its thread, reset by `OutdateFrames` |
| `_pendingFrame` left set by a frame that an exception ended | `abandoned` (history) |
| `_lastVideoActivityTimestamp` | `activity`: it is not zero; `NoVideoTimeout` may have passed whenever `FindStale` looks |
| `_videoDecoders`, `_waitForH264KeyFrame`, `_effectivePipelineMode` | `decoder`, `waitForKey`, `effective` |

### VideoDecoder

What happens under that lock, in detail: the managed decoder (`extraData`, `frame`,
`scaler`, `reported`) over the native context (`hw`, `codec`, `active`, `resources`,
`source`). FFmpeg, Direct3D and DXGI may refuse every request, so each function has a
disjunct for every way out. `TryDecode` hands over the parameter sets of a key frame, for
which the codec context is made anew (`AcceptExtraData`) or put back (`RefuseExtraData`);
`DecodeFrame` ends in memory, with the transfer from the GPU and its fallback;
`DecodeFrameToGpu` goes on to the renderer, whose four `Ensure` functions keep what
exists. A device is a number, so that a resource remembers on which one it was made; a texture
of the decoder has an address, which may be used again. `replaced`, `reused` and `refused`
are histories of the three things that void a promise.

## 4. Runs

Every passing run explores its whole state space; deadlock is not checked where
the system may stop (packets, frames, sessions are used up, or the client is
disposed). A property that is a conjunction has its parts stated and explained one by one in its module.

| run | bounds | what it shows |
|---|---|---|
| `assembler_network` | 8 packets, two frames, buffer 5, 16 sequence numbers that wrap at the second packet, 4 time stamps that wrap at the second frame, late by up to 4, up to 2 lost in a row, the first packet may be missing, one packet duplicated, one report | `PoolIsSound`: ownership, payloads, room; `OrderIsRestored`: nothing forgotten, nothing held without a gap, order within a frame; no join across a gap; the clock; `CountersAddUp`: losses, cycles and reports |
| `dispatcher` | two receive threads (H.264, audio), queue of 2, 4 frames, `Dispose` by the application and by the handler | the dispatcher is a `FrameChannel`; `TryAddIsSafe`; no buffer lost; `ChainsEndWithAFlush`: how a chain can be damaged; `NobodyIsStuck` |
| `dispatcher_chain` | one thread, queue of 4, 7 frames | **violation**: a P-frame is shown without its predecessor |
| `direct` | two receives, two datagrams, two threads that dispose | counters, dispatchers, stable frames unless a receive was abandoned, cancellation |
| `direct_storage` | the same, one thread that disposes | **violation**: an abandoned receive and the next share the buffer |
| `session` | one session, one track, all three transports, one other thread that disposes | `NothingIsLeftOpen`: everything closed unless it was opened late, nothing given up undisposed; BYE before TEARDOWN; `SessionEnds` |
| `session_timers` | timeouts of 2 and of 16 or 24 ticks, the latter overflowing integers up to 64 when tripled; latency and delivery 1, answers within 4 | a receive timeout is deserved and comes in time, the server's session outlives every keep-alive interval |
| `connection` | OPTIONS, DESCRIBE with a body of 2, PLAY; room for 9 tokens of headers, a read buffer of 6; 3 packets of 0, 1 or 3 bytes, one answer to a keep-alive | `DataIsWhole`: bodies and payloads, however TCP cuts them; only a challenged PLAY swallows; every packet arrives |
| `recording` | window of 2, 5 frames 1 or 3 apart, two sessions | pruning is invisible, a recording is complete, a recorder is fed |
| `control` | software and GPU modes, two GPU failures in a row instead of three, two sessions, three calls of the application | a stopped control is empty unless its `Stop` was cut short or did not wait; no bitmap without video but a late one; no display that blocks itself but by a frame lost between two failures; frames in order |
| `control_gpu_given_up` | one session, three calls | **violation**: the GPU mode is given up without a cause |
| `decoder` | 2 parameter sets, 2 sizes, 2 addresses, 2 devices | what is scaled and what is drawn is what was decoded |

Why the bounds are enough. The assembler's behaviour depends on the distance of a
packet from the expected one and on whether the buffer fills: a buffer of 5 with
packets 4 late and one duplicated reaches full buffers, a frame that ends with
packets held back, and both ways out of the removal loops, and both moduli wrap.
For the dispatcher a queue of two has all the cases of empty, in between and
full, two producers contend for the lock, and four frames are one more than
queue and handler hold. Two receives are the fewest that share the buffer and race to
publish a dispatcher; a third adds one more of the same racers, and the theorems
about dispatchers and frames hold for any number. For sessions, one is enough for
what is opened and closed in it; the theorem has any number of them. A connection's buffer holds more than
a header and less than two packets, so that packets are cut in the header, in the payload
and behind it, and one read has the end of one and the beginning of another; there is room for more than
the headers, so that a read without a limit takes media with it. Five frames with
gaps smaller and larger than the window leave key frames inside it, before it and
nowhere. The control has two sessions because a thread that `Stop` did not wait for needs
one to disturb, and three calls because recording, changing a setting and stopping it again is
the longest of its scenarios; starting, recording and hiding the image also reach each of
the exceptions that section 4 names. Two of everything make a decoder's parameter sets, sizes,
addresses and devices change once.

What the three violations show is described, with the sentence of the code they
disagree with, under `findings` in `PROJECT.json`. Eight more facts about the code that the
properties and theorems make exceptions for, and name:

- Two packets swapped across the boundary of two frames are not put back in order: a packet with
  another time stamp is handed over at once (`RtpSequenceAssembler.cs:64`), so `OrderIsRestored` is
  about lateness within a frame.
- A packet that the network duplicates while it waits in the reordering buffer is there twice. The
  scan removes the copy it hits (`RtpSequenceAssembler.cs:154-183`); when the packets after it
  come in order, nothing looks at the other copy again before another gap. In a stream that
  goes on for about as many packets as there are sequence numbers, that scan takes
  the old copy for the packet it looks for: the parser is given an old payload, and the packet
  it stands in for is dropped as a repetition. TLC shows it with six sequence numbers, a
  buffer of three and nine packets; the run's stream is shorter than half of its numbers, and the
  theorems say so (`EnoughNumbers`).
- When the parser throws out of `PassNearestBufferedPacket` (`RtpSequenceAssembler.cs:115`) the
  buffer stays full, and the next out-of-order packet is refused by the pool. `ParserThrows` is
  `FALSE` in the run and in `PoolAlwaysSound`.
- A dispatcher can be published after `Dispose` emptied the field (`RtpClient.cs:553`): it stays in the field of a disposed client, and nobody ends
  it (`DispatchersHaveOwners` says where a dispatcher is, not that it ends).
- A session whose `Dispose` runs while `ConnectAsync` is about to open its transport or
  to map the sockets of a track (`RtspTcpTransportClient.cs:30`, `RtspClientInternal.cs:327`), or whose
  SETUP response has no usable Transport header, leaves them open: `late` records it, and
  `NothingIsLeftOpen` is about the sessions to which this did not happen.
- `StopRecording` may throw in the middle of `Stop` (`RtspVideoControl.cs:572`, from the recorder's `Stop` at
  678 or 714), and the wait before it may rethrow. `Stop` ends there, with `_playing` reset and the decoders, the front
  bitmap and the no-video state still there (582-587). `cutShort` records it until the next `Stop` that goes
  through, or `Start`; `StoppedIsEmpty` is about the other times. TLC finds a stopped control with a decoder
  and a picture at once when `~cutShort` is dropped.
- A bitmap may be published after the image was hidden (`RtspVideoControl.cs:1421-1424`), by a frame that was decoded
  before. When the timeout comes while the image is hidden, which takes a bitmap recording
  (1694), it does not clear that bitmap (1711). The no-video state begins with it, and when the image is shown again
  `OnPaint` paints it, for it looks at the bitmap and not at that state (971-1010), while the
  timer has nothing more to do (1705). `src/RtspClientSharp.WinForms/README.md:36-38` has a stalled stream clear the stale
  surface. `front = "late"` is this bitmap, and `NoVideoMeansBlank` is about all others. TLC finds it in
  the no-video state when the exception is dropped; one call more shows the image again.
- A frame that set `_pendingFrame` (`RtspVideoControl.cs:1376`) may fail to be recorded (1383), and the
  `catch` around that may throw in turn: `StopRecording` (1390) stops the recorder, and
  `SetDecoderStatus` (1392) calls handlers. The frame ends before the `try` whose `finally` resets
  `_pendingFrame` (1397-1433). Nothing is there to be painted, so no frame is published until something clears the
  picture or an older one is painted: the display waits for itself. The comment at 1387-1389
  says that a missing bitmap writer must not break the normal display pipeline. `abandoned` records
  it, and `PendingIsVisible` has no other way for a pending frame to be neither on its way nor there for the
  next paint. TLC finds the blocked display at once when `abandoned` is dropped.

Other exceptions are histories of the module they belong to: `outlived` (a `Stop` that did not wait, in
`FedInOrder`, `StoppedIsEmpty` and `RecordingIsComplete`), `raced` and a hidden image in `FedInOrder`, `early` (a recording
started while nothing played) in `RecordingIsComplete` and `RecorderIsFed`; `replaced`, `reused` and
`refused` in the decoder. What happens in these cases is not claimed to be right.

## 5. Fairness

Weak fairness everywhere, and only of what needs nobody's help. Threads are
scheduled (`TryEnqueue`, `Dispose`, the dispatch loop, receives), locks and
semaphores are released by code that does not wait, timers fire, a call on a closed
socket fails, a cancelled token runs its callbacks. The client of a connection goes on
when the wire has what it waits for, or was closed (`WF_vars(Client)`). Nothing makes a datagram
arrive, a server answer, an application cancel, dispose or time out. Two
assumptions are about the application: its frame handler returns, and
after a call of the session ended it is not obliged to do anything more. The control's module
has no fairness and no liveness property; its handlers return or throw.

## 6. Proofs

Each module with theorems is named after the one it is about; those about `SessionTimers` are in
`RtspSession_proofs`, with the other facts about a session. The proofs assume what
the modules assume of their constants (the `ASSUME`s, which TLC evaluates on every
run) and nothing else; where a theorem needs more, the condition is in its statement.

**RtpSequenceAssembler_proofs.** `IInv == TypeOK /\ ChunksHaveOneOwner /\
ChunksHavePackets`. Ownership alone is not inductive: the removal loop gives back
the chunk at an index of `chunkMap`, so the two lists must have matching lengths
while a pass is half done, also after an exception cut it off. From it:
type correctness and `ChunksHaveOneOwner`, with a parser that throws; for one that does not,
`PayloadsIntact` and `InsertHasRoom`, which need that the bytes are in place in the middle of a
pass (`BytesInPlace`) and that a full buffer is emptied by one before the
next packet (`Room`); together they are `PoolAlwaysSound`. `LossAccounting` is arithmetic modulo the product of the two
moduli, from a lemma about a sequence number step and its cycle. `ReportsAddUp` is
inductive by itself, given the types; both are `CountersAlwaysAddUp`.

What reaches the parser is a second series of theorems, for a parser that does not throw. They
say what they need of the sender and the network:

| hypothesis | says |
|---|---|
| `NumbersFollowOrder` | the sender numbers its packets one after the other, modulo `SeqModulus` |
| `EnoughNumbers` | `ShortStream`, all packets lie within half of the numbers, or `DeliveredOnce`, nothing is duplicated and what is late, lost or held back is less than half of the numbers; without it, see the duplicate in section 4 |
| `BufferOutlastsDelay` | a packet is late by less than the buffer holds |
| `ClockAdvances` | a time stamp is the sender's clock, which advances by less than time stamps can tell apart while half of the sequence numbers are used |

The constants of `assembler_network` satisfy all four, the first alternative of `EnoughNumbers` included;
an instance with the second one, whose numbers come round, was checked with TLC as well.
`ParserInv` says where `RtpStream` is: it accepted some `q` last, with `q`'s number and
clock (`StreamIsAt`), and the parser is behind `q` by packets without a payload at most. A packet
that is not stale is then beyond `q` (`NumbersTellTheOrder`), and one without a gap is
the next: hence `ParsedInOrder`, `ParserNeverJoinsAcrossAGap` and `ClockFollowsSender`.
For `NothingForgotten` the two removal loops matter: `RemovalIsSound` says that each index
`ProcessBufferedPackets` collects is of a packet passed, and is there once, so that
removal in the order of the sorted list takes away those packets and no others (`OnlyLeaves`);
`EverythingIsKept` follows a packet from its arrival. Order within a frame (`FrameIsReordered`) is
more: what was passed are the packets from the first to some `p` without exception, what is buffered
lies between `p + 2` and `p + 1 + MaxDisplacement`, and those are fewer places than the buffer has
(`DistinctInARow`), so the buffer never overflows within a frame and passes a packet too early.
There the numbers may come round as often as they like. For streams of any length,
`OnceInv` keeps three positions in step: the packet the assembler compares with, the one
`RtpStream` accepted last, and the furthest received.

**RawFrameDispatcher_proofs.** `IInv` joins the types with `SlotsAddUp` (a slot is
free, occupied or being given back), `LockIsHeld` (a thread inside holds the lock),
`BelowCapacity` (who is adding saw room, and nobody else has added since),
`DisposedFirst` and `CompleteAddingExcludesEnqueue`. From these:
`RefusedOnlyInTheWindow`, with the exclusion `TryAddAlwaysSafe`, and every step is a step of `FrameChannel` or a stutter, so
`Spec => Channel!Spec` for any number of threads, any capacity and any number of frames.
Three more invariants stand on top of it. `BufferInv`: a buffer is known by its frame's id, so that
`NoBufferLost` needs that no two frames on their way share one (`NoTwins`), and that
needs the ids to be given in order. `WaitInv`: whoever adds a P-frame looked at `waitForH264IFrame`
under the lock it still holds, so that no P-frame is behind a flush. `OrderInv` and `ConnectInv`
are about chains: each H.264 frame in the queue comes after the one it depends on, and that one
is before it in the queue, in the loop's hand, the last one shown, or was refused, unless a
flush overtook the loop. They need `OneVideoThread`, that one receive thread parses H.264, as in
a session with one video track: with two, a frame's `prev` may be enqueued after it.

**RtpClient_proofs.** `DispatchersHaveOwners` needs only that a `Dispose` holds at
most the dispatcher it took. `StableUnlessAbandoned` needs that without an
abandoned receive at most one receive is under way (`OneActive`) and that the buffer
holds its datagram (`BufferIntact`). `FramesAddUp` is about cardinalities of unions: each
step moves one datagram from one set to the next, which is new there because every receive that
holds one holds its own (`NoTwins`).

**RtspSession_proofs.** `IInv` has a part for each actor. `CloserInv`: once past the
flag, one thread at most disposes a session, and its transport was not disposed before.
`AppInv`: where the application disposes its session, the flag is set by the time its
own call of `Dispose` returns. `LoopInv`: a receiving session has started its loops,
and a stopped RTP loop has said BYE. `SetupInv`: an open socket is in the map unless its track
is being set up or the setup failed, and the transport exists from the step that makes it.
`DisposedInv`: what was opened and mapped before the flag is closed, or a thread is
about to close it. `CreatedInv`: sessions not made yet have not begun to connect. From them
`ClosedUnlessLate` (a connected session has all its sockets in the map, and nobody is at work
on it), `GivenUpIsDisposed` and `ByeBeforeTeardown`, for any number of sessions,
tracks and threads.

The clocks of `SessionTimers` have an invariant of their own, `TimersInv`: each loop's clocks are related state by state. For the watchdog,
`QuietInv` bounds the silence from above in each state, by less when the flag is up, and
`NoFrameInv` from below: while the flag is down nothing came since the delay was started. For
the keep-alive loop, the delay is never much older than its interval (`DelayInv`), and the
server's silence is at most the delay's age plus the time of a request (`HeardInv`). The
last is where `NetworkAssumption` comes in: for every timeout the server may name and
every interval drawn from it, the delays of one round fit into the rest. Without it
the property is false, and the assumption says how good the network must be.

**RtspVideoControl_proofs.** `IInv` joins the types with where the UI thread can be
(`StartHasRoom`: a `Start` under way has a session left to start), `LockIsHeld` (who scales or renders
holds the lock), and three parts that follow a picture through the timeout: `HiddenIsBlank`,
`PublishedBeforeDrop` (in the no-video state a thread publishes only before the timer has
dropped the decoders, for a thread that decodes after that has left the state first), and
`ShownUntilClear`. They are needed because `NoVideoMeansBlank` speaks of an idle UI thread only.
A bitmap that is put there while the image is hidden is `"late"` from the start, and no part of the
invariant follows it. `PendingIsVisible` is inductive with them: every exception of a frame that set
`pending` either resets it or sets `abandoned`. `PlayInv` is about threads: outside of `Stop`'s wait,
a thread under way is the playing session's or was not waited for (`UnderWay`), only the
playing session has frames of the present generation (`CurrentPlays`), and what a `Stop` that waited
dropped stays dropped, through the steps of a `Start` that may fail as well (`StoppedKeepsNothing`; a `Stop`
that an exception ended sets `cutShort`, under which nothing is said). `ChainInv` follows the references of a frame through
the gate and the lock: one that is no key frame passes the gate only while the decoder has
all before it (`GateIsGood`), and what happens to the decoder before that frame has the lock is
marked on the frame or on the chain (`LockedIsGood`).

**CompressedRecording_proofs.** The buffer is a suffix, so the invariant is about its first
index: `WindowHasAKey` says that either nothing was pruned that a request in the window could
start with, or the buffer begins with the last key frame at or before the window's start; it holds because no frame in hand
is newer than the clock (`NothingIsEarly`). `Min` and
`Max` of the community modules are `CHOOSE`, and the lemmas about them are stated over
finite nonempty sets of integers. `RecorderIsFed` needs `AbandonedByStop`: a recorder without
a source is one that was started without, or that `Stop` is about to stop. `RecInv` holds as long
as `Stop` waited for every frame: then at most one frame is in hand, the last one generated, and the
buffer and the file end with it or with the one before it (`BufferIsWhole`, `FileIsWhole`).

**VideoDecoder_proofs.** Two invariants, the second on top of the first. `MInv` follows a frame to the
scaler: `ScalerFits`, `InHand`, `DeviceMeansFormat` (a codec context with a device negotiates
the hardware format, or parameter sets were refused), `EnabledOnDevice`, and
`NothingSeen` for a context just made. `GInv` follows it to the screen: `OnDevice`, `OneDevice`
(resources of another device exist only after a replacement), `ViewOfChain`, `MadeSoFar`,
and `SourceKnown` (the remembered description is that of the texture in hand, unless its address
came back).

**RtspConnection_proofs.** What the client has not looked at is what it has buffered followed by
the wire (`buffer \o wire`, later `rest \o wire`); a read moves the boundary and changes neither
the tokens nor their order, so the invariant speaks of the whole. While a request is
answered it begins with the response, and behind the headers and the body of it there is
nothing, or media (`Responding`, `BodyInv`, `DecideInv`); in between, `Framed` says that every
token that begins a packet begins a whole one, that their numbers grow, and that none the client does not have is
missing. `BufferInv` is the hand-over: in portions of one a read stops exactly where the
headers end. Counting tokens gives the rest: what begins no packet may be skipped
(`FramedBehind`), what is taken leaves the others framed (`FramedWithout`, `FramedFirst`), and
what the server appends joins them (`FramedMore`, `FramedPacket`). From it `DataIsWhole`, for every list
of requests, all sizes and every way TCP cuts the stream. `SwallowedOnlyWhenRepeated` needs
`PlayIsReadByTheByte`, what `RtspClientInternal.ConnectAsync` asks for.

Only model-checked: everything about liveness (`NobodyIsStuck`, `CancelEndsTheCall`,
`SessionEnds`, `EveryPacketArrives`), which needs fairness and `ENABLED`. Every
invariant the passing runs check is stated by a theorem, under the conditions named above.

## 7. What is not modelled

Bytes: the texts of headers, SDP, authentication hashes, report packets, payload contents. Time,
outside the timers: a timeout may happen whenever something waits. The operating system's
sockets beyond open, closed, "a receive ends". FFmpeg and Direct3D beyond what
they return.

Of the components: the depacketizers, codec detection and the TS parser, sequential code over
bit fields with unit tests of their own, which the models replace by "any parser";
the HTTP tunnel; audio parsers and SDP (no state between calls); the files of a recording, bitmap
recordings and the overlay; the loop that reconnects inside `RawFrameSource`; the
demonstrations. `PROJECT.json` gives the reason for each component, and a note for each
hazard no property covers.

Most lines of C and C++ in the repository are the headers of FFmpeg, in three copies beside
the native helper (`Examples/libffmpeghelper`). They are vendored and only declare what the
helper calls; the project's own native code for video is `videodecoding.cpp`, which
`VideoDecoder` models, and everything else modelled here is C#.
