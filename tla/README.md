# TLA+ models of the game stream server

The server grabs the screen and the sound of a Linux machine, encodes them with
FFmpeg, sends them over RTP to every connected client, and replays the clients'
keyboards, mice and gamepads on virtual devices. It is a small program made of
many threads: two grabbers, two converters, two drain threads, a listener, a
purger, and per client a session thread and two RTP writers. They share queues,
sets of sinks, a map of sessions and the FFmpeg codecs, most of them under
spinlocks. These modules model that concurrency, and the pure algorithms (framing
of the TCP stream, the audio FIFO, the choice of the bit rate) next to it, and the
life of the process around them.

Source paths below are relative to `src/`.

## 1. Inventory

| Component | State it keeps | Operations | Talks to |
|---|---|---|---|
| Grabbers (`Grabber`, `AlsaGrabber`, `X11Grabber`) | stop flag, thread | `start`, `stop`, `run` | forwards frames to an encoder or the converter |
| `Source<T>` / `Sink<T>` | set of sinks, spinlock | `attachSink`, `detachSink`, `forward` | everything in the pipeline |
| `FrameConverter` | bounded queue, pool of threads, stop flag | `handle`, `run`, `start`, `stop` | grabber thread in, encoder out |
| `Encoder` | codec, `frame_id`, `encoder_lock`, `encoder_cv`, stop flags, `initialized` | `startDrain`, `runDrain`, `stopDrain`, `flush` | RTP senders of all the sessions |
| `H264Encoder` | bit rate requests and their lock | `handle(frame)`, `handle(request)`, `feedImpl` | requests come from session threads |
| `OpusEncoder` | FIFO of samples | `handle`, `feedImpl` | |
| `RTPVideoSender`, `RTPAudioSender` | bounded queue, thread, stop flag | `handle`, `run`, `start`, `stop` | the network |
| `SocketServer` | map of sessions by IP address, spinlock, stop flag | `listenSocket`, `purge`, `stop`, destructor | creates, attaches, stops and destroys sessions |
| `RemoteSession` | two sockets, `stream_buffer`, `last_update`, three devices, two senders | `init`, `start`, `run`, `handleCommands`, `writeImpl`, `handleInputs`, `stop` | devices, video encoder, server |
| Virtual keyboard, mouse, gamepad | record of what is down, uinput descriptor | `setKeyState`, `setButtonStates`, motion, `release` | the kernel |
| `main` | stop flag of the signal handler, the objects as locals | builds the chains, waits, stops them; the end of the block, or an exception, destroys them | everything |

What is hard in it, and what makes each part correct:

- **Encoding chain.** Three kinds of threads meet at the codec: feeders, the drain
  thread and, at the end, `main` in `flush`. The stamps of frames are read and
  advanced outside `encoder_lock`; the drain thread sleeps on a condition variable
  whose mutex is its own; an exception of a sink leaves `Source::forward` locked.
  Correct is: packets leave in the order of their stamps, none that was taken
  is stranded in the codec, the lock keeps feeders and drain thread out of the codec
  while one is inside, and the shutdown ends but in the cases named.
- **Registry of sessions.** The listener sets up a session outside the lock, purge and
  the destructor remove sessions, and encoders hold plain pointers to the
  senders in them. Correct is: no pointer outlives its session, no
  session is used or joined out of turn, only silent clients are purged, a
  client that connects is served, but while a join waits for a client that does not read.
- **Queues.** Both hops of the pipeline drop what does not fit. Correct is: order, no loss without
  a free, no double free, progress, a `stop` that returns.
- **Session thread.** TCP cuts commands anywhere; UDP shares the
  loop; the length of an answer is computed with an undefined shift. Correct is: the
  commands are those of the stream, the answers can be told apart, and neither socket
  starves the other but in the cases named.
- **Devices.** Datagrams get lost, repeated and reordered. Correct is: the
  record agrees with the kernel, the last word counts, nothing stays down for ever.
- **Rates and samples.** Requests of several sessions merge into one; samples pass a FIFO.
  Correct is: the slowest decides, requests are heeded, the delay is bounded.
- **Process.** Objects are destroyed in the reverse order of their construction, which is
  not the order in which the streams are quieted; an exception destroys them while
  threads run; sessions leave descriptors behind. Correct is: no thread uses what was
  destroyed, and the process ends, but in the cases named; descriptors run out only when they are used up.

`PROJECT.json` lists the hazards at their lines, with the properties that cover them.

## 2. Modules

| Module | Models | Composed with |
|---|---|---|
| `Encoder` | feeders, codec, drain thread and shutdown of one encoding chain | feeders abstract grabber, `FrameConverter`, `AudioFifo` |
| `SocketServer` | registry of sessions, purge, stop, destructor | sessions abstract `CommandStream` (`running`, `blocked`, `deaf`, `ended`) |
| `Stream` | abstract: a lossy, ordered hop | implemented by `RtpSender` |
| `RtpSender` | `Source<AVPacket>::forward`, the senders and their life | life follows `SocketServer` |
| `FrameConverter` | queue and pool between X11 grabber and H264 encoder | |
| `CommandStream` | `RemoteSession::run`: select, framing, answers, datagrams | |
| `InputDevices` | `handleInputs` and the three devices | purge as in `SocketServer` |
| `BitrateControl` | bit rate and I frame requests in `H264Encoder` | one frame at a time as `Encoder` shows |
| `AudioFifo` | `OpusEncoder::handle` and its FIFO | |
| `Process` | `main`: construction, stops and destruction of all objects with their threads, descriptors | every other component, with its inside abstracted |
| `EncoderProofs`, `SocketServerProofs`, `RtpSenderProofs`, `FrameConverterProofs`, `CommandStreamProofs`, `InputDevicesProofs`, `ProcessProofs` | theorems about the module of the same name | |
| `CodecProofs` | theorems about `BitrateControl` and `AudioFifo`, which the two encoders add to `Encoder` | |
| `MC...` | instances for TLC, one `.cfg` for each run | |

### Encoder

`pc` gives the place of every thread, variables carry the names of the members. A call into the codec is two
steps, entry and return, so that two threads inside it at once are seen
(`OnlyFlushIntrudes`: `encoder_lock` is taken by feeders and the drain
thread, not by `flush`, and main stops the encoder before its feeders). The codec itself is FFmpeg's: a FIFO of stamps that holds
`Delay` of them back until the end of the stream and refuses frames beyond `Capacity`.
The condition variable is modelled with the gap between a false predicate and the
sleep (`"fallasleep"`), in which a notification has no effect. A frame refused with
`EAGAIN` is dropped without advancing `frame_id`; any other failure is thrown
through `Source<AVFrame>::forward`, whose lock stays with the thread that ended.
`main`'s order of stops is that of `main.cpp`: encoder first, then what feeds it.

`frame_id` wraps at `PtsMod` (64 bits in the code). `out` is the last packet
forwarded. `InOrder` says that every packet carries the stamp after that of the
last one, but for the blank packet that `flush` forwards at the end of the stream, and
that one comes only when nothing is left in the codec.

### SocketServer

One program counter for the listener, the purge thread and `main`, and `client[t]` for
the session each is dealing with. The removal of a session (stop, two detaches,
erase) is the same four calls in three places of the code and the same action with a
thread as its parameter. Attach and detach are single steps, for the lock of `Source` covers
each, but between them everything may happen. Using a session that was destroyed, or
joining a session thread that does not exist, is `Die("misuse")`; an exception
in a thread without a `catch` is `Die("exception")`, SIGPIPE `Die("signal")`. A session thread that answers a query
is `"blocked"` until its client reads (`Block`, `Unblock`), for the TCP socket blocks in `send`. `StopSession` is the join: it
waits for the session thread to end, and in the listener and in purge it waits with the spinlock of the map. `Hung`
names that wait. Times are distances from now,
in ticks, with two bounds that say how much fits into a tick: `InitBound`
for the set-up of a session, `MaxLag` for a round of purge.

`NoMisuse` depends on `InitBound <= Deadline`: the listener's set-up of a session must
not take longer than the 15 s after which purge removes it. With a larger
`InitBound` TLC finds purge stopping a session that is not started yet. Nothing in the code
bounds `RemoteSession::init`. `OnlySilentPurged` compares with `silent`, the sessions that were too old when
purge read the time: being heard of, or set up, while purge waits for the lock must not make a session a victim.

### Stream, RtpSender, FrameConverter

`Stream` is what a hop promises: items are offered with increasing numbers and some
of them are seen, in order, once. `RtpSender` implements it for every sender with
`offered <- forwarded`, `seen <- ` the last packet written. The converter does not: the two
threads of its pool may swap frames, and `BoundedOvertaking` says how far. `OneFate` partitions all that was ever handled into written, in
hand, queued, freed and leaked: a double free, a double write or a silent loss would break it.

`forward` of the encoder's `Source` is as many steps as it has sinks: it acquires the spinlock, calls
`handle` of each (`unserved` are those still to come) and releases it. `attachSink` and `detachSink` wait for
that lock, which is all that keeps the encoder from a sender that the server is about
to destroy: `DestroyedNeverCalled`. A sender's life is what `SocketServer` does with it (start, attach, stop, join,
detach, destroy); its destructor frees the queue but not the packets queued, which are `leaked`.

### CommandStream

Bytes are numbers below `Base`, the delimiter is the largest, a length has two
digits. `recv` takes as much as there is and fits; segmentation comes from the
client's sends interleaving with it. `FramingExact` compares the loop with `Payloads`, a
definition over the whole stream that knows no buffer. `PacedClientLosesNothing` and
`WedgedOnlyByOversized` bound what the fixed buffer can do to commands.

A command may ask for the descriptions of the two streams. They are made and sent one after the other, before the next
frame is looked at: `Describe` (`generateSdp`, whose `InitFail` leaves `handleCommands` and ends the thread), then a write.
`writeImpl` sends with the same header, on a socket that blocks: `WriteAnswer` waits for room, which is `SendRoom` messages
that the client has not read, and `ReadAnswer` is a step that nothing makes the client take. A send that waits with a part of
a message gone is the same state as one that waits with none. `writeImpl` shifts the
size by 56 bits for the high byte of the length, which leaves 0, and by 64 for the low one, which is
undefined and gives the low byte on one machine and 0 on another. `Message` takes both
outcomes. When the connection is gone a send comes back short and `writeImpl` goes on (`WriteShort`); the one after it
ends the process by SIGPIPE (`"killed"`), and that may be the second one of the same message. A send cut short by a signal while the
connection holds is left out: the only handled signal is Ctrl-C, at the end of the process.
`AnswersKeptApart` reads the answers back with `Payloads`.

### InputDevices

`key_device` and `pad_device` are the kernel's view, changed only by events written;
`pressed_keys` and `pressed_buttons` are the code's record. The key map may send two keys
to one code, as the one in the code does (RETURN and EXECUTE, for instance).
A datagram that cannot be parsed to its end is applied up to there.
`release()`, the thread that times keys out, is not in `Next`:
`startRelease` needs `initialized`, which no `init` of a device sets. `StaleKeyReleased` shows that it matters.

### BitrateControl, AudioFifo

`BitrateControl` splits `feedImpl` where its locks do: collecting requests, then sending
with the rate. `batch` are the requests collected for the frame in hand and `rated` those behind the rate in
force. A request is any `int64_t`, for nothing checks what a client sends (`Requests`, no smaller than `Lowest`): positive ones are
rates, -1 is an I frame, and 0 or a number below -1 is nothing but may still be the smallest of its batch. The codec takes the
frame, refuses it or gives an error (`SendFails`), after which no frame comes any more. `AudioFifo` is `OpusEncoder::handle` as one step (it runs under the
lock of the grabber's `Source`), with samples counted per channel. Its specification is called `FifoSpec`, with
`FifoInit` and `FifoNext`, so that `CodecProofs` can extend both modules.

### Process

What `main` has still to do is a sequence of calls, `todo`, each a triple of what is called, the object and, if it is
attached, its sink. `Calls` are those of `main.cpp` in their order, `Startup` and then `Stops`, and at the end of the block the `Unwinding` of what was constructed, in reverse. A destructor is several calls, because of
what happens between them: those of the encoders find the members of the derived class destroyed
before the base class stops the drain thread, that of the server stops the threads and then ends the sessions.
An `init` that throws replaces `todo` by the unwinding of what there is. `Stop` is up to three steps of `main`: the flag is
raised; when the threads have ended, an encoder's codec is told the end of the stream (`ended`); then the encoder
takes no more frames. The converter has two threads, every other object one. A thread takes the lock of its source (`Call`) or
spins for it (`Wait`), is `inside` a sink meanwhile, and comes back (`Back`); the sink should not be destroyed before. A frame
sent to a codec that failed, or after the end of the stream, throws (`Throw`): the thread ends and the lock of its source
stays locked (`leaked`). The gap before the sleep of the drain thread, the full codec and the lock of
the registry are left to the modules above.

The sessions are counted (`open`), with one object and one thread between them: they are `"alive"` and attached
while there is any. Clients come, one session for each, and go in any number. A session to be removed may be blocked in
`send`, and then the listener, or `main` in the destructor of the server, joins it (`joining`) until its client reads, if ever.

`Descriptors` are those that a session opens, `PerSession` their number, `Closed` those it closes and `LeftOpen` the
others: the UDP socket and the sockets of both senders (2 each: RTP and RTCP) stay. An `init` of a session that throws ends the
process, for nothing catches the exception in the listener thread: `"exhausted"` if descriptors were wanting, `"terminated"`
if anything else failed (`setsockopt`, `bind`, `connect`, the senders, the devices). `ServerOutlivesReconnects` says when the first can be: those left
behind, those of the sessions that are there and of the one that comes are more than there are.

## 3. Runs

| Run | Shows | Bounds |
|---|---|---|
| `encoder_chain` | order of packets, delivery in spite of early notifications, only `flush` enters the codec beside a feeder, the shutdown hangs in two cases only; every call may fail, the device may die | 2 feeders, codec of 2 frames holding 1, stamps modulo 5 |
| `encoder_shutdown` | **violated**: converter thread spins on a leaked lock | 2 feeders, stamps modulo 6 |
| `socketserver_safety` | dangling sinks, misuse, purge of the silent only, nothing left; every failure, and clients that do not read | 2 clients, deadline 1 tick, a purge of up to 1 tick |
| `socketserver_progress` | deaf and ended sessions removed, clients served, shutdown ends, unless a join waits for a client that does not read; sessions may fail | 2 clients, deadline 1 tick, a purge within a tick |
| `rtpsender_clients` | refinement of `Stream`, one fate, no call of a destroyed sender, queued is written; writes may fail | 2 senders, queues of 2, 3 packets |
| `frameconverter_pool` | one fate, bounded overtaking, delivery until a sink throws or all threads have ended, quiet after stop, stop completes; every failure | 2 threads, queue of 2, 5 frames |
| `commandstream_session` | framing, answers, padding, full buffer, commands handled and inputs served unless the client does not read; the connection may break, a description fail | 2 byte values, buffer of 5 with padding of 1, 7 bytes and 2 datagrams sent, answers of 1 and 3 bytes, room for one of them |
| `inputdevices_network` | last word counts, keyboard in sync; every fault | 3 keys on 2 codes, 1 button, 2 reports in flight, 2 of each session |
| `inputdevices_stale` | **violated**: a lost release is never made up for | 2 keys, loss only |
| `bitratecontrol_requests` | slowest decides, requests heeded; the codec may fail | 2 sessions, 2 rates, 0, -1 and -2, 2 requests each, codec of 1 frame |
| `process_life` | misuse only while an exception unwinds, the process ends, descriptors; inits, sessions and the screen grabber may fail, and codecs after the end of the stream | 9 descriptors for each session, 5 of which it leaves behind, 19 to be had |
| `audiofifo_blocks` | delay bounded, drift explained | frames of 4 samples, blocks of 1, 3 or 4, 24 in all |

Why the bounds are enough. In each, every queue and the codec can be full,
empty and in between, so that every refusal happens. Two feeders and two clients are the
least that interfere, and the program has two converter threads. A deadline of one tick lets a
session expire and be renewed while purge waits for the lock. The buffer of the session thread is
small against the stream, so that frames are cut at every place, one is too long and one ends where
padding is missing; one answer has a length of one byte and one a longer length, whose high byte
the shift loses. Nineteen descriptors are enough for two sessions at a time and not for a third, and for three one after the other: want of
descriptors comes with sessions there, with sessions gone, and with both. The failures in `process_life` are those of the
video, which has both kinds of hop (262712 states). With all the failures, codecs that fail before the end of the stream included, the
three properties hold too (219667 states with 10 descriptors, for one session at a time); the run leaves these out, for it takes some minutes as it is, and the
proofs cover every failure. Room for one message of two makes the session thread wait between them. Two reports of a client are handled any number of times, for the network may
repeat them. Capacities are smaller than in the code (queues of 4), which has no other use of the
numbers. Symmetry is used in `socketserver_safety` only, which has no liveness, over clients that the definitions do
not tell apart. The types of `Encoder`, `BitrateControl` and `AudioFifo` are proved and not checked in their runs.

Deadlock is checked where the system must not stop before its end (both runs of
`SocketServer`). In the chain, a leaked lock or a dead device may leave every thread
waiting, and so may an error of the codec in `BitrateControl`; in the others a bounded number of packets, frames, bytes or reports comes to its end, or the process itself.

## 4. Fairness

Threads are scheduled: weak fairness for each thread's steps. Nothing is assumed of the
user, clients (not even that they read what they asked for), network, signal handler, and failures. Stronger assumptions:

- *Spinlocks.* Strong fairness for the step that takes a lock. `spinlock` is not fair,
  but its holders keep it for microseconds (that of the map, while they join a session) and then wait for a frame, a packet, a
  timeout or the next second, so that a thread that keeps finding it free gets it.
- *Sessions.* `SocketServer` lets a session thread that is being joined end if it gets the chance again and again (strong fairness of
  `SessionEnds`): what it received before the flag was raised holds finitely many queries, so that it may block in `send`, and go on, only so
  often. A client that never reads gives it no chance, and that is `Hung`. The listener and purge have strong fairness for the spinlock of the map.
- *Time.* `SocketServer` lets a tick pass again and again (strong fairness of `Tick`, which the bounds on what fits
  into a tick hold up now and then).
- *flush.* When the codec is too full to take the end of the stream, `flush` could go on
  for ever if each of its calls found a frame that came since the last one. An iteration is
  shorter than a frame period: strong fairness for its two calls with the codec not
  ready. It says this for a codec with `Capacity = Delay + 1`.
- *BitrateControl.* The codec is empty again and again when a frame comes (strong fairness of
  `SendFrame`): the grabber is clocked, the drain thread is not.
- *Process.* `main` gets the lock of a source that it finds free again and again, and ends a
  sequence of calls: strong fairness of `MainStep`. Each thread has weak fairness: one that waits for a lock may starve, and no
  property needs it not to. Nobody has to connect, to read or to press Ctrl-C.
- *InputDevices.* Only the violated run needs fairness: datagrams are handled, and the session of a client that is
  gone is removed, which is `DeadSessionsRemoved` of `SocketServer`. The counterexample holds with it.

Where a step is the thread's own and not a wait for a lock (`ForwardStep` and the writers of `RtpSender`, `Session` of
`CommandStream`, the removal of a sender by the server), weak fairness is all there is.

## 5. Proofs

Checked by the TLA+ proof system, for every value of the constants that satisfies the named
assumptions (`EncoderAssumption`, `SocketServerAssumption`, `RtpSenderAssumption`, `FrameConverterAssumption`,
`CommandStreamAssumption`, `InputDevicesAssumption`, `BitrateControlAssumption`, `AudioFifoAssumption`,
`ProcessAssumption`), which the runs evaluate. Every invariant and every action property that a passing run
checks is stated by a theorem. Each module has one inductive invariant, `IInv` (in `CodecProofs`, `FifoInv` and `RatesInv`),
from which most properties follow; what needs more has an invariant of its own,
which is inductive where `IInv` holds.

- `EncoderProofs!TypeCorrect`: `Spec => []TypeOK`, an induction over the actions.
- `EncoderProofs!ChainCorrect`: `Spec => []IInv`. `InOrder` alone is not inductive: that the next packet
  has the next stamp depends on what is in the codec, in a thread's hands and
  stamped but not sent. `IInv` says that (a) the source's lock is held exactly by the feeder
  that is between `forward` and its end, or by one that ended with an exception, so that at most one
  feeder has stamped a frame; (b) its stamp is `frame_id`; (c) the packet in hand,
  the frames in the codec and `frame_id` continue each other, modulo `PtsMod`, from
  the last packet forwarded, until the blank one; (d) main takes packets only after the drain thread ended.
- `EncoderProofs!OrderCorrect`: `Spec => InOrder`, from `IInv` and the two steps that
  forward.
- `EncoderProofs!LockCorrect`, `IntrusionCorrect`: `EncoderLocked`, that whoever is inside the codec holds
  `encoder_lock`, except main; and `OnlyFlushIntrudes`. Two threads inside the codec are then main and another, and of
  those the drain thread has been joined before main gets there.
- `SocketServerProofs!RegistryCorrect`: `Spec => []IInv`, under the assumption `InitBound <= Deadline` that
  `NoMisuse` needs. None of the safety properties is inductive: that `purge` may join the thread of a session
  depends on how far its owner is with it. `IInv` says who holds the lock (`MapOwned`), which session
  each thread is at (`ClientKnown`) and how far it is with it (`SetUpPhase`, `RemovalPhase`), that a session
  without a thread has an owner (`Owned`), that purge is never at the session the listener sets up (`Apart`), and why:
  that one is never older than `InitBound`, and who is older than the deadline was silent (`Ages`).
- `SocketServerProofs!TypeCorrect`, `SinksCorrect`, `UseCorrect`, `DestructorCorrect`: the invariants `TypeOK`,
  `SinksAlive`, `NoMisuse` and `NothingLeft`, from `IInv`; `PurgeCorrect`: the action property `OnlySilentPurged`, from `IInv`
  and the fact that only `Erase` ends a session.
- `CodecProofs!FifoTypeCorrect`, `DelayBounded`, `DriftExplained`: the three invariants of the FIFO, for all frame
  and block sizes, from one inductive invariant: what entered the FIFO is what is in
  it, what was stamped and what was refused, and less than a frame is left
  whenever blocks are no longer than frames.
- `RtpSenderProofs!TypeCorrect`, `DestructionCorrect`, `FateCorrect`: `TypeOK`, `DestroyedNeverCalled`, `OneFate`; and
  `StreamImplemented`: `Spec => OrderedStream`, the refinement of `Stream` by any sender (initial states map to initial states, steps to steps
  or stutters). `IInv` says that the sinks are the senders the server is at the right place with (`AttachedOf`),
  that those still to be served are attached, for the lock is held (`ForwardPhase`), who has a packet in hand (`Writing`),
  that what a sender wrote, writes and queues is one ascending line (`Lined`), and that what it was ever given is
  an interval of the stream, parted into its fates (`Fated`).
- `FrameConverterProofs!TypeCorrect`, `FateCorrect`, `OvertakingBounded`, `StopQuiets`: `TypeOK`, `OneFate`,
  `BoundedOvertaking` and the action property `QuietAfterStop`, for any pool. Overtaking is bounded since whoever
  delivered a frame has no older one (`Passed`) and takes only newer ones (`Queued`), so that at most the other
  threads do (`OneOwner`, and an injection into the pool).
- `CommandStreamProofs!TypeCorrect`, `PacingSuffices`, `WedgeExplained`: `TypeOK`, `PacedClientLosesNothing`, `WedgedOnlyByOversized`. What
  makes them inductive is that outside of the parsing loop the buffer begins with a frame that is not complete
  (`Waits`), and that what a paced client has outstanding is in the buffer or on the wire (`Paced`).
- `CommandStreamProofs!StreamCorrect`, `FramingCorrect`: `FramingExact`, for any buffer and any way to cut the stream into
  segments. Its inductive invariant is `Exact`: *whatever the client sends next*, the commands handled and
  the payloads of what is left, with that behind it, are the payloads of all. `FramingExact` speaks of
  complete frames only, so that a byte more could tell two states apart that it does not; the
  quantifier over all continuations cannot be left out. The steps that matter are the parsing ones:
  `Payloads` loses its first frame as `HandleCommands` does, and its first bytes up to a delimiter as `Resync` does.
- `CommandStreamProofs!AnswersCorrect`: `AnswersKeptApart`, for any sizes of the descriptions and either outcome of the
  shift. Each answer is a message (`Messages`), and messages in a row are read as many as they
  are. `Payloads` and the joining of messages are recursive functions; that they exist, and what they do with
  a frame put before a stream, is shown by the smallest counterexample (`WellFoundedInduction`), since
  the induction theorems themselves take operators.
- `InputDevicesProofs!TypeCorrect`, `LastWordCorrect`: `TypeOK`, `LastWordCounts`. The code writes an event only
  for what changes in its own record, so the record has to agree with the device (`RecordsAgree`).
- `InputDevicesProofs!TrackingCorrect`, `KeyboardFollows`: `InSync`. It speaks of a network with nothing on its way, and is
  inductive only with what is: `Tracked` says that there is a history of what the user
  held, from what the keyboard shows to what the user holds now, and each datagram on its way reports one
  step of it. A datagram lost, repeated, overtaken or cut short breaks the history, and `faulted` records that.
- `ProcessProofs!LifeCorrect`, `MisuseExplained`: `MisuseOnlyUnwinding`, for any faults. `IInv` locates main: it is at the
  n-th of its calls (`InCalls`), and what the place of the calls that initialize and stop an object say
  holds of it, or it destroys its objects (`InUnwinding`), and then their threads have ended, unless the exception
  came from an `init` after a grabber was started. So nobody but those threads can meet an object that was destroyed.
- `ProcessProofs!DescriptorsCorrect`, `ReconnectsOutlived`: `ServerOutlivesReconnects`, for any number of descriptors and of
  sessions at a time. `Counted` says where the descriptors are: `LeftOpen` for each session that is gone and `PerSession` for
  each that is there.
- `CodecProofs!RatesTypeCorrect`, `SlowestCorrect`: `TypeOK`, `SlowestDecides`, for any requests. The target of the frame in hand is the
  smallest of its batch (`TargetOfBatch`), and a batch has a smallest, be it a rate or not.

Only model-checked:

- the liveness properties, for the prover has no rules for fairness and `ENABLED`: `PacketsDelivered`, `ShutdownHangsOnly`,
  `ConnectServed`, `DeadSessionsRemoved`, `ShutdownCompletes`, `QueuedWritten`, `QueuedDelivered`, `StopCompletes`,
  `CommandsHandled`, `InputsServed`, `RequestsHeeded` and `ProcessEnds`;
- the two counterexamples of section 6: a proof can say nothing of a property that does not hold.

## 6. What disagrees with the code's own words

Two runs are expected to be violated; `PROJECT.json` quotes the lines under "findings":

- `encoder_shutdown`: the shutdown can hang on a spinlock that an exception left locked, although
  `main` announces to stop all threads and then to be done;
- `inputdevices_stale`: keys are not timed out although the thread for it exists.

More peculiarities of the code show in what passing properties have to allow:

- `OnlyFlushIntrudes`: `flush` may be inside the codec together with a feeder, although the message of
  its guard asks to stop the threads first (`Encoder.cpp:114`). The guard looks at the encoder's
  own feed thread, which never runs, and `main` stops the encoder before what feeds it.
- `ShutdownHangsOnly`: besides the leaked lock, a drain thread that sleeps when the capture device has
  died is never joined: `stopDrain` does not notify the condition variable.
- `RequestsHeeded`: a request for an I frame is cleared before its frame is sent, and forgotten when the
  codec refuses the frame; a rate that is collected together with a request for an I frame, or with 0 or a number below, is
  discarded, and so is a request for an I frame that is collected together with a number below -1.
- `ShutdownCompletes`, `ConnectServed`, `DeadSessionsRemoved`: a client that asks for the streams and does not read the answers blocks its session
  in `send`. Its purge or renewal then waits for it with the spinlock of the map, and until that client reads nobody else
  is served or purged and the server cannot be stopped. `CommandsHandled` and `InputsServed` say the same of the session itself.
- `QueuedDelivered`: one exception of the encoder stops the delivery by both converter threads, for it leaves the lock of the source
  locked; a failed allocation ends only its own thread.
- `AnswersKeptApart`: the length that `writeImpl` sends is short for an answer that is longer than one byte can say,
  and may be 0 for any. A client that believes it still finds where the next answer begins, for it
  skips to the next delimiter as the session does.
- `ProcessEnds`: three joins of `main` can last for ever. A session that is blocked in `send`. A converter thread that spins on the lock
  which the other one has leaked, when that sent a frame after `flush` or the codec failed. A drain thread that sleeps, when what feeds its
  encoder has ended with a failure of its own before. Without any one of the three TLC finds a process that does not end.
- `MisuseOnlyUnwinding`: an exception, once a grabber was started, destroys encoders and converter under its thread.
- `CommandsHandled`: an answer to a client that has gone ends the server, by SIGPIPE; a failing `generateSdp` ends the session thread.

## 7. Not modelled, and why

- FFmpeg, ALSA, X11, uinput, simdjson and the lock-free queues: external, by what
  the code relies on. Memory orders of the atomics and the spinlock: interleavings are sequentially
  consistent, which the flags and locks of the code do not need more than.
- The feed threads of the encoders (`startFeed`, `runFeed`) and `flush` of the senders: nothing calls them.
- The text of commands, answers and SDP, and JSON: what a command asks for is all the models need.
- The data of opening devices, codecs and contexts: sequential, before the threads start. That it may throw is `Process`.
- The number of descriptors that `select` can take (`FD_SETSIZE`): the bound on descriptors stands for it.
- Two threads that write and read a flag or a time without synchronisation (`stop_condition` and `last_update` of a
  session): on the machines the server runs on, they read the old or the new value, which is what
  the models allow; a compiler that reads the flag once and for all is not modelled.
- `Source<T>::forward` is specialized in `source.cpp` without a declaration in the header, so that a
  translation unit that inlines the template of the header would give all sinks the same packet, without cloning it. As
  it is built (`CMakeLists.txt` asks for no optimization) the linker takes the specializations, and so do the models.
- The video path from end to end, at the grain of its parts: converter, encoder and senders together have too many states to
  check. Each hop is checked and proved on its own, and `Process` composes them coarsely.
- Datagrams with a list of keys shorter than two (`keys[1]`, `keys[0]` are indexed without a look at the size) and writes to uinput that
  fail: `InputDevices` takes well-formed lists, and devices that work. Two changes of one key in one datagram: its reports are single changes.
- Audio blocks longer than a frame: `LessThanAFrameWaits` assumes that there are none; the device gives the size.
- What `flush` forwards, in `Process`, where only the drain threads call the sessions: the sessions are still there when `main` stops the
  encoders, and detached before it destroys them. The packets are in `Encoder`.
- Pointer motion, wheel and axes: they keep no state.
- The release threads of the devices: unreachable.

## 8. Plan

Done: the modules above, in the order of their importance: the chain,
the registry, the queues, the session, the process; and the safety properties of all of them proved.

Left, in this order:
1. `Source` on its own: attach, detach and forward by several threads, as the specification that
   `SocketServer` uses in one step and `RtpSender` in several.
2. `VideoPath`: an abstract path with `BoundedOvertaking` at its first hop and `Stream` at its last, to be implemented
   by the instances of the modules here, with the order seen by a client from end to end.
