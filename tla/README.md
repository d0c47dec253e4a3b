# Oboe: models, checks and proofs

The repository is Oboe, the C++ library for real-time audio on Android, with its
sample and test applications. Oboe gives an application one `AudioStream` class
over two system libraries, AAudio and OpenSL ES. This directory holds TLA+ models of
the library (`src/src`, `src/include/oboe`), of the applications in `src/samples`, and
of OboeTester and fxlab in `src/apps`; TLC runs over them; and proofs of the safety of nearly all
of them, for every number of threads, frames and streams. The models are of the places where threads, callbacks,
devices and screens meet, and of the algorithms that keep frames in order.

Paths below are those of the repository with `src/` in front, e.g.
`src/src/fifo/FifoBuffer.cpp`; the shorter form leaves out the directories.

## Inventory

### The library

| Component | State | Operations | Talks to | Hard about it | Correct when |
|---|---|---|---|---|---|
| Lock-free FIFO (`fifo/`) | ring storage, 64-bit read and write counters | `write`, `read`, `readNow` | one writer thread, one reader thread | copies run concurrently, the copy is in two parts at the end of the ring, full and empty | a frame is never read and written at once; frames come out once, in order |
| AAudio stream (`AudioStreamAAudio`, `common/AudioStream`) | handle, `mLock`, `mAAudioStreamLock`, flags of callback, stop thread and error callback | start/pause/flush/stop, close, wait, getters, data callback, error callback, stop thread | app threads, AAudio's callback thread, detached error and stop threads | close against everything else; disconnect at any moment; one lock held while another is waited for | the AAudio stream is freed once and never used after; errors are handled once; close returns |
| AAudio loader and extensions (`AAudioLoader`, `AAudioExtensions`) | library handle, function pointers | `open`, `loadSymbols`, calls | every thread that opens a stream | nothing is locked; each Android version has other functions | no call through a null pointer |
| OpenSL ES output stream (`AudioOutputStreamOpenSLES`, `AudioStreamOpenSLES`) | state, player, buffer queue, buffer index, `mLock` | start/pause/flush/stop/close, buffer callback | app threads, OpenSL ES callback thread, engine and mixer | work done outside the lock; a callback that stops the stream; calls that fail half way | reported state is the player's; buffers keep flowing; no deadlock |
| OpenSL ES input stream (`AudioInputStreamOpenSLES`) | as above with a recorder | start/stop/close | as above | as above, without priming | counters monotonic |
| Position counters (`MonotonicCounter.h` and its users) | 64-bit and last 32-bit position, frame counters | update, set, reset32, getters | OpenSL ES position in ms | wrap, reset on stop, rounding, pause | never goes back, misses nothing |
| Buffered stream (`AudioStreamBuffered`) | FIFO, threshold size, time of last callback | `read`, `write`, internal callback, `setBufferSizeInFrames` | FIFO, the clock | timed sleeps against a callback period | calls return in time |
| `LatencyTuner` | state machine, request and response counters | `tune`, `reset`, `requestReset` | the stream's size and XRun count, another thread | a request during a reset | no reset lost, tuning ends |
| Engine and mixer singletons (`EngineOpenSLES`, `OutputMixerOpenSLES`) | open count, object, mutex | `open`, `close`, create player/recorder | every OpenSL ES stream | opens and closes interleaved, failures | alive while used, destroyed with the last |
| `AudioStreamBuilder`, `QuirksManager` | configuration; the process's MMAP policy | `openStream`, `isConversionNeeded`, `isMMapSafe` | native streams, filter stream | recursion for the child, quirks that change a request, a switch shared by the process | the stream is what was asked for, the policy is restored |
| Data conversion (`FilterAudioStream`, `DataConversionFlowGraph`, `FixedBlock*`, `*Caller`) | block storage, positions, graph buffers | `read`, `write`, `onAudioReady`, `onProcessFixedBlock` | child stream, app callback | partial blocks, short transfers, Stop | no frame lost, repeated or reordered |
| Flowgraph and resampler (`flowgraph/`) | call counts, frame buffers, phase, ramp | pull, `reset`, `setTarget` | data conversion | pull at most once per call; shared nodes; phase arithmetic; a target set by another thread | frames in order, ends, levels without jumps |
| `StabilizedCallback`, `Utilities`, `Trace`, `Version` | little or none | | | | |

### The applications

| Component | State | Operations | Hard about it | Correct when |
|---|---|---|---|---|
| HelloOboe, MegaDrone, SoundBoard | engine, stream, source, choices of the screen | start, stop, spinners, disconnect and restart | the error thread restarts while the screen reopens | one open stream, as the screen shows it |
| LiveEffect | two streams, library, rack of plugins with ports | start, stop, select library, callback, disconnect | order of opening, starting, closing; failures; ports the host must connect | the callback has both streams and all ports; the plugins follow their ports |
| RhythmGame | game, player tracks, queues, loading thread, decoders | start, stop, tap, tick, disconnect, extraction | loading races with pause and disconnect; counters that wrap | the mixer plays what exists, taps are judged once |
| DrumThumper with iolib, parselib | player, samples, stream, wave file reader | load, trigger, reset, resample, mix, parse | the callback mixes while pads and resets move the index; odd files | every mixed frame is the sample's |
| OboeTester native (`NativeAudioContext`, full duplex, analyzers, recording) | streams, data threads, recording, analyzers' state machines | start, stop, record, play, analyse | threads and buttons in any order, two clocks, glitches | streams in step, threads joined, tests end |
| OboeTester sessions (`TestAudioActivity`, `AutomatedTestRunner`, `RoundTripLatencyActivity`) | buttons, runner thread, timers | start, stop, leave, poll | a stop while the runner sleeps; two timers | nothing is left behind, tests end |
| fxlab | list of effects twice, engine, delay lines | add, drag, swipe, switch, slide, resume, pause | timers, drags, callbacks during changes; engines that are replaced | what is shown is what is applied |

How they interact: the application builds a stream with the builder; the stream calls the
application back on a thread of AAudio or OpenSL ES; an OpenSL ES stream without a
callback puts the FIFO between that thread and blocking `read()`/`write()`, whose latency
the tuner adjusts by the stream's buffer size. All OpenSL ES streams share one engine
and, for output, one mixer. Streams that need conversion are wrapped in a filter stream. When a
device is lost, Oboe's error thread closes the stream and calls the application, which opens
another while its screen goes on.

## Modules

A run of TLC explores several components that do not touch each other's state. An `MC*` module
puts them side by side: a variable (`part`, `demo`, `fxLabPart`, `application`) that never changes
says which of them runs in a behaviour, and the others rest in one initial state. Nothing
is composed that interacts only by that variable; components that do interact
(`LatencyTuner` over `BufferedStream`, `LiveEffect` with `Ladspa`, `RhythmGame` over
`LockFreeQueue`) extend each other. A property of an `MC*` module is a
conjunction of the properties of its parts; each conjunct holds in the resting states too.

| `MC*` module | Parts |
|---|---|
| `MCDataPath` | `Fifo`, `OpenSLESOutput`, `LatencyTuner` over `BufferedStream`, `DataConversion` |
| `MCOboe` | `SharedEngine`, `OpenSLESPosition`, `StreamOpening`, `AAudioLoading`, `FlowGraphNodes`, `RampLinear`, `AAudioStream` |
| `MCOboeTester` | `FullDuplexStream`, `GlitchTest`, `RoundTripLatency`, `TesterSession`, `NativeContext`, `Recording` |
| `MCSamples` | `SampleEngines`, `EffectPlugins`, `LiveEffect`, `RhythmGame`, `LockFreeQueue`, `AssetExtraction`, `SamplePlayer`, `WavReader` |
| `MCApplications` | `MCOboeTester`, `MCSamples`, `FxLab`, `FxDelays` |

The runs `aaudio_live`, `aaudio_stop_lifetime`, `output_close_deadlock`, `position_pause` and `fxlab_screen` need no `MC*` module. What is proved is proved of
one component: its module has a specification of its own (`Spec`, or `FifoSpec`, `AaSpec`, `OutputSpec`, `TunerSpec`, `PosSpec`,
`SoSpec`, `AlSpec` ... with the module's letters), whose steps are those that the run's `Next` takes in its part.
`FifoProofs`, `AAudioStreamProofs`, `OpenSLESOutputProofs`, `LatencyTunerProofs` and `DataConversionProofs` hold the
proofs about the module they are named after, `LibraryProofs` those about the parts of `MCOboe`, `SampleProofs` those about
the parts of `MCSamples`, and `ApplicationProofs` those about OboeTester and fxlab.

### `FrameQueue`, `Fifo`, `FifoProofs`

`Fifo` models `FifoBuffer` over `FifoController`. `write` is `WriteBegin` (compute the
room from the reader's counter, `EmptyFrames`), `WriteCopy` (one frame of the `memcpy`,
which the code does in up to two parts: `Slot` is the wrap-around) and `WriteCommit`
(advance the counter, after the copy). `read` and `readNow` are `ReadBegin`, `ReadCopy`
and `ReadCommit`; `readNow`, which pads its result with silence, is the case `now`.
Frames are numbered as they are written. The counters are atomics with
acquire/release order and each has one writer, so their values are taken one at a time.

`FrameQueue` is what the two threads are promised, a bounded queue of frames;
`Fifo`'s `ImplementsQueue` is the refinement.

### `ClosableStream`, `AAudioStream`, `AAudioStreamProofs`

`AAudioStream` models the wrapper around one open AAudio stream with a data callback.

| State | Code |
|---|---|
| `aaudio`, `handle` | the library's stream; `mAAudioStream` is not null |
| `mLock` | `AudioStream::mLock`; `mAAudioStreamLock` is the set of its readers, `Readers` |
| `th` | the program counter of each thread, the call it is in, whether it has loaded the handle, the state it waits to leave |
| `callback`, `errorPhase` | progress of a data callback, of the error thread |
| `enabled`, `stopAllowed`, `errorCalled` | `mDataCallbackEnabled`, `mStopThreadAllowed`, `mErrorCallbackCalled` |
| `firing` | the library may begin a data callback: while the stream runs, and for a while after |

Each library call and each lock operation is a step, so another thread can run between a
thread's load of the handle and its use. `LockForCall`/`RequestBody` are
`requestStart/Pause/Flush/Stop` with the guards that are used up to O_MR1 (`Redundant`);
`QueryLock`/`QueryState` and `Poll*` are the wait that `start()`, `stop()` ... do after them, in
both of its forms; `Getter*` the getters under the shared lock; `Close*` the four steps of
`close()` (exchange, stop, sleep, free); `Callback*` the data callback with
`launchStopThread`; `StopThread` its thread; `Error*` the error callback and its thread.
`Settle`, `Disconnect` and `Fade` are the AAudio library. The application follows
`AudioStreamCallback.h`: a data callback calls getters only.

`AAudioStream_close()` waits for the data callback that is in progress (`CloseFree`; "we assume that the stream close() will join() any active
callback threads", `AudioStreamAAudio.cpp:132`), but not for one that is still to come: the comment at `AudioStreamAAudio.cpp:343` says that "sometimes a callback can
occur shortly after a stream has been stopped and even after a close", which "can also occur in later versions". So a callback
begins while `firing` is TRUE, which lasts beyond the stop until `Fade`, and the stream can be freed under it. What the code has against this is
its workaround: `close()` stops the stream (`CloseStop`) and then sleeps (`CloseJoin`). That the delay is long enough is
the assumption: if the stream was stopped, the sleep ends when no callback is to come any more (`Fade`). The mutants without the stop
and without the sleep break `StreamOutlivesCalls`. With `OboeGlobals`' workarounds off there is neither, and nothing is claimed.

`ClosableStream` is the promise: calls enter and leave, the stream is freed once, when
none is inside, and none enters afterwards. `StreamOutlivesCalls` is the refinement.

### `AAudioLoading`

Threads open the library (`DlOpen`, `LoadNext` for one group of functions after the other), ask
whether MMAP is supported and load its functions (`IsSupported`, `LoadSymbols`, `LoadSymbol`), and call
through the pointers (`CallMMap`, `Configure`, `QueryStream`), each a step, without a lock, as the code has none.
`alDevice` is one of five versions of Android: without libaaudio, and four with more and more functions.

### `StreamOpening`

`AudioStreamBuilder::openStream()` with `QuirksManager`. Each thread has a stack of calls, as
`openStream()` calls itself for the child: `Ask`, `Convert` (the quirks that make a
child request), `TakeChild` and `OpenFilter` (the filter around it), `CheckMMap`,
`DisableMMap`, `OpenNative`, `RestoreMMap`. `FlowGraph` is the list of nodes that
`DataConversionFlowGraph::configure()` builds between the two streams. The process's MMAP
policy is one variable for all threads. `phone` has the SDK level, whether quirks are enabled, the policy, which directions
are unsafe for MMAP, and whether mono is recorded for stereo.

### `OpenSLESOutput`, `OpenSLESOutputProofs`

`AudioOutputStreamOpenSLES` and its base class. What is done under `mLock` is one
step, except in `close()`, which joins the callback in `Destroy` while it holds the lock
(`CloseBegin`, `CloseEnd`), and in `requestStop()` when it locks again. What is done
without it is several: `Start`, then `StartDepth` (the queue is looked at), then the
application thread runs `processBufferCallback` itself to prime the queue (`Fire`, `AppReturn`,
`Enqueue`), as the callback thread does after `BufferPlayed`; `CallbackStop` is
`requestStop()` from either, `ResetIndex` what follows it. `calm` programs have one application
thread, start a quiet stream only, and never answer Stop. Others do prime a queue that another thread has destroyed (below).

### `MonotonicCounter`, `OpenSLESPosition`

The counter's 32-bit arithmetic is modular in `Half` (2^31 in the code).
`OpenSLESPosition` is every caller of it, for both directions: the frames of the client
(`clientFrames`), the frames the device has handled since it was last stopped
(`served`), the position, and what the getters report.

### `BufferedStream`, `LatencyTuner`, `LatencyTunerProofs`

`BufferedStream` models `transfer()` in discrete time: `Measure` and `Move` are the two
halves of a pass of its loop, `SleepTime` the length of the sleep, `Callback` the internal
callback, `Tick` the clock. The FIFO is its level here, since `Fifo` has the copying.
`LatencyTuner` extends it: `TuneLoad`, `TuneReset` (two steps) and `TuneAdjust` are
`tune()` on the writing thread, `RequestReset` the other thread, which may run
between any two of them.

### `SharedEngine`

Both singletons (same code, `Acquire` and `Release`) as streams are opened and closed
by several threads. `OpenEngine`, `OpenMixer`, `Create` are `open()` of the two stream
classes; `CloseObject`, `CloseMixer`, `CloseEngine` are `close_l()`.

### `DataConversion`, `DataConversionProofs`

A filter stream on its one thread. `path` says which of its four uses is modelled:
the application's callback behind a `FixedBlockReader` (`outputCallback`), `write()`
(`outputWrite`), the application's callback behind a `FixedBlockWriter` (`inputCallback`),
`read()` (`inputRead`). The call stack is spread over small steps because the application or the
child stream answers in the middle of it: `pc` is `sink` in the loop of `SinkFloat::read`
(the same in every sink), `convert` in `SampleRateConverter::onProcess`, `source` in
`FixedBlockReader::read` or `SourceFloat::onProcess`, `pulled` when these return, `deliver` and
`blocks` in `FilterAudioStream::write` or `FixedBlockWriter::write`. Frames are numbered, so
that every buffer is a sequence of numbers. `Process` is the application filling a block or the child's
`read()`; `ProcessFails` a Stop or an error, which the graph passes on as "no frames";
`CallApp` the application reading a block. `DivideOut` and `Reduced` are
`IntegerRatio::reduce()`.

### `FlowGraphNodes`, `RampLinear`

`FlowGraphNodes` is `FlowGraphNode::pullData()` and the `onProcess()` of every node, as far as
frames and channels are concerned, over every graph of two nodes between one source and two
sinks, cyclic ones included. A pull is a stack of calls; `MustRun` is the comparison of call counts,
`PullReset` the reset of a graph, `ChangeSink` an application that reads another sink, `SetData` a new
buffer of the source. A sample is the frame and channel of the source that it came from. A
`ChannelCountConverter` with more outputs than inputs only runs when `FgWraps` is TRUE (see the findings).

`RampLinear` is the one node that another thread writes to: `setTarget()` is `Store`, `Look`,
`ForceCurrent`, and `onProcess()` is `Run`, `Load`, `NewRamp`, `ProcessFrame`.

### OboeTester

* `FullDuplexStream`: an input that is polled in the callback of an output, in bursts. `Callback` is one of
  its phases `Drain`, `Cushion`, `Discard`, `Both`; `Deliver` is the input device, whose clock
  differs from the output's by at most `FdxJitter` bursts. The LiveEffect sample has a copy of this class.
* `GlitchTest`: `GlitchAnalyzer::processInputFrame()`, one action per state of the analyzer. Of the
  signal it is kept whether it is loud and whether the predicted sine fits it; `Shift`, `Mute`, `Unmute` are the
  outside, `GlUpsets` bounds them.
* `RoundTripLatency`: buttons, averager and sniffer of the activity on the UI thread, the analyzer on
  the audio thread (`FrameBegin`, `FrameEnd` are the read and the write-back of `mState`), and the
  detached thread that analyses (`Measure`, `SetDone`, `SetResult`).
* `TesterSession`: the runner's thread (`RunnerStep`), the screen (`PressStart`, `PressStop`, `LeaveScreen`,
  `Leave`, `Return`), over the streams of `TestAudioActivity`; for the glitch and the disconnect test.
* `NativeContext`: `ActivityContext` with its stream, the data thread that feeds a stream
  without callbacks, the recording and its player. `NcPress` is every button, in any order; `NcCall` the
  call a button makes until it returns (it joins the data thread), `IoStep` the data thread.
* `Recording`: the ring of the recording, played in blocks or saved frame by frame.

### Samples

* `SampleEngines`: HelloOboe, and MegaDrone and SoundBoard, which differ in what they do when a
  stream does not open or start. `ReopenStop` and `ReopenStart` are two steps, as the lock of HelloOboe
  is released between them; `ErrorClose` and `SeRestart` are the error thread.
* `LiveEffect`: the screen and the engine (`leUI` is the list of the calls that are still to be made),
  the callback in its steps (`AudioReady`, `Read`, `Process`), and the rack of plugins. `Ladspa` has the
  descriptors of the five libraries and what the host makes of a port's range hints. The rack is plugin 0 of
  `LeLibrary`, which is `noise`: the one library that `PluginManager.h` names. Its descriptor is freed as it is loaded
  (`noise.cpp:224` is a constructor), and read afterwards: the process may end there, or the memory still holds what it held.
  `EffectPlugins` has the plugins that remember: delay line, sine oscillator, low pass filter.
* `RhythmGame`: `Load` is the loading thread step by step, `Tap` and `Tick` the UI thread,
  `GameAudioReady` the callback. `OnStop` begins `Game::stop()`, whose three uses of `mAudioStream` are steps (`Stop`);
  `Disconnects` is Oboe's error thread closing the stream, `OnErrorAfterClose` its call of the game, some time later. The queues are those of `LockFreeQueue`, which is modelled beside it for
  two threads with every access a step and counters that wrap (both are proved in `SampleProofs`).
* `AssetExtraction`: the loops of `NDKExtractor` and `FFMpegExtractor` over codecs that return
  blocks when they like. A read may fail, which both loops take for the end (`cut`); the decoded blocks go into a buffer of
  `axRoom`, which nothing checks: past its end (`overrun`) the behaviour is undefined and goes no further.
* `SamplePlayer`: `SimpleMultiPlayer` with one sample: the callback mixes frame by frame
  (`Mix`, `MixFrame`, `MixEnd`) while pads trigger, the error thread resets, and the activity
  unloads. `Resampled` counts what the resampler makes.
* `WavReader`: chunks and samples of a file, every encoding, with bytes missing at the end.

### fxlab

* `FxLab`: the list of the screen (`effectList`, with a holder's place in `index`, what its `slider` shows, its `timer`, a
  `drag`) and the list of the engine (`functionList`), the engines that were created and the callback of each. The app may be
  left and its streams lost at any time: the new engine is `lacking` if effects are on the screen, `restarted` if a disconnect began
  it again. A view that is bound again has its sliders at their defaults (`Reinflated`).
* `FxDelays`: the delay line and the taps of every effect that has one.

## Runs

| Run | Question | Bounds and why they are enough |
|---|---|---|
| `aaudio_live` | does `close()` return, is a disconnected stream closed | one app thread, three calls, S or later (no stop threads) |
| `aaudio_stop_lifetime` (violation) | does no thread outlive the object, with stop threads | one app thread |
| `data_path` | is the FIFO a queue; is the reported state the player's; does a started stream keep playing, does `close()` return; do blocked calls sleep as long as they should and return; does the tuner come to an end; does the graph keep every frame, the order and the rates; is a Stop heard | FIFO: ring of 3, requests of 1 to 4 (below, at and above capacity), 11 frames: every index is passed at least three times, with every phase of the other side. Output: two app threads, six calls, every failure allowed. Blocking: FIFO of 4 bursts, requests up to 3, timeouts 0, shorter and longer than the period of 2 ticks, two resets. Conversion: ports of 2 frames, blocks of 1, 2 and 3 (below, at and above a port), bursts of 3, calls of 1 to 4, 8 frames, ratios 1, 2:3, 3:2 and 2:1: every loop turns more than once, and every buffer is left partly filled at every place |
| `filter_stop` (violation) | does an application that answered Stop get no more callbacks | as in `data_path` |
| `output_close_deadlock` (violation) | can the callback wait for the lock of a closer that waits for the callback | one app thread |
| `library` | engine, positions, opening, loading, graphs and ramps; does the AAudio stream outlive every call, does Stop stop | three threads, two failed opens; a 32-bit counter of period 4, 3 frames per 2 ms, 10 frames: wraps within a run and after restarts; eight devices with every valid request alone, and two unsafe ones together; five versions of Android, two threads, two opens each; buffers of 3 frames over ports of 2, reads of 1 and 3, three reads; ramps of 3 frames, four targets. AAudio: two app threads, four calls, two stop threads, a disconnect, O_MR1 (all guards active): every race is between two app threads and the library's threads; four calls allow start, stop, restart and close |
| `position_pause` (violation) | is the frame count monotonic when a playing stream is paused | 6 frames |
| `channel_wrap` (violation) | does a channel converter stay within its frame | as in `library`, with converters to more channels |
| `applications` | OboeTester, samples and fxlab | two runs of a full duplex stream; a sine of period 3 with three upsets; three averages with a retry; four starts of a session; three data threads, six presses; a ring of 4 frames that is written 10; three streams of an engine; queues whose index wraps after 8 with 20 items; plugins over 20 samples; two games, a disconnect, 5 frames (the claps, and two of their three windows); six blocks of an asset, room for six and for four; three rates; files of 5 frames over a buffer of 2; three effects, four touches, two engines. Each passes every wrap, restart and retry at least once |
| `recording` (violation) | does a player get the frames in order | as above |
| `latency_report` (violation) | is every latency that is reported a valid one | as above |
| `fxlab_screen` (violation) | are the effects on the screen applied | three effects, four touches, two engines |

The bound on every counter is a constant of its module. The passing runs check for
deadlock. The parts of `library` but the AAudio stream end (`Ended`): opened streams and graphs that have been read. An
OpenSL ES output can really block for ever with `mLock` held (`Jammed`, below).

Each property of a passing run is also checked to fail when one mapped definition is
replaced by the mutated form that stands before it in its module (`...Off`, or the name of the
defect): a dropped join, a lock that is not taken, an estimate from the wrong time. A conjunction
has a mutant in most of its parts.

### What the properties say

* `NoTornFrame`, `ReadsInOrder`, `WithinCapacity`, `ImplementsQueue`: the FIFO's promise.
* `StreamOutlivesCalls`: what the two mutexes, the exchange of the handle, the stop and the delay in `close()`
  are there for. `CloseReturns`, `DisconnectCloses`: the stream's end. `NoThreadOutlivesStream` is violated.
  `NoCallbackAfterStop`: the work-around for Oreo.
* `StateMatchesPlayer`: states are put back when a call fails, so the state is right whenever
  the lock is free. `StartedKeepsPlaying` holds for a `calm` program only (below).
* `PositionHonest` (`PositionTracked`, `NeverAhead`): nothing is missed through wraps and restarts,
  rounding never puts the device ahead of the writer. `PausesPlayback` allows the pause that breaks
  `FramesServedMonotonic`.
* `NoOversleep`: a sleep does not end a burst or more after the timeout. `NoResetLost`,
  `LatencySettles`: the tuner. `CallReturns`: every blocking call returns, and no loop of the conversion turns for ever.
* `FramesAccounted` (`NothingLost`, `NoDrift`): every buffer in the path hands on what it got, in order, only a Stop,
  an error or a short write loses any, and the ratio of frames is that of the rates. `StopIsHeard`: the last answer decides.
  `StopIsImmediate`, that none is asked for after a Stop, is violated.
* `SingletonsOutliveUse`: nothing is used after its maker is gone, although use takes no lock.
  `LastCloseDestroys`: exactly the failed opens leave something behind.
* `RequestHonoured`: whatever quirks do to a request, the stream has what was specified, and the graph of
  a filter leads from one stream to the other. `AAudioAsFound` (`LoadedBeforeUse`, `MMapSettled`): pointers
  are loaded when they are called, and the process's MMAP policy is restored, also after a failure.
* `GraphPlays` (`FramesPulled`, `PullEnds`, `RampSmooth`): all frames, in order and with the right channels,
  for any graph and any reads; pulls end also in cyclic graphs; levels do not jump.
* `InStep`, `GlitchesEnd`, `IdleWhenEnabled`, `NothingLeft`, `DataThreadsInHand` (`NoLostThread`,
  `RecordingInOneHand`), `FileIsInOrder`, `TestsEnd` (`StopEnds`, `CallEnds`, `MeasurementEnds`): OboeTester.
* `EnginePlays`; `EffectWorks` (`EffectInStep`, `CallbackLegal`, `PluginsFollow`); `GamePlays` (`RhythmInStep`,
  `TapsInTurn`) and `QueueInOrder`; `FilesDecoded` (`DecodedWhole`, `SamplesRead`); `SamplesLive`: the samples.
  `CallbackLegal` says of each port what it is connected to: a block of this call or the value. `DecodedWhole` says how much of an asset is there:
  all in order from the first, up to a read that failed, and of FFmpeg's without what its codec holds at the end, which is not played.
* `EffectsApplied` (`EffectsShown`, `CallbackHasAll`, `MutedAsShown`, `TapsInOrder`): fxlab. `EffectsShown` speaks of an engine that
  was told of every effect on the screen, and allows a slider to be at its default; `EffectsListed`, that every engine applies what is shown,
  is violated. `MutedAsShown` speaks of the engine that the activity uses, from each start, resume and press of the button.

### What the properties except

Where the code does go wrong and no document says otherwise, or a run for it would add little,
the property leaves the case out, by a variable or constant with a name, and the case is described below.

| Name | What it leaves out |
|---|---|
| `calm` | two threads on an OpenSL ES output, a start that is not from rest, a Stop |
| `PausesPlayback` | a pause of a playing output stream (run `position_pause`) |
| `phone.together` | two threads that open unsafe streams at once, for `MMapSettled` |
| another thread in the first `open()` | null pointers, for `LoadedBeforeUse` |
| `FgWraps` | converters to more channels (run `channel_wrap`) |
| `latQuiet` | a frame in progress when another thread writes `mState`; a user who leaves during averages, streams that do not open then |
| `left` | a glitch test whose screen is left while its runner lives |
| `StartsTwice` | a manual test that starts a blocking OpenSL ES stream twice |
| `seOverlap` | a selection or pause while the error thread is at the engine |
| `crossed` | a game that is paused while it loads, or between the end of a stream whose device went and `onErrorAfterClose()` |
| `together` (SamplePlayer) | an activity that stops while the error thread reopens its stream |
| `LeLibrary = "noise"` | the libraries that are commented out in `PluginManager.h`: of `delay`'s two controls the host connects one, and `sine`'s port 0 is an audio port, for `CallbackLegal` |
| `cut`, `overrun` | what a failed read leaves out, what follows a write behind the buffer |
| `Workarounds` | an AAudio stream that is closed without stop and delay |
| `WellFormed` | wave files with chunks of odd size or an extended format |
| `lacking`, `restarted` | an engine that was not told of the effects on the screen (run `fxlab_screen`), or is not muted after a disconnect |
| `enginePtr` | engines that the activity has lost, for `MutedAsShown` |
| `FxLate` | a slider's timer that outlives the place of its effect |
| `DlFlanger` | the flanger |

### Fairness

* `aaudio_live`: weak fairness of every thread's own steps. Steps that need a lock get strong
  fairness: the lock is free again and again while polling threads take and release it, and
  the mutex lets every waiter have it in the end. The data callback and the error thread
  go on too: the application's callbacks return. The library may stay in a transient state. Callbacks
  after a stop come to an end (`Fade`): they occur "shortly after".
* `data_path`: weak fairness of every thread of the output, which is enough since getters only try the lock; of the clock, the callbacks, a caller that need not sleep, and the
  filter's thread; strong fairness of the tuner's steps says that an application with a tuner goes on
  to call `tune()`, as `LatencyTuner.h` asks; `CallReturns` does not depend on it.
* `applications`, of OboeTester only: the UI thread does what was posted to its handler and what it has begun,
  each of its other threads goes on, the audio device keeps calling, and a volume that was turned down
  is turned up again (otherwise there is no signal to lock on to).

## What the models found

Eight disagreements of code and documentation have a run each; `PROJECT.json` quotes both sides.

* `aaudio_stop_lifetime`: `AudioStreamBuilder.h:490` promises that the `shared_ptr` keeps the
  stream from being deleted while callbacks use it. The stop thread, launched up to Android R for a
  callback that returned Stop, gets a raw `this` (`AudioStreamAAudio.cpp:366`).
* `output_close_deadlock`: the comment at `AudioOutputStreamOpenSLES.cpp:430` avoids a deadlock
  in the getters, but a callback that returns Stop calls `requestStop()`, which waits
  for the lock that `close()` holds while it joins the callback.
* `position_pause`: `getFramesRead()` "will never get reset", but a pause of a playing OpenSL ES output
  stream counts the queued frames as read, they are counted again when they are played,
  and the next stop takes them back.
* `channel_wrap`: `ChannelCountConverter` wraps its inputs one channel too late (`ChannelCountConverter.cpp:43`).
* `recording`: `MultiChannelRecording::read()` copies the second part of a block that goes round the ring
  over the first (`MultiChannelRecording.h:144`).
* `latency_report`: `PulseLatencyAnalyzer::analyze()` sets `STATE_DONE` before its result
  (`LatencyAnalyzer.h:483`): the screen that polls in between reports a latency that has no confidence.
* `filter_stop`: callbacks "should stop immediately" on Stop (`Definitions.h:148`), but an application whose stream is
  converted is called again for the next of its blocks (`DataConversionFlowGraph.cpp:265`).
* `fxlab_screen`: the screen shows the effects "being applied" (`README.md:19`), but an engine that is made again after a pause
  or a disconnect starts without them (`DuplexEngine.cpp:28`).

The models allow some more behaviours, or reading the code for them showed some:

* AAudio: `requestStart()` sets `mStopThreadAllowed` while a stop thread of an
  earlier Stop is pending; a second one can be launched, and the first can stop the restarted
  stream (comment at `AudioStreamAAudio.cpp:363`).
* Loading: the handle of the library is set before its functions are looked up, so a second thread
  that opens at the same time finds null pointers (`AAudioLoader.h:142` asks for one thread).
* Opening: two overlapping opens can give an unsafe stream MMAP, when the other's restore comes
  between the check and the open; a policy of ALWAYS comes back as AUTO. The child of a filter stream has no
  weak pointer to itself, so its error thread holds nothing (`AudioStreamAAudio.cpp:144`). `openManagedStream()` with an
  invalid configuration takes over an uninitialized pointer. The weak pointer is set only after `open()`.
* OpenSL ES output: two app threads can start and close at once so that `requestStart()` uses
  the destroyed queue after its unlock; a start after a pause can prime the queue from
  the app thread while the callback thread fills the same buffer; a callback that began before
  `requestStop()` enqueues after the queue was cleared; when `Clear` fails, the message logged in
  `requestStop()` evaluates `flush()`, which locks the mutex again (line 400, state `stuck`).
* Shared engine: when the first `open()` of the engine or mixer fails, its error path calls
  `close()`, which locks the mutex that `open()` holds (`EngineOpenSLES.cpp:59`, state `stuck`); a
  stream whose `open()` fails later never releases its references (`leaked`).
* Buffered: just after a restart the predicted callback is from before the stop, and a caller
  may sleep through two callbacks. A negative size given to `setBufferSizeInFrames()` selects the largest (`Clipped`).
* Data conversion: the application's callback can be called again after it returned Stop, within one
  callback of the child (run `filter_stop`): `SinkFloat::read` pulls again
  when the resampler had produced some frames, and `DataConversionFlowGraph::write` goes on with
  the next block (`TODO` in line 265). If it then answers Continue the Stop is lost, so
  `StopIsHeard` speaks of the last answer. `mCallbackResult` is not reset: an
  input stream that is restarted after a Stop is stopped again unless its first burst
  completes a block. After a short write of the child, `write()` goes on with the next frames, so the count
  it returns is not of the first frames of the buffer; with a rate converter it counts frames
  of the child. `read()` reports an error of the child as no frames read. A blocking `read()` with blocks
  no longer than a port (8 frames) would turn
  without waiting until the child has frames (`FixedBlockReader.cpp:57`); `Init` leaves this out.
* Flowgraph: a node that reads two sources of different lengths loses frames (`TODO` in `FlowGraphNode.cpp`);
  a constant generator returns more than was asked when two paths share it; a cyclic graph gives no
  frames; `RampLinear` keeps its ramp through a reset; `SampleRateConverter::reset()` leaves its cursor at -1.
* HelloOboe: a spinner that is moved between the error thread's close and its restart leaves a stream open
  that nothing refers to (`HelloOboeEngine.cpp:124` takes the stream for closed); the buffer size chosen is lost when
  the stream is reopened. MegaDrone deletes an engine and keeps its handle. `SoundGenerator` has room for 1024 frames.
* LiveEffect: a library that does not load makes `libraries.at(0)` throw; the unload function of the noise
  library is a constructor (`noise.cpp:224`), so that the descriptor is freed before it is used, and so in `delay.cpp`; the host connects port 0 of
  every plugin to one float (`PluginManager.cpp:82`): the second control of the delay, its dry/wet balance, is never connected, sine's
  port 0 is an audio port, of which a whole block is read, and the value, 200, meant as the filter's cutoff, is the noise's amplitude; the high pass filter has its ends swapped, a delay of 0 samples
  is not exact, a short read of the input leaves the end of the output as it was.
* RhythmGame: a pause during the load leaves a stream that plays, or uses one that is gone; so does a pause between the end of a
  stream whose device went and `onErrorAfterClose()`, which resets the `mAudioStream` that `stop()` is using (`Game.cpp:57`) or begins a load that plays
  although the game is not shown; after a disconnect the queues still hold the events of the first run.
  Both decoders end with success when a read fails (`FFMpegExtractor.cpp:243`, `NDKExtractor.cpp:126`), FFmpeg's does not
  ask its codec for what it holds at the end, and both write behind their buffer when an asset is compressed more than
  12 times (`AAssetDataSource.cpp:34`). DrumThumper keeps samples at the old rate when another stream has another;
  an activity that stops while the stream is reopened leaves it playing. The wave reader does not skip the pad byte
  of an odd chunk nor the end of an extended format, and 24-bit samples that are missing are not zeroed.
* OboeTester: the audio callback can write back the state that the analysis has just set to done
  (`LatencyAnalyzer.h:546`), and the detached analysis can meet the next measurement (`NativeAudioContext.h:541`), so that a test
  never ends; a blocking OpenSL ES stream that is started twice has two data threads, of which one is never joined
  (`NativeAudioContext.cpp:264`); a glitch test whose screen is left opens its streams again.
* fxlab: an engine that begins again after a disconnect is not muted although the button says so; the permission dialog ends with two
  engines, of which the first is lost and plays (`MainActivity.kt:137`, `native-lib.cpp:39`), against `README.md:21` ("By default the sound output is off");
  effects that another is dragged or swiped past get sliders at their defaults (`EffectsAdapter.kt:94`) while the engine keeps
  its values; a slider's timer uses the place its effect had (`EffectsAdapter.kt:106`); the flanger passes a delay of 0, whose tap is the
  oldest sample (`FlangerEffect.h:26`). With `FxLate` or `DlFlanger` TRUE, TLC shows the timer and the flanger. The callback walks through the list that
  the screen changes, without a lock, which is undefined and not modelled. `SAMPLE_RATE` is `static` in a header, so each file
  has its own; the callback is destroyed inside its own error callback.

## Proofs

Each theorem holds for every value of the constants that its module's assumptions allow. Each
is proved the same way: an inductive invariant, one lemma per action that keeps it, and the property
from the invariant. What follows says why the property is not inductive and what the invariant adds.

| Module | Theorems | State for every | Assumed |
|---|---|---|---|
| `FifoProofs` | `TypeCorrect`, `CapacityKept`, `InOrder`, `NoDataRace`, `FifoIsQueue` | capacity, request, number of frames | `CapacityAssumption`, `BoundsAssumption` |
| `AAudioStreamProofs` | `LockProtocol`, `StreamIsClosable` (`StreamOutlivesCalls`), `GatesClose` (`NoCallbackAfterStop`), `CloseSilences`, `CallbackEndsFirst` | number of threads and calls, version of Android | threads have names of their own; workarounds on for `StreamIsClosable`, `CloseSilences` and `CallbackEndsFirst` |
| `OpenSLESOutputProofs` | `StateIsPlayers` (`StateMatchesPlayer`), `BufferStaysInFlight` (`StartedKeepsPlaying`) | number of threads and calls, any failures | the second speaks of `calm` programs |
| `LatencyTunerProofs` | `SleepsEnd` (`NoOversleep`), `ResetsAreServed` (`NoResetLost`) | FIFO, burst, period, timeout, limits | `TimeAssumption`: margin and shortest sleep are below a period |
| `DataConversionProofs` | `FramesInHand`, `FramesInRatio` (`FramesAccounted`), `LastAnswerCounts` (`StopIsHeard`) | rates, blocks, bursts, ports, calls, all four paths | `KeepsRatio` for `FramesInRatio` |
| `LibraryProofs`: engine, mixer | `EngineTypeCorrect`, `UseIsSafe` (`SingletonsOutliveUse`), `LastCloseIsClean` (`LastCloseDestroys`) | finite set of streams, any failures | `StreamAssumption`, `FailureAssumption` |
| positions | `PositionIsHonest` (`PositionHonest`), `NeverGoesBack` (`FramesServedMonotonic` of an output, and the same of an input) | rate, burst, width of the counter | no pause of a playing output |
| opening | `RequestsAreHonoured` (`RequestHonoured`), `MMapIsSettled` | device, request, number of threads | `OpeningAssumption` |
| loading | `PointersAreLoaded`; with `MMapIsSettled`, `AAudioIsAsFound` (`AAudioAsFound`) | version of Android, number of threads | `AAudioLoadingAssumption`: what a version without or with libaaudio has |
| flowgraph | `GraphIsPulled`, `PullsEnd`, `RampIsSmooth`; together `GraphIsPlayed` (`GraphPlays`) | size of the buffers, reads, refills and pulls; length of a ramp, number of targets | `FlowGraphAssumption`, `RampAssumption`; not `FgWraps` for `GraphIsPulled` and `GraphIsPlayed` |
| `SampleProofs`: queue of RhythmGame | `QueueKeepsOrder` (`QueueInOrder`), `SlotsApart` | capacity, width of the counters | `LfqAssumption` |
| RhythmGame | `RhythmIsInStep` (`GamePlays`) | number of games, disconnects, frames | `RgAssumption`: the index of the queues holds their size |
| LiveEffect | `EffectsWork` (`EffectWorks`) | rates, blocks, samples, calls; libraries noise, amp, filter | `EpAssumption`; neither `delay` nor `sine` |
| files | `AssetsAreWhole`, `SamplesAreRead`; together `FilesAreDecoded` (`FilesDecoded`) | blocks, room, buffers and delay of a codec; frames, block and missing bytes of a file | `AxAssumption` |
| engines, player | `EnginesPlay` (`EnginePlays`), `SamplesStayLive` (`SamplesLive`) | devices, number of streams, any failures; rates, frames, block, number of pads | `ResamplesWithin` for `SamplesStayLive` |
| `ApplicationProofs`: OboeTester | `DuplexStaysInStep` (`InStep`) | drain, cushion, discard, capacity, jitter, number of runs | `FdxAssumption` |
| | `OneMeasurement` (`IdleWhenEnabled`) | bad and good runs of an average, presses, frames | |
| | `SessionsClean` (`NothingLeft`) | configurations, presses | |
| | `ThreadsAreJoined` (`DataThreadsInHand`) | threads, presses | `NcAssumption` |
| | `FilesAreInOrder` (`FileIsInOrder`) | size of the ring, blocks, frames | |
| fxlab | `DelaysAreInOrder`, `FxLabApplies` (`EffectsApplied`) | set of effects, number of engines, touches; lengths of the lines | neither `FxLate` nor `DlFlanger` |

### The FIFO

The counters do not say what a thread in the middle of a
copy relies on, so `CapacityKept` and `NoTornFrame` are not inductive. `IInv` adds:

* `WriterClaim`: a writer that copies `n` frames has room for all of them. The reader
  only ever makes more room, so a claim, once true, stays true although it was computed from
  an old counter.
* `ReaderClaim`: the frames a reader has yet to copy were all published before it
  began, and hold what was written, in order.
* `Contents`: a frame in place that no thread has read lies in the slot of its number.

The ring is arithmetic: `SlotIsIndex` shows that the two-part copy addresses a frame by
its counter modulo the capacity, and `DistinctSlots` that frames less than a ring apart lie
in different slots. `FifoIsQueue` is the refinement: a commit of the writer appends to `FrameQueue`, a commit
of the reader removes from its head, since the frames between the counters are `Contents`; every other
step is a stutter.

### The engine and the mixer

The counts alone do not say whose they are, so `IInv` adds: each open count is the cardinality of the set of
streams that hold the singleton, plus those that were leaked (`Counted`); a singleton is alive exactly
when its count is not zero and no failed `open()` is stuck in it (`AliveWhileCounted`); a thread
that is stuck is the only user (`StuckInOpen`); only output streams are near the mixer
(`OnlyOutputMixes`). `AcquireKeeps`, `FailureKeeps` and `ReleaseKeeps` are the facts about one
singleton, stated once; one lemma per action follows how the sets of users change.

### The AAudio stream

A thread that uses the library's stream does not look whether it is alive: it relies on a lock. `Locks` says what on:

* `LockInHand`: `mLock` is held by a thread exactly where its program counter says so, hence by one.
* `HandleStays`: a handle that was loaded under either lock is not exchanged before that lock is released
  (this needs both: `close()` takes `mAAudioStreamLock` for the exchange only).
* `AliveWhileHandled`: the stream is alive while the handle is there, then until the one thread that took the
  handle has freed it.
* `Silenced` (`CloseSilences`): no callback is in progress or to come when the stream is freed, as the thread that took the handle
  has stopped the stream, which nothing starts again without a handle, and slept.
* `OwnersClose`: neither a data callback nor a stop thread closes.

Then a thread inside a call has a live stream (`SafeUse`), and every step enters or leaves for one
thread at most (`OneMoves`), which is what the steps of `ClosableStream` allow. `GatesClose` needs the two gates,
`mDataCallbackEnabled` and `mErrorCallbackCalled`, as an invariant (`Gates`). For `CallbackEndsFirst` the object
is deleted when the application and the error thread have let go (`Released`). That no stop thread is left then
is false, which run `aaudio_stop_lifetime` shows.

### The OpenSL ES output

`StateMatchesPlayer` is inductive once it is known that a destroyed player means a free lock
(`DestroyedIsClosed`), as `close()` holds the lock until the player is gone and sets the state before it unlocks. That a started
stream keeps playing is a fact about one buffer that is handed around outside the lock: `OneBuffer` (in the
queue, with the thread that primes it, or with the callback: never in two hands), `BufferInFlight` (while the
stream is started, in one of them) and `CalmThreads` (who may be where). `QueueThere`, which the argument needs too, says
that in a calm program nobody is on the way to the queue when `close()` destroys it.

### Positions

`UpdateFollows` is about `MonotonicCounter` for every width: an update adds exactly the distance
when it is less than half the range. `PosInv` then says: the counter is what the device
reported when it was last asked, from a base that a stop sets, and less than `Half` behind it (`Follows`);
for an output the frames that were played before the last stop, those the device has served since and those still queued are not more
than the client has written (`Behind`), where rounding to milliseconds only ever
loses; an output that does not play has caught up (`CaughtUp`), so that the jump of a stop goes forward.
`CaughtUp` is what a pause of a playing output breaks (run `position_pause`).

### Opening a stream

`openStream()` calls itself for the child of a filter, and each call has changed the request it was given, so nothing
in one frame says what the first was asked. `Stack` says of a stack of calls what each still owes: `First`, that a frame which
is about to open has a native stream to open for its own request, or a filter over a child that was given for the request
`Child` of its own, and that what was returned to it is as asked; `Second`, that a second call
is for that child, and opens natively: there is never a third. `GivenFor` is stronger than `Honoured`, since the filter makes up for
what a native stream does not have. The policy of MMAP belongs to the process: `PolicyKept` says that MMAP is off, where the phone has it on, only
while a thread is between switching it off and restoring it, `PolicyOf` that a thread which opens alone finds it off if its request is unsafe. That
last part is FALSE of two threads, and is where `phone.together` comes in.

### Loading AAudio

`LoadedBeforeUse` speaks of pointers and of whoever calls; what connects them is the handle, which is set first.
`PlacesPassed`: a thread within `open()` has every function of the groups behind it. `HandleLoads`: while the handle is set
all functions are loaded, or the thread that loads them is not done. The functions of MMAP have no handle: they are
found by testing the last of them, `getMMapPolicy`, and `LastSaysAll` says that it is never there without the others, because
every thread loads them in the same order (`SymbolsInTurn`).

### Flowgraph

What a sink has received says nothing of a pull that is on its way. `Stacked` says of its calls that they are a path from the reader
through nodes that have this pull's count, each of them once; so no node is called while it is being called, in any graph, which is
`PullEnds`. That the graph does not come back comes in with `Rank`: a call is of a lower node than its caller
(`Descends`), so that what the top of the stack has yet to pull is not below it. From there `Flows` follows the frames: the source gives a pull
its frames first (`SourceGave`), a node that has run holds just these, and as many (`RanWell`), a call that has pulled an input asks
for as many from the next (`Pulls`), and so two paths that join bring the same frames. `Before` is what the reader had when the pull began.

Where the graph comes back, `NoFrame` says why nothing is received: every node but the source has an input from one of the two between; a node
that is met while it is being called gives the 0 frames of before; and a call that an input gave none has none to give, whichever of its inputs the source is.

Both are proved for every graph of `Graphs`, by what its shapes have in common (`MiddleShape`, `NodeShape`, `Connected`): two nodes between a
source and two sinks. A longer chain is more of the same step, but needs an induction over its length. `FgWraps` is what
the run `channel_wrap` is about, where the property is false.

`RampLinear` subtracts what remains of a ramp, and one may begin within another, so the argument is about what is divided how often. A ramp within
`n` others steps by a multiple of `RlLength ^ (RlChanges + 1 - n)` (`Exact`): each `setTarget()` can begin one ramp, `ExactForNext` keeps the
last of them to come divisible, and the step is exact. Then `Gentle` bounds the level that is to come, not the one that was: within the range, at most
a full ramp's step from the last. `Arrives` adds up frames and what remains. `Forces` is about the race of `setTarget()` with the
first `onProcess()`: a level that is forced late is the one that the ramp already leads to, or no frame had one before it.
`RampAssumption` states of powers what these provers cannot compute, `Divisor(n + 1) = RlLength * Divisor(n)` and that the targets are multiples; TLC
evaluates it. The code's levels are of floating point, whose rounding is left out.

### Blocking calls and the tuner

A sleep is computed from a prediction of the next callback. `WakesInTime` relates the three clocks in it,
the time since the last callback, the phase of the device and what is left of the sleep: before the next
callback the sleep is shorter than that and a period, after it shorter than the next
period. `Punctual` bounds the sleep by the timeout. For the tuner, `RequestsAhead` says that no answer
is ahead of the requests and that from a reset to the next load of the counter a new request is not
taken for answered. The proof first failed at `MinSleep = BurstTime`, which the model had allowed: a shortest sleep of a
whole period does sleep through two callbacks. In the code it is 1 ms
(`minSleepTime`, `AudioStreamBuffered.cpp:196`) and a burst is longer; `TimeAssumption` says so.

### The lock-free queue

Each counter wraps at its integer type. `Counters` ties it to the number of items that were pushed or popped,
which do not wrap; `WriterRoom` and `ReaderItem` are the old looks at the other counter that stay true;
`Items` that the slots between the counters hold the items in order. `LfqAssumption` asks that the capacity divides the range of
the counter and is less than it. The comment in `LockFreeQueue.h` asks for both (a power of two,
less than the maximum of the type); TLC shows that at equality a full queue looks empty.

### Data conversion

Frames are in up to seven places, and a step moves several from one to the next. The invariant `DcInv` says of each
buffer that it is a run of consecutive frames, and where it begins: `Sources` (of what entered), `Port` (the input of
the resampler), `Outlet` (of what was made). `Places` says which buffers can hold anything at each point of the call stack;
`Counts` and `Emptied` that a loop that ends has used up what it was to use up: an empty read of the sink means that
nothing is left anywhere. `Phase` is the equation `phase = q + p * made - q * used`
of the resampler, from which `NoDrift` follows by multiplication with the common factor; `Heard` that after a Stop nothing
is left that the sink could still read. The lemmas about runs (`RunCut`, `RunJoin`, `RunEnds`, `RunFollowing`) are cited by
every step.

`FramesInRatio` has the hypothesis `KeepsRatio`: that `IntegerRatio` divides both rates by the same. `Reduced` is a fold
over primes of a recursive function, which these provers cannot reason about. TLC evaluates `KeepsRatio` for every pair of the
twelve rates that OboeTester offers (`ReductionAssumption`).

### OboeTester

* `FullDuplexStream` counts callbacks, not bursts: nothing in the code says that a burst is there to read. `DrainsItsOwn` says
  that when the last drain is counted the input of this run delivers, which needs two drains (`FdxAssumption`, the code has
  20): the first may drain what the last run has left. From then on `Cushioned` relates the three counts:
  what waits is the cushion so far and what the input has got ahead since, up to the jitter.
* A measurement of `RoundTripLatency` is carried on by what is posted to the UI thread's handler, while the screen may be left and shown
  again. `OnePosted`: the sniffer and the next measurement of an average are never both posted; a measurement that waits means that the
  averager is active and Cancel is off, and a sniffer of a screen that was left that it is active. Hence `LatOnStart`, which sets the
  buttons from the averager alone, does not enable Measure under a measurement.
* `TesterSession`: `InClose` and `Exclusive` say which of the UI thread and the runner has the streams: both open and close them
  without a lock. `NoneToClose` is about the disconnect test, whose screen closes nothing.
* `NativeContext`: `Pressed` (a call was begun by a button that is there) and `PlaysAlone` (the recorder's states) give what the
  calls rely on and do not check; `WritesToTheNewest` that an open leaves no writer of the recording before. Each call
  that stops or closes joins first: `JoinKeeps` is the fact they share. `StartsTwice` excepts the bug of
  `NativeAudioContext.cpp:264` that is described above.
* `Recording`: the order of a file follows from the place of each frame: `RingHoldsLatest` says that the last `RecSize` frames
  are each in the place of its number, and `ReaderIsWithin` that whoever reads is among those. A write of a block
  in two parts and the frames before it never share a place, since they are less than a ring apart.

### Samples

* `SampleEngines`: `Apart` says that the error thread is at the engine only while the screen rests, and with the
  engine's stream; it is what `seOverlap` leaves. `OneOpen` follows a stream through `ReopenStop` and `ErrorClose`: whoever
  is about to open another has closed this one. `AsAsked` (the stream has what the engine asks for) and `AsShown` (the
  engine asks for what the screen shows) are two steps of a promise that `EnginePlays` makes of the stream and the screen: a
  spinner breaks the first before it opens again.
* `SamplePlayer`: `Mixes` says that what the callback has yet to mix is in the sample: a pad or a reset may put the
  index back meanwhile, but nothing puts it forward. `LoadedWhileShown` and `OnePlays` say how far an activity that stops has
  come: the stream is torn down before the sample is unloaded, and teardown waits for the callback. While the error
  thread reopens the stream none plays.
* `SamplesStayLive` has the hypothesis `ResamplesWithin`: that the buffer `resampleData` allocates holds all that the resampler
  makes. `Resampled` is a recursive function; TLC evaluates the hypothesis for the instance of the run, and the same
  of 36 pairs of small rates and 25 of device rates at short lengths (`ResampledAssumption`).
* `RhythmGame`: the windows and results are in two queues and the mixer's players are made by a thread that nobody
  waits for. `LoadsInTurn` says that a load begins when the stream of the one before had started, so there is
  one at a time (`Newest`); `LoadFinds` what it finds at each of its steps: the stream it opened, no
  players of the load before in the mixer; `Resumed` what the screen, the steps of `stop()` and the error thread have made of the
  stream between them. All are for a program whose pauses have not `crossed` a load or the end of a stream whose device went.
  `WindowsTaken` and `ResultsTaken` say which windows and results the queues still hold, until a disconnect schedules the song again.
* `LiveEffect`: the UI thread's calls are a list, and `LePhase` says for its head what the engine has done so far. `LeRunning`
  is what the callback needs: both streams open at one rate, the input in `live`. Turning the effect off passes through
  `LeSilent` before the input is closed: nothing calls back from the moment the output stops. `LePlugins` is the shape of a plugin whose
  ports are port 0, a control that the host connects to the value, and its audio ports; all descriptors but those of delay and sine have it
  (`RackIsConnected`).
* `EffectPlugins`: `LineHolds` says which sample is in each place of the delay's buffer: the last `BufferSize`, from the last
  activation on. A delay of `d` reads the sample `d` before if `d` is less than the size, which is a power of two not less
  than the rate times the longest delay (`DelayWithin`); `EpAssumption` bounds that by the largest power in the model, so rates up to 209,715 Hz.
  `SineCached` and `LowPassCached` say that what is cached belongs to the control's last value.
* `AssetExtraction`: what was written, with what the codec still holds, is what it was fed, in order (`BlocksInOrder`); for
  the NDK's, once the end is queued, the end is the last of it. So the loop that stops at the end has written all it was fed, and `cut`
  says whether that is the asset; the buffer holds what was written unless it was overrun, which takes more blocks than `axRoom`.
* `WavReader`: `ParsedTo` says where the parser stands behind `k` chunks, and what it has kept of them. A reader that starts at
  the data has `UnitsInOrder`: whole units so far, from the first, and the stream behind the last of them; a block that
  falls short says that the next unit is not in the file, which is why the zeros that follow stand for just the missing ones
  (`Complete`). A unit is a frame, or of 24 bits a sample, and 1, 2, 3, 4 or 8 bytes long.

### fxlab

* `FxLab`: each effect is three things, a row of the list, a holder that knows its own row, and an effect of the engine. `EngineFollows`
  ties the third to the second, not to the first: an effect of the engine is where its holder knows it, also in the middle of a drag, when
  the rows have moved and the holders have not been told; `HoldersKnow` says by which permutation (`Origin`) they are behind. `TimersHold`: an
  effect with a slider's timer is in the list, and its place is still its own (but for `FxLate`). All this is of an engine that is not `lacking`. `MembersHold` and `DeletingHolds`: an
  engine that plays or calls has all its members, as its output is deleted first.
* `FxDelays`: `LineHolds`: tap `i` of the line gives sample `i` from the end, silence before the first.

### With TLC alone

* Liveness: `CloseReturns`, `DisconnectCloses`, `CallReturns`, `LatencySettles`, `TestsEnd` and `GlitchesEnd`: they
  need fairness and ENABLED.
* What recursion over data computes: the reduction of rates (`KeepsRatio`) and `Resampled` (`ResamplesWithin`), which are hypotheses of
  theorems above and evaluated by TLC.
* Of LiveEffect the libraries delay and sine, of an AAudio stream a close without the workarounds, and what the hypotheses of the theorems about fxlab leave out: there the properties are false.
* Violations: what the eight runs show is a counterexample, which needs no proof.

## Plan

1. (done) The library: every component of it that keeps state.
2. (done) The core of the samples, OboeTester and fxlab.
3. (done) Proofs about every part of the library where threads meet, of the refinements, and of the data conversion.
4. (done) Proofs about `AAudioLoading`, `StreamOpening`, `FlowGraphNodes` and `RampLinear`.
5. (done) Proofs about the applications: OboeTester, the samples and fxlab.

## Not modelled

* `open()` of the native streams beyond the choice of what is opened and its calls on the engine and
  mixer: a sequence of calls to the system on one thread.
* `read()` and `write()` of an AAudio stream, and closing a stream in another thread during a
  blocking call: `docs/FullGuide.md` leaves that to the application.
* The input stream's start and stop: all under `mLock`, on the callback path of the base class.
* Sample values: format conversion, filters, correlation, generators, the encoder of bits: floating point.
* `StabilizedCallback`: time burnt by floating-point estimates.
* `clipBufferSize()`, text, traces, version: no state that other parts depend on.
* Torn access to plain fields shared by two threads (XRun count, time of the last callback), except where a
  module says so: read and written in one step here.
* Drawing, layout, MIDI, the lists of audio devices, JNI conversions; the other activities of OboeTester, which show what the
  native side measures; reading a list of effects while it changes.
* `tests/`: read for what they expect.
