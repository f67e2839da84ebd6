# Verification models of the Android FFmpeg player

The repository is an Android media player: about 3,300 lines of its own code
(`src/FFmpegAndroidStudio/app/src/main/cpp` and `.../java/com/luopan/ffmpeg`)
on top of a vendored FFmpeg 4.2.2. The models here are of the player, all of
it, and of the three parts of FFmpeg that carry its threads and memory: the
decoding calls, frame threading, and reference-counted buffers. The rest of
FFmpeg appears as the interface the player calls. (FFmpeg is 1.4 million lines
and 99.7 % of the repository; codecs, formats and filters are no target of
these models, so the share of lines that is modelled is small and stays small.)

Paths below are relative to `src/FFmpegAndroidStudio/app/src/main/cpp/`, those
of FFmpeg to `src/ffmpeg-4.2.2/`.

## 1. The system

Five threads work on one pipeline, a sixth (the UI thread) controls them:

```
              IDemux thread            IDecode thread (video)
 file --read--> Notify --+--> vDecode.packs --> codec --> GLVideoView.Render
                         |                        ^ synPts
                         |                        |
                         |        IPlayer thread (sync): audioPlay.pts -> synPts
                         |                        |
                         |    IDecode thread (audio)          OpenSL callback
                         +--> aDecode.packs --> codec --> resample --> audioPlay.frames --> device

 UI thread: Open (Close, Open, Start) / PlayOrPause (SetPause) / SeekTo (Seek)
```

| Component | State | Operations | Talks to | What is hard |
|---|---|---|---|---|
| `XThread` | four plain booleans: `isExit`, `isRunning`, `isPause`, `isPausing` | `Start`, `Stop`, `SetPause`, `IsPause`, `ThreadMain` | base class of all the others | the flags are the whole protocol; waits poll and give up; detached threads can overlap |
| Demuxer (`IDemux`, `FFDemux`) | format context, position, stream indices | `Open`, `Close`, `Seek`, `Read`, `Main` | `Notify` to both decoders, synchronously | `Open` fails half way; a blocked `Notify` outlives a `Stop` |
| Observer chain (`IObserver`) | observers, a mutex | `AddObserver`, `Notify`, `Update` | runs the observer's `Update` on the notifier's thread | the mutex is held while `Update` waits for room |
| Decoders (`IDecode`, `FFDecode`) | packet queue, `packsMutex`, `synPts`, `pts`, codec, one reused frame | `Update`, `Clear`, `Close`, `Open`, `SendPacket`, `RecvFrame`, `Main` | `Notify` to video view or resampler with `packsMutex` held | the mutex is held while the audio output blocks; the frame is reused |
| Audio output (`IAudioPlay`, `SLAudioPlay`) | frame queue, `pts`, OpenSL objects | `Update`, `GetData`, `PlayCall`, `Clear`, `Close`, `StartPlay` | called back by the device | each callback must enqueue the buffer that causes the next |
| Player (`IPlayer`) | pointers to the parts, a mutex | `Open`, `Close`, `Start`, `SetPause`, `Seek`, `Main`, `PlayPos` | calls everything above, on the UI thread; its own thread copies the audio clock | the mutex is held while it waits for threads, one of which wants it; `Seek` decodes on the UI thread |
| Proxy and JNI (`IPlayerPorxy`, `native-lib.cpp`, Java) | a mutex, the player | `Open` + `Start`, `PlayOrPause`, `SeekTo`, `PlayPos` | one call at a time | `Start` follows even a failed `Open` |
| Resampler (`FFResample`) | one mutex, one `SwrContext` | `Open`, `Close`, `Resample` | on the audio decoder's thread | error returns with the mutex held |
| Video view (`GLVideoView`, `XTexture`, `XEGL`, `XShader`) | window, texture, EGL objects, the thread the context is current on | `SetRender`, `Render`, `Close` | on the video decoder's thread, and on the UI thread | lifetime of the texture across threads; failures that leave it set |
| Decoding calls (`libavcodec/decode.c`, `bsf.c`) | packet slot, frame slot, draining flags | `avcodec_send_packet`, `avcodec_receive_frame`, `avcodec_flush_buffers`, `avcodec_close` | called by `FFDecode`, one at a time | draining, errors while draining, full slots |
| Frame threading (`libavcodec/pthread_frame.c`) | per thread a state, packet, frame, context; the turn of both ends; four mutexes | `ff_thread_decode_frame`, `_flush`, `_finish_setup`, `_get_buffer`, `_get_format`, `_report_progress`, `_await_progress` | below the calls above, above `codec->decode()` | who sleeps on which condition, which lock is held while another is awaited, order of results |
| Buffers (`libavutil/buffer.c`) | reference counts, pools | create, reference, release, make writable, resize, pools | under every packet and frame, from every thread | the moment between a count that reached zero and the release |
| `XData` | a buffer | `Alloc`, `Drop` | everywhere | who frees it |
| Factories | none | create the parts | once, on load | |

What makes each correct: `XThread`: a stop is final, a pause is effective,
neither sticks. Observer chain and decoders: bounded queues in file order,
one owner per packet, a frame left alone while it is being shown. Audio output: the
chain of callbacks does not break. Decoding calls and frame threads: together
they are a queue with a fixed delay. Buffers: what is referenced is there, what
is not is freed, a writer is alone. Resampler and view: no early return keeps a
mutex, nothing of an earlier file or window stays in force. Player: playback neither stalls nor
reorders, nothing of an old file survives into a new one, and every call of the
application returns. `PROJECT.json` lists the hazards line by line with the
property that covers each.

## 2. The modules

| Module | Models | EXTENDS |
|---|---|---|
| `XThread` | the flags, the program counters, the steps of the thread class | |
| `ThreadLifecycle` | `Start`/`Stop`/`SetPause` with their poll loops against the worker loop, load by load | `XThread` |
| `ThreadLifecycleProofs` | proofs about it | `ThreadLifecycle`, `TLAPS` |
| `FFDemux` | the file and the position in it | |
| `IDecode` | packet queue, codec and worker of both decoders | `XThread`, `FFDemux` |
| `IObserver` | `Notify` of the demuxer and `Update` of the decoders | `IDecode` |
| `IAudioPlay` | frame queue and callback chain | `IDecode` |
| `IPlayer` | the player: all parts composed, the control thread, the sync thread; the properties | `IObserver`, `IAudioPlay` |
| `IPlayerProofs` | inductive invariants: types and places, the pause of `Seek()`; the scripts entry by entry; proofs about types, queues, frames and pauses | `IPlayer`, `TLAPS` |
| `OwnerProofs` | the owners of packets, their order in the queues, what is left of an earlier file: inductive invariants and proofs | `IPlayerProofs` |
| `PlaybackProofs` | one file from `Open()` to its end: inductive invariant, and the proof that the player implements `Playback` | `OwnerProofs` |
| `DecoderQueue` | abstract specification: what the decoding calls promise, and `IDecode` relies on | |
| `FrameThreads` | workers of `pthread_frame.c` and the user's thread inside it; the decoder reduced to the calls it makes | |
| `SendReceive` | the decoding calls; the properties of both | `FrameThreads` |
| `SendReceiveProofs` | inductive invariants: the locks, and the frames; proofs about the locks, the states, the assertions and the frames that are handed out | `SendReceive`, `TLAPS` |
| `QueueProofs` | where the packets are: inductive invariant, and the proof that `SendReceive` implements `DecoderQueue` | `SendReceiveProofs` |
| `MCSendReceive` | seven kinds of codec | `SendReceive` |
| `AVBuffer` | references, buffers, pools; the properties | |
| `AVBufferProofs` | inductive invariant, what is counted and what stays; proofs | `AVBuffer`, `TLAPS` |
| `GLVideoView` | view, texture, EGL, shader | |
| `FFResample` | resampler | |
| `Sinks` | view and resampler under the player's `Open`, `Start`, `InitView`; the properties | `GLVideoView`, `FFResample` |
| `SinksProofs` | inductive invariant of `Sinks` and proofs | `Sinks`, `TLAPS` |
| `MCAVBuffer`, `MCSinks` | symmetry of names | |
| `Playback` | abstract specification: what comes out when a file is played | |
| `MCIPlayer` | the files the runs play | `IPlayer` |

State and code correspond by name: a member `x` of class `C` is the variable
`x` of the module named after `C`, a function of the object when several
objects have the member (`isExit[o]`, `packs[d]`). Where two classes use one
name the variable says whose it is: `framePts` is `IDecode::pts`, `audioPts` is
`IAudioPlay::pts`, `notifyMux` is the demuxer's `IObserver::mux`, `mux` is
`IPlayer::mux`. `pc[t]` is where thread `t = <<object, slot>>` is in its
`Main()`. History variables (`epoch`, `shown`, `heard`, `overlap`, `leaked`,
and in `ThreadLifecycle` `stopped`, `paused`, `resumed`, `begun`, `overlap`)
restrict no step.

**Scripts.** `IPlayer`'s functions are sequences of calls on the parts, with
few conditions. The model writes each as a *script*, a sequence of entries
such as `[do |-> "join", on |-> "demux"]` in the order of the source, and one
action for each kind of entry. Between two entries every other thread may
run. Early returns (`Open()` when the demuxer fails, the exits of the loop in
`Seek()`) go to the entry that unlocks. `OpenScript` begins with
`CloseScript`, which takes and frees the mutex on its own, as
`IPlayer::Open()` does; `StartScript` follows whatever `Open()` returned, as in
`native-lib.cpp`. `SeekScript` is a pause, `SeekParts` and a resumption. The
scripts are tuples written out, so that a proof can look up an entry.

**Steps.** A step is what happens under one lock or between two accesses to
a shared flag. `packsMutex` of a decoder is held over several steps, hence an
owner; a mutex that is held for one step only (the output's queue,
`FFDecode::mux`) is not a variable. The flags are not atomic in the
source; each is one byte, and sleeps and mutex operations separate its uses, so
a load or a store is a step (in `ThreadLifecycle`) or part of one (elsewhere,
see `Again` in `XThread`).

**Waits that poll.** `Stop()` polls 200 times 1 ms and `SetPause()` 10 times
10 ms. `ThreadLifecycle` counts polls. In `IPlayer` counting them would
multiply the states by time spent waiting, so `Join` and `Await` return when
the flag is there, or when the wait *can* run out: a thread of the object
really waits for something (`Blocked`: a full queue, a mutex somebody holds),
no thread is there to answer, or the object is in the constant `Slow`.
With `Slow = {}` a thread that is merely runnable answers in time. A run
that wants the scheduler to be worse names the objects.

**Codec.** In `IDecode` a queue: a packet sent is a frame received, in order,
`Delay` packets later; a packet is refused once the packet slot and the frame
slot behind the delay are taken. This is the abstract specification
`DecoderQueue`, and `SendReceive` shows that the decoding calls implement it on
top of frame threading, with the delay `ThreadCount - 1` plus the frames the
decoder holds back itself (the player asks for 8 threads).

**Condition variables.** In `FrameThreads` a worker's mutex is held whenever it
is not idle. `progress_cond` has three kinds of sleepers and one of its wake-ups
is a signal, so the model records who sleeps on it and a signal wakes one of
them, any of them. Every other condition variable has one kind of sleeper and is
woken at every change of what it waits for: a wait on it is a guard.

**The decoder** behind the frame threads is h264, reduced to what the threads
see of it: may ask for a format and a buffer, finishes its setup, waits for the
frame it predicts from, reports its own, holds some back, or fails. Progress is
of whole frames: the row numbers differ in how long a wait is, not in who waits for
whom.

**Objects.** `AVBuffer` and `GLVideoView` name every object by an identifier
and say whether it is alive. Using one that is not is what their properties
exclude (`NoDangling`) or confine (`CrashOnlyWhenMet`; there the state
`crashed` ends the behaviour).

**Decoder threads in `Sinks`** come and go as `XThread` lets them: `Stop()`
gives up on a thread that is inside a call, and a `Start()` that follows may
find it alive.

## 3. The runs

Constants that bound the runs: `Slot` threads per object, `MaxOps` calls after
the first `Open()`, `Operations` which calls, `Targets` seek positions,
`Overlapping` the objects whose `Start()` may find a live thread (others wait
for it to leave), `maxList` and `maxFrame` (100 in the source; 1 to 3 here,
so that queues fill), the poll counts (2 and 2). Times are 1, 2, 3.

Every run of `MCIPlayer` starts with `Open()` of a player that has never
played. The bounds of the other runs are in the table.

### Runs that pass

| Run | Question | Bounds and why they are enough |
|---|---|---|
| `thread_lifecycle` | Is the flag protocol of `XThread` sound? `RunningAccurate`, `StopSound`, `BodiesAfterStop`, `PauseSound`; `WorkersQuiesce`, `ResumeTakesEffect` | One object (objects share no flag), two slots (an old thread and a new one), polls 2/2, so that a wait can succeed at once, succeed late or run out. Calls are unlimited. |
| `play` | Does one file come out bounded, once, in order, in time with the sound, completely? `QueueBounds`, `SingleOwner`, `PlaysInOrder`, `PlaybackProgress` | Three frames of each kind, queues of two, frame queue of two (`maxFrame = 1`): every queue fills and drains, the video waits for the clock. |
| `pause` | May pause and resume at any moment leak frames or stall? `PauseLeak`, `PlaybackProgress` | Two calls, queues of one, demuxer and video decoder slow to answer. |
| `reopen` | What survives a second `Open()`? `AtMostOneStale`, `FrameSafe`, `CallReturns` | Two packets, at most two sync threads, video decoder slow to stop, so that `Close()` goes on while its frame is on screen. |
| `open_fails` | Do calls return when the input cannot be opened, its streams not be found, or its video codec fails? `CallReturns` | A file without video and with a foreign stream; two opens, each with any of the three outcomes. |
| `seek` | Does a seek at any moment keep the order and return? `QueueOrder`, `FrameSafe`, `CallReturns` | Queues of three, more than the audio after the target: see `seek_returns` for what happens otherwise. `Delay = 1`. Targets before and at a later frame. |
| `send_receive` | Is decoding with threads the queue the player takes it for? `Assertions`, `FramesAreComplete`, `HardwareIsSerial`, `DecodesAsQueue`, `CallsReturn` | Three threads (a previous, a current and a next one), four packets between opens (one more than threads, so turns wrap), calls in any order, unlimited. Codecs: software with reordering, with a damaged packet, hardware that is or is not safe to use asynchronously and is switched on by a format change, callbacks that must run on the user's thread, intra without context, intra with callbacks and a damaged packet. `MaxDrainErrors = 3`, the number of threads: the least for which the bound loses no frame (20 more in the source). |
| `buffers` | Does reference counting hold under every interleaving? `NoDangling`, `CountsReferences`, `WriterIsAlone`, `PoolOutlivesBuffers`, `NothingLeaks` | Two threads, three references, buffers and pieces of data, two pools (one in use, one being emptied). Three references are the least with which one is shared while another is released. |
| `sinks` | What do the two ends of the pipeline do when files and surfaces change under them? `CrashOnlyWhenMet`, `SeenOnTheView`, `ConversionFits`, `HoldersLetGo` | Two video and two audio threads (one that outlived its `Stop()` and a new one), two windows and none, stereo and 5.1, three calls of `Open()` and `InitView()` in any order, every failure of EGL, shader, `swr_init()` and of opening the file. |

Some of these are conditional, deliberately:

* `PlaybackProgress` assumes that the callback chain is alive, because the
  chain can break (`callback_chain`).
* `RunningAccurate`, `StopSound` and `PauseSound` assume that `Start()` never
  found a live thread (`overlap`). `PauseSound` also assumes the resume before was
  acknowledged: `SetPause()` returns the same way when its wait ran out, and
  the next one may take the old answer for its own.
* `SendNull` of `SendReceive` is enabled only when the packet slot is free:
  otherwise a packet is lost (see below).
* `CrashOnlyWhenMet`, `SeenOnTheView` and `ConversionFits` say when the ends of
  the pipeline are safe *in spite of* the missing locks: a `Render()` or
  `Resample()` that meets no `Close()` or `Open()`. One that meets it can crash, and
  the model shows how (section 5).
* `SeenOnTheView` also assumes that the shader was linked and that the view was
  given its window with nobody drawing: `InitView()` closes the view first and
  sets the window after that, and a frame in between keeps the old window.
* `AtMostOneStale` is the bound, not zero: one packet of the old file does
  survive, the one a demuxer blocked in `Notify()` holds.

Deadlock is checked in every run. A finished player is not stuck because the
sync thread and polling loops go on; in `Sinks` the end of the process and the rest
after the last call are steps that change nothing (`AtRest`).

### Runs that find a disagreement

Each checks one property taken from a comment or a document of the source and
ends in a counterexample.

| Run | The code | The text |
|---|---|---|
| `callback_chain` / `CallbacksContinue` | `SLAudioPlay::StartPlay()` enqueues the first buffer before it resets `isExit` (lines 215, 216). A callback in between gets no data, enqueues nothing and no further callback comes: no sound at all. | `IAudioPlay.h:23`: `GetData()` blocks when there is no data |
| `sync_time` / `SyncTimeOfThisFile` | `IAudioPlay::pts` is never reset; the sync thread copies the clock of the old file into the `synPts` that `Clear()` has just reset. | `IDecode.h:60`: to be cleared when a file is opened again |
| `seek_returns` / `CallReturns` | `Seek()` pauses the output, then waits in `aDecode->Clear()` for `packsMutex`, which the audio worker holds until the output has room. The UI thread hangs. | `IPlayer.cpp:127, 130`: pause all threads, clear the buffers |

### Seen, and not among the runs

More disagreements were met. The first three are definitions of `IPlayer`; add
them as INVARIANT to the configuration named and TLC prints the behaviour.

* `OneSyncThread` (`Reopen.cfg`): `Close()` holds `IPlayer::mux`, which the sync
  thread needs to reach its test of `isExit`, so `Stop()` times out, and
  `Start()` withdraws `isExit` and adds a second sync thread. `IPlayer.cpp:41`
  wants the threads closed first.
* `StartPlayPlays` (`Reopen.cfg` with `Operations = {"pause", "open"}`, `MaxOps = 2`):
  `StartPlay()` does not reset `isPause` as `XThread::Start()` does; a file opened while
  paused has no sound. `IAudioPlay.h:30`: start playing.
* `AudioDecoderGetsAudio` (`OpenFails.cfg` with `File <- Interleaved` and
  `DecodeFails = {"aDecode"}`): `FFDecode::Open()` writes `isAudio` only on success
  (lines 80-84). When the codec of the audio decoder does not open on the first
  file, both decoders queue the video's packets and both free them
  (`SingleOwner` fails, too). A failed `avformat_find_stream_info()` does the same:
  the demuxer keeps its input and `Start()` follows.
  `UML/帧数据处理顺序图.puml:22, 27`.
* A flush packet sent while the packet slot is taken loses the packet in it:
  `ff_bsf_get_packet_ref()` tests `eof` first (`libavcodec/bsf.c:243`), while
  `libavcodec/avcodec.h:4897` says that buffered packets and frames come out.
  The player never sends one.
* A frame drawn between the two calls of `InitView()` (`IPlayer.cpp:231, 232`)
  makes the view keep drawing on the old window until the next `Close()`.
* `Stop()` that returns without having stopped (`XThread.h:21` calls it safe),
  bodies that run on after a `SetPause(true)` whose wait ran out, the frame queue
  that takes `maxFrame + 1` frames, and a queue that is not empty after
  `Close()`.

### Fairness

`ThreadLifecycle`: weak fairness for each worker (the operating system
schedules runnable threads, a loop body ends) and for the polls of a call in
progress. Nothing makes the application issue a call.
`IPlayer`: weak fairness for each thread, for the device's callbacks and for
the control thread *inside* a call. Weak fairness of a thread that waits for
a mutex says little, because the others may take it again and again. It is
enough here: the worker that takes `packsMutex` most often runs out of packets
when nobody can push, and looks at its empty queue in one step, without holding
the mutex; the sync thread takes `IPlayer::mux` for one step only. A fair
mutex (strong fairness) is never assumed, `std::mutex` does not promise it.
`SendReceive`: weak fairness for each worker and for the user's thread inside a
call; nothing makes the application call. Here too no fair mutex is needed: the
holders of `buffer_mutex`, `hwaccel_mutex` and the async lock go on by
themselves, and a worker that has had its turn gets no packet before the user's
thread returns.
`AVBuffer` and `Sinks` have safety properties only, and no fairness.

## 4. The proofs

Each of the following holds for every value of the constants that the
assumptions below admit; the run of the same component shows it on a small
instance.

| Module | Theorem | Statement |
|---|---|---|
| `ThreadLifecycleProofs` | `TypeCorrect` | `Spec => []TypeOK`: flags, labels and poll counters |
| | `RunningIsAccurate` | `Spec => []RunningAccurate` |
| | `StopIsSound` | `Spec => []StopSound` |
| | `StopIsPrompt` | `Spec => []BodiesAfterStop` |
| | `PauseIsSound` | `Spec => []PauseSound` |
| `AVBufferProofs` | `TypeCorrect` | `Spec => []TypeOK`: counters are naturals, so none is decremented below zero |
| | `CounterIsExact` | `Spec => []CountsReferences` |
| | `ReferencesLead` | `Spec => []NoDangling` |
| | `WriterAlone` | `Spec => []WriterIsAlone` |
| | `PoolOutlives` | `Spec => []PoolOutlivesBuffers` |
| | `NoLeak` | `Spec => []NothingLeaks` |
| `SinksProofs` | `TypeCorrect` | `Spec => []TypeOK` |
| | `OnlyTheMetCrash` | `Spec => []CrashOnlyWhenMet` |
| | `ConversionsFit` | `Spec => []ConversionFits` |
| | `MutexesAreReleased` | `Spec => []HoldersLetGo` |
| | `FramesAreSeen` | `Spec => SeenOnTheView`, an action property |
| `SendReceiveProofs` | `TypeCorrect` | `Spec => []TypeOK` |
| | `AssertionsHold` | `Spec => []Assertions`: the assertions in `pthread_frame.c` and `decode.c` |
| | `HardwareIsExclusive` | `Spec => []HardwareIsSerial` |
| | `FramesComplete` | `Spec => []FramesAreComplete` |
| `QueueProofs` | `QueueInvariance` | `Spec => []QueueInv`: where the packets are, in which order, how many |
| | `QueueImplemented` | `Spec => DecodesAsQueue`: `SendReceive` implements `DecoderQueue` |
| `IPlayerProofs` | `TypeCorrect` | `Spec => []TypeOK` |
| | `QueuesBounded` | `Spec => []QueueBounds` |
| | `FrameIsSafe` | `Spec => FrameSafe`, an action property; if the application seeks, for a video decoder outside `Slow` and `Overlapping` |
| | `PauseLeaksOne` | `Spec => []PauseLeak`, with one video decoder thread that catches up (below) |
| `OwnerProofs` | `OneOwner` | `Spec => []SingleOwner`, when `Open()` does not fail between its input and the audio decoder |
| | `QueuesInOrder` | `Spec => []QueueOrder`, with one demuxer thread which, if the application seeks, answers its pause in time |
| | `OneStalePacket` | `Spec => []AtMostOneStale`, with one demuxer thread and, if the application seeks, one audio decoder thread that answers its pause in time |
| `PlaybackProofs` | `PlaybackImplemented` | `Spec => PlaysInOrder`: the player implements `Playback` while one file is played, whatever is paused meanwhile |

Assumptions, all evaluated by TLC in the runs:

* `PollAssumption`: the poll counts are naturals, and `SetPause()` polls no more
  often than `Stop()` (10 and 200 in the source).
* `AVBufferAssumption`: references and buffers are finite sets (a process has
  finitely many; they are counted), and `None` is none of them. Threads, pools
  and data are any sets.
* `GLVideoViewAssumption`, `FFResampleAssumption`, `SinksAssumption`: finitely many
  rendering threads, channel counts above zero, video and audio threads
  are different ones, a natural bound on the calls. Windows and the resampling
  threads are any sets.
* `FrameThreadsAssumption`: at least two threads. A codec with a hardware
  accelerator or one that asks for a format has an `update_thread_context()`, as
  the comment at `pthread_frame.c:184` requires; one that reorders has it too, and
  `AV_CODEC_CAP_DELAY`. Without it `submit_packet()` would not wait for the setup
  of the thread before, and two threads could ask for a format at a time.
* `SendReceiveAssumption`: the number of errors after which draining gives up is
  a natural and not below the number of threads (the source adds 20 to it,
  `decode.c:588`). With a smaller one the frames behind the errors would be lost.

* `FileAssumption`, `DecodeAssumption`, `AudioAssumption`, `PlayerAssumption`: the file is a
  finite sequence of packets of the kinds named, the objects of the player are
  among `Object`, queues hold at least one packet, the other bounds are
  naturals. Slots, slow objects and objects whose `Start()` may find a live
  thread are any sets: every wait of the control thread may run out, and any
  number of old threads may work beside the new ones.

Six theorems have a hypothesis, because the code needs it. The conditions of the
last four are met by the runs that check their properties; without any one of them
(but for the two named at `PlaybackImplemented`) TLC finds a counterexample on a small
instance:

* `FrameIsSafe`, only if the application seeks: the video decoder is neither in `Slow`
  nor in `Overlapping`. `Seek()` sends and receives on the control thread
  (`IPlayer.cpp:164, 166`) and trusts `SetPause()`, which gives up after a tenth of a second;
  then the frame on the screen is decoded into. `Open()` needs no such trust:
  its `Clear()` waits for `packsMutex`.
* `OneOwner`: `OpenOutcome` without `"no stream info"`, `DecodeFails` without the
  audio decoder. Otherwise `isAudio` of the audio decoder stays FALSE and both
  decoders own the video's packets: `AudioDecoderGetsAudio` in section 3.
  Any other failure is covered (no input, a video codec that does not open).
* `QueuesInOrder`: the demuxer is not in `Overlapping`, and not in `Slow` if the
  application seeks. Two demuxer threads read in one order and push in another;
  and so do `Seek()` and a demuxer that has not acknowledged the pause
  (`IPlayer.cpp:127` on): it still pushes a packet after those that `Seek()` has
  read. Without seeks the demuxer may be slow: what it then pushes late is in order.
* `OneStalePacket`: the demuxer is not in `Overlapping`, and if the application
  seeks the audio decoder is neither in `Slow` nor in `Overlapping`. Every demuxer
  thread holds a packet of its own; and a worker that has not acknowledged the pause
  takes the packet the demuxer pushes late while the frame it outputs is still
  the one before. The demuxer and the video decoder may be as slow as they like,
  and in a player that only opens files so may all.
* `PauseLeaksOne`: the video decoder is not in `Overlapping` (a second thread waits
  for `packsMutex` inside its body, and shows its frame after the first), and `CatchesUp`:
  the decoder is not in `Slow`, or a file is opened only once, or the codec holds
  back a packet (`Delay > 0`). Otherwise a worker that `Close()` missed sends the
  packet it has into the codec of the *next* file, which then has a packet more than
  the one it is sent: two frames out of one loop body.
* `PlaybackImplemented` (`OneFile`): the file of the one `Open()` is played, with any
  pauses but no second `Open()` and no `Seek()`, after which frames come from
  elsewhere in the file. `Delay = 0`, for a codec that holds back frames lets go a packet
  before the frame of the packet before it is shown. `OpenOutcome` without
  `"no stream info"`, `DecodeFails` empty: a codec that is not open drops packets unseen
  (`Open()` may fail for want of an input, then nothing plays). Two conditions are
  there for the proof: the audio codec opens (the proof rests on `OwnInv`, which needs it;
  TLC finds the order kept without it), and `Slot = {1}` (the mapping names the worker
  of slot 1; with one `Open()` no second thread of an object exists). The file, the
  queue bounds, `Slow` and `Overlapping` are any.

Each component has one inductive invariant, `IInv` (three for the decoding calls,
`LockInv`, `FrameInv` and `QueueInv`, each resting on those before it; for the player
`PlayInv`, on which all others rest, and one or more for each property). TLC checked each as an
invariant of the component's runs before it was proved. None of the properties
is inductive alone, and each part of `IInv` is there for a reason.

**`ThreadLifecycle`.**

* `RunningAccurate` needs `SingleThread`: when a thread stores FALSE into
  `isRunning` on its way out, there must be no other thread in `Main()`.
* `StopSound` needs `CallFlags` (`isExit` stays up from `Stop()` to `Start()`) and
  `RunningAccurate`: a thread not yet in `ThreadMain()` when `Stop()` returns
  will find `isExit` at its first test. So the race of `Stop()` with a thread
  that has not begun, which looks like a bug in the code, is harmless.
* `BodiesAfterStop` needs `BodyBudget`: one thread may be past its test, and
  only before it has used its one body.
* `PauseSound` needs `PauseAnswered`: outside a resume in progress a true
  `isPausing` means that no body runs and nobody is about to begin one.

`IInv` is preserved action by action (`StepStart` to `StepLeave`), and
`MoveInMain` is what the steps inside `Main()` have in common.

**`AVBuffer`.** A release takes up to four steps (the decrement, the data, the
pool, the buffer itself), and other threads create, share and release in
between. `IInv` says who answers for what meanwhile:

* `CountsReferences` is used in every step: it is why the decrement that finds
  1 leaves nobody who refers to the buffer (`ReferredIsCounted`), so that
  `Releases` holds: one thread works on the release, and the counter is zero.
* `NoDangling` follows from `RefInv` and `BufferInv`, but needs `DataInv`: a piece of data is in
  one buffer or in one list, never in two, or the release of one would free it
  under the other. A buffer stops owning its data (`HasData`) when the release
  passes the step that frees it or gives it back to the pool.
* `WriterIsAlone` needs `OwnWork`: the test of the counter and the writing are
  different steps, and a new reference can come only from an old one, which the
  writer alone holds.
* `PoolOutlivesBuffers` needs `PoolInv`, the exact count of a pool: the buffers
  taken and not yet given back (`Counted`, which includes those between the list and
  the decrement), and one for its owner until `av_buffer_pool_uninit()`.
  `av_buffer_pool_get()` counts a buffer only after it released the mutex; until
  then (`enterPool`) the owner's count stands for it.
* `NothingLeaks` needs `DataKept`, the other direction of `DataInv`.

**`Sinks`.** The source has no lock between the UI thread and the threads that draw
and resample, so `IInv` is conditional: a thread in `met` may find
anything, `Relies` and `ReliesOn` say what each place of `Render()` and
`Resample()` relies on when no `Close()` or `Open()` has met it.

* `CrashOnlyWhenMet` needs `PointerOK` (`txt` leads to a deleted texture only
  between the two steps of `Close()`) and `InsideAlive`.
* `HoldersLetGo` needs `TextureLocks`: a mutex is held exactly between the places
  that lock and unlock it.
* `ConversionFits` needs `ResampleInv`: outside `Open()` the context, the
  channels and the file agree, unless `swr_init()` failed.
* `SeenOnTheView` needs `SettledInv`: what the only thread that has drawn since
  the view was set up has made of the EGL singleton, at each of its places.

A lemma on the way of `Sinks`, `FreshIsThere`: two textures for each rendering thread and
three more are enough for every behaviour, so the finite set of names in
`GLVideoView` leaves no behaviour of `new XTexture` out.

**`SendReceive`.** `LockInv` says who has which lock, by the places of the workers
and of the user's thread.

* `Assertions` needs `StateOK`, the state of a thread as a function of the place
  its worker and its user stand at, and `HeldIsIdle` and `Parked`: a packet is only
  submitted to a thread that sleeps, and the user's thread waits only for threads
  that will answer.
* `HardwareIsSerial` needs `LocksOK` and `UserOK`: a thread that decodes in hardware has
  `hwaccel_mutex`, and `async_lock` too where the hardware asks for it; the user's
  thread has `async_lock` everywhere but in the waits of `submit_packet()` and
  of `ff_thread_decode_frame()`. Both locks are taken at one place and
  released at several, on paths that depend on the codec.
* `FramesAreComplete` needs the order of the ring. `RingInv` counts turns from
  `next_finished`: the threads with packets come before the drained ones, in the
  order of submission. `FrameOK` says that a frame is complete when its
  progress is reported or its thread is still to report it, past the wait for
  the frame it predicts from. So a frame collected while it is incomplete would
  predict from one with an earlier turn, which has been collected. `DrainInv`
  ties the loop that collects while draining to the packet of the call, and
  `GotInv` carries what was collected to the place where it is returned.

* `DecodesAsQueue` is proved step by step from `QueueInv`, which says where each
  packet accepted is: in one of the two slots, in the hands of the call, on a
  thread that is to answer for it (`Awaited`), or held back by the decoder in the
  newest context (`Latent`). Which thread answers for a packet moves: a
  decoder that reorders puts out the frame it held and holds the new one.
  Order (`LineInv`, `NewInv`, `HandInv`): along the turns of the ring the packets
  and the frames grow, what is held back comes after every frame that is out,
  and what is in the hand comes before all else; so what is delivered is the first.
  Number (`CountInv`): one packet for each taken turn and each slot, and one more
  once a thread has taken its packet in without putting out a frame and that turn
  was collected (`Gap`, `Primed`). `FullInv` says a frame or a refusal comes only
  when threads and decoder have all they can hold, hence `EAGAIN` never in both
  directions. End (`EndInv`): `draining_done` is set only by an empty
  round, which leaves nobody busy and, since the last context was drained,
  nothing held back; the errors counted and those still possible are no more
  than the threads, so the bound on errors never ends the stream early. During
  a flush or a close nothing is said of the packets: the queue forgets them when
  the call returns.

**`IPlayer`.** `Script`, `op` and `ip` say what the control thread does, so the
invariants speak of places of a script, and lemmas say what stands there
(`OpenTable`, `PauseTable`, `SeekTable`, one `CASE` for each part of a script;
`Scripts` and `EntryOK` for all of them).

* `QueueBounds` is inductive with the types (`PlayInv`): the test and the append
  of `Update()` are under one lock. In `IAudioPlay` they are under one lock
  too, but the test is for *more* than `maxFrame`.
* `FrameSafe` has two kinds of writers besides the worker itself. Another worker
  of the decoder: `WorkersOK`, a worker has a packet exactly while it has
  `packsMutex`, so there is one. The control thread: `StoppedOK` follows the
  script of `Open()`: from the entry that requests the exit to `Start()` the
  decoder's `isExit` stays up; after `Clear()`, which had to get `packsMutex`, no
  worker delivers, and none can come to deliver while `isExit` is up, since the
  loop around `RecvFrame()` tests it. So the frame that `Close()` frees is nobody's,
  whatever `Stop()` missed. And `Seek()`: `PauseInv`, with one thread
  (`OneThread`) that is not at work when it has acknowledged the pause
  (`WorksUnpaused`), so from the wait for it to the resumption it is at none of
  the places that deliver (`PausedByNow`).
* `SingleOwner` needs an invariant over all places a packet can be in, `OwnInv`:
  two queues, the hands of the workers, the calls of `Notify()` in progress
  (of demuxer threads old and new, and of `Seek()`), and `got`, the packet `Seek()`
  has read. `AllBefore` makes a packet just read new: all others were read
  earlier in the file, or before an `Open()` or `Seek()` (`Before`).
  `Notify()` offers the packet to both observers one after the other and
  `Update()` copies it, so a packet has one owner only if one of them wants it:
  `OffersOK`, which rests on `StreamsOK`: the decoders know their streams from the
  first `Open()` on. The demuxer has an input six entries of the script before
  the audio decoder knows its stream; `StoppedOK` shows that no thread pushes
  in between.
* `PauseLeak` counts frames shown after a pause has returned, which no state says
  by itself. `LeakInv` bounds what has leaked plus what still can, at each place of
  the one worker (`StopInv`): a frame in its hands, or one that `RecvFrame()` may
  still bring, and none once it is paused, which it is after this body because the pause
  stays requested (`AskedInv`). So the loop around `RecvFrame()` must bring one frame
  at most, whatever the codec holds: `DrainInv`, at most `Delay` packets outside the
  worker's `recv`, and one more in it. It has to hold through `Open()`, which gives
  the decoder a new codec while a worker may still be on its way.
* `QueueOrder` is about two queues and two writers. `OrderInv` extends it to what is not in
  the queues yet: the call of the demuxer thread, then the call of `Seek()` or the
  packet it has read (`got`), then the next packet of the file, each later than
  everything that can be in front of it in a queue it is still offered to.
  `RestInv` says why the demuxer's call comes first: when `SetPause()` has
  waited for it the thread is out of its body, or it sits in `Notify()` with the
  mutex (at `test` or `push`), where `Seek()` comes after it. `NotesFollow` ties the calls to
  the program counters and the mutex.
* `AtMostOneStale` follows a packet through the player. `FlowsOn` says where each place
  gets its packets from (queue from call, worker from queue, codec from worker, output
  from codec). `Open()` and `Seek()` clear these places one after the other; `LeftOver` are the
  packets no coming entry of the script will clear. `StaleInv` says there is at most one
  of them once the demuxer was told to stop or to pause, and none as long as its thread is
  still to read (`HeldInv`: it then begins no other round). When the epoch moves, everything is cleared
  (`EpochMoves`), and the one packet left over is the one old packet. `SoundRests` keeps
  the worker of the sound from carrying a frame past `Clear()` of the output.
* `PlaysInOrder` maps `heard`, `clock`, `released` and `shown` of `Playback` to the player and
  needs two invariants. `LineInv` puts the packets of each stream in one line: the frame
  that came out last, the frames in front of the output, the packet in the worker's hands,
  the queue, the packet on offer, the demuxer's position. Numbers grow along it, and
  from its first packet on none is missing; of the video none at all. It also says
  what the codec, the frame and the clocks hold at each place of a worker
  (`CodecOK`, `ShownOK`, `HeardOK`), since the video waits on `synPts`, a copy of a copy of
  the time heard. A packet refused would be a hole in the line. `Begun` shows that
  holes come only before the first sound: by the entries of `OpenScript` the video decoder
  has withdrawn its exit request before the demuxer's thread exists, so it refuses
  nothing; the audio decoder refuses packets, and the output drops frames, only while
  nothing of the sound is on the line behind them. The steps are then those
  of `Playback`: `Release` is a worker's take, with its wait for the clock, `Show` its
  hand-over to the view, `Hear` a callback's, `Copy` the sync thread's.

Only model-checked:

* every liveness property: temporal reasoning with fairness and `ENABLED` is out of
  the prover's reach;
* what the code does outside the hypotheses above.

## 5. What is not modelled

The player:

* `FFResample::Open()` of a file without audio reads a null pointer
  (`FFResample.cpp:28`): a crash by inspection; the files of `Sinks` all have
  audio. The time between `swr_alloc()` and `swr_init()` is in the model, the
  memory an old context leaks (`FFResample.cpp:24`) is not.
* What is drawn and heard: pixels, samples, time bases. The shader's program is
  linked or not.
* `Render()` that meets a `Close()` is modelled up to the crash it can end in: a
  null or deleted texture (`GLVideoView.cpp:28, 30`), a mutex waited for inside a
  texture that `Drop()` deletes (`XTexture.cpp:22, 23`).
* Errors of OpenSL ES while the device is created: lack of resources, after
  which `StartPlay()` returns with part of the objects created.
* `PlayPos()` and the Java progress thread: they only read.
* Memory leaks of packets (one offered to a stopped decoder is never freed).
* Real time: sleeps are steps, durations are not compared.
* The end of the file: the player never sends the flush packet, so with
  `Delay > 0` the last frames stay inside (`DecoderQueue` says so: `Deliver`
  needs more packets than the delay while `feeding`). Runs about the end use
  `Delay = 0`.
* A thread of the pipeline (other than the sync thread) that outlives a whole
  `Close()` and meets the next `Start()`: `Overlapping` leaves it out of
  `IPlayer`; `ThreadLifecycle` and `Sinks` have it.

FFmpeg:

* Codecs, formats, filters: arithmetic on media data, no state shared with the
  player beyond the modelled interfaces.
* In `pthread_frame.c`: failures of allocation and thread creation, errors of
  `update_context_from_user()`, the shorter delay of FFV1 (line 498), fields
  of interlaced frames, debugging output.
* In `decode.c`: decoders with a `receive_frame()` of their own, several frames in one
  packet, side data, parameter changes, cropping, the older calls. Other bitstream
  filters than the "null" one, which holds one packet.
* In `buffer.c`: failures of allocation; memory ordering (a relaxed increment, an
  acquire-release decrement) is taken to make each access a step, as it does for
  one counter.

## 6. Plan

Done: the thread class with its proofs; the pipeline, the player and its
calls, the abstract specification of playback and its refinement; decoding calls, frame threads and
the queue they implement; buffers and pools; view and resampler.

Proved: everything in section 4. Next, in this order:

1. `PlaybackImplemented` across `Open()` and `Seek()`, with an abstract specification
   that starts anew at each, and for codecs that hold back frames.
2. Files whose streams drift apart or end apart: when does the wait of the
   video for the clock stall the pipeline, as a relation of the drift and
   `maxList`.

## Running

`tlc -config Play.cfg MCIPlayer`; the run `thread_lifecycle` checks
`ThreadLifecycle` with `ThreadLifecycle.cfg`, `send_receive` `MCSendReceive` with
`SendReceive.cfg`, `buffers` `MCAVBuffer` with `AVBuffer.cfg`, `sinks` `MCSinks`
with `Sinks.cfg`, all others `MCIPlayer` with the configuration of their name. `tlapm ThreadLifecycleProofs.tla`, 
`tlapm AVBufferProofs.tla`, `tlapm SinksProofs.tla`, `tlapm SendReceiveProofs.tla`,
`tlapm QueueProofs.tla`, `tlapm IPlayerProofs.tla`, `tlapm OwnerProofs.tla` and
`tlapm PlaybackProofs.tla` check the proofs.
