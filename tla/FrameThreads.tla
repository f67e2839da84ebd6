---------------------------- MODULE FrameThreads ----------------------------
(***************************************************************************)
(* Frame threading (libavcodec/pthread_frame.c): ThreadCount workers each  *)
(* decode one packet, the user's thread hands packets to them in turn and  *)
(* collects the frames in the same turn.                                   *)
(*                                                                         *)
(* A worker holds its PerThreadContext::mutex except while its pc is       *)
(* "idle" or "exited".  progress_cond has sleepers of three kinds (the     *)
(* worker itself, the user's thread, workers that need a frame of this     *)
(* one) and one of its wake-ups is a signal, so `sleeping' records who     *)
(* sleeps on it.  Each of the other condition variables has one kind of    *)
(* sleeper, woken by every change of what it waits for: a guard.           *)
(*                                                                         *)
(* The decoder behind codec->decode() is reduced to its calls: it may ask  *)
(* for a format and a buffer, declares its setup finished, waits for the   *)
(* frame it predicts from, reports its own, and may fail.  A frame is      *)
(* named by the number of its packet.                                      *)
(***************************************************************************)
EXTENDS Naturals, Sequences, FiniteSets

CONSTANTS
  ThreadCount,   \* avctx->thread_count
  MaxPackets,    \* bound: packets sent before the decoder is opened again
  Codecs,        \* the codecs, callbacks and hardware to check
  User, None

Thread == 0 .. ThreadCount - 1

Packet == 1 .. MaxPackets

Drain == 0       \* the empty packet of draining mode

Codec == [updates : BOOLEAN,        \* codec->update_thread_context is set
          ownBuffer : BOOLEAN,      \* get_buffer2 set, not thread safe
          ownFormat : BOOLEAN,      \* get_format set, not thread safe
          hwaccel : {"none", "safe", "unsafe"},   \* HWACCEL_CAP_ASYNC_SAFE
          capDelay : BOOLEAN,       \* AV_CODEC_CAP_DELAY
          reorder : 0 .. 1,         \* frames the decoder itself holds back
          broken : SUBSET Packet,   \* packets that do not decode
          formats : SUBSET Packet]  \* packets that change the format

ASSUME FrameThreadsAssumption ==
  /\ ThreadCount \in Nat \ {0, 1}
  /\ MaxPackets \in Nat
  /\ Codecs \subseteq Codec
  /\ \A c \in Codecs :
       /\ c.hwaccel # "none" => c.updates   \* see the comment at line 184
       /\ c.formats # {} => c.updates       \* the same comment
       /\ c.reorder > 0 => c.updates /\ c.capDelay
  /\ User \notin Thread \cup {None}
  /\ None \notin Thread \cup Packet

VARIABLES
  codec,          \* the codec of this run
  threads,        \* FrameThreadContext::threads
  fctx,           \* the fields only the user's thread touches
  hwaccelMutex,   \* owner of hwaccel_mutex; hwaccel_serializing of that worker
  bufferMutex,    \* owner of buffer_mutex
  asyncLock,      \* who set async_lock; async_serializing of that worker
  sleeping,       \* sleeping[x] = t: x waits on progress_cond of thread t
  progress,       \* frames whose last row has been reported
  owner,          \* owner[f]: ThreadFrame::owner, the worker decoding frame f
  user            \* the user's thread inside one call

threadVars == <<codec, threads, fctx, hwaccelMutex, bufferMutex, asyncLock,
                sleeping, progress, owner, user>>

(* What a worker's AVCodecContext carries to the next one: the hardware,   *)
(* the frame to predict from and the frames held back.                     *)
BlankContext == [hwaccel |-> FALSE, ref |-> None, held |-> <<>>]

NewThread == [pc |-> "idle", ret |-> "none", state |-> "INPUT_READY", die |-> FALSE,
              avpkt |-> None, frame |-> None, result |-> "ok",
              released |-> 0, needs |-> None, avctx |-> BlankContext]

NewFctx == [prev |-> None, nextDecoding |-> 0, nextFinished |-> 0, delaying |-> TRUE]

(* call: the API call in progress; pkt: the packet handed over; finished:  *)
(* the loop variable; got: the frame, or the packet that failed (err);     *)
(* holds: the thread whose mutex the user has.                             *)
Outside == [pc |-> "out", call |-> "none", pkt |-> None, finished |-> 0,
            got |-> None, err |-> FALSE, holds |-> None]

(* ff_frame_thread_init()                                                  *)
ThreadsInit ==
  /\ codec \in Codecs
  /\ threads = [t \in Thread |-> NewThread]
  /\ fctx = NewFctx
  /\ hwaccelMutex = None
  /\ bufferMutex = None
  /\ asyncLock = User
  /\ sleeping = [x \in Thread \cup {User} |-> None]
  /\ progress = {}
  /\ owner = [f \in Packet |-> None]
  /\ user = Outside

-----------------------------------------------------------------------------
(* progress_cond.                                                          *)

Awake(x) == sleeping[x] = None

Sleep(x, t) == sleeping' = [sleeping EXCEPT ![x] = t]

Sleepers(t) == {x \in DOMAIN sleeping : sleeping[x] = t}

Broadcast(t) ==
  sleeping' = [x \in DOMAIN sleeping |-> IF x \in Sleepers(t) THEN None ELSE sleeping[x]]

(* The sleeper broadcast to first falls asleep itself.                     *)
BroadcastAndSleep(t) ==
  sleeping' = [x \in DOMAIN sleeping |->
                 IF x = t THEN t ELSE IF x \in Sleepers(t) THEN None ELSE sleeping[x]]

Signal(t) ==
  IF Sleepers(t) = {} THEN UNCHANGED sleeping
  ELSE \E x \in Sleepers(t) : sleeping' = [sleeping EXCEPT ![x] = None]

SafeCallbacks == ~codec.ownBuffer     \* THREAD_SAFE_CALLBACKS

-----------------------------------------------------------------------------
(* frame_worker_thread()                                                   *)

Pick(t) ==
  /\ threads[t].pc = "idle"
  /\ user.holds # t
  /\ threads[t].die \/ threads[t].state # "INPUT_READY"
  /\ threads' = [threads EXCEPT
       ![t].pc = IF threads[t].die THEN "exited"
                 ELSE IF ~codec.updates /\ SafeCallbacks THEN "finish" ELSE "begin",
       ![t].ret = "begin"]
  /\ UNCHANGED <<codec, fctx, hwaccelMutex, bufferMutex, asyncLock, sleeping,
                 progress, owner, user>>

Begin(t) ==
  /\ threads[t].pc = "begin"
  /\ IF threads[t].avctx.hwaccel
     THEN hwaccelMutex = None /\ hwaccelMutex' = t
     ELSE UNCHANGED hwaccelMutex
  /\ threads' = [threads EXCEPT ![t].pc = "setup", ![t].frame = None, ![t].result = "ok"]
  /\ UNCHANGED <<codec, fctx, bufferMutex, asyncLock, sleeping, progress, owner, user>>

(* Where a worker goes when codec->decode() has returned.                  *)
Returned(t) == IF threads[t].state = "SETTING_UP" THEN "finish" ELSE "cleanup"

(* codec->decode() of an empty packet: the oldest frame held back.         *)
DecodeDrain(t) ==
  LET held == threads[t].avctx.held IN
  /\ threads[t].pc = "setup" /\ threads[t].avpkt = Drain
  /\ threads' = [threads EXCEPT
       ![t].frame = IF held = <<>> THEN None ELSE Head(held),
       ![t].avctx.held = IF held = <<>> THEN <<>> ELSE Tail(held),
       ![t].pc = Returned(t), ![t].ret = "cleanup"]
  /\ UNCHANGED <<codec, fctx, hwaccelMutex, bufferMutex, asyncLock, sleeping,
                 progress, owner, user>>

(* A broken packet fails at once or after it was given a buffer.           *)
DecodeFails(t) ==
  /\ threads[t].pc \in {"setup", "predict"} /\ threads[t].avpkt \in codec.broken
  /\ threads' = [threads EXCEPT ![t].result = "error",
                                ![t].pc = Returned(t), ![t].ret = "cleanup"]
  /\ UNCHANGED <<codec, fctx, hwaccelMutex, bufferMutex, asyncLock, sleeping,
                 progress, owner, user>>

DecodeStarts(t) ==
  /\ threads[t].pc = "setup" /\ threads[t].avpkt # Drain
  /\ threads' = [threads EXCEPT
       ![t].pc = IF threads[t].avpkt \in codec.formats THEN "format" ELSE "buffer"]
  /\ UNCHANGED <<codec, fctx, hwaccelMutex, bufferMutex, asyncLock, sleeping,
                 progress, owner, user>>

(* ff_thread_get_format(): the caller's own get_format() runs on the       *)
(* user's thread.                                                          *)
AskFormat(t) ==
  /\ threads[t].pc = "format"
  /\ IF codec.ownFormat
     THEN /\ threads' = [threads EXCEPT ![t].pc = "formatWait", ![t].state = "GET_FORMAT"]
          /\ BroadcastAndSleep(t)
     ELSE /\ threads' = [threads EXCEPT ![t].pc = "formatWait"]
          /\ UNCHANGED sleeping
  /\ UNCHANGED <<codec, fctx, hwaccelMutex, bufferMutex, asyncLock, progress, owner, user>>

(* A format offered in hardware may be taken or not.                       *)
GotFormat(t) ==
  /\ threads[t].pc = "formatWait" /\ Awake(t)
  /\ IF threads[t].state # "SETTING_UP"
     THEN Sleep(t, t) /\ UNCHANGED threads
     ELSE /\ \E hw \in IF codec.hwaccel = "none" THEN {FALSE} ELSE BOOLEAN :
               threads' = [threads EXCEPT ![t].pc = "buffer", ![t].avctx.hwaccel = hw]
          /\ UNCHANGED sleeping
  /\ UNCHANGED <<codec, fctx, hwaccelMutex, bufferMutex, asyncLock, progress, owner, user>>

(* ff_thread_release_buffer() of the frame no longer predicted from, then  *)
(* thread_get_buffer_internal() up to the answer.                          *)
AskBuffer(t) ==
  /\ threads[t].pc = "buffer"
  /\ bufferMutex = None
  /\ owner' = [owner EXCEPT ![threads[t].avpkt] = t]
  /\ IF SafeCallbacks
     THEN /\ threads' = [threads EXCEPT ![t].pc = "predict"]
          /\ UNCHANGED <<bufferMutex, sleeping>>
     ELSE /\ bufferMutex' = t
          /\ threads' = [threads EXCEPT
               ![t].pc = "bufferWait", ![t].state = "GET_BUFFER",
               ![t].released = IF threads[t].avctx.ref = None THEN @ ELSE @ + 1]
          /\ BroadcastAndSleep(t)
  /\ UNCHANGED <<codec, fctx, hwaccelMutex, asyncLock, progress, user>>

GotBuffer(t) ==
  /\ threads[t].pc = "bufferWait" /\ Awake(t)
  /\ IF threads[t].state # "SETTING_UP"
     THEN Sleep(t, t) /\ UNCHANGED <<threads, bufferMutex>>
     ELSE /\ IF codec.updates
             THEN /\ threads' = [threads EXCEPT ![t].pc = "predict"]
                  /\ bufferMutex' = None
             ELSE /\ threads' = [threads EXCEPT ![t].pc = "finish", ![t].ret = "unlockBuffer"]
                  /\ UNCHANGED bufferMutex
          /\ UNCHANGED sleeping
  /\ UNCHANGED <<codec, fctx, hwaccelMutex, asyncLock, progress, owner, user>>

UnlockBuffer(t) ==
  /\ threads[t].pc = "unlockBuffer"
  /\ bufferMutex' = None
  /\ threads' = [threads EXCEPT ![t].pc = "predict"]
  /\ UNCHANGED <<codec, fctx, hwaccelMutex, asyncLock, sleeping, progress, owner, user>>

(* Mutant: one frame too many is held back.                                *)
FullLate(all) == Len(all) > codec.reorder + 1

(* h264_select_output_frame()                                              *)
Full(all) == Len(all) > codec.reorder

(* The decoder has read the header: it knows the frame it predicts from    *)
(* and the one it will output.  One without update_thread_context is an    *)
(* intra decoder.                                                          *)
Predict(t) ==
  LET p == threads[t].avpkt
      all == Append(threads[t].avctx.held, p)
  IN
  /\ threads[t].pc = "predict" /\ p \notin codec.broken
  /\ threads' = [threads EXCEPT
       ![t].needs = threads[t].avctx.ref,
       ![t].avctx = [@ EXCEPT !.ref = IF codec.updates THEN p ELSE None,
                              !.held = IF Full(all) THEN Tail(all) ELSE all],
       ![t].frame = IF Full(all) THEN Head(all) ELSE None,
       ![t].pc = IF codec.updates THEN "finish" ELSE "decode",
       ![t].ret = "decode"]
  /\ UNCHANGED <<codec, fctx, hwaccelMutex, bufferMutex, asyncLock, sleeping,
                 progress, owner, user>>

(* ff_thread_await_progress() of the frame predicted from,                 *)
(* ff_thread_report_progress() of its own.                                 *)
Decode(t) ==
  LET r == threads[t].needs IN
  /\ threads[t].pc = "decode" /\ Awake(t)
  /\ IF r # None /\ r \notin progress
     THEN Sleep(t, owner[r]) /\ UNCHANGED <<threads, progress>>
     ELSE /\ progress' = progress \cup {threads[t].avpkt}
          /\ Broadcast(t)
          /\ threads' = [threads EXCEPT ![t].needs = None,
                                        ![t].pc = Returned(t), ![t].ret = "cleanup"]
  /\ UNCHANGED <<codec, fctx, hwaccelMutex, bufferMutex, asyncLock, owner, user>>

-----------------------------------------------------------------------------
(* ff_thread_finish_setup()                                                *)

FinishHwaccel(t) ==
  /\ threads[t].pc = "finish" /\ threads[t].avctx.hwaccel /\ hwaccelMutex # t
  /\ hwaccelMutex = None
  /\ hwaccelMutex' = t
  /\ UNCHANGED <<codec, threads, fctx, bufferMutex, asyncLock, sleeping, progress,
                 owner, user>>

FinishAsync(t) ==
  /\ threads[t].pc = "finish" /\ threads[t].avctx.hwaccel /\ hwaccelMutex = t
  /\ codec.hwaccel = "unsafe"
  /\ asyncLock = None
  /\ asyncLock' = t
  /\ threads' = [threads EXCEPT ![t].pc = "publish"]
  /\ UNCHANGED <<codec, fctx, hwaccelMutex, bufferMutex, sleeping, progress, owner, user>>

(* Mutant: the asynchronous lock is forgotten.                             *)
NoAsyncLock(t) ==
  \/ threads[t].pc = "publish"
  \/ /\ threads[t].pc = "finish"
     /\ threads[t].avctx.hwaccel => hwaccelMutex = t

CanPublish(t) ==
  \/ threads[t].pc = "publish"
  \/ /\ threads[t].pc = "finish"
     /\ threads[t].avctx.hwaccel => hwaccelMutex = t /\ codec.hwaccel = "safe"

Publish(t) ==
  /\ CanPublish(t)
  /\ threads' = [threads EXCEPT ![t].state = "SETUP_FINISHED", ![t].pc = threads[t].ret]
  /\ Broadcast(t)
  /\ UNCHANGED <<codec, fctx, hwaccelMutex, bufferMutex, asyncLock, progress, owner, user>>

(* The rest of the worker's loop, in the order of the source.              *)
UnlockHwaccel(t) ==
  /\ threads[t].pc = "cleanup" /\ hwaccelMutex = t
  /\ hwaccelMutex' = None
  /\ UNCHANGED <<codec, threads, fctx, bufferMutex, asyncLock, sleeping, progress,
                 owner, user>>

UnlockAsync(t) ==
  /\ threads[t].pc = "cleanup" /\ hwaccelMutex # t /\ asyncLock = t
  /\ asyncLock' = None
  /\ UNCHANGED <<codec, threads, fctx, hwaccelMutex, bufferMutex, sleeping, progress,
                 owner, user>>

Ready(t) ==
  /\ threads[t].pc = "cleanup" /\ hwaccelMutex # t /\ asyncLock # t
  /\ threads' = [threads EXCEPT ![t].state = "INPUT_READY", ![t].pc = "idle"]
  /\ Broadcast(t)
  /\ UNCHANGED <<codec, fctx, hwaccelMutex, bufferMutex, asyncLock, progress, owner, user>>

Worker(t) ==
  \/ Pick(t) \/ Begin(t) \/ DecodeDrain(t) \/ DecodeFails(t) \/ DecodeStarts(t)
  \/ AskFormat(t) \/ GotFormat(t) \/ AskBuffer(t) \/ GotBuffer(t) \/ UnlockBuffer(t)
  \/ Predict(t) \/ Decode(t) \/ FinishHwaccel(t) \/ FinishAsync(t) \/ Publish(t)
  \/ UnlockHwaccel(t) \/ UnlockAsync(t) \/ Ready(t)

-----------------------------------------------------------------------------
(* The user's thread.  Every ff_thread_* call releases async_lock for as   *)
(* long as it runs.                                                        *)

AsyncUnlock ==
  /\ user.pc = "unlock"
  /\ asyncLock' = None
  /\ user' = [user EXCEPT
       !.pc = IF user.call \in {"flush", "close"} THEN "park" ELSE "submit",
       !.finished = IF user.call \in {"flush", "close"} THEN 0 ELSE fctx.nextFinished]
  /\ UNCHANGED <<codec, threads, fctx, hwaccelMutex, bufferMutex, sleeping, progress, owner>>

(* Mutant: the lock is not taken back.                                     *)
NoRelock ==
  /\ user.pc = "relock"
  /\ user' = [user EXCEPT !.pc = "returned"]
  /\ UNCHANGED <<codec, threads, fctx, hwaccelMutex, bufferMutex, asyncLock, sleeping,
                 progress, owner>>

AsyncRelock ==
  /\ user.pc = "relock"
  /\ asyncLock = None
  /\ asyncLock' = User
  /\ user' = [user EXCEPT !.pc = "returned"]
  /\ UNCHANGED <<codec, threads, fctx, hwaccelMutex, bufferMutex, sleeping, progress, owner>>

(* submit_packet()                                                         *)

(* ff_thread_decode_frame() returns early while it is delaying.            *)
AfterSubmit(f) == IF f.delaying /\ user.pkt # Drain THEN "relock" ELSE "collect"

(* Without AV_CODEC_CAP_DELAY an empty packet is not handed over.          *)
SubmitNothing ==
  /\ user.pc = "submit" /\ user.pkt = Drain /\ ~codec.capDelay
  /\ user' = [user EXCEPT !.pc = "collect"]
  /\ UNCHANGED <<codec, threads, fctx, hwaccelMutex, bufferMutex, asyncLock, sleeping,
                 progress, owner>>

(* lock(p->mutex), release_delayed_buffers()                               *)
SubmitLock ==
  LET p == fctx.nextDecoding IN
  /\ user.pc = "submit" /\ (user.pkt = Drain => codec.capDelay)
  /\ threads[p].pc = "idle"
  /\ threads[p].released > 0 => bufferMutex = None
  /\ threads' = [threads EXCEPT ![p].released = 0]
  /\ user' = [user EXCEPT !.pc = "waitPrev", !.holds = p]
  /\ UNCHANGED <<codec, fctx, hwaccelMutex, bufferMutex, asyncLock, sleeping, progress, owner>>

(* update_context_from_thread(): the context the next worker starts from.  *)
ContextFrom(prev, p) ==
  IF prev = None THEN threads[p].avctx
  ELSE IF codec.updates THEN threads[prev].avctx
  ELSE [threads[p].avctx EXCEPT !.hwaccel = threads[prev].avctx.hwaccel]

Counted(p) ==
  [fctx EXCEPT !.prev = p, !.nextDecoding = @ + 1,
               !.delaying = @ /\ fctx.nextDecoding + 1 <= ThreadCount - 1]

CallsBack == codec.ownFormat \/ codec.ownBuffer

(* The next context is copied only when the one before is set up.          *)
SetupDone(prev) == prev = None \/ threads[prev].state # "SETTING_UP"

SubmitStart ==
  LET p == fctx.nextDecoding
      prev == fctx.prev
  IN
  /\ user.pc = "waitPrev" /\ Awake(User)
  /\ IF ~SetupDone(prev)
     THEN Sleep(User, prev) /\ UNCHANGED <<threads, fctx, user>>
     ELSE /\ threads' = [threads EXCEPT ![p].avctx = ContextFrom(prev, p),
                                        ![p].avpkt = user.pkt,
                                        ![p].state = "SETTING_UP"]
          /\ IF CallsBack
             THEN user' = [user EXCEPT !.pc = "serve", !.holds = None] /\ UNCHANGED fctx
             ELSE /\ fctx' = Counted(p)
                  /\ user' = [user EXCEPT !.pc = AfterSubmit(Counted(p)), !.holds = None]
          /\ UNCHANGED sleeping
  /\ UNCHANGED <<codec, hwaccelMutex, bufferMutex, asyncLock, progress, owner>>

(* The loop that runs the callbacks of the worker on this thread.          *)
Serve ==
  LET p == fctx.nextDecoding IN
  /\ user.pc = "serve" /\ Awake(User)
  /\ \/ /\ threads[p].state = "SETTING_UP"
        /\ Sleep(User, p) /\ UNCHANGED <<threads, fctx, user>>
     \/ /\ threads[p].state \in {"GET_BUFFER", "GET_FORMAT"}
        /\ threads' = [threads EXCEPT ![p].state = "SETTING_UP"]
        /\ Signal(p) /\ UNCHANGED <<fctx, user>>
     \/ /\ threads[p].state \in {"SETUP_FINISHED", "INPUT_READY"}
        /\ fctx' = Counted(p)
        /\ user' = [user EXCEPT !.pc = AfterSubmit(Counted(p))]
        /\ UNCHANGED <<threads, sleeping>>
  /\ UNCHANGED <<codec, hwaccelMutex, bufferMutex, asyncLock, progress, owner>>

-----------------------------------------------------------------------------
(* The rest of ff_thread_decode_frame(): one turn of its loop.             *)

(* Mutant: the frame is taken from a worker that is still decoding.        *)
SetupIsEnough(t) == threads[t].state \in {"INPUT_READY", "SETUP_FINISHED"}

Finished(t) == threads[t].state = "INPUT_READY"

(* Mutant: the result is left where a later call finds it again.           *)
TakeAndKeep(t) == threads

TakeResult(t) == [threads EXCEPT ![t].frame = None, ![t].result = "ok"]

(* Mutant: the loop does not stop after one round.                         *)
AgainForever(got, err, next) == user.pkt = Drain /\ got = None /\ ~err

(* While draining, threads without a result are skipped.                   *)
Again(got, err, next) ==
  user.pkt = Drain /\ got = None /\ ~err /\ next # fctx.nextFinished

Collect ==
  LET p == user.finished
      next == (p + 1) % ThreadCount
      got == threads[p].frame
      err == threads[p].result = "error"
      again == Again(got, err, next)
  IN
  /\ user.pc = "collect"
  /\ Finished(p)
  /\ threads' = TakeResult(p)
  /\ user' = [user EXCEPT !.finished = next, !.err = err,
                          !.got = IF err THEN threads[p].avpkt ELSE got,
                          !.pc = IF again THEN "collect" ELSE "relock"]
  /\ fctx' = IF again THEN fctx
             ELSE [fctx EXCEPT !.nextFinished = next, !.nextDecoding = @ % ThreadCount]
  /\ UNCHANGED <<codec, hwaccelMutex, bufferMutex, asyncLock, sleeping, progress, owner>>

(* park_frame_worker_threads()                                             *)
Park ==
  LET p == user.finished IN
  /\ user.pc = "park"
  /\ Finished(p)
  /\ threads' = [threads EXCEPT ![p].frame = None]
  /\ user' = [user EXCEPT !.finished = (p + 1) % ThreadCount,
                          !.pc = IF p + 1 < ThreadCount THEN "park" ELSE "relock"]
  /\ UNCHANGED <<codec, fctx, hwaccelMutex, bufferMutex, asyncLock, sleeping, progress, owner>>

(* The rest of ff_thread_flush(); codec->flush() forgets frames.           *)
FlushThreads ==
  LET hw(t) == IF t = 0 /\ fctx.prev # None THEN threads[fctx.prev].avctx.hwaccel
               ELSE threads[t].avctx.hwaccel
  IN
  /\ fctx' = NewFctx
  /\ threads' = [t \in Thread |-> [NewThread EXCEPT !.avctx.hwaccel = hw(t)]]

(* The rest of ff_frame_thread_free(): one thread at a time is told to end *)
(* and joined.                                                             *)
Kill ==
  LET p == user.finished IN
  /\ user.pc = "kill"
  /\ threads[p].pc = "idle"
  /\ threads' = [threads EXCEPT ![p].die = TRUE]
  /\ user' = [user EXCEPT !.pc = "joinThread"]
  /\ UNCHANGED <<codec, fctx, hwaccelMutex, bufferMutex, asyncLock, sleeping, progress, owner>>

JoinThread ==
  LET p == user.finished IN
  /\ user.pc = "joinThread"
  /\ threads[p].pc = "exited"
  /\ user' = [user EXCEPT !.finished = (p + 1) % ThreadCount,
                          !.pc = IF p + 1 < ThreadCount THEN "kill" ELSE "joined"]
  /\ UNCHANGED <<codec, threads, fctx, hwaccelMutex, bufferMutex, asyncLock, sleeping,
                 progress, owner>>

InThreads ==
  \/ AsyncUnlock \/ AsyncRelock \/ SubmitNothing \/ SubmitLock \/ SubmitStart \/ Serve
  \/ Collect \/ Park \/ Kill \/ JoinThread

=============================================================================
