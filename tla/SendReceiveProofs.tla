------------------------- MODULE SendReceiveProofs --------------------------
(***************************************************************************)
(* Proofs about SendReceive, for any number of threads and packets and any *)
(* codecs: LockInv is inductive, the types, the assertions of the source   *)
(* and the exclusive use of hardware follow.  On top of it FrameInv says   *)
(* in which order the threads work, as far as it takes to show that what   *)
(* the application receives is decoded to its last row.                    *)
(*                                                                         *)
(* First the inductive invariants: LockInv, who has which lock and what    *)
(* each place of the workers and of the user's thread relies on, and       *)
(* FrameInv.                                                               *)
(***************************************************************************)
EXTENDS SendReceive, SequenceTheorems, TLAPS

-----------------------------------------------------------------------------
(* The locks.                                                              *)

(* Codecs that finish the setup before they begin.                         *)
SetupFirst == ~codec.updates /\ SafeCallbacks

Decoding == user.call \in {"send", "receive"}

(* Where the user's thread is inside the library without async_lock.       *)
Unlocked == {"submit", "waitPrev", "serve", "collect", "park", "relock"}

UserOK ==
  /\ user.pc \notin Unlocked => asyncLock = User
  /\ user.pc # "collect" => fctx.nextDecoding \in Thread
  /\ user.pc \in {"sent", "get", "submit", "waitPrev", "serve", "collect"} => Decoding
  /\ user.pc = "park" => user.call \in {"flush", "close"}
  /\ user.pc \in {"kill", "joinThread", "joined"} => user.call = "close"
  /\ user.pc \in {"unlock", "relock", "returned"} => user.call # "none"
  /\ user.pc = "out" => user.call = "none"
  /\ Decoding /\ user.pc # "sent" => avci.frame = None
  /\ Decoding /\ user.pc \in {"unlock", "submit", "waitPrev"} => user.pkt # None
  /\ user.pc = "waitPrev" => user.holds = fctx.nextDecoding
  /\ user.pc # "waitPrev" => user.holds = None
  /\ ~user.err => user.got # Drain

(* The thread whose mutex the user holds waits for a packet.               *)
HeldIsIdle ==
  user.holds # None =>
    threads[user.holds].pc = "idle" /\ threads[user.holds].released = 0

(* What the flush and the close have waited for.                           *)
Parked ==
  /\ user.pc = "park" => \A t \in Thread : t < user.finished => Finished(t)
  /\ user.call \in {"flush", "close"} /\ user.pc \notin {"unlock", "park"} =>
       \A t \in Thread : Finished(t)

(* Before the decoder has asked for its buffer.                            *)
BeforeBuffer == {"idle", "begin", "setup", "format", "formatWait", "buffer"}

WithPacket(w) ==
  \/ w.pc \in {"format", "formatWait", "buffer", "bufferWait", "unlockBuffer", "predict",
               "decode"}
  \/ w.pc \in {"finish", "publish"} /\ w.ret \in {"unlockBuffer", "decode"}

StateOK(t) ==
  LET w == threads[t] IN
  /\ w.state = "INPUT_READY" => w.pc \in {"idle", "exited"}
  /\ w.pc \in {"idle", "exited"} => w.state \in {"INPUT_READY", "SETTING_UP"}
  /\ w.state = "GET_FORMAT" => w.pc = "formatWait"
  /\ w.state = "GET_BUFFER" => w.pc = "bufferWait"
  /\ w.pc \in {"finish", "publish"} => w.state = "SETTING_UP"
  /\ ~SetupFirst /\ w.pc \in {"begin", "setup", "format", "buffer"} => w.state = "SETTING_UP"
  /\ codec.updates /\ w.pc = "predict" => w.state = "SETTING_UP"
  /\ w.pc \in {"format", "formatWait"} => codec.updates
  /\ w.pc \in {"finish", "publish"} => w.ret # "none"
  /\ w.pc \in {"finish", "publish"} /\ w.ret = "begin" => SetupFirst
  /\ w.pc \in {"finish", "publish"} /\ w.ret = "unlockBuffer" => ~codec.updates
  /\ w.pc \in {"finish", "publish"} /\ w.ret = "decode" => codec.updates
  /\ w.pc = "unlockBuffer" => ~codec.updates
  /\ w.state # "INPUT_READY" => w.avpkt # None
  /\ WithPacket(w) => w.avpkt \in Packet
  /\ SafeCallbacks \/ (w.state # "INPUT_READY" /\ w.pc \in BeforeBuffer) => w.released = 0

(* Which thread has which lock, by where it is.                            *)
LocksOK(t) ==
  LET w == threads[t] IN
  /\ w.avctx.hwaccel => codec.updates
  /\ hwaccelMutex = t => codec.updates /\ w.pc \notin {"idle", "begin", "exited"}
  /\ w.pc = "publish" => hwaccelMutex = t /\ asyncLock = t
  /\ w.pc = "decode" /\ w.avctx.hwaccel =>
       hwaccelMutex = t /\ (codec.hwaccel = "unsafe" => asyncLock = t)

LockInv ==
  /\ TypeOK
  /\ UserOK
  /\ HeldIsIdle
  /\ Parked
  /\ \A t \in Thread : StateOK(t) /\ LocksOK(t)

-----------------------------------------------------------------------------
(* The frames.                                                             *)

(* The decoder knows the frame and goes on to its last row: nothing after  *)
(* Predict() fails.                                                        *)
Predicted(w) ==
  \/ w.pc = "decode"
  \/ w.pc \in {"finish", "publish"} /\ w.ret = "decode"

Complete(q) ==
  \/ q \in progress
  \/ \E t \in Thread : Predicted(threads[t]) /\ threads[t].avpkt = q

Unpredicted(w) ==
  \/ w.pc \in {"setup", "format", "formatWait", "buffer", "bufferWait", "unlockBuffer", "predict"}
  \/ w.pc \in {"finish", "publish"} /\ w.ret = "unlockBuffer"

Decoded(w) ==
  \/ w.pc = "cleanup"
  \/ w.pc \in {"finish", "publish"} /\ w.ret = "cleanup"
  \/ w.pc \in {"idle", "exited"} /\ w.state = "INPUT_READY"

(* The context leads to frames that are or will be complete, and so does   *)
(* the result, of a packet without further waiting.                        *)
FrameOK(t) ==
  LET w == threads[t] IN
  /\ w.avctx.held # <<>> => w.avctx.ref # None /\ w.avctx.held = <<w.avctx.ref>>
  /\ w.avctx.ref # None => codec.updates /\ Complete(w.avctx.ref)
  /\ Unpredicted(w) => w.frame = None
  /\ Predicted(w) => w.frame \in {None, w.avpkt, w.needs}
  /\ Decoded(w) /\ w.frame # None =>
       IF w.avpkt = Drain THEN Complete(w.frame) ELSE w.frame \in progress

(* The turn of a thread, counted from the one whose result is next.        *)
Turn(t) ==
  IF t >= fctx.nextFinished THEN t - fctx.nextFinished
  ELSE t - fctx.nextFinished + ThreadCount

(* The threads that work on a packet, and those that were asked to drain   *)
(* and have not been asked for the result.                                 *)
OnPacket == {t \in Thread : threads[t].state # "INPUT_READY" /\ threads[t].avpkt \in Packet}

OnDrain ==
  {t \in Thread : /\ threads[t].avpkt = Drain
                  /\ threads[t].state # "INPUT_READY" \/ threads[t].frame # None}

(* The turns that may be taken.                                            *)
Turns ==
  CASE user.pc = "serve" -> Turn(fctx.nextDecoding) + 1
    [] user.pc = "collect" ->
         IF fctx.nextDecoding \in {fctx.nextFinished, fctx.nextFinished + ThreadCount}
         THEN ThreadCount
         ELSE IF fctx.nextDecoding = ThreadCount THEN Turn(0) ELSE Turn(fctx.nextDecoding)
    [] OTHER -> Turn(fctx.nextDecoding)

(* Packets come before the draining, and the user's thread asks each in    *)
(* its turn.                                                               *)
RingInv ==
  /\ \A t \in OnPacket : Turn(t) < Turns
  /\ \A t \in OnPacket, u \in OnDrain : Turn(t) < Turn(u)
  /\ user.pc = "collect" => \A t \in OnPacket \cup OnDrain : Turn(user.finished) <= Turn(t)

Resetting == user.call \in {"flush", "close"}

DrainInv ==
  /\ Decoding /\ user.pc \in {"unlock", "submit", "waitPrev", "serve", "collect"} =>
       (avci.draining <=> user.pkt = Drain)
  /\ ~avci.draining /\ ~Resetting => OnDrain = {}
  /\ ~avci.draining /\ ~Resetting /\ fctx.delaying => fctx.nextFinished = 0
  /\ ~avci.draining /\ user.pc = "collect" => ~fctx.delaying
  /\ user.pc \in {"submit", "waitPrev", "serve"} => user.finished = fctx.nextFinished

GotInv == ~user.err /\ user.got # None => user.got \in progress

FrameInv ==
  /\ \A t \in Thread : FrameOK(t)
  /\ RingInv
  /\ DrainInv
  /\ GotInv
  /\ FramesAreComplete

-----------------------------------------------------------------------------
(* The constants.                                                          *)

(* The turn after that of thread p.                                        *)
LEMMA NextTurn ==
  ASSUME NEW p \in Thread
  PROVE  /\ (p + 1) % ThreadCount = IF p + 1 = ThreadCount THEN 0 ELSE p + 1
         /\ (p + 1) % ThreadCount \in Thread
  BY FrameThreadsAssumption DEF Thread

(* The wrap of next_decoding and next_finished, which may stand one past   *)
(* the last thread.                                                        *)
LEMMA WrapTurn ==
  ASSUME NEW p \in 0 .. ThreadCount
  PROVE  /\ p % ThreadCount = IF p = ThreadCount THEN 0 ELSE p
         /\ p % ThreadCount \in Thread
  BY FrameThreadsAssumption DEF Thread

(* None, the user's thread, the packets and the threads are different.     *)
LEMMA Names ==
  /\ 0 \in Thread /\ Drain \notin Packet /\ None # Drain
  /\ None \notin Thread /\ None \notin Packet /\ User \notin Thread /\ User # None
  /\ 1 \in 1 .. MaxPackets + 1
  BY FrameThreadsAssumption DEF Thread, Packet, Drain

(* What a codec may be.                                                    *)
LEMMA CodecOK ==
  ASSUME codec \in Codecs
  PROVE  /\ codec.reorder \in 0 .. 1
         /\ codec.hwaccel \in {"none", "safe", "unsafe"}
         /\ codec.hwaccel # "none" => codec.updates
         /\ codec.formats # {} => codec.updates
         /\ codec.updates \in BOOLEAN /\ codec.ownBuffer \in BOOLEAN
         /\ codec.ownFormat \in BOOLEAN /\ codec.capDelay \in BOOLEAN
  BY FrameThreadsAssumption DEF Codec

Held == {<<>>} \cup {<<p>> : p \in Packet}

(* The decoder holds back at most one frame, and puts out an earlier one.  *)
LEMMA HeldBack ==
  ASSUME NEW held \in Held, NEW p \in Packet, NEW n \in 0 .. 1
  PROVE  /\ Len(Append(held, p)) > n =>
              Tail(Append(held, p)) \in Held /\ Head(Append(held, p)) \in Packet
         /\ ~(Len(Append(held, p)) > n) => Append(held, p) \in Held
         /\ held # <<>> => Tail(held) \in Held /\ Head(held) \in Packet
<1>1. <<>> \in Held /\ <<>> \in Seq(Packet) /\ <<p>> \in Held
  BY DEF Held
<1>2. CASE held = <<>>
  <2>1. Append(held, p) = <<p>>
    BY <1>2
  <2>2. Tail(<<p>>) = <<>> /\ Head(<<p>>) = p /\ Len(<<p>>) = 1
    OBVIOUS
  <2> QED BY <1>1, <1>2, <2>1, <2>2
<1>3. CASE held # <<>>
  <2>1. PICK q \in Packet : held = <<q>>
    BY <1>3 DEF Held
  <2>2. <<q>> \in Seq(Packet) /\ <<q>> # <<>> /\ Tail(<<q>>) = <<>> /\ Head(<<q>>) = q
    OBVIOUS
  <2>3. Append(<<>>, p) = <<p>>
    OBVIOUS
  <2>4. Tail(Append(<<q>>, p)) = <<p>> /\ Head(Append(<<q>>, p)) = q
    BY <2>2, <2>3, HeadTailAppend
  <2>5. Len(Append(<<q>>, p)) = 2
    BY <2>2
  <2>6. Tail(Append(held, p)) \in Held /\ Head(Append(held, p)) \in Packet
    BY <1>1, <2>1, <2>4
  <2>7. Len(Append(held, p)) = 2
    BY <2>1, <2>5
  <2>8. Tail(held) \in Held /\ Head(held) \in Packet
    BY <1>1, <2>1, <2>2
  <2> QED BY <2>6, <2>7, <2>8
<1> QED BY <1>2, <1>3

-----------------------------------------------------------------------------
(* The invariant holds in the initial state.                               *)
LEMMA BlankThread == NewThread \in ThreadRecord /\ BlankContext \in ContextRecord
<1>1. BlankContext \in ContextRecord
  BY DEF BlankContext, ContextRecord
<1> QED BY <1>1, Names DEF NewThread, ThreadRecord, WorkerLabel

(* The records the user's thread starts from have their types.             *)
LEMMA BlankUser ==
  /\ Outside \in UserRecord
  /\ NewAvci \in AvciRecord
  /\ NewFctx \in [prev : Thread \cup {None}, nextDecoding : 0 .. ThreadCount,
                  nextFinished : Thread, delaying : BOOLEAN]
<1>1. Outside \in UserRecord
  BY Names DEF Outside, UserRecord
<1>2. NewAvci \in AvciRecord
  BY DEF NewAvci, AvciRecord
<1>3. 0 \in 0 .. ThreadCount
  BY FrameThreadsAssumption
<1> QED BY <1>1, <1>2, <1>3, Names DEF NewFctx

(* When the codec is opened every thread is idle and no lock is held.      *)
LEMMA LockInit == Init => LockInv
<1> SUFFICES ASSUME Init PROVE LockInv
  OBVIOUS
<1>1. TypeOK
  BY BlankThread, BlankUser, Names DEF Init, ThreadsInit, TypeOK
<1>2. UserOK /\ HeldIsIdle /\ Parked
  BY Names DEF Init, ThreadsInit, UserOK, HeldIsIdle, Parked, Outside, NewFctx, NewAvci,
               Unlocked, Decoding, Drain
<1>3. ASSUME NEW t \in Thread PROVE StateOK(t) /\ LocksOK(t)
  BY Names DEF Init, ThreadsInit, StateOK, LocksOK, NewThread, BlankContext, WithPacket,
               BeforeBuffer, SetupFirst, SafeCallbacks
<1> QED BY <1>1, <1>2, <1>3 DEF LockInv

-----------------------------------------------------------------------------
(* The workers.                                                            *)

(* Who takes a lock or gives it up does not touch those of the others.     *)
OwnLock(lock, new, t) == new = lock \/ {lock, new} \subseteq {t, None}

(* What a step of worker t keeps by being a step of worker t alone.        *)
LEMMA WorkerMoves ==
  ASSUME LockInv, NEW t \in Thread,
         UNCHANGED <<codec, fctx, user, apiVars>>,
         threads' \in [Thread -> ThreadRecord],
         \A u \in Thread \ {t} : threads'[u] = threads[u],
         OwnLock(hwaccelMutex, hwaccelMutex', t), OwnLock(asyncLock, asyncLock', t),
         bufferMutex' \in Thread \cup {None},
         sleeping' \in [Thread \cup {User} -> Thread \cup {None}],
         progress' \subseteq Packet,
         owner' \in [Packet -> Thread \cup {None}],
         user.holds # t, Finished(t) => Finished(t)',
         StateOK(t)', LocksOK(t)'
  PROVE  LockInv'
<1>1. TypeOK'
  BY Names DEF LockInv, TypeOK, OwnLock, apiVars
<1>2. UserOK'
  BY Names DEF LockInv, UserOK, TypeOK, OwnLock, apiVars, Unlocked, Decoding
<1>3. HeldIsIdle'
  BY DEF LockInv, HeldIsIdle, TypeOK, UserRecord
<1>4. Parked'
  BY DEF LockInv, Parked, Finished
<1>5. ASSUME NEW u \in Thread \ {t} PROVE StateOK(u)' /\ LocksOK(u)'
  <2>1. /\ StateOK(u) /\ LocksOK(u) /\ threads'[u] = threads[u] /\ codec' = codec
        /\ hwaccelMutex' = u <=> hwaccelMutex = u
        /\ asyncLock' = u <=> asyncLock = u
    BY Names DEF LockInv, OwnLock
  <2>2. StateOK(u)'
    BY <2>1 DEF StateOK, WithPacket, SetupFirst, SafeCallbacks
  <2>3. LocksOK(u)'
    BY <2>1 DEF LocksOK
  <2> QED BY <2>2, <2>3
<1> QED BY <1>1, <1>2, <1>3, <1>4, <1>5 DEF LockInv

(* The facts every step of a worker starts from.                           *)
LEMMA WorkerFacts ==
  ASSUME LockInv, NEW t \in Thread
  PROVE  /\ threads \in [Thread -> ThreadRecord] /\ threads[t] \in ThreadRecord
         /\ threads[t].avctx \in ContextRecord
         /\ codec \in Codecs
         /\ hwaccelMutex \in Thread \cup {None} /\ bufferMutex \in Thread \cup {None}
         /\ asyncLock \in Thread \cup {None, User}
         /\ sleeping \in [Thread \cup {User} -> Thread \cup {None}]
         /\ progress \subseteq Packet /\ owner \in [Packet -> Thread \cup {None}]
         /\ StateOK(t) /\ LocksOK(t)
         /\ threads[t].pc # "idle" => user.holds # t
<1>1. threads \in [Thread -> ThreadRecord] /\ user.holds \in Thread \cup {None}
  BY DEF LockInv, TypeOK, UserRecord
<1>2. threads[t] \in ThreadRecord /\ threads[t].avctx \in ContextRecord
  BY <1>1 DEF ThreadRecord
<1>3. threads[t].pc # "idle" => user.holds # t
  BY Names DEF LockInv, HeldIsIdle
<1> QED BY <1>1, <1>2, <1>3 DEF LockInv, TypeOK

(* The wake-ups keep the type of `sleeping'.                               *)
LEMMA SleepType ==
  ASSUME sleeping \in [Thread \cup {User} -> Thread \cup {None}], NEW t \in Thread
  PROVE  /\ Broadcast(t) => sleeping' \in [Thread \cup {User} -> Thread \cup {None}]
         /\ BroadcastAndSleep(t) => sleeping' \in [Thread \cup {User} -> Thread \cup {None}]
         /\ Signal(t) => sleeping' \in [Thread \cup {User} -> Thread \cup {None}]
         /\ \A x \in Thread \cup {User}, u \in Thread \cup {None} :
              Sleep(x, u) => sleeping' \in [Thread \cup {User} -> Thread \cup {None}]
  BY DEF Broadcast, BroadcastAndSleep, Signal, Sleep, Sleepers

(* A worker's step keeps the invariant.                                    *)
LEMMA WorkerKeeps ==
  ASSUME LockInv, NEW t \in Thread, WorkerStep(t) PROVE LockInv'
<1> DEFINE w == threads[t]
           v == threads'[t]
           S == [Thread \cup {User} -> Thread \cup {None}]
<1>0. /\ threads \in [Thread -> ThreadRecord] /\ w \in ThreadRecord
      /\ w.avctx \in ContextRecord
      /\ codec \in Codecs /\ UNCHANGED apiVars
      /\ hwaccelMutex \in Thread \cup {None} /\ bufferMutex \in Thread \cup {None}
      /\ asyncLock \in Thread \cup {None, User} /\ sleeping \in S
      /\ progress \subseteq Packet /\ owner \in [Packet -> Thread \cup {None}]
      /\ StateOK(t) /\ LocksOK(t)
      /\ w.pc # "idle" => user.holds # t
  BY WorkerFacts DEF WorkerStep
<1>1. CASE Pick(t)
  <2>1. /\ threads' \in [Thread -> ThreadRecord]
        /\ \A u \in Thread \ {t} : threads'[u] = threads[u]
    BY <1>0, <1>1 DEF Pick, ThreadRecord, WorkerLabel
  <2>2. sleeping' \in S
    BY <1>0, <1>1, SleepType DEF Pick
  <2>3. StateOK(t)'
    BY <1>0, <1>1 DEF Pick, StateOK, WithPacket, BeforeBuffer, SetupFirst, SafeCallbacks
  <2>4. LocksOK(t)'
    BY <1>0, <1>1 DEF Pick, LocksOK
  <2>5. Finished(t) => Finished(t)'
    BY <1>0, <1>1 DEF Pick, StateOK, Finished
  <2> QED BY <1>0, <1>1, <2>1, <2>2, <2>3, <2>4, <2>5, WorkerMoves DEF Pick, OwnLock
<1>2. CASE Begin(t)
  <2>1. /\ threads' \in [Thread -> ThreadRecord]
        /\ \A u \in Thread \ {t} : threads'[u] = threads[u]
    BY <1>0, <1>2 DEF Begin, ThreadRecord, WorkerLabel
  <2>2. sleeping' \in S
    BY <1>0, <1>2, SleepType DEF Begin
  <2>3. StateOK(t)'
    BY <1>0, <1>2 DEF Begin, StateOK, WithPacket, BeforeBuffer, SetupFirst, SafeCallbacks
  <2>4. LocksOK(t)'
    BY <1>0, <1>2 DEF Begin, LocksOK
  <2>5. Finished(t) => Finished(t)'
    BY <1>0, <1>2 DEF Begin, StateOK, Finished
  <2> QED BY <1>0, <1>2, <2>1, <2>2, <2>3, <2>4, <2>5, WorkerMoves DEF Begin, OwnLock
<1>3. CASE DecodeDrain(t)
  <2>1. /\ threads' \in [Thread -> ThreadRecord]
        /\ \A u \in Thread \ {t} : threads'[u] = threads[u]
    <3>1. PICK h \in Held, f \in Packet \cup {None}, pc \in {"finish", "cleanup"} :
            threads' = [threads EXCEPT ![t].frame = f, ![t].avctx.held = h,
                                       ![t].pc = pc, ![t].ret = "cleanup"]
      <4>1. w.avctx.held \in Held
        BY <1>0 DEF ContextRecord, Held
      <4>3. /\ (IF w.avctx.held = <<>> THEN <<>> ELSE Tail(w.avctx.held)) \in Held
            /\ (IF w.avctx.held = <<>> THEN None ELSE Head(w.avctx.held)) \in Packet \cup {None}
        <5>1. CASE w.avctx.held = <<>>
          BY <5>1 DEF Held
        <5>2. CASE w.avctx.held # <<>>
          <6>1. PICK q \in Packet : w.avctx.held = <<q>>
            BY <4>1, <5>2 DEF Held
          <6>2. 0 \in 0 .. 1
            OBVIOUS
          <6> QED BY <6>1, <6>2, <4>1, <5>2, HeldBack
        <5> QED BY <5>1, <5>2
      <4> QED BY <4>3, <1>3 DEF DecodeDrain, Returned
    <3>2. [w.avctx EXCEPT !.held = h] \in ContextRecord
      BY <1>0 DEF ContextRecord, Held
    <3> QED BY <1>0, <3>1, <3>2 DEF ThreadRecord, WorkerLabel
  <2>2. sleeping' \in S
    BY <1>0, <1>3, SleepType DEF DecodeDrain
  <2>0. /\ w.pc = "setup"
        /\ v.pc = IF w.state = "SETTING_UP" THEN "finish" ELSE "cleanup"
        /\ v.ret = "cleanup"
        /\ v.state = w.state
        /\ v.avpkt = w.avpkt
        /\ v.released = w.released
        /\ v.avctx.hwaccel = w.avctx.hwaccel
    <3>1. w.pc = "setup"
      BY <1>3 DEF DecodeDrain
    <3>2. PICK f, h : threads' = [threads EXCEPT
             ![t].frame = f, ![t].avctx.held = h,
             ![t].pc = IF w.state = "SETTING_UP" THEN "finish" ELSE "cleanup",
             ![t].ret = "cleanup"]
      BY <1>3 DEF DecodeDrain, Returned
    <3>3. w \in ThreadRecord /\ w.avctx \in ContextRecord
      BY <1>0 DEF ThreadRecord
    <3>4. /\ v.pc = IF w.state = "SETTING_UP" THEN "finish" ELSE "cleanup"
          /\ v.ret = "cleanup" /\ v.state = w.state
          /\ v.avpkt = w.avpkt /\ v.released = w.released
      BY <1>0, <3>2, <3>3 DEF ThreadRecord
    <3>5. v.avctx = [w.avctx EXCEPT !.held = h]
      BY <1>0, <3>2, <3>3 DEF ThreadRecord
    <3> QED BY <3>1, <3>3, <3>4, <3>5 DEF ContextRecord
  <2>3. StateOK(t)'
    <3>1. codec' = codec
      BY <1>3 DEF DecodeDrain
    <3> QED BY <1>0, <2>0, <2>1, <3>1, CodecOK DEF StateOK, LocksOK, WithPacket, BeforeBuffer, SetupFirst,
              SafeCallbacks, ThreadRecord
  <2>4. LocksOK(t)'
    <3>1. codec' = codec /\ UNCHANGED <<hwaccelMutex, asyncLock>>
      BY <1>3 DEF DecodeDrain
    <3> QED BY <1>0, <2>0, <3>1, CodecOK DEF LocksOK, StateOK, SetupFirst, ThreadRecord
  <2>5. Finished(t) => Finished(t)'
    BY <1>0, <1>3 DEF DecodeDrain, StateOK, Finished, Returned
  <2> QED BY <1>0, <1>3, <2>1, <2>2, <2>3, <2>4, <2>5, WorkerMoves DEF DecodeDrain, OwnLock, Returned
<1>4. CASE DecodeFails(t)
  <2>1. /\ threads' \in [Thread -> ThreadRecord]
        /\ \A u \in Thread \ {t} : threads'[u] = threads[u]
    BY <1>0, <1>4 DEF DecodeFails, ThreadRecord, WorkerLabel, Returned
  <2>2. sleeping' \in S
    BY <1>0, <1>4, SleepType DEF DecodeFails
  <2>3. StateOK(t)'
    BY <1>0, <1>4 DEF DecodeFails, StateOK, WithPacket, BeforeBuffer, SetupFirst, SafeCallbacks, Returned
  <2>4. LocksOK(t)'
    BY <1>0, <1>4 DEF DecodeFails, LocksOK, Returned
  <2>5. Finished(t) => Finished(t)'
    BY <1>0, <1>4 DEF DecodeFails, StateOK, Finished, Returned
  <2> QED BY <1>0, <1>4, <2>1, <2>2, <2>3, <2>4, <2>5, WorkerMoves DEF DecodeFails, OwnLock, Returned
<1>5. CASE DecodeStarts(t)
  <2>1. /\ threads' \in [Thread -> ThreadRecord]
        /\ \A u \in Thread \ {t} : threads'[u] = threads[u]
    BY <1>0, <1>5 DEF DecodeStarts, ThreadRecord, WorkerLabel
  <2>2. sleeping' \in S
    BY <1>0, <1>5, SleepType DEF DecodeStarts
  <2>0. /\ w.pc = "setup"
        /\ w.avpkt # Drain
        /\ (v.pc = "format" /\ codec.formats # {}) \/ v.pc = "buffer"
        /\ v.ret = w.ret
        /\ v.state = w.state
        /\ v.avpkt = w.avpkt
        /\ v.released = w.released
        /\ v.avctx.hwaccel = w.avctx.hwaccel
    BY <1>0, <1>5, <2>1 DEF DecodeStarts, ThreadRecord, ContextRecord
  <2>3. StateOK(t)'
    <3>1. codec' = codec
      BY <1>5 DEF DecodeStarts
    <3> QED BY <1>0, <2>0, <2>1, <3>1, CodecOK DEF StateOK, LocksOK, WithPacket, BeforeBuffer, SetupFirst,
              SafeCallbacks, ThreadRecord
  <2>4. LocksOK(t)'
    <3>1. codec' = codec /\ UNCHANGED <<hwaccelMutex, asyncLock>>
      BY <1>5 DEF DecodeStarts
    <3> QED BY <1>0, <2>0, <3>1, CodecOK DEF LocksOK, StateOK, SetupFirst, ThreadRecord
  <2>5. Finished(t) => Finished(t)'
    BY <1>0, <1>5 DEF DecodeStarts, StateOK, Finished
  <2> QED BY <1>0, <1>5, <2>1, <2>2, <2>3, <2>4, <2>5, WorkerMoves DEF DecodeStarts, OwnLock
<1>6. CASE AskFormat(t)
  <2>1. /\ threads' \in [Thread -> ThreadRecord]
        /\ \A u \in Thread \ {t} : threads'[u] = threads[u]
    BY <1>0, <1>6 DEF AskFormat, ThreadRecord, WorkerLabel
  <2>2. sleeping' \in S
    BY <1>0, <1>6, SleepType DEF AskFormat
  <2>0. /\ w.pc = "format"
        /\ v.pc = "formatWait"
        /\ v.state = "GET_FORMAT" \/ v.state = w.state
        /\ v.ret = w.ret
        /\ v.avpkt = w.avpkt
        /\ v.released = w.released
        /\ v.avctx.hwaccel = w.avctx.hwaccel
    BY <1>0, <1>6, <2>1 DEF AskFormat, ThreadRecord, ContextRecord
  <2>3. StateOK(t)'
    <3>1. codec' = codec
      BY <1>6 DEF AskFormat
    <3> QED BY <1>0, <2>0, <2>1, <3>1, CodecOK DEF StateOK, LocksOK, WithPacket, BeforeBuffer, SetupFirst,
              SafeCallbacks, ThreadRecord
  <2>4. LocksOK(t)'
    <3>1. codec' = codec /\ UNCHANGED <<hwaccelMutex, asyncLock>>
      BY <1>6 DEF AskFormat
    <3> QED BY <1>0, <2>0, <3>1, CodecOK DEF LocksOK, StateOK, SetupFirst, ThreadRecord
  <2>5. Finished(t) => Finished(t)'
    BY <1>0, <1>6 DEF AskFormat, StateOK, Finished
  <2> QED BY <1>0, <1>6, <2>1, <2>2, <2>3, <2>4, <2>5, WorkerMoves DEF AskFormat, OwnLock
<1>7. CASE GotFormat(t)
  <2>1. /\ threads' \in [Thread -> ThreadRecord]
        /\ \A u \in Thread \ {t} : threads'[u] = threads[u]
    <3>1. \/ UNCHANGED threads
          \/ \E hw \in BOOLEAN :
               threads' = [threads EXCEPT ![t].pc = "buffer", ![t].avctx.hwaccel = hw]
      BY <1>7 DEF GotFormat
    <3> QED BY SMTT(40), <1>0, <3>1 DEF ThreadRecord, WorkerLabel, ContextRecord
  <2>2. sleeping' \in S
    BY <1>0, <1>7, SleepType DEF GotFormat
  <2>0. /\ w.pc = "formatWait"
        /\ \/ v.pc = w.pc /\ v.avctx.hwaccel = w.avctx.hwaccel
           \/ /\ v.pc = "buffer" /\ w.state = "SETTING_UP"
              /\ v.avctx.hwaccel => codec.hwaccel # "none"
        /\ v.ret = w.ret
        /\ v.state = w.state
        /\ v.avpkt = w.avpkt
        /\ v.released = w.released
    <3>1. CASE w.state # "SETTING_UP"
      BY <1>0, <1>7, <3>1 DEF GotFormat, ThreadRecord, ContextRecord
    <3>2. CASE ~(w.state # "SETTING_UP")
      <4>1. PICK hw \in BOOLEAN :
               /\ hw => codec.hwaccel # "none"
               /\ threads' = [threads EXCEPT ![t].pc = "buffer", ![t].avctx.hwaccel = hw]
        BY <1>7, <3>2 DEF GotFormat
      <4>2. v.avctx.hwaccel = hw
        BY <1>0, <4>1 DEF ThreadRecord, ContextRecord
      <4> QED BY <1>0, <1>7, <3>2, <4>1, <4>2 DEF GotFormat, ThreadRecord
    <3> QED BY <3>1, <3>2
  <2>3. StateOK(t)'
    <3>1. codec' = codec
      BY <1>7 DEF GotFormat
    <3> QED BY <1>0, <2>0, <2>1, <3>1, CodecOK DEF StateOK, LocksOK, WithPacket, BeforeBuffer, SetupFirst,
              SafeCallbacks, ThreadRecord
  <2>4. LocksOK(t)'
    <3>1. codec' = codec /\ UNCHANGED <<hwaccelMutex, asyncLock>>
      BY <1>7 DEF GotFormat
    <3> QED BY <1>0, <2>0, <3>1, CodecOK DEF LocksOK, StateOK, SetupFirst, ThreadRecord
  <2>5. Finished(t) => Finished(t)'
    BY <1>0, <1>7 DEF GotFormat, StateOK, Finished
  <2> QED BY <1>0, <1>7, <2>1, <2>2, <2>3, <2>4, <2>5, WorkerMoves DEF GotFormat, OwnLock
<1>8. CASE AskBuffer(t)
  <2>1. /\ threads' \in [Thread -> ThreadRecord]
        /\ \A u \in Thread \ {t} : threads'[u] = threads[u]
    BY <1>0, <1>8 DEF AskBuffer, ThreadRecord, WorkerLabel
  <2>2. sleeping' \in S
    BY <1>0, <1>8, SleepType DEF AskBuffer
  <2>0. /\ w.pc = "buffer"
        /\ \/ v.pc = "predict" /\ v.state = w.state /\ v.released = w.released /\ SafeCallbacks
           \/ v.pc = "bufferWait" /\ v.state = "GET_BUFFER" /\ ~SafeCallbacks
        /\ v.ret = w.ret
        /\ v.avpkt = w.avpkt
        /\ v.avctx.hwaccel = w.avctx.hwaccel
    <3>1. CASE SafeCallbacks
      BY <1>0, <1>8, <3>1 DEF AskBuffer, ThreadRecord, ContextRecord
    <3>2. CASE ~(SafeCallbacks)
      BY <1>0, <1>8, <3>2 DEF AskBuffer, ThreadRecord, ContextRecord
    <3> QED BY <3>1, <3>2
  <2>3. StateOK(t)'
    <3>1. codec' = codec
      BY <1>8 DEF AskBuffer
    <3> QED BY <1>0, <2>0, <2>1, <3>1, CodecOK DEF StateOK, LocksOK, WithPacket, BeforeBuffer, SetupFirst,
              SafeCallbacks, ThreadRecord
  <2>4. LocksOK(t)'
    <3>1. codec' = codec /\ UNCHANGED <<hwaccelMutex, asyncLock>>
      BY <1>8 DEF AskBuffer
    <3> QED BY <1>0, <2>0, <3>1, CodecOK DEF LocksOK, StateOK, SetupFirst, ThreadRecord
  <2>5. Finished(t) => Finished(t)'
    BY <1>0, <1>8 DEF AskBuffer, StateOK, Finished
  <2> QED BY <1>0, <1>8, <2>1, <2>2, <2>3, <2>4, <2>5, WorkerMoves DEF AskBuffer, OwnLock
<1>9. CASE GotBuffer(t)
  <2>1. /\ threads' \in [Thread -> ThreadRecord]
        /\ \A u \in Thread \ {t} : threads'[u] = threads[u]
    BY <1>0, <1>9 DEF GotBuffer, ThreadRecord, WorkerLabel
  <2>2. sleeping' \in S
    BY <1>0, <1>9, SleepType DEF GotBuffer
  <2>0. /\ w.pc = "bufferWait"
        /\ \/ v.pc = w.pc /\ v.ret = w.ret
           \/ v.pc = "predict" /\ w.state = "SETTING_UP" /\ codec.updates
           \/ v.pc = "finish" /\ v.ret = "unlockBuffer" /\ w.state = "SETTING_UP" /\ ~codec.updates
        /\ v.state = w.state
        /\ v.avpkt = w.avpkt
        /\ v.released = w.released
        /\ v.avctx.hwaccel = w.avctx.hwaccel
    <3>1. CASE w.state # "SETTING_UP"
      BY <1>0, <1>9, <3>1 DEF GotBuffer, ThreadRecord, ContextRecord
    <3>2. CASE ~(w.state # "SETTING_UP")
      BY <1>0, <1>9, <3>2 DEF GotBuffer, ThreadRecord, ContextRecord
    <3> QED BY <3>1, <3>2
  <2>3. StateOK(t)'
    <3>1. codec' = codec
      BY <1>9 DEF GotBuffer
    <3> QED BY <1>0, <2>0, <2>1, <3>1, CodecOK DEF StateOK, LocksOK, WithPacket, BeforeBuffer, SetupFirst,
              SafeCallbacks, ThreadRecord
  <2>4. LocksOK(t)'
    <3>1. codec' = codec /\ UNCHANGED <<hwaccelMutex, asyncLock>>
      BY <1>9 DEF GotBuffer
    <3> QED BY <1>0, <2>0, <3>1, CodecOK DEF LocksOK, StateOK, SetupFirst, ThreadRecord
  <2>5. Finished(t) => Finished(t)'
    BY <1>0, <1>9 DEF GotBuffer, StateOK, Finished
  <2> QED BY <1>0, <1>9, <2>1, <2>2, <2>3, <2>4, <2>5, WorkerMoves DEF GotBuffer, OwnLock
<1>10. CASE UnlockBuffer(t)
  <2>1. /\ threads' \in [Thread -> ThreadRecord]
        /\ \A u \in Thread \ {t} : threads'[u] = threads[u]
    BY <1>0, <1>10 DEF UnlockBuffer, ThreadRecord, WorkerLabel
  <2>2. sleeping' \in S
    BY <1>0, <1>10, SleepType DEF UnlockBuffer
  <2>3. StateOK(t)'
    BY <1>0, <1>10 DEF UnlockBuffer, StateOK, WithPacket, BeforeBuffer, SetupFirst, SafeCallbacks
  <2>4. LocksOK(t)'
    BY <1>0, <1>10 DEF UnlockBuffer, LocksOK
  <2>5. Finished(t) => Finished(t)'
    BY <1>0, <1>10 DEF UnlockBuffer, StateOK, Finished
  <2> QED BY <1>0, <1>10, <2>1, <2>2, <2>3, <2>4, <2>5, WorkerMoves DEF UnlockBuffer, OwnLock
<1>11. CASE Predict(t)
  <2>1. /\ threads' \in [Thread -> ThreadRecord]
        /\ \A u \in Thread \ {t} : threads'[u] = threads[u]
    <3> DEFINE all == Append(w.avctx.held, w.avpkt)
    <3>1. w.avctx.held \in Held /\ w.avpkt \in Packet /\ codec.reorder \in 0 .. 1
      BY <1>0, <1>11, CodecOK DEF Predict, ContextRecord, Held, StateOK, WithPacket
    <3>2. /\ (IF Full(all) THEN Tail(all) ELSE all) \in Held
          /\ (IF Full(all) THEN Head(all) ELSE None) \in Packet \cup {None}
      BY <3>1, HeldBack DEF Full
    <3>3. PICK h \in Held, f \in Packet \cup {None}, r \in Packet \cup {None},
               pc \in {"finish", "decode"} :
            threads' = [threads EXCEPT ![t].needs = w.avctx.ref,
                          ![t].avctx = [@ EXCEPT !.ref = r, !.held = h], ![t].frame = f, ![t].pc = pc, ![t].ret = "decode"]
      <4> HIDE DEF all
      <4> QED BY <3>1, <3>2, <1>11 DEF Predict, all
    <3>4. w.avctx.ref \in Packet \cup {None}
      BY <1>0 DEF ContextRecord
    <3>5. [[w.avctx EXCEPT !.ref = r] EXCEPT !.held = h] \in ContextRecord
      <4>1. [w.avctx EXCEPT !.ref = r] \in ContextRecord
        BY <1>0 DEF ContextRecord
      <4> QED BY <4>1 DEF ContextRecord, Held
    <3> QED BY ZenonT(40), <1>0, <3>3, <3>4, <3>5 DEF ThreadRecord, WorkerLabel
  <2>2. sleeping' \in S
    BY <1>0, <1>11, SleepType DEF Predict
  <2>0. /\ w.pc = "predict"
        /\ v.pc = IF codec.updates THEN "finish" ELSE "decode"
        /\ v.ret = "decode"
        /\ v.state = w.state
        /\ v.avpkt = w.avpkt
        /\ v.released = w.released
        /\ v.avctx.hwaccel = w.avctx.hwaccel
    <3>1. PICK h, f, r, n :
            threads' = [threads EXCEPT ![t].needs = n,
                          ![t].avctx = [@ EXCEPT !.ref = r, !.held = h], ![t].frame = f,
                          ![t].pc = IF codec.updates THEN "finish" ELSE "decode", ![t].ret = "decode"]
      BY <1>11 DEF Predict
    <3>2. w.pc = "predict"
      BY <1>11 DEF Predict
    <3>3. v.avctx = [[w.avctx EXCEPT !.ref = r] EXCEPT !.held = h]
      BY <1>0, <3>1 DEF ThreadRecord
    <3>4. v.avctx.hwaccel = w.avctx.hwaccel
      BY <1>0, <3>3 DEF ContextRecord
    <3>5. /\ v.pc = IF codec.updates THEN "finish" ELSE "decode"
          /\ v.ret = "decode"
          /\ v.state = w.state /\ v.avpkt = w.avpkt /\ v.released = w.released
      BY <1>0, <3>1 DEF ThreadRecord
    <3> QED BY <3>2, <3>4, <3>5
  <2>3. StateOK(t)'
    <3>1. codec' = codec
      BY <1>11 DEF Predict
    <3> QED BY <1>0, <2>0, <2>1, <3>1, CodecOK DEF StateOK, LocksOK, WithPacket, BeforeBuffer, SetupFirst,
              SafeCallbacks, ThreadRecord
  <2>4. LocksOK(t)'
    <3>1. codec' = codec /\ UNCHANGED <<hwaccelMutex, asyncLock>>
      BY <1>11 DEF Predict
    <3> QED BY <1>0, <2>0, <3>1, CodecOK DEF LocksOK, StateOK, SetupFirst, ThreadRecord
  <2>5. Finished(t) => Finished(t)'
    BY <1>0, <1>11 DEF Predict, StateOK, Finished
  <2> QED BY <1>0, <1>11, <2>1, <2>2, <2>3, <2>4, <2>5, WorkerMoves DEF Predict, OwnLock
<1>12. CASE Decode(t)
  <2>1. /\ threads' \in [Thread -> ThreadRecord]
        /\ \A u \in Thread \ {t} : threads'[u] = threads[u]
    BY <1>0, <1>12 DEF Decode, ThreadRecord, WorkerLabel, Returned
  <2>2. sleeping' \in S
    <3>1. (Sleep(t, owner[w.needs]) /\ w.needs # None) \/ Broadcast(t)
      BY <1>12 DEF Decode
    <3>2. w.needs # None => owner[w.needs] \in Thread \cup {None}
      BY <1>0 DEF ThreadRecord
    <3> QED BY <1>0, <3>1, <3>2, SleepType
  <2>0. /\ w.pc = "decode"
        /\ \/ v.pc = w.pc /\ v.ret = w.ret
           \/ v.pc = (IF w.state = "SETTING_UP" THEN "finish" ELSE "cleanup") /\ v.ret = "cleanup"
        /\ v.state = w.state
        /\ v.avpkt = w.avpkt
        /\ v.released = w.released
        /\ v.avctx.hwaccel = w.avctx.hwaccel
    <3>1. CASE w.needs # None /\ w.needs \notin progress
      BY <1>0, <1>12, <3>1 DEF Decode, ThreadRecord, ContextRecord, Returned
    <3>2. CASE ~(w.needs # None /\ w.needs \notin progress)
      BY <1>0, <1>12, <3>2 DEF Decode, ThreadRecord, ContextRecord, Returned
    <3> QED BY <3>1, <3>2
  <2>3. StateOK(t)'
    <3>1. codec' = codec
      BY <1>12 DEF Decode
    <3> QED BY <1>0, <2>0, <2>1, <3>1, CodecOK DEF StateOK, LocksOK, WithPacket, BeforeBuffer, SetupFirst,
              SafeCallbacks, ThreadRecord
  <2>4. LocksOK(t)'
    <3>1. codec' = codec /\ UNCHANGED <<hwaccelMutex, asyncLock>>
      BY <1>12 DEF Decode
    <3> QED BY <1>0, <2>0, <3>1, CodecOK DEF LocksOK, StateOK, SetupFirst, ThreadRecord
  <2>5. Finished(t) => Finished(t)'
    BY <1>0, <1>12 DEF Decode, StateOK, Finished, Returned
  <2>6. progress' \subseteq Packet
    BY <1>0, <1>12 DEF Decode, StateOK, WithPacket
  <2> QED BY <1>0, <1>12, <2>1, <2>2, <2>3, <2>4, <2>5, <2>6, WorkerMoves DEF Decode, OwnLock, Returned
<1>13. CASE FinishHwaccel(t)
  <2>1. /\ threads' \in [Thread -> ThreadRecord]
        /\ \A u \in Thread \ {t} : threads'[u] = threads[u]
    BY <1>0, <1>13 DEF FinishHwaccel, ThreadRecord, WorkerLabel
  <2>2. sleeping' \in S
    BY <1>0, <1>13, SleepType DEF FinishHwaccel
  <2>3. StateOK(t)'
    BY <1>0, <1>13 DEF FinishHwaccel, StateOK, WithPacket, BeforeBuffer, SetupFirst, SafeCallbacks
  <2>4. LocksOK(t)'
    BY <1>0, <1>13 DEF FinishHwaccel, LocksOK
  <2>5. Finished(t) => Finished(t)'
    BY <1>0, <1>13 DEF FinishHwaccel, StateOK, Finished
  <2> QED BY <1>0, <1>13, <2>1, <2>2, <2>3, <2>4, <2>5, WorkerMoves DEF FinishHwaccel, OwnLock
<1>14. CASE FinishAsync(t)
  <2>1. /\ threads' \in [Thread -> ThreadRecord]
        /\ \A u \in Thread \ {t} : threads'[u] = threads[u]
    BY <1>0, <1>14 DEF FinishAsync, ThreadRecord, WorkerLabel
  <2>2. sleeping' \in S
    BY <1>0, <1>14, SleepType DEF FinishAsync
  <2>3. StateOK(t)'
    BY <1>0, <1>14 DEF FinishAsync, StateOK, WithPacket, BeforeBuffer, SetupFirst, SafeCallbacks
  <2>4. LocksOK(t)'
    BY <1>0, <1>14 DEF FinishAsync, LocksOK
  <2>5. Finished(t) => Finished(t)'
    BY <1>0, <1>14 DEF FinishAsync, StateOK, Finished
  <2> QED BY <1>0, <1>14, <2>1, <2>2, <2>3, <2>4, <2>5, WorkerMoves DEF FinishAsync, OwnLock
<1>15. CASE Publish(t)
  <2>1. /\ threads' \in [Thread -> ThreadRecord]
        /\ \A u \in Thread \ {t} : threads'[u] = threads[u]
    BY <1>0, <1>15 DEF Publish, ThreadRecord, WorkerLabel, CanPublish
  <2>2. sleeping' \in S
    BY <1>0, <1>15, SleepType DEF Publish
  <2>0. /\ v.pc = w.ret
        /\ v.state = "SETUP_FINISHED"
        /\ \/ w.pc = "publish"
           \/ w.pc = "finish" /\ (w.avctx.hwaccel => hwaccelMutex = t /\ codec.hwaccel = "safe")
        /\ v.ret = w.ret
        /\ v.avpkt = w.avpkt
        /\ v.released = w.released
        /\ v.avctx.hwaccel = w.avctx.hwaccel
    BY <1>0, <1>15, <2>1 DEF Publish, ThreadRecord, ContextRecord, CanPublish
  <2>3. StateOK(t)'
    <3>1. codec' = codec
      BY <1>15 DEF Publish
    <3> QED BY <1>0, <2>0, <2>1, <3>1, CodecOK DEF StateOK, LocksOK, WithPacket, BeforeBuffer, SetupFirst,
              SafeCallbacks, ThreadRecord
  <2>4. LocksOK(t)'
    <3>1. codec' = codec /\ UNCHANGED <<hwaccelMutex, asyncLock>>
      BY <1>15 DEF Publish
    <3> QED BY <1>0, <2>0, <3>1, CodecOK DEF LocksOK, StateOK, SetupFirst, ThreadRecord
  <2>5. Finished(t) => Finished(t)'
    BY <1>0, <1>15 DEF Publish, StateOK, Finished, CanPublish
  <2> QED BY <1>0, <1>15, <2>1, <2>2, <2>3, <2>4, <2>5, WorkerMoves DEF Publish, OwnLock, CanPublish
<1>16. CASE UnlockHwaccel(t)
  <2>1. /\ threads' \in [Thread -> ThreadRecord]
        /\ \A u \in Thread \ {t} : threads'[u] = threads[u]
    BY <1>0, <1>16 DEF UnlockHwaccel, ThreadRecord, WorkerLabel
  <2>2. sleeping' \in S
    BY <1>0, <1>16, SleepType DEF UnlockHwaccel
  <2>3. StateOK(t)'
    BY <1>0, <1>16 DEF UnlockHwaccel, StateOK, WithPacket, BeforeBuffer, SetupFirst, SafeCallbacks
  <2>4. LocksOK(t)'
    BY <1>0, <1>16 DEF UnlockHwaccel, LocksOK
  <2>5. Finished(t) => Finished(t)'
    BY <1>0, <1>16 DEF UnlockHwaccel, StateOK, Finished
  <2> QED BY <1>0, <1>16, <2>1, <2>2, <2>3, <2>4, <2>5, WorkerMoves DEF UnlockHwaccel, OwnLock
<1>17. CASE UnlockAsync(t)
  <2>1. /\ threads' \in [Thread -> ThreadRecord]
        /\ \A u \in Thread \ {t} : threads'[u] = threads[u]
    BY <1>0, <1>17 DEF UnlockAsync, ThreadRecord, WorkerLabel
  <2>2. sleeping' \in S
    BY <1>0, <1>17, SleepType DEF UnlockAsync
  <2>3. StateOK(t)'
    BY <1>0, <1>17 DEF UnlockAsync, StateOK, WithPacket, BeforeBuffer, SetupFirst, SafeCallbacks
  <2>4. LocksOK(t)'
    BY <1>0, <1>17 DEF UnlockAsync, LocksOK
  <2>5. Finished(t) => Finished(t)'
    BY <1>0, <1>17 DEF UnlockAsync, StateOK, Finished
  <2> QED BY <1>0, <1>17, <2>1, <2>2, <2>3, <2>4, <2>5, WorkerMoves DEF UnlockAsync, OwnLock
<1>18. CASE Ready(t)
  <2>1. /\ threads' \in [Thread -> ThreadRecord]
        /\ \A u \in Thread \ {t} : threads'[u] = threads[u]
    BY <1>0, <1>18 DEF Ready, ThreadRecord, WorkerLabel
  <2>2. sleeping' \in S
    BY <1>0, <1>18, SleepType DEF Ready
  <2>3. StateOK(t)'
    BY <1>0, <1>18 DEF Ready, StateOK, WithPacket, BeforeBuffer, SetupFirst, SafeCallbacks
  <2>4. LocksOK(t)'
    BY <1>0, <1>18 DEF Ready, LocksOK
  <2>5. Finished(t) => Finished(t)'
    BY <1>0, <1>18 DEF Ready, StateOK, Finished
  <2> QED BY <1>0, <1>18, <2>1, <2>2, <2>3, <2>4, <2>5, WorkerMoves DEF Ready, OwnLock
<1> QED BY <1>1, <1>2, <1>3, <1>4, <1>5, <1>6, <1>7, <1>8, <1>9, <1>10, <1>11, <1>12, <1>13, <1>14, <1>15, <1>16, <1>17, <1>18 DEF WorkerStep, Worker

-----------------------------------------------------------------------------
(* The user's thread.                                                      *)

FctxRecord == [prev : Thread \cup {None}, nextDecoding : 0 .. ThreadCount,
               nextFinished : Thread, delaying : BOOLEAN]

(* The facts every step of the user's thread starts from.                  *)
LEMMA UserFacts ==
  ASSUME LockInv
  PROVE  /\ threads \in [Thread -> ThreadRecord]
         /\ codec \in Codecs
         /\ user \in UserRecord /\ fctx \in FctxRecord /\ avci \in AvciRecord
         /\ hwaccelMutex \in Thread \cup {None} /\ bufferMutex \in Thread \cup {None}
         /\ asyncLock \in Thread \cup {None, User}
         /\ sleeping \in [Thread \cup {User} -> Thread \cup {None}]
         /\ progress \subseteq Packet /\ owner \in [Packet -> Thread \cup {None}]
         /\ next \in 1 .. MaxPackets + 1
         /\ UserOK /\ HeldIsIdle /\ Parked
         /\ \A t \in Thread : StateOK(t) /\ LocksOK(t)
  BY DEF LockInv, TypeOK, FctxRecord

(* A worker that stays where it is relies on what it relied on.            *)
LEMMA WorkerStays ==
  ASSUME LockInv, NEW t \in Thread, UNCHANGED <<codec, hwaccelMutex>>,
         asyncLock = t => asyncLock' = t,
         threads'[t].pc = threads[t].pc, threads'[t].ret = threads[t].ret,
         threads'[t].state = threads[t].state, threads'[t].avpkt = threads[t].avpkt,
         threads'[t].released \in {0, threads[t].released},
         threads'[t].avctx = threads[t].avctx
  PROVE  StateOK(t)' /\ LocksOK(t)'
<1>1. StateOK(t) /\ LocksOK(t) /\ codec' = codec
  BY DEF LockInv
<1>2. StateOK(t)'
  BY <1>1 DEF StateOK, WithPacket, SetupFirst, SafeCallbacks
<1>3. LocksOK(t)'
  BY <1>1 DEF LocksOK
<1> QED BY <1>2, <1>3

(* A step that leaves the workers alone.                                   *)
LEMMA WorkersStay ==
  ASSUME LockInv, UNCHANGED <<codec, threads, hwaccelMutex>>,
         asyncLock \in Thread => asyncLock' = asyncLock
  PROVE  \A t \in Thread : StateOK(t)' /\ LocksOK(t)'
<1> SUFFICES ASSUME NEW t \in Thread PROVE StateOK(t)' /\ LocksOK(t)'
  OBVIOUS
<1> QED BY WorkerStays

(* A thread that is told to end.                                           *)
LEMMA Dying ==
  ASSUME NEW x \in ThreadRecord PROVE [x EXCEPT !.die = TRUE] \in ThreadRecord
  BY DEF ThreadRecord

(* The turn of the submitting side stays within the threads, unless the    *)
(* call goes on to collect.                                                *)
LEMMA CountedOK ==
  ASSUME fctx \in FctxRecord, NEW p \in Thread, fctx.nextDecoding = p
  PROVE  /\ Counted(p) \in FctxRecord
         /\ AfterSubmit(Counted(p)) \in {"relock", "collect"}
         /\ AfterSubmit(Counted(p)) # "collect" => Counted(p).nextDecoding \in Thread
<1>1. /\ p \in Nat /\ p + 1 \in 0 .. ThreadCount /\ ThreadCount \in Nat
      /\ p + 1 <= ThreadCount - 1 => p + 1 \in Thread
  BY FrameThreadsAssumption DEF Thread
<1>2. PICK d \in BOOLEAN :
        /\ Counted(p) = [fctx EXCEPT !.prev = p, !.nextDecoding = @ + 1, !.delaying = d]
        /\ d => p + 1 <= ThreadCount - 1
  <2>1. (fctx.delaying /\ fctx.nextDecoding + 1 <= ThreadCount - 1) \in BOOLEAN
    OBVIOUS
  <2> QED BY <2>1 DEF Counted
<1>3. Counted(p) \in FctxRecord
  BY <1>1, <1>2 DEF FctxRecord
<1>4. Counted(p).nextDecoding = p + 1 /\ Counted(p).delaying = d
  BY <1>1, <1>2 DEF FctxRecord
<1>5. AfterSubmit(Counted(p)) = "relock" => d
  BY <1>4 DEF AfterSubmit
<1>6. AfterSubmit(Counted(p)) \in {"relock", "collect"}
  BY DEF AfterSubmit
<1> QED BY <1>1, <1>2, <1>3, <1>4, <1>5, <1>6

(* The steps of the user's thread inside the threads.                      *)
LEMMA UserKeeps ==
  ASSUME LockInv, InThreads, UNCHANGED apiVars PROVE LockInv'
<1> DEFINE S == [Thread \cup {User} -> Thread \cup {None}]
<1>0. /\ threads \in [Thread -> ThreadRecord]
      /\ codec \in Codecs
      /\ user \in UserRecord /\ fctx \in FctxRecord /\ avci \in AvciRecord
      /\ hwaccelMutex \in Thread \cup {None} /\ bufferMutex \in Thread \cup {None}
      /\ asyncLock \in Thread \cup {None, User}
      /\ sleeping \in S
      /\ progress \subseteq Packet /\ owner \in [Packet -> Thread \cup {None}]
      /\ next \in 1 .. MaxPackets + 1
      /\ UserOK /\ HeldIsIdle /\ Parked
      /\ UNCHANGED <<avci, next>>
  BY UserFacts DEF apiVars
<1>w. \A t \in Thread : StateOK(t) /\ LocksOK(t)
  BY UserFacts
<1>1. CASE AsyncUnlock
  <2>1. user' \in UserRecord
    BY <1>0, <1>1, Names DEF AsyncUnlock, UserRecord, FctxRecord
  <2>2. TypeOK'
    BY <1>0, <1>1, <2>1 DEF AsyncUnlock, TypeOK, FctxRecord
  <2>3. UserOK'
    BY <1>0, <1>1 DEF AsyncUnlock, UserOK, UserRecord, Unlocked, Decoding
  <2>4. HeldIsIdle' /\ Parked'
    BY <1>0, <1>1, Names DEF AsyncUnlock, HeldIsIdle, Parked, UserRecord, Finished, UserOK, Unlocked, Thread
  <2>5. \A t \in Thread : StateOK(t)' /\ LocksOK(t)'
    BY <1>0, <1>1, WorkersStay, Names DEF AsyncUnlock, UserOK, Unlocked
  <2> QED BY <2>2, <2>3, <2>4, <2>5 DEF LockInv
<1>2. CASE AsyncRelock
  <2>1. user' \in UserRecord
    BY <1>0, <1>2, Names DEF AsyncRelock, UserRecord, FctxRecord
  <2>2. TypeOK'
    BY <1>0, <1>2, <2>1 DEF AsyncRelock, TypeOK, FctxRecord
  <2>3. UserOK'
    BY <1>0, <1>2 DEF AsyncRelock, UserOK, UserRecord, Unlocked, Decoding
  <2>4. HeldIsIdle' /\ Parked'
    BY <1>0, <1>2, Names DEF AsyncRelock, HeldIsIdle, Parked, UserRecord, Finished, UserOK
  <2>5. \A t \in Thread : StateOK(t)' /\ LocksOK(t)'
    BY <1>0, <1>2, WorkersStay, Names DEF AsyncRelock
  <2> QED BY <2>2, <2>3, <2>4, <2>5 DEF LockInv
<1>3. CASE SubmitNothing
  <2>1. user' \in UserRecord
    BY <1>0, <1>3, Names DEF SubmitNothing, UserRecord, FctxRecord
  <2>2. TypeOK'
    BY <1>0, <1>3, <2>1 DEF SubmitNothing, TypeOK, FctxRecord
  <2>3. UserOK'
    BY <1>0, <1>3 DEF SubmitNothing, UserOK, UserRecord, Unlocked, Decoding
  <2>4. HeldIsIdle' /\ Parked'
    BY <1>0, <1>3, Names DEF SubmitNothing, HeldIsIdle, Parked, UserRecord, Finished, UserOK, Decoding
  <2>5. \A t \in Thread : StateOK(t)' /\ LocksOK(t)'
    BY <1>0, <1>3, WorkersStay, Names DEF SubmitNothing
  <2> QED BY <2>2, <2>3, <2>4, <2>5 DEF LockInv
<1>4. CASE SubmitLock
  <2> DEFINE p == fctx.nextDecoding
  <2>0. p \in Thread /\ threads[p].pc = "idle" /\ Decoding /\ user.holds = None
    BY <1>0, <1>4 DEF SubmitLock, UserOK
  <2>1. user' \in UserRecord
    BY <1>0, <1>4, <2>0, Names DEF SubmitLock, UserRecord, FctxRecord
  <2>2. threads' \in [Thread -> ThreadRecord]
    BY <1>0, <1>4, <2>0 DEF SubmitLock, ThreadRecord
  <2>3. TypeOK'
    BY <1>0, <1>4, <2>1, <2>2 DEF SubmitLock, TypeOK, FctxRecord
  <2>4. UserOK'
    BY <1>0, <1>4, <2>0 DEF SubmitLock, UserOK, UserRecord, Unlocked, Decoding
  <2>5. HeldIsIdle' /\ Parked'
    BY <1>0, <1>4, <2>0 DEF SubmitLock, HeldIsIdle, Parked, UserRecord, ThreadRecord, Decoding
  <2>6. ASSUME NEW t \in Thread PROVE StateOK(t)' /\ LocksOK(t)'
    BY <1>0, <1>4, <2>0, WorkerStays DEF SubmitLock, ThreadRecord
  <2> QED BY <2>3, <2>4, <2>5, <2>6 DEF LockInv
<1>5. CASE SubmitStart
  <2> DEFINE p == fctx.nextDecoding
             prev == fctx.prev
             c == ContextFrom(prev, p)
  <2>0. /\ p \in Thread /\ prev \in Thread \cup {None} /\ user.holds = p
        /\ Decoding /\ user.pkt # None
    BY <1>0, <1>5 DEF SubmitStart, UserOK, FctxRecord
  <2>1. CASE ~SetupDone(prev)
    <3>1. UNCHANGED <<user, fctx, avci, next, threads, codec, hwaccelMutex, bufferMutex,
                      asyncLock, progress, owner>>
      BY <1>0, <1>5, <2>1 DEF SubmitStart
    <3>2. sleeping' \in S
      BY <1>0, <1>5, <2>0, <2>1, SleepType, Names DEF SubmitStart, SetupDone
    <3>3. TypeOK'
      BY <1>0, <3>1, <3>2 DEF TypeOK, FctxRecord
    <3>4. UserOK' /\ HeldIsIdle' /\ Parked'
      BY <1>0, <3>1 DEF UserOK, HeldIsIdle, Parked, Finished, Decoding
    <3>5. \A t \in Thread : StateOK(t)' /\ LocksOK(t)'
      BY <3>1, WorkersStay
    <3> QED BY <3>3, <3>4, <3>5 DEF LockInv
  <2>2. CASE SetupDone(prev)
    <3>1. c \in ContextRecord /\ (c.hwaccel => codec.updates)
      <4>1. ASSUME NEW t \in Thread
            PROVE  /\ threads[t].avctx \in ContextRecord
                   /\ threads[t].avctx.hwaccel => codec.updates
                   /\ threads[t].avctx.hwaccel \in BOOLEAN
        BY <1>0, <1>w DEF ThreadRecord, ContextRecord, LocksOK
      <4>2. CASE prev = None
        BY <2>0, <4>1, <4>2 DEF ContextFrom
      <4>3. CASE prev # None /\ codec.updates
        BY <2>0, <4>1, <4>3 DEF ContextFrom
      <4>4. CASE prev # None /\ ~codec.updates
        <5>1. PICK b \in BOOLEAN : threads[prev].avctx.hwaccel = b /\ ~b
          BY <2>0, <4>1, <4>4
        <5>2. PICK x \in ContextRecord : x = threads[p].avctx
          BY <2>0, <4>1
        <5>3. [x EXCEPT !.hwaccel = b] \in ContextRecord /\ ~[x EXCEPT !.hwaccel = b].hwaccel
          BY <5>1 DEF ContextRecord
        <5> QED BY <4>4, <5>1, <5>2, <5>3 DEF ContextFrom
      <4> QED BY <4>2, <4>3, <4>4
    <3>2. threads' = [threads EXCEPT ![p].avctx = c, ![p].avpkt = user.pkt,
                                     ![p].state = "SETTING_UP"]
      BY <1>5, <2>2 DEF SubmitStart
    <3>3. threads' \in [Thread -> ThreadRecord]
      <4> HIDE DEF c
      <4>1. user.pkt \in Packet \cup {Drain, None}
        BY <1>0 DEF UserRecord
      <4> QED BY SMTT(40), <1>0, <2>0, <3>1, <3>2, <4>1 DEF ThreadRecord
    <3>4. PICK pc \in {"serve", "relock", "collect"} :
            /\ user' = [user EXCEPT !.pc = pc, !.holds = None]
            /\ fctx' \in FctxRecord
            /\ pc # "collect" => fctx'.nextDecoding \in Thread
      BY <1>0, <1>5, <2>0, <2>2, CountedOK DEF SubmitStart
    <3>5. user' \in UserRecord
      BY <1>0, <3>4 DEF UserRecord
    <3>6. UNCHANGED <<avci, next, sleeping, codec, hwaccelMutex, bufferMutex,
                      asyncLock, progress, owner>>
      BY <1>0, <1>5, <2>2 DEF SubmitStart
    <3>7. TypeOK'
      BY <1>0, <3>3, <3>4, <3>5, <3>6 DEF TypeOK, FctxRecord
    <3>8. UserOK'
      BY <1>0, <1>5, <2>0, <3>4, <3>6 DEF SubmitStart, UserOK, UserRecord, Unlocked, Decoding
    <3>9. HeldIsIdle' /\ Parked'
      BY <1>0, <1>5, <2>0, <3>4 DEF SubmitStart, HeldIsIdle, Parked, UserRecord, Decoding
    <3>10. ASSUME NEW t \in Thread PROVE StateOK(t)' /\ LocksOK(t)'
      <4>1. CASE t # p
        <5>1. threads'[t] = threads[t]
          BY <1>0, <3>2, <4>1
        <5> QED BY <1>0, <3>6, <5>1, WorkerStays DEF ThreadRecord
      <4>2. CASE t = p
        <5>1. /\ threads[p].pc = "idle" /\ threads[p].released = 0
              /\ hwaccelMutex # t /\ StateOK(t)
          BY <1>0, <1>w, <2>0, <4>2, Names DEF HeldIsIdle, LocksOK
        <5>2. /\ threads'[t].pc = "idle" /\ threads'[t].released = 0
              /\ threads'[t].avctx = c /\ threads'[t].avpkt = user.pkt
              /\ threads'[t].state = "SETTING_UP"
          <6> HIDE DEF c
          <6> QED BY <1>0, <2>0, <3>2, <4>2, <5>1 DEF ThreadRecord
        <5>3. StateOK(t)'
          BY <2>0, <5>2 DEF StateOK, WithPacket, SetupFirst, SafeCallbacks, BeforeBuffer
        <5>4. LocksOK(t)'
          <6> HIDE DEF c
          <6> QED BY <3>1, <3>6, <5>1, <5>2 DEF LocksOK
        <5> QED BY <5>3, <5>4
      <4> QED BY <4>1, <4>2
    <3> QED BY <3>7, <3>8, <3>9, <3>10 DEF LockInv
  <2> QED BY <2>1, <2>2
<1>6. CASE Serve
  <2> DEFINE p == fctx.nextDecoding
  <2>0. p \in Thread /\ Decoding /\ user.holds = None
    BY <1>0, <1>6 DEF Serve, UserOK
  <2>1. CASE threads[p].state = "SETTING_UP"
    <3>1. UNCHANGED <<user, fctx, avci, next, threads, codec, hwaccelMutex, bufferMutex,
                      asyncLock, progress, owner>>
      BY <1>0, <1>6, <2>1 DEF Serve
    <3>2. sleeping' \in S
      BY <1>0, <1>6, <2>0, <2>1, SleepType DEF Serve
    <3>3. TypeOK'
      BY <1>0, <3>1, <3>2 DEF TypeOK, FctxRecord
    <3>4. UserOK' /\ HeldIsIdle' /\ Parked'
      BY <1>0, <3>1 DEF UserOK, HeldIsIdle, Parked, Finished, Decoding
    <3>5. \A t \in Thread : StateOK(t)' /\ LocksOK(t)'
      BY <3>1, WorkersStay
    <3> QED BY <3>3, <3>4, <3>5 DEF LockInv
  <2>2. CASE threads[p].state \in {"GET_BUFFER", "GET_FORMAT"}
    <3>1. /\ UNCHANGED <<user, fctx, avci, next, codec, hwaccelMutex, bufferMutex,
                         asyncLock, progress, owner>>
          /\ threads' = [threads EXCEPT ![p].state = "SETTING_UP"]
          /\ sleeping' \in S
      BY <1>0, <1>6, <2>0, <2>2, SleepType DEF Serve
    <3>2. threads' \in [Thread -> ThreadRecord]
      BY SMTT(40), <1>0, <2>0, <3>1 DEF ThreadRecord
    <3>3. TypeOK'
      BY <1>0, <3>1, <3>2 DEF TypeOK, FctxRecord
    <3>4. UserOK' /\ HeldIsIdle' /\ Parked'
      BY <1>0, <2>0, <3>1, Names DEF UserOK, HeldIsIdle, Parked, Decoding
    <3>5. ASSUME NEW t \in Thread PROVE StateOK(t)' /\ LocksOK(t)'
      <4>1. CASE t # p
        <5>1. threads'[t] = threads[t]
          BY <1>0, <3>1, <4>1
        <5> QED BY <1>0, <3>1, <5>1, WorkerStays DEF ThreadRecord
      <4>2. CASE t = p
        <5>1. threads[t].pc \in {"formatWait", "bufferWait"} /\ StateOK(t) /\ LocksOK(t)
          BY <1>w, <2>0, <2>2, <4>2 DEF StateOK
        <5>2. /\ threads'[t].pc = threads[t].pc /\ threads'[t].released = threads[t].released
              /\ threads'[t].avctx = threads[t].avctx /\ threads'[t].avpkt = threads[t].avpkt
              /\ threads'[t].ret = threads[t].ret /\ threads'[t].state = "SETTING_UP"
          BY <1>0, <2>0, <3>1, <4>2 DEF ThreadRecord
        <5>3. StateOK(t)'
          BY <2>2, <3>1, <4>2, <5>1, <5>2 DEF StateOK, WithPacket, BeforeBuffer, SafeCallbacks, SetupFirst
        <5>4. LocksOK(t)'
          BY <3>1, <5>1, <5>2 DEF LocksOK
        <5> QED BY <5>3, <5>4
      <4> QED BY <4>1, <4>2
    <3> QED BY <3>3, <3>4, <3>5 DEF LockInv
  <2>3. CASE threads[p].state \in {"SETUP_FINISHED", "INPUT_READY"}
    <3>1. /\ UNCHANGED <<avci, next, threads, sleeping, codec, hwaccelMutex, bufferMutex,
                         asyncLock, progress, owner>>
          /\ fctx' = Counted(p)
          /\ user' = [user EXCEPT !.pc = AfterSubmit(Counted(p))]
      BY <1>0, <1>6, <2>3 DEF Serve
    <3>2. PICK pc \in {"relock", "collect"} :
            /\ user' = [user EXCEPT !.pc = pc]
            /\ fctx' \in FctxRecord
            /\ pc # "collect" => fctx'.nextDecoding \in Thread
      BY <1>0, <2>0, <3>1, CountedOK
    <3>3. user' \in UserRecord
      BY <1>0, <3>2 DEF UserRecord
    <3>4. TypeOK'
      BY <1>0, <3>1, <3>2, <3>3 DEF TypeOK, FctxRecord
    <3>5. UserOK'
      BY <1>0, <1>6, <2>0, <3>1, <3>2 DEF Serve, UserOK, UserRecord, Unlocked, Decoding
    <3>6. HeldIsIdle' /\ Parked'
      BY <1>0, <2>0, <3>1, <3>2 DEF HeldIsIdle, Parked, UserRecord, Decoding
    <3>7. \A t \in Thread : StateOK(t)' /\ LocksOK(t)'
      BY <3>1, WorkersStay
    <3> QED BY <3>4, <3>5, <3>6, <3>7 DEF LockInv
  <2> QED BY <1>6, <2>1, <2>2, <2>3 DEF Serve
<1>7. CASE Collect
  <2> DEFINE p == user.finished
             n == (p + 1) % ThreadCount
  <2>0. /\ p \in Thread /\ n \in Thread /\ Decoding /\ user.holds = None
        /\ fctx.nextDecoding % ThreadCount \in Thread
        /\ threads[p] \in ThreadRecord
    BY <1>0, <1>7, NextTurn, WrapTurn DEF Collect, UserOK, UserRecord, FctxRecord
  <2>1. PICK g \in Packet \cup {Drain, None}, e \in BOOLEAN, pc \in {"collect", "relock"} :
          /\ user' = [user EXCEPT !.finished = n, !.err = e, !.got = g, !.pc = pc]
          /\ ~e => g \in Packet \cup {None}
          /\ IF pc = "collect" THEN fctx' = fctx
             ELSE fctx' = [fctx EXCEPT !.nextFinished = n, !.nextDecoding = @ % ThreadCount]
    BY <2>0, <1>7 DEF Collect, ThreadRecord
  <2>2. user' \in UserRecord /\ fctx' \in FctxRecord
    <3>1. user' \in UserRecord
      BY <1>0, <2>0, <2>1 DEF UserRecord
    <3>2. fctx.nextDecoding % ThreadCount \in 0 .. ThreadCount
      BY <2>0, FrameThreadsAssumption DEF Thread
    <3>3. [fctx EXCEPT !.nextFinished = n, !.nextDecoding = @ % ThreadCount] \in FctxRecord
      <4> HIDE DEF n
      <4> QED BY <1>0, <2>0, <3>2 DEF FctxRecord
    <3> QED BY <1>0, <2>1, <3>1, <3>3
  <2>3. threads' \in [Thread -> ThreadRecord]
    BY <1>0, <1>7, <2>0 DEF Collect, TakeResult, ThreadRecord
  <2>4. TypeOK'
    BY <1>0, <1>7, <2>2, <2>3 DEF Collect, TypeOK, FctxRecord
  <2>5. UserOK'
    <3>1. fctx'.nextDecoding \in Thread \/ pc = "collect"
      BY <1>0, <2>0, <2>1 DEF FctxRecord
    <3>2. /\ user'.pc = pc /\ user'.call = user.call /\ user'.holds = user.holds
          /\ user'.pkt = user.pkt /\ user'.got = g /\ user'.err = e
          /\ user.pc = "collect" /\ UNCHANGED <<avci, asyncLock>>
          /\ e => user'.err
      BY <1>0, <1>7, <2>1 DEF Collect, UserRecord
    <3>3. ~user'.err => user'.got # Drain
      BY <2>1, <3>2, Names
    <3> QED BY <1>0, <2>0, <3>1, <3>2, <3>3 DEF UserOK, Unlocked, Decoding
  <2>6. HeldIsIdle' /\ Parked'
    BY <1>0, <1>7, <2>0, <2>1 DEF Collect, HeldIsIdle, Parked, UserRecord, Decoding
  <2>7. ASSUME NEW t \in Thread PROVE StateOK(t)' /\ LocksOK(t)'
    BY <1>0, <1>7, <2>0, WorkerStays DEF Collect, TakeResult, ThreadRecord
  <2> QED BY <2>4, <2>5, <2>6, <2>7 DEF LockInv
<1>8. CASE Park
  <2> DEFINE p == user.finished
             n == (p + 1) % ThreadCount
  <2>0. p \in Thread /\ n \in Thread /\ user.call \in {"flush", "close"} /\ user.holds = None
    BY <1>0, <1>8, NextTurn DEF Park, UserOK, UserRecord
  <2>1. user' \in UserRecord
    BY <1>0, <1>8, <2>0 DEF Park, UserRecord
  <2>2. threads' \in [Thread -> ThreadRecord]
    BY <1>0, <1>8, <2>0 DEF Park, ThreadRecord
  <2>3. TypeOK'
    BY <1>0, <1>8, <2>1, <2>2 DEF Park, TypeOK, FctxRecord
  <2>4. UserOK'
    BY <1>0, <1>8, <2>0 DEF Park, UserOK, UserRecord, Unlocked, Decoding
  <2>5. HeldIsIdle'
    BY <1>0, <1>8, <2>0 DEF Park, HeldIsIdle, UserRecord
  <2>6. \A t \in Thread : Finished(t)' <=> Finished(t)
    BY <1>0, <1>8, <2>0 DEF Park, Finished, ThreadRecord
  <2>7. /\ p + 1 < ThreadCount => n = p + 1
        /\ p + 1 >= ThreadCount => \A t \in Thread : t <= p
        /\ p \in Nat /\ Thread \subseteq Nat
    BY <2>0, NextTurn, FrameThreadsAssumption DEF Thread
  <2>8. \A t \in Thread : t <= p => Finished(t)
    BY <1>0, <1>8, <2>0, <2>7 DEF Park, Parked
  <2>9. Parked'
    <3>1. CASE p + 1 < ThreadCount
      <4>1. user'.pc = "park" /\ user'.finished = p + 1
        BY <1>0, <1>8, <2>7, <3>1 DEF Park, UserRecord
      <4>2. \A t \in Thread : t < p + 1 => t <= p
        BY <2>7
      <4> QED BY <2>6, <2>8, <4>1, <4>2 DEF Parked
    <3>2. CASE p + 1 >= ThreadCount
      <4>1. user'.pc = "relock"
        BY <1>0, <1>8, <2>7, <3>2, FrameThreadsAssumption DEF Park, UserRecord
      <4> QED BY <2>6, <2>7, <2>8, <3>2, <4>1 DEF Parked
    <3> QED BY <2>7, <3>1, <3>2, FrameThreadsAssumption
  <2>10. ASSUME NEW t \in Thread PROVE StateOK(t)' /\ LocksOK(t)'
    BY <1>0, <1>8, <2>0, WorkerStays DEF Park, ThreadRecord
  <2> QED BY <2>3, <2>4, <2>5, <2>9, <2>10 DEF LockInv
<1>9. CASE Kill
  <2> DEFINE p == user.finished
  <2>0. p \in Thread /\ user.call = "close" /\ user.holds = None
    BY <1>0, <1>9 DEF Kill, UserOK, UserRecord
  <2>1. user' \in UserRecord
    BY <1>0, <1>9 DEF Kill, UserRecord
  <2>2. threads' \in [Thread -> ThreadRecord]
    <3>1. [threads[p] EXCEPT !.die = TRUE] \in ThreadRecord
      BY <1>0, <2>0, Dying
    <3> QED BY <1>0, <1>9, <2>0, <3>1 DEF Kill
  <2>3. TypeOK'
    BY <1>0, <1>9, <2>1, <2>2 DEF Kill, TypeOK, FctxRecord
  <2>4. UserOK'
    BY <1>0, <1>9, <2>0 DEF Kill, UserOK, UserRecord, Unlocked, Decoding
  <2>5. \A t \in Thread : Finished(t)' <=> Finished(t)
    BY <1>0, <1>9, <2>0 DEF Kill, Finished, ThreadRecord
  <2>6. HeldIsIdle' /\ Parked'
    BY <1>0, <1>9, <2>0, <2>5 DEF Kill, HeldIsIdle, Parked, UserRecord
  <2>7. ASSUME NEW t \in Thread PROVE StateOK(t)' /\ LocksOK(t)'
    BY <1>0, <1>9, <2>0, WorkerStays DEF Kill, ThreadRecord
  <2> QED BY <2>3, <2>4, <2>6, <2>7 DEF LockInv
<1>10. CASE JoinThread
  <2>0. user.finished \in Thread /\ user.call = "close" /\ user.holds = None
    BY <1>0, <1>10 DEF JoinThread, UserOK, UserRecord
  <2>1. user' \in UserRecord
    BY <1>0, <1>10, <2>0, NextTurn DEF JoinThread, UserRecord
  <2>2. TypeOK'
    BY <1>0, <1>10, <2>1 DEF JoinThread, TypeOK, FctxRecord
  <2>3. UserOK'
    BY <1>0, <1>10, <2>0 DEF JoinThread, UserOK, UserRecord, Unlocked, Decoding
  <2>4. HeldIsIdle' /\ Parked'
    BY <1>0, <1>10, <2>0 DEF JoinThread, HeldIsIdle, Parked, UserRecord, Finished
  <2>5. \A t \in Thread : StateOK(t)' /\ LocksOK(t)'
    BY <1>0, <1>10, WorkersStay DEF JoinThread
  <2> QED BY <2>2, <2>3, <2>4, <2>5 DEF LockInv
<1> QED BY <1>1, <1>2, <1>3, <1>4, <1>5, <1>6, <1>7, <1>8, <1>9, <1>10 DEF InThreads

-----------------------------------------------------------------------------
(* The calls.                                                              *)

(* A step of a call that does not touch the threads.                       *)
LEMMA CallMoves ==
  ASSUME LockInv, UNCHANGED othersOfThreads,
         user' \in UserRecord, avci' \in AvciRecord, next' \in 1 .. MaxPackets + 1,
         UserOK', user'.holds = None,
         user'.pc # "park",
         user'.call \in {"flush", "close"} => user'.pc = "unlock" \/ \A t \in Thread : Finished(t)
  PROVE  LockInv'
<1>1. TypeOK'
  BY DEF LockInv, TypeOK, othersOfThreads
<1>2. HeldIsIdle' /\ Parked'
  BY DEF HeldIsIdle, Parked, Finished, othersOfThreads
<1>3. \A t \in Thread : StateOK(t)' /\ LocksOK(t)'
  BY WorkersStay DEF othersOfThreads
<1> QED BY <1>1, <1>2, <1>3 DEF LockInv

(* Back outside the library, the invariant asks for the lock and the turn. *)
LEMMA Leaves ==
  ASSUME LockInv, user.pc \notin Unlocked, user' = Outside, UNCHANGED othersOfThreads,
         avci' \in AvciRecord, next' \in 1 .. MaxPackets + 1
  PROVE  LockInv'
<1>1. asyncLock' = User /\ fctx'.nextDecoding \in Thread
  BY DEF LockInv, UserOK, Unlocked, othersOfThreads
<1>2. UserOK'
  BY <1>1, Names DEF UserOK, Outside, Decoding, Unlocked, Drain
<1> QED BY <1>2, CallMoves, BlankUser DEF Outside

(* A call begins.                                                          *)
LEMMA Enters ==
  ASSUME LockInv, NEW pc \in {"get", "sent", "unlock"},
         NEW call \in {"send", "receive", "flush", "close"},
         user.pc = "out", Enter(pc, call), UNCHANGED othersOfThreads,
         avci' \in AvciRecord, next' \in 1 .. MaxPackets + 1,
         pc = "unlock" <=> call \in {"flush", "close"},
         pc = "get" => avci'.frame = None
  PROVE  LockInv'
<1>1. asyncLock' = User /\ fctx'.nextDecoding \in Thread
  BY DEF LockInv, UserOK, Unlocked, othersOfThreads
<1>2. /\ user' \in UserRecord
      /\ user'.pc = pc /\ user'.call = call /\ user'.holds = None /\ user'.got = None
  BY BlankUser DEF Enter, Outside, UserRecord
<1>3. UserOK'
  BY <1>1, <1>2, Names DEF UserOK, Decoding, Unlocked
<1> QED BY <1>2, <1>3, CallMoves

(* The steps outside the threads keep the invariant.                       *)
LEMMA CallKeeps ==
  ASSUME LockInv, Call PROVE LockInv'
<1>0. /\ avci \in AvciRecord /\ next \in 1 .. MaxPackets + 1 /\ user.pc = "out"
      /\ user.pc \notin Unlocked
  BY DEF LockInv, TypeOK, Call, SendTooLate, SendRefused, SendAccepted, SendNull,
         ReceiveBuffered, ReceiveDecodes, Flush, Close, Unlocked
<1>1. ASSUME UNCHANGED threadVars, avci' \in AvciRecord, next' = next,
             avci'.frame \in {avci.frame, None}
      PROVE  LockInv'
  <2>1. UNCHANGED othersOfThreads /\ UNCHANGED user /\ next' \in 1 .. MaxPackets + 1
    BY <1>0, <1>1 DEF threadVars, othersOfThreads
  <2>2. UserOK /\ user \in UserRecord /\ user.call = "none" /\ user.holds = None
    BY <1>0 DEF LockInv, TypeOK, UserOK
  <2>3. UserOK'
    BY <1>0, <1>1, <2>1, <2>2 DEF UserOK, Decoding, othersOfThreads
  <2> QED BY <1>0, <1>1, <2>1, <2>2, <2>3, CallMoves
<1>2. CASE SendTooLate \/ SendRefused
  BY <1>0, <1>1, <1>2 DEF SendTooLate, SendRefused
<1>3. CASE SendAccepted
  <2>1. avci' \in AvciRecord /\ avci'.frame = avci.frame
    BY <1>0, <1>3 DEF SendAccepted, AvciRecord
  <2>2. next' \in 1 .. MaxPackets + 1
    BY <1>3, FrameThreadsAssumption DEF SendAccepted, Packet
  <2> QED BY <1>0, <1>3, <2>1, <2>2, Enters DEF SendAccepted
<1>4. CASE SendNull
  <2>1. avci' \in AvciRecord /\ avci'.frame = avci.frame
    <3>1. [avci EXCEPT !.eof = TRUE] \in AvciRecord
      BY <1>0 DEF AvciRecord
    <3> QED BY <1>0, <1>4, <3>1 DEF SendNull, AvciRecord
  <2> QED BY <1>0, <1>4, <2>1, Enters DEF SendNull
<1>5. CASE ReceiveBuffered
  <2>1. avci' \in AvciRecord /\ avci'.frame = None
    BY <1>0, <1>5 DEF ReceiveBuffered, AvciRecord
  <2> QED BY <1>0, <1>1, <1>5, <2>1 DEF ReceiveBuffered
<1>6. CASE ReceiveDecodes
  BY <1>0, <1>6, Enters DEF ReceiveDecodes, apiVars
<1>7. CASE Flush
  <2>1. avci' \in AvciRecord
    BY <1>0, <1>7, BlankUser DEF Flush, AvciRecord
  <2> QED BY <1>0, <1>7, <2>1, Enters DEF Flush
<1>8. CASE Close
  BY <1>0, <1>8, Enters DEF Close, apiVars
<1> QED BY <1>2, <1>3, <1>4, <1>5, <1>6, <1>7, <1>8 DEF Call

(* A flushed thread keeps the hardware.                                    *)
LEMMA NewContext ==
  ASSUME NEW b \in BOOLEAN
  PROVE  /\ [NewThread EXCEPT !.avctx.hwaccel = b] \in ThreadRecord
         /\ [NewThread EXCEPT !.avctx.hwaccel = b].avctx.hwaccel = b
         /\ [NewThread EXCEPT !.avctx.hwaccel = b].pc = "idle"
         /\ [NewThread EXCEPT !.avctx.hwaccel = b].state = "INPUT_READY"
         /\ [NewThread EXCEPT !.avctx.hwaccel = b].released = 0
<1>1. [NewThread EXCEPT !.avctx.hwaccel = b] \in ThreadRecord
  BY BlankThread DEF ThreadRecord, ContextRecord
<1> QED BY <1>1, BlankThread DEF NewThread, BlankContext

(* New threads, of a flush or of another decoder, rely on nothing.         *)
LEMMA NewThreadsRely ==
  ASSUME LockInv, NEW t \in Thread, UNCHANGED <<codec, hwaccelMutex>>,
         \A u \in Thread : Finished(u),
         threads'[t].pc = "idle", threads'[t].state = "INPUT_READY",
         threads'[t].released = 0, threads'[t].avctx.hwaccel => codec.updates
  PROVE  StateOK(t)' /\ LocksOK(t)'
<1>1. hwaccelMutex # t
  BY DEF LockInv, StateOK, LocksOK, Finished
<1>2. StateOK(t)'
  BY DEF StateOK, WithPacket, SetupFirst, SafeCallbacks, BeforeBuffer
<1>3. LocksOK(t)'
  BY <1>1 DEF LocksOK
<1> QED BY <1>2, <1>3

(* So do the steps inside a call.                                          *)
LEMMA InsideCallKeeps ==
  ASSUME LockInv, InsideCall PROVE LockInv'
<1>0. /\ avci \in AvciRecord /\ next \in 1 .. MaxPackets + 1 /\ user \in UserRecord
      /\ UserOK /\ Parked
  BY DEF LockInv, TypeOK
<1>1. CASE SendReturns
  BY <1>0, <1>1, Leaves DEF SendReturns, Unlocked
<1>2. CASE GetNothing \/ GetEnd
  BY <1>0, <1>2, Leaves DEF GetNothing, GetEnd, Ends, Unlocked
<1>3. CASE GetPacket
  <2>1. /\ avci' \in AvciRecord /\ avci'.frame = avci.frame
        /\ avci.bsf \in Packet
    BY <1>0, <1>3 DEF GetPacket, AvciRecord
  <2>2. user' \in UserRecord
    BY <1>0, <1>3, <2>1 DEF GetPacket, UserRecord
  <2>3. /\ user'.pc = "unlock" /\ user'.call = user.call /\ user'.holds = user.holds
        /\ user'.pkt # None /\ user'.got = None /\ Decoding /\ user.pc = "get"
        /\ user.holds = None
    BY <1>0, <1>3, <2>1, Names DEF GetPacket, UserRecord, UserOK
  <2>4. UserOK'
    BY <1>0, <1>3, <2>1, <2>3, Names DEF GetPacket, UserOK, Decoding, Unlocked, othersOfThreads
  <2> QED BY <1>0, <1>3, <2>1, <2>2, <2>3, <2>4, CallMoves DEF GetPacket, Decoding
<1>4. CASE GetDrain
  <2>1. avci' \in AvciRecord /\ avci'.frame = avci.frame
    <3>1. [avci EXCEPT !.draining = TRUE] \in AvciRecord
      BY <1>0 DEF AvciRecord
    <3> QED BY <1>0, <1>4, <3>1 DEF GetDrain, AvciRecord
  <2>2. user' \in UserRecord
    BY <1>0, <1>4 DEF GetDrain, UserRecord
  <2>3. /\ user'.pc = "unlock" /\ user'.call = user.call /\ user'.holds = user.holds
        /\ user'.pkt # None /\ user'.got = None /\ Decoding /\ user.pc = "get"
        /\ user.holds = None
    BY <1>0, <1>4, Names DEF GetDrain, UserRecord, UserOK
  <2>4. UserOK'
    BY <1>0, <1>4, <2>1, <2>3, Names DEF GetDrain, UserOK, Decoding, Unlocked, othersOfThreads
  <2> QED BY <1>0, <1>4, <2>1, <2>2, <2>3, <2>4, CallMoves DEF GetDrain, Decoding
<1>5. CASE GotFrame
  <2>1. user.got \in Packet
    BY <1>0, <1>5 DEF GotFrame, UserOK, UserRecord
  <2>2. avci' \in AvciRecord
    BY <1>0, <1>5, <2>1 DEF GotFrame, AvciRecord
  <2> QED BY <1>0, <1>5, <2>2, Leaves DEF GotFrame, Ends, InDecode, Unlocked
<1>6. CASE GotError
  <2>1. avci' \in AvciRecord
    <3>1. PICK b \in BOOLEAN : b = (avci.errors >= MaxDrainErrors)
      <4>1. (avci.errors >= MaxDrainErrors) \in BOOLEAN
        OBVIOUS
      <4> QED BY <4>1
    <3>2. [[avci EXCEPT !.errors = @ + 1] EXCEPT !.done = b] \in AvciRecord
      <4>1. [avci EXCEPT !.errors = @ + 1] \in AvciRecord
        BY <1>0 DEF AvciRecord
      <4> QED BY <4>1 DEF AvciRecord
    <3> QED BY <1>0, <1>6, <3>1, <3>2 DEF GotError
  <2> QED BY <1>0, <1>6, <2>1, Leaves DEF GotError, Ends, InDecode, Unlocked
<1>7. CASE GotNothing
  <2>1. avci' \in AvciRecord /\ avci'.frame = avci.frame
    <3>1. PICK b \in BOOLEAN : avci.draining = b
      BY <1>0 DEF AvciRecord
    <3>2. [avci EXCEPT !.done = b] \in AvciRecord
      BY <1>0 DEF AvciRecord
    <3> QED BY <1>0, <1>7, <3>1, <3>2 DEF GotNothing, EmptyEndsDraining, AvciRecord
  <2>2. user' \in UserRecord
    BY <1>0, <1>7 DEF GotNothing, UserRecord
  <2>3. /\ user'.pc = "get" /\ user'.call = user.call /\ user'.holds = user.holds
        /\ user'.got = None /\ Decoding /\ user.pc = "returned"
        /\ user.holds = None
    BY <1>0, <1>7 DEF GotNothing, InDecode, UserRecord, UserOK, Decoding
  <2>4. UserOK'
    BY <1>0, <1>7, <2>1, <2>3, Names DEF GotNothing, UserOK, Decoding, Unlocked, othersOfThreads
  <2> QED BY <1>0, <1>7, <2>1, <2>2, <2>3, <2>4, CallMoves DEF GotNothing, Decoding
<1>8. CASE CloseThreads
  <2>1. UNCHANGED <<avci, next>> /\ UNCHANGED othersOfThreads
    BY <1>8 DEF CloseThreads, apiVars
  <2>2. user' \in UserRecord
    BY <1>0, <1>8, Names DEF CloseThreads, UserRecord
  <2>3. /\ user'.pc = "kill" /\ user'.call = "close" /\ user'.holds = user.holds
        /\ user'.got = user.got /\ user'.err = user.err /\ user.pc = "returned"
        /\ user.call = "close" /\ user.holds = None
    BY <1>0, <1>8 DEF CloseThreads, UserRecord, UserOK
  <2>4. UserOK'
    BY <1>0, <2>1, <2>3, Names DEF UserOK, Decoding, Unlocked, othersOfThreads
  <2>5. \A t \in Thread : Finished(t)
    BY <1>0, <2>3 DEF Parked
  <2> QED BY <1>0, <2>1, <2>2, <2>3, <2>4, <2>5, CallMoves
<1>9. CASE FlushReturns
  <2>1. \A t \in Thread : Finished(t)
    BY <1>0, <1>9 DEF FlushReturns, Parked
  <2>2. avci' \in AvciRecord
    <3>1. [avci EXCEPT !.bsf = None, !.eof = FALSE] \in AvciRecord
      BY <1>0 DEF AvciRecord
    <3> QED BY <1>9, <3>1 DEF FlushReturns
  <2>3. PICK h : /\ h \in [Thread -> BOOLEAN]
                 /\ \A t \in Thread : h[t] => codec.updates
                 /\ threads' = [t \in Thread |-> [NewThread EXCEPT !.avctx.hwaccel = h[t]]]
    <3> DEFINE hw(t) == IF t = 0 /\ fctx.prev # None THEN threads[fctx.prev].avctx.hwaccel
                        ELSE threads[t].avctx.hwaccel
               g == [t \in Thread |-> hw(t)]
    <3>1. ASSUME NEW t \in Thread PROVE hw(t) \in BOOLEAN /\ (hw(t) => codec.updates)
      <4>1. \A u \in Thread : /\ threads[u].avctx.hwaccel \in BOOLEAN
                              /\ threads[u].avctx.hwaccel => codec.updates
        BY DEF LockInv, TypeOK, ThreadRecord, ContextRecord, LocksOK
      <4>2. fctx.prev \in Thread \cup {None}
        BY DEF LockInv, TypeOK
      <4> QED BY <4>1, <4>2
    <3>2. threads' = [t \in Thread |-> [NewThread EXCEPT !.avctx.hwaccel = hw(t)]]
      BY <1>9 DEF FlushReturns, FlushThreads
    <3> HIDE DEF hw
    <3> WITNESS g
    <3> QED BY <3>1, <3>2
  <2>4. ASSUME NEW t \in Thread
        PROVE  /\ threads'[t] \in ThreadRecord
               /\ threads'[t].pc = "idle" /\ threads'[t].state = "INPUT_READY"
               /\ threads'[t].released = 0 /\ threads'[t].avctx.hwaccel = h[t]
    <3>1. PICK b \in BOOLEAN : b = h[t]
      BY <2>3
    <3>2. /\ [NewThread EXCEPT !.avctx.hwaccel = b] \in ThreadRecord
          /\ [NewThread EXCEPT !.avctx.hwaccel = b].avctx.hwaccel = b
          /\ [NewThread EXCEPT !.avctx.hwaccel = b].pc = "idle"
          /\ [NewThread EXCEPT !.avctx.hwaccel = b].state = "INPUT_READY"
          /\ [NewThread EXCEPT !.avctx.hwaccel = b].released = 0
      BY NewContext
    <3> QED BY <2>3, <3>1, <3>2
  <2>5. threads' \in [Thread -> ThreadRecord]
    <3> DEFINE g(t) == [NewThread EXCEPT !.avctx.hwaccel = h[t]]
    <3>1. threads' = [t \in Thread |-> g(t)]
      BY <2>3
    <3>2. \A t \in Thread : g(t) \in ThreadRecord
      BY <2>3, <2>4
    <3> HIDE DEF g
    <3> QED BY <3>1, <3>2
  <2>6. TypeOK'
    BY <1>9, <2>2, <2>5, BlankUser DEF FlushReturns, FlushThreads, LockInv, TypeOK
  <2>7. UserOK' /\ HeldIsIdle' /\ Parked'
    BY <1>0, <1>9, Names DEF FlushReturns, FlushThreads, UserOK, HeldIsIdle, Parked, Outside,
         NewFctx, Decoding, Unlocked, Drain
  <2>8. ASSUME NEW t \in Thread PROVE StateOK(t)' /\ LocksOK(t)'
    BY <1>9, <2>1, <2>3, <2>4, NewThreadsRely DEF FlushReturns
  <2> QED BY <2>6, <2>7, <2>8 DEF LockInv
<1>10. CASE CloseAndOpen
  <2>1. \A t \in Thread : Finished(t)
    BY <1>0, <1>10 DEF CloseAndOpen, Parked, UserOK
  <2>2. TypeOK'
    BY <1>10, BlankThread, BlankUser, Names DEF CloseAndOpen, LockInv, TypeOK
  <2>3. UserOK' /\ HeldIsIdle' /\ Parked'
    BY <1>0, <1>10, Names DEF CloseAndOpen, UserOK, HeldIsIdle, Parked, Outside,
         NewFctx, NewAvci, Decoding, Unlocked, Drain
  <2>4. ASSUME NEW t \in Thread PROVE StateOK(t)' /\ LocksOK(t)'
    <3>1. /\ threads'[t].pc = "idle" /\ threads'[t].state = "INPUT_READY"
          /\ threads'[t].released = 0 /\ ~threads'[t].avctx.hwaccel
      BY <1>10 DEF CloseAndOpen, NewThread, BlankContext
    <3> QED BY <1>10, <2>1, <3>1, NewThreadsRely DEF CloseAndOpen
  <2> QED BY <2>2, <2>3, <2>4 DEF LockInv
<1>11. CASE InThreads /\ UNCHANGED apiVars
  BY <1>11, UserKeeps
<1> QED BY <1>1, <1>2, <1>3, <1>4, <1>5, <1>6, <1>7, <1>8, <1>9, <1>10, <1>11 DEF InsideCall

-----------------------------------------------------------------------------
(* The locks and the places of the threads agree in every reachable state. *)
THEOREM LockInvariance == Spec => []LockInv
<1>1. Init => LockInv
  BY LockInit
<1>2. LockInv /\ [Next]_vars => LockInv'
  <2> SUFFICES ASSUME LockInv, [Next]_vars PROVE LockInv'
    OBVIOUS
  <2>1. CASE Next
    BY <2>1, CallKeeps, InsideCallKeeps, WorkerKeeps DEF Next
  <2>2. CASE UNCHANGED vars
    BY <2>2 DEF vars, threadVars, apiVars, LockInv, TypeOK, UserOK, HeldIsIdle, Parked, StateOK,
         LocksOK, Decoding, Finished, WithPacket, SetupFirst, SafeCallbacks
  <2> QED BY <2>1, <2>2
<1> QED BY <1>1, <1>2, PTL DEF Spec

(* TypeOK: for any number of threads, any packets and any codecs.          *)
THEOREM TypeCorrect == Spec => []TypeOK
<1>1. LockInv => TypeOK
  BY DEF LockInv
<1> QED BY <1>1, LockInvariance, PTL

(* The assertions of pthread_frame.c and decode.c never fail.              *)
THEOREM AssertionsHold == Spec => []Assertions
<1>1. LockInv => Assertions
  BY DEF LockInv, Assertions, UserOK, StateOK, LocksOK, Decoding, Unlocked, SetupFirst,
         SafeCallbacks
<1> QED BY <1>1, LockInvariance, PTL

(* Hardware is used by one thread at a time, and not behind the back of    *)
(* the application when that is unsafe.                                    *)
THEOREM HardwareIsExclusive == Spec => []HardwareIsSerial
<1>1. LockInv => HardwareIsSerial
  BY Names DEF LockInv, HardwareIsSerial, UsesHardware, UserOK, LocksOK, Unlocked
<1> QED BY <1>1, LockInvariance, PTL

-----------------------------------------------------------------------------
(* The frames.                                                             *)

(* When the codec is opened no thread has a frame and nothing is in the    *)
(* ring.                                                                   *)
LEMMA FrameInit == Init => FrameInv
<1> SUFFICES ASSUME Init PROVE FrameInv
  OBVIOUS
<1>1. ASSUME NEW t \in Thread
      PROVE  /\ threads[t] = NewThread /\ threads[t].frame = None
             /\ threads[t].state = "INPUT_READY"
             /\ threads[t].avctx.held = <<>> /\ threads[t].avctx.ref = None
             /\ threads[t].pc = "idle" /\ threads[t].avpkt = None
  BY DEF Init, ThreadsInit, NewThread, BlankContext
<1>2. OnPacket = {} /\ OnDrain = {}
  BY <1>1, Names DEF OnPacket, OnDrain
<1>3. \A t \in Thread : FrameOK(t)
  BY <1>1 DEF FrameOK, Predicted, Unpredicted, Decoded
<1>4. RingInv /\ GotInv
  BY <1>2 DEF RingInv, GotInv, Init, ThreadsInit, Outside
<1>5. DrainInv /\ FramesAreComplete
  BY <1>2 DEF DrainInv, FramesAreComplete, Init, ThreadsInit, Outside, NewFctx, NewAvci, Decoding
<1> QED BY <1>3, <1>4, <1>5 DEF FrameInv

(* A frame held back and the one that follows.                             *)
LEMMA TwoFrames ==
  ASSUME NEW q, NEW p
  PROVE  /\ Tail(Append(<<q>>, p)) = <<p>>
         /\ Head(Append(<<q>>, p)) = q
         /\ Len(Append(<<q>>, p)) = 2
<1> DEFINE S == {q, p}
<1>1. <<q>> \in Seq(S) /\ <<q>> # <<>> /\ Tail(<<q>>) = <<>> /\ Head(<<q>>) = q /\ Len(<<q>>) = 1
  OBVIOUS
<1>2. Append(<<>>, p) = <<p>>
  OBVIOUS
<1>3. Tail(Append(<<q>>, p)) = <<p>> /\ Head(Append(<<q>>, p)) = q
  BY <1>1, <1>2, HeadTailAppend
<1>4. Len(Append(<<q>>, p)) = 2
  BY <1>1
<1> QED BY <1>3, <1>4

-----------------------------------------------------------------------------
(* The workers.                                                            *)

(* A step of worker t is one of worker t alone.                            *)
LEMMA WorkerAlone ==
  ASSUME threads \in [Thread -> ThreadRecord], NEW t \in Thread, Worker(t)
  PROVE  \A u \in Thread \ {t} : threads'[u] = threads[u]
  BY DEF Worker, Pick, Begin, DecodeDrain, DecodeFails, DecodeStarts, AskFormat, GotFormat,
         AskBuffer, GotBuffer, UnlockBuffer, Predict, Decode, FinishHwaccel, FinishAsync, Publish,
         UnlockHwaccel, UnlockAsync, Ready

(* What will be complete stays so.                                         *)
LEMMA CompleteStays ==
  ASSUME NEW t \in Thread, \A u \in Thread \ {t} : threads'[u] = threads[u],
         progress \subseteq progress',
         threads'[t].avpkt = threads[t].avpkt,
         Predicted(threads[t]) => Predicted(threads'[t]) \/ threads[t].avpkt \in progress'
  PROVE  \A q : Complete(q) => Complete(q)'
<1> SUFFICES ASSUME NEW q, Complete(q) PROVE Complete(q)'
  OBVIOUS
<1>1. CASE q \in progress
  BY <1>1 DEF Complete
<1>2. ASSUME NEW u \in Thread, Predicted(threads[u]), threads[u].avpkt = q
      PROVE  Complete(q)'
  <2>1. CASE u = t
    BY <1>2, <2>1 DEF Complete
  <2>2. CASE u # t
    <3>1. Predicted(threads'[u]) /\ threads'[u].avpkt = q
      BY <1>2, <2>2
    <3> QED BY <3>1 DEF Complete
  <2> QED BY <2>1, <2>2
<1> QED BY <1>1, <1>2 DEF Complete

(* What a step of worker t keeps by being a step of worker t alone.        *)
LEMMA FramesMove ==
  ASSUME LockInv, FrameInv, NEW t \in Thread,
         UNCHANGED <<codec, fctx, user, apiVars>>,
         \A u \in Thread \ {t} : threads'[u] = threads[u],
         progress \subseteq progress',
         \A q : Complete(q) => Complete(q)',
         threads'[t].avpkt = threads[t].avpkt,
         threads'[t].state # "INPUT_READY" => threads[t].state # "INPUT_READY",
         threads'[t].frame # None => threads[t].frame # None \/ threads[t].state # "INPUT_READY",
         FrameOK(t)'
  PROVE  FrameInv'
<1>1. OnPacket' \subseteq OnPacket
  BY DEF OnPacket
<1>2. OnDrain' \subseteq OnDrain
  BY DEF OnDrain
<1>3. RingInv'
  <2>1. Turns' = Turns /\ user' = user /\ \A u : Turn(u)' = Turn(u)
    BY DEF Turns, Turn
  <2> QED BY <1>1, <1>2, <2>1 DEF FrameInv, RingInv
<1>4. DrainInv'
  BY <1>2 DEF FrameInv, DrainInv, Decoding, Resetting, apiVars
<1>5. GotInv' /\ FramesAreComplete'
  BY DEF FrameInv, GotInv, FramesAreComplete, apiVars
<1>6. ASSUME NEW u \in Thread \ {t} PROVE FrameOK(u)'
  <2>1. FrameOK(u) /\ threads'[u] = threads[u]
    BY DEF FrameInv
  <2> QED BY <2>1 DEF FrameOK
<1> QED BY <1>3, <1>4, <1>5, <1>6 DEF FrameInv


(* A worker's step keeps the invariant of the frames.                      *)
LEMMA WorkerKeepsFrames ==
  ASSUME LockInv, LockInv', FrameInv, NEW t \in Thread, WorkerStep(t) PROVE FrameInv'
<1> DEFINE w == threads[t]
           v == threads'[t]
<1>0. /\ threads \in [Thread -> ThreadRecord] /\ w \in ThreadRecord
      /\ threads' \in [Thread -> ThreadRecord]
      /\ \A u \in Thread \ {t} : threads'[u] = threads[u]
      /\ w.avctx \in ContextRecord
      /\ codec \in Codecs /\ UNCHANGED apiVars
      /\ progress \subseteq Packet
      /\ StateOK(t) /\ StateOK(t)' /\ FrameOK(t)
  BY WorkerFacts, WorkerAlone DEF WorkerStep, FrameInv, LockInv, TypeOK
<1>1. CASE Pick(t)
  <2>1. /\ v.avpkt = w.avpkt
        /\ w.pc = "idle"
        /\ \/ v.pc = "exited" 
           \/ v.pc \in {"begin", "finish"} /\ w.state # "INPUT_READY"
        /\ v.ret = "begin"
        /\ v.state = w.state
        /\ v.frame = w.frame
        /\ v.needs = w.needs
        /\ v.avctx.ref = w.avctx.ref /\ v.avctx.held = w.avctx.held
    BY <1>0, <1>1 DEF Pick, StateOK, ThreadRecord, ContextRecord
  <2>2. progress' = progress
    BY <1>1 DEF Pick
  <2>3. UNCHANGED <<codec, fctx, user>>
    BY <1>1 DEF Pick
  <2>4. Predicted(w) => Predicted(v) \/ w.avpkt \in progress'
    BY <2>1, <2>2 DEF Predicted
  <2>5. \A q : Complete(q) => Complete(q)'
    BY <1>0, <2>1, <2>2, <2>4, CompleteStays
  <2>6. FrameOK(t)'
    BY <1>0, <2>1, <2>2, <2>3, <2>5 DEF FrameOK, Predicted, Unpredicted, Decoded, StateOK, WithPacket
  <2> QED BY <1>0, <2>1, <2>2, <2>3, <2>5, <2>6, FramesMove DEF StateOK
<1>2. CASE Begin(t)
  <2>1. /\ v.avpkt = w.avpkt
        /\ w.pc = "begin" /\ v.pc = "setup" /\ v.frame = None
        /\ v.ret = w.ret
        /\ v.state = w.state
        /\ v.needs = w.needs
        /\ v.avctx.ref = w.avctx.ref /\ v.avctx.held = w.avctx.held
    BY <1>0, <1>2 DEF Begin, StateOK, ThreadRecord, ContextRecord
  <2>2. progress' = progress
    BY <1>2 DEF Begin
  <2>3. UNCHANGED <<codec, fctx, user>>
    BY <1>2 DEF Begin
  <2>4. Predicted(w) => Predicted(v) \/ w.avpkt \in progress'
    BY <2>1, <2>2 DEF Predicted
  <2>5. \A q : Complete(q) => Complete(q)'
    BY <1>0, <2>1, <2>2, <2>4, CompleteStays
  <2>6. FrameOK(t)'
    BY <1>0, <2>1, <2>2, <2>3, <2>5 DEF FrameOK, Predicted, Unpredicted, Decoded, StateOK, WithPacket
  <2> QED BY <1>0, <2>1, <2>2, <2>3, <2>5, <2>6, FramesMove DEF StateOK
<1>3. CASE DecodeDrain(t)
  <2>1. /\ v.avpkt = w.avpkt
        /\ w.pc = "setup" /\ w.avpkt = Drain
        /\ v.pc \in {"finish", "cleanup"} /\ v.ret = "cleanup" /\ v.state = w.state
        /\ v.frame \in {None, w.avctx.ref}
        /\ v.avctx.held = <<>> /\ v.avctx.ref = w.avctx.ref
        /\ v.needs = w.needs
    <3>1. w.avctx.held # <<>> => w.avctx.held = <<w.avctx.ref>>
      BY <1>0 DEF FrameOK
    <3>2. \A x : Tail(<<x>>) = <<>> /\ Head(<<x>>) = x
      OBVIOUS
    <3>3. /\ (IF w.avctx.held = <<>> THEN <<>> ELSE Tail(w.avctx.held)) = <<>>
          /\ (IF w.avctx.held = <<>> THEN None ELSE Head(w.avctx.held)) \in {None, w.avctx.ref}
      BY <3>1, <3>2
    <3>4. PICK f \in {None, w.avctx.ref}, pc \in {"finish", "cleanup"} :
            threads' = [threads EXCEPT ![t].frame = f, ![t].avctx.held = <<>>,
                                       ![t].pc = pc, ![t].ret = "cleanup"]
      BY <1>3, <3>3 DEF DecodeDrain, Returned
    <3>5. v.avctx.held = <<>> /\ v.avctx.ref = w.avctx.ref
      BY <1>0, <3>4 DEF ThreadRecord, ContextRecord
    <3>6. /\ v.pc = pc /\ v.ret = "cleanup" /\ v.state = w.state /\ v.frame = f
          /\ v.needs = w.needs /\ v.avpkt = w.avpkt
      BY <1>0, <3>4 DEF ThreadRecord
    <3> QED BY <1>3, <3>5, <3>6 DEF DecodeDrain
  <2>2. progress' = progress
    BY <1>3 DEF DecodeDrain
  <2>3. UNCHANGED <<codec, fctx, user>>
    BY <1>3 DEF DecodeDrain
  <2>4. Predicted(w) => Predicted(v) \/ w.avpkt \in progress'
    BY <2>1, <2>2 DEF Predicted
  <2>5. \A q : Complete(q) => Complete(q)'
    BY <1>0, <2>1, <2>2, <2>4, CompleteStays
  <2>6. FrameOK(t)'
    BY <1>0, <2>1, <2>2, <2>3, <2>5 DEF FrameOK, Predicted, Unpredicted, Decoded, StateOK, WithPacket
  <2> QED BY <1>0, <2>1, <2>2, <2>3, <2>5, <2>6, FramesMove DEF StateOK
<1>4. CASE DecodeFails(t)
  <2>1. /\ v.avpkt = w.avpkt
        /\ w.pc \in {"setup", "predict"}
        /\ v.pc \in {"finish", "cleanup"} /\ v.ret = "cleanup" /\ v.state = w.state
        /\ v.frame = w.frame
        /\ v.needs = w.needs
        /\ v.avctx.ref = w.avctx.ref /\ v.avctx.held = w.avctx.held
    BY <1>0, <1>4 DEF DecodeFails, StateOK, ThreadRecord, ContextRecord, Returned
  <2>2. progress' = progress
    BY <1>4 DEF DecodeFails
  <2>3. UNCHANGED <<codec, fctx, user>>
    BY <1>4 DEF DecodeFails
  <2>4. Predicted(w) => Predicted(v) \/ w.avpkt \in progress'
    BY <2>1, <2>2 DEF Predicted
  <2>5. \A q : Complete(q) => Complete(q)'
    BY <1>0, <2>1, <2>2, <2>4, CompleteStays
  <2>6. FrameOK(t)'
    BY <1>0, <2>1, <2>2, <2>3, <2>5 DEF FrameOK, Predicted, Unpredicted, Decoded, StateOK, WithPacket
  <2> QED BY <1>0, <2>1, <2>2, <2>3, <2>5, <2>6, FramesMove DEF StateOK
<1>5. CASE DecodeStarts(t)
  <2>1. /\ v.avpkt = w.avpkt
        /\ w.pc = "setup" /\ v.pc \in {"format", "buffer"}
        /\ v.ret = w.ret
        /\ v.state = w.state
        /\ v.frame = w.frame
        /\ v.needs = w.needs
        /\ v.avctx.ref = w.avctx.ref /\ v.avctx.held = w.avctx.held
    BY <1>0, <1>5 DEF DecodeStarts, StateOK, ThreadRecord, ContextRecord
  <2>2. progress' = progress
    BY <1>5 DEF DecodeStarts
  <2>3. UNCHANGED <<codec, fctx, user>>
    BY <1>5 DEF DecodeStarts
  <2>4. Predicted(w) => Predicted(v) \/ w.avpkt \in progress'
    BY <2>1, <2>2 DEF Predicted
  <2>5. \A q : Complete(q) => Complete(q)'
    BY <1>0, <2>1, <2>2, <2>4, CompleteStays
  <2>6. FrameOK(t)'
    BY <1>0, <2>1, <2>2, <2>3, <2>5 DEF FrameOK, Predicted, Unpredicted, Decoded, StateOK, WithPacket
  <2> QED BY <1>0, <2>1, <2>2, <2>3, <2>5, <2>6, FramesMove DEF StateOK
<1>6. CASE AskFormat(t)
  <2>1. /\ v.avpkt = w.avpkt
        /\ w.pc = "format" /\ v.pc = "formatWait"
        /\ v.ret = w.ret
        /\ v.frame = w.frame
        /\ v.needs = w.needs
        /\ v.avctx.ref = w.avctx.ref /\ v.avctx.held = w.avctx.held
    BY <1>0, <1>6 DEF AskFormat, StateOK, ThreadRecord, ContextRecord
  <2>2. progress' = progress
    BY <1>6 DEF AskFormat
  <2>3. UNCHANGED <<codec, fctx, user>>
    BY <1>6 DEF AskFormat
  <2>4. Predicted(w) => Predicted(v) \/ w.avpkt \in progress'
    BY <2>1, <2>2 DEF Predicted
  <2>5. \A q : Complete(q) => Complete(q)'
    BY <1>0, <2>1, <2>2, <2>4, CompleteStays
  <2>6. FrameOK(t)'
    BY <1>0, <2>1, <2>2, <2>3, <2>5 DEF FrameOK, Predicted, Unpredicted, Decoded, StateOK, WithPacket
  <2> QED BY <1>0, <2>1, <2>2, <2>3, <2>5, <2>6, FramesMove DEF StateOK
<1>7. CASE GotFormat(t)
  <2>1. /\ v.avpkt = w.avpkt
        /\ w.pc = "formatWait" /\ v.pc \in {"formatWait", "buffer"}
        /\ v.ret = w.ret
        /\ v.state = w.state
        /\ v.frame = w.frame
        /\ v.needs = w.needs
        /\ v.avctx.ref = w.avctx.ref /\ v.avctx.held = w.avctx.held
    <3>1. CASE w.state # "SETTING_UP"
      BY <1>0, <1>7, <3>1 DEF GotFormat
    <3>2. CASE w.state = "SETTING_UP"
      <4>1. PICK hw \in BOOLEAN :
              threads' = [threads EXCEPT ![t].pc = "buffer", ![t].avctx.hwaccel = hw]
        BY <1>7, <3>2 DEF GotFormat
      <4>2. v.avctx.ref = w.avctx.ref /\ v.avctx.held = w.avctx.held
        BY <1>0, <4>1 DEF ThreadRecord, ContextRecord
      <4>3. /\ v.pc = "buffer" /\ v.ret = w.ret /\ v.state = w.state /\ v.frame = w.frame
            /\ v.needs = w.needs /\ v.avpkt = w.avpkt
        BY <1>0, <4>1 DEF ThreadRecord
      <4> QED BY <1>7, <4>2, <4>3 DEF GotFormat
    <3> QED BY <3>1, <3>2
  <2>2. progress' = progress
    BY <1>7 DEF GotFormat
  <2>3. UNCHANGED <<codec, fctx, user>>
    BY <1>7 DEF GotFormat
  <2>4. Predicted(w) => Predicted(v) \/ w.avpkt \in progress'
    BY <2>1, <2>2 DEF Predicted
  <2>5. \A q : Complete(q) => Complete(q)'
    BY <1>0, <2>1, <2>2, <2>4, CompleteStays
  <2>6. FrameOK(t)'
    BY <1>0, <2>1, <2>2, <2>3, <2>5 DEF FrameOK, Predicted, Unpredicted, Decoded, StateOK, WithPacket
  <2> QED BY <1>0, <2>1, <2>2, <2>3, <2>5, <2>6, FramesMove DEF StateOK
<1>8. CASE AskBuffer(t)
  <2>1. /\ v.avpkt = w.avpkt
        /\ w.pc = "buffer" /\ v.pc \in {"predict", "bufferWait"}
        /\ v.ret = w.ret
        /\ v.frame = w.frame
        /\ v.needs = w.needs
        /\ v.avctx.ref = w.avctx.ref /\ v.avctx.held = w.avctx.held
    BY <1>0, <1>8 DEF AskBuffer, StateOK, ThreadRecord, ContextRecord
  <2>2. progress' = progress
    BY <1>8 DEF AskBuffer
  <2>3. UNCHANGED <<codec, fctx, user>>
    BY <1>8 DEF AskBuffer
  <2>4. Predicted(w) => Predicted(v) \/ w.avpkt \in progress'
    BY <2>1, <2>2 DEF Predicted
  <2>5. \A q : Complete(q) => Complete(q)'
    BY <1>0, <2>1, <2>2, <2>4, CompleteStays
  <2>6. FrameOK(t)'
    BY <1>0, <2>1, <2>2, <2>3, <2>5 DEF FrameOK, Predicted, Unpredicted, Decoded, StateOK, WithPacket
  <2> QED BY <1>0, <2>1, <2>2, <2>3, <2>5, <2>6, FramesMove DEF StateOK
<1>9. CASE GotBuffer(t)
  <2>1. /\ v.avpkt = w.avpkt
        /\ w.pc = "bufferWait"
        /\ \/ v.pc \in {"bufferWait", "predict"}
           \/ v.pc = "finish" /\ v.ret = "unlockBuffer"
        /\ v.state = w.state
        /\ v.frame = w.frame
        /\ v.needs = w.needs
        /\ v.avctx.ref = w.avctx.ref /\ v.avctx.held = w.avctx.held
    BY <1>0, <1>9 DEF GotBuffer, StateOK, ThreadRecord, ContextRecord
  <2>2. progress' = progress
    BY <1>9 DEF GotBuffer
  <2>3. UNCHANGED <<codec, fctx, user>>
    BY <1>9 DEF GotBuffer
  <2>4. Predicted(w) => Predicted(v) \/ w.avpkt \in progress'
    BY <2>1, <2>2 DEF Predicted
  <2>5. \A q : Complete(q) => Complete(q)'
    BY <1>0, <2>1, <2>2, <2>4, CompleteStays
  <2>6. FrameOK(t)'
    BY <1>0, <2>1, <2>2, <2>3, <2>5 DEF FrameOK, Predicted, Unpredicted, Decoded, StateOK, WithPacket
  <2> QED BY <1>0, <2>1, <2>2, <2>3, <2>5, <2>6, FramesMove DEF StateOK
<1>10. CASE UnlockBuffer(t)
  <2>1. /\ v.avpkt = w.avpkt
        /\ w.pc = "unlockBuffer" /\ v.pc = "predict"
        /\ v.ret = w.ret
        /\ v.state = w.state
        /\ v.frame = w.frame
        /\ v.needs = w.needs
        /\ v.avctx.ref = w.avctx.ref /\ v.avctx.held = w.avctx.held
    BY <1>0, <1>10 DEF UnlockBuffer, StateOK, ThreadRecord, ContextRecord
  <2>2. progress' = progress
    BY <1>10 DEF UnlockBuffer
  <2>3. UNCHANGED <<codec, fctx, user>>
    BY <1>10 DEF UnlockBuffer
  <2>4. Predicted(w) => Predicted(v) \/ w.avpkt \in progress'
    BY <2>1, <2>2 DEF Predicted
  <2>5. \A q : Complete(q) => Complete(q)'
    BY <1>0, <2>1, <2>2, <2>4, CompleteStays
  <2>6. FrameOK(t)'
    BY <1>0, <2>1, <2>2, <2>3, <2>5 DEF FrameOK, Predicted, Unpredicted, Decoded, StateOK, WithPacket
  <2> QED BY <1>0, <2>1, <2>2, <2>3, <2>5, <2>6, FramesMove DEF StateOK
<1>11. CASE Predict(t)
  <2>1. /\ v.avpkt = w.avpkt
        /\ w.pc = "predict" /\ v.state = w.state /\ v.ret = "decode"
        /\ v.pc = IF codec.updates THEN "finish" ELSE "decode"
        /\ v.frame \in {None, w.avpkt, v.needs}
        /\ v.avctx.ref = IF codec.updates THEN w.avpkt ELSE None
        /\ v.avctx.held # <<>> => codec.updates /\ v.avctx.held = <<w.avpkt>>
    <3> DEFINE all == Append(w.avctx.held, w.avpkt)
               h == IF Full(all) THEN Tail(all) ELSE all
               f == IF Full(all) THEN Head(all) ELSE None
    <3>1. /\ threads' = [threads EXCEPT
               ![t].needs = w.avctx.ref,
               ![t].avctx = [@ EXCEPT !.ref = IF codec.updates THEN w.avpkt ELSE None, !.held = h],
               ![t].frame = f,
               ![t].pc = IF codec.updates THEN "finish" ELSE "decode",
               ![t].ret = "decode"]
          /\ w.pc = "predict"
      BY <1>11 DEF Predict
    <3>2. /\ v.needs = w.avctx.ref /\ v.frame = f /\ v.ret = "decode" /\ v.state = w.state
          /\ v.avpkt = w.avpkt
          /\ v.pc = IF codec.updates THEN "finish" ELSE "decode"
          /\ v.avctx.ref = IF codec.updates THEN w.avpkt ELSE None
          /\ v.avctx.held = h
      <4> HIDE DEF h, f
      <4> QED BY ZenonT(40), <1>0, <3>1 DEF ThreadRecord, ContextRecord
    <3>3. f \in {None, w.avpkt, w.avctx.ref} /\ (h # <<>> => codec.updates /\ h = <<w.avpkt>>)
      <4>1. codec.reorder \in 0 .. 1 /\ (codec.reorder > 0 => codec.updates)
        BY <1>0, CodecOK, FrameThreadsAssumption
      <4>2. CASE w.avctx.held = <<>>
        <5>1. all = <<w.avpkt>> /\ Len(<<w.avpkt>>) = 1
          BY <4>2
        <5>2. Tail(<<w.avpkt>>) = <<>> /\ Head(<<w.avpkt>>) = w.avpkt
          OBVIOUS
        <5>3. ~Full(all) => codec.updates
          BY <4>1, <5>1 DEF Full
        <5> QED BY <5>1, <5>2, <5>3
      <4>3. CASE w.avctx.held # <<>>
        <5>1. w.avctx.held = <<w.avctx.ref>> /\ codec.updates
          BY <1>0, <4>3 DEF FrameOK
        <5>2. /\ Tail(Append(<<w.avctx.ref>>, w.avpkt)) = <<w.avpkt>>
              /\ Head(Append(<<w.avctx.ref>>, w.avpkt)) = w.avctx.ref
              /\ Len(Append(<<w.avctx.ref>>, w.avpkt)) = 2
          BY TwoFrames
        <5>3. Tail(all) = <<w.avpkt>> /\ Head(all) = w.avctx.ref /\ Len(all) = 2
          BY <5>1, <5>2
        <5>4. Full(all)
          BY <4>1, <5>3 DEF Full
        <5> QED BY <5>1, <5>3, <5>4
      <4> QED BY <4>2, <4>3
    <3> HIDE DEF h, f
    <3> QED BY <3>1, <3>2, <3>3
  <2>2. progress' = progress
    BY <1>11 DEF Predict
  <2>3. UNCHANGED <<codec, fctx, user>>
    BY <1>11 DEF Predict
  <2>4. Predicted(w) => Predicted(v) \/ w.avpkt \in progress'
    BY <2>1, <2>2 DEF Predicted
  <2>5. \A q : Complete(q) => Complete(q)'
    BY <1>0, <2>1, <2>2, <2>4, CompleteStays
  <2>7. Complete(w.avpkt)'
    BY <1>0, <2>1 DEF Complete, Predicted
  <2>6. FrameOK(t)'
    BY <1>0, <2>1, <2>2, <2>3, <2>5, <2>7 DEF FrameOK, Predicted, Unpredicted, Decoded, StateOK, WithPacket
  <2> QED BY <1>0, <2>1, <2>2, <2>3, <2>5, <2>6, FramesMove DEF StateOK
<1>12. CASE Decode(t)
  <2>1. /\ v.avpkt = w.avpkt
        /\ w.pc = "decode"
        /\ \/ UNCHANGED <<threads, progress>>
           \/ /\ w.needs = None \/ w.needs \in progress
              /\ progress' = progress \cup {w.avpkt}
              /\ v.pc \in {"finish", "cleanup"} /\ v.ret = "cleanup" /\ v.state = w.state
              /\ v.frame = w.frame /\ v.avctx = w.avctx
    <3>1. CASE w.needs # None /\ w.needs \notin progress
      BY <1>0, <1>12, <3>1 DEF Decode
    <3>2. CASE ~(w.needs # None /\ w.needs \notin progress)
      BY <1>0, <1>12, <3>2 DEF Decode, ThreadRecord, Returned
    <3> QED BY <3>1, <3>2
  <2>3. UNCHANGED <<codec, fctx, user>>
    BY <1>12 DEF Decode
  <2>4. Predicted(w) => Predicted(v) \/ w.avpkt \in progress'
    BY <2>1 DEF Predicted
  <2>5. \A q : Complete(q) => Complete(q)'
    BY <1>0, <2>1, <2>4, CompleteStays
  <2>6. FrameOK(t)'
    <3>1. CASE UNCHANGED <<threads, progress>>
      BY <1>0, <2>3, <2>5, <3>1 DEF FrameOK
    <3>2. CASE ~UNCHANGED <<threads, progress>>
      <4>1. /\ w.frame \in {None, w.avpkt, w.needs} /\ w.frame # None => w.frame \in progress'
            /\ w.avpkt # Drain
        BY <1>0, <2>1, <3>2, Names DEF FrameOK, Predicted, StateOK, WithPacket
      <4> QED BY <1>0, <2>1, <2>3, <2>5, <3>2, <4>1 DEF FrameOK, Predicted, Unpredicted, Decoded
    <3> QED BY <3>1, <3>2
  <2> QED BY <1>0, <2>1, <2>3, <2>5, <2>6, FramesMove DEF StateOK
<1>13. CASE FinishHwaccel(t)
  <2>1. /\ v.avpkt = w.avpkt
        /\ UNCHANGED threads
    BY <1>0, <1>13 DEF FinishHwaccel, StateOK, ThreadRecord, ContextRecord
  <2>2. progress' = progress
    BY <1>13 DEF FinishHwaccel
  <2>3. UNCHANGED <<codec, fctx, user>>
    BY <1>13 DEF FinishHwaccel
  <2>4. Predicted(w) => Predicted(v) \/ w.avpkt \in progress'
    BY <2>1, <2>2 DEF Predicted
  <2>5. \A q : Complete(q) => Complete(q)'
    BY <1>0, <2>1, <2>2, <2>4, CompleteStays
  <2>6. FrameOK(t)'
    BY <1>0, <2>1, <2>2, <2>3, <2>5 DEF FrameOK, Predicted, Unpredicted, Decoded, StateOK, WithPacket
  <2> QED BY <1>0, <2>1, <2>2, <2>3, <2>5, <2>6, FramesMove DEF StateOK
<1>14. CASE FinishAsync(t)
  <2>1. /\ v.avpkt = w.avpkt
        /\ w.pc = "finish" /\ v.pc = "publish"
        /\ v.ret = w.ret
        /\ v.state = w.state
        /\ v.frame = w.frame
        /\ v.needs = w.needs
        /\ v.avctx.ref = w.avctx.ref /\ v.avctx.held = w.avctx.held
    BY <1>0, <1>14 DEF FinishAsync, StateOK, ThreadRecord, ContextRecord
  <2>2. progress' = progress
    BY <1>14 DEF FinishAsync
  <2>3. UNCHANGED <<codec, fctx, user>>
    BY <1>14 DEF FinishAsync
  <2>4. Predicted(w) => Predicted(v) \/ w.avpkt \in progress'
    BY <2>1, <2>2 DEF Predicted
  <2>5. \A q : Complete(q) => Complete(q)'
    BY <1>0, <2>1, <2>2, <2>4, CompleteStays
  <2>6. FrameOK(t)'
    BY <1>0, <2>1, <2>2, <2>3, <2>5 DEF FrameOK, Predicted, Unpredicted, Decoded, StateOK, WithPacket
  <2> QED BY <1>0, <2>1, <2>2, <2>3, <2>5, <2>6, FramesMove DEF StateOK
<1>15. CASE Publish(t)
  <2>1. /\ v.avpkt = w.avpkt
        /\ w.pc \in {"finish", "publish"} /\ v.pc = w.ret /\ w.ret \in {"begin", "unlockBuffer", "decode", "cleanup"} /\ w.state = "SETTING_UP"
        /\ v.ret = w.ret
        /\ v.frame = w.frame
        /\ v.needs = w.needs
        /\ v.avctx.ref = w.avctx.ref /\ v.avctx.held = w.avctx.held
    BY <1>0, <1>15 DEF Publish, StateOK, ThreadRecord, ContextRecord, CanPublish
  <2>2. progress' = progress
    BY <1>15 DEF Publish
  <2>3. UNCHANGED <<codec, fctx, user>>
    BY <1>15 DEF Publish
  <2>4. Predicted(w) => Predicted(v) \/ w.avpkt \in progress'
    BY <2>1, <2>2 DEF Predicted
  <2>5. \A q : Complete(q) => Complete(q)'
    BY <1>0, <2>1, <2>2, <2>4, CompleteStays
  <2>6. FrameOK(t)'
    BY <1>0, <2>1, <2>2, <2>3, <2>5 DEF FrameOK, Predicted, Unpredicted, Decoded, StateOK, WithPacket
  <2> QED BY <1>0, <2>1, <2>2, <2>3, <2>5, <2>6, FramesMove DEF StateOK
<1>16. CASE UnlockHwaccel(t)
  <2>1. /\ v.avpkt = w.avpkt
        /\ UNCHANGED threads
    BY <1>0, <1>16 DEF UnlockHwaccel, StateOK, ThreadRecord, ContextRecord
  <2>2. progress' = progress
    BY <1>16 DEF UnlockHwaccel
  <2>3. UNCHANGED <<codec, fctx, user>>
    BY <1>16 DEF UnlockHwaccel
  <2>4. Predicted(w) => Predicted(v) \/ w.avpkt \in progress'
    BY <2>1, <2>2 DEF Predicted
  <2>5. \A q : Complete(q) => Complete(q)'
    BY <1>0, <2>1, <2>2, <2>4, CompleteStays
  <2>6. FrameOK(t)'
    BY <1>0, <2>1, <2>2, <2>3, <2>5 DEF FrameOK, Predicted, Unpredicted, Decoded, StateOK, WithPacket
  <2> QED BY <1>0, <2>1, <2>2, <2>3, <2>5, <2>6, FramesMove DEF StateOK
<1>17. CASE UnlockAsync(t)
  <2>1. /\ v.avpkt = w.avpkt
        /\ UNCHANGED threads
    BY <1>0, <1>17 DEF UnlockAsync, StateOK, ThreadRecord, ContextRecord
  <2>2. progress' = progress
    BY <1>17 DEF UnlockAsync
  <2>3. UNCHANGED <<codec, fctx, user>>
    BY <1>17 DEF UnlockAsync
  <2>4. Predicted(w) => Predicted(v) \/ w.avpkt \in progress'
    BY <2>1, <2>2 DEF Predicted
  <2>5. \A q : Complete(q) => Complete(q)'
    BY <1>0, <2>1, <2>2, <2>4, CompleteStays
  <2>6. FrameOK(t)'
    BY <1>0, <2>1, <2>2, <2>3, <2>5 DEF FrameOK, Predicted, Unpredicted, Decoded, StateOK, WithPacket
  <2> QED BY <1>0, <2>1, <2>2, <2>3, <2>5, <2>6, FramesMove DEF StateOK
<1>18. CASE Ready(t)
  <2>1. /\ v.avpkt = w.avpkt
        /\ w.pc = "cleanup" /\ v.pc = "idle" /\ v.state = "INPUT_READY" /\ w.state # "INPUT_READY"
        /\ v.ret = w.ret
        /\ v.frame = w.frame
        /\ v.needs = w.needs
        /\ v.avctx.ref = w.avctx.ref /\ v.avctx.held = w.avctx.held
    BY <1>0, <1>18 DEF Ready, StateOK, ThreadRecord, ContextRecord
  <2>2. progress' = progress
    BY <1>18 DEF Ready
  <2>3. UNCHANGED <<codec, fctx, user>>
    BY <1>18 DEF Ready
  <2>4. Predicted(w) => Predicted(v) \/ w.avpkt \in progress'
    BY <2>1, <2>2 DEF Predicted
  <2>5. \A q : Complete(q) => Complete(q)'
    BY <1>0, <2>1, <2>2, <2>4, CompleteStays
  <2>6. FrameOK(t)'
    BY <1>0, <2>1, <2>2, <2>3, <2>5 DEF FrameOK, Predicted, Unpredicted, Decoded, StateOK, WithPacket
  <2> QED BY <1>0, <2>1, <2>2, <2>3, <2>5, <2>6, FramesMove DEF StateOK
<1> QED BY <1>1, <1>2, <1>3, <1>4, <1>5, <1>6, <1>7, <1>8, <1>9, <1>10, <1>11, <1>12, <1>13, <1>14, <1>15, <1>16, <1>17, <1>18 DEF WorkerStep, Worker

-----------------------------------------------------------------------------
(* The turns.                                                              *)

(* The turns number the threads, from the one the next frame is expected   *)
(* of.                                                                     *)
LEMMA TurnFacts ==
  ASSUME fctx.nextFinished \in Thread
  PROVE  /\ \A t \in Thread : Turn(t) \in 0 .. ThreadCount - 1
         /\ Turn(fctx.nextFinished) = 0
         /\ \A t, u \in Thread : Turn(t) = Turn(u) => t = u
  BY FrameThreadsAssumption DEF Turn, Thread

(* The turn after that of p, in the loop that collects.                    *)
LEMMA TurnAfter ==
  ASSUME fctx.nextFinished \in Thread, NEW p \in Thread,
         (p + 1) % ThreadCount # fctx.nextFinished
  PROVE  Turn((p + 1) % ThreadCount) = Turn(p) + 1
<1> DEFINE n == (p + 1) % ThreadCount
<1>1. n = IF p + 1 = ThreadCount THEN 0 ELSE p + 1
  BY NextTurn
<1> HIDE DEF n
<1>2. n # fctx.nextFinished
  BY DEF n
<1>3. Turn(n) = Turn(p) + 1
  BY <1>1, <1>2, FrameThreadsAssumption DEF Turn, Thread
<1> QED BY <1>3 DEF n

(* The loop ends at p: the turns are counted from the next thread.         *)
LEMMA TurnMoves ==
  ASSUME fctx.nextFinished \in Thread, NEW p \in Thread,
         fctx'.nextFinished = (p + 1) % ThreadCount
  PROVE  \A t \in Thread :
           Turn(t)' = IF Turn(t) > Turn(p) THEN Turn(t) - Turn(p) - 1
                      ELSE Turn(t) - Turn(p) - 1 + ThreadCount
<1> DEFINE n == (p + 1) % ThreadCount
<1>1. n = IF p + 1 = ThreadCount THEN 0 ELSE p + 1
  BY NextTurn
<1> HIDE DEF n
<1>2. fctx'.nextFinished = n
  BY DEF n
<1>3. \A t \in Thread : Turn(t)' = IF t >= n THEN t - n ELSE t - n + ThreadCount
  BY <1>2 DEF Turn
<1> QED BY <1>1, <1>3, FrameThreadsAssumption DEF Turn, Thread

(* A thread submitted has the last turn, and the count says so.            *)
LEMMA TurnsCounted ==
  ASSUME fctx.nextFinished \in Thread, NEW p \in Thread, p = fctx.nextDecoding,
         fctx'.nextFinished = fctx.nextFinished, fctx'.nextDecoding = p + 1,
         \/ user'.pc = "collect"
         \/ user'.pc = "relock" /\ p + 1 <= ThreadCount - 1 /\ fctx.nextFinished = 0
  PROVE  /\ \A t \in Thread : Turn(t)' = Turn(t)
         /\ \A t \in Thread : Turn(t) < Turn(p) + 1 => Turn(t)' < Turns'
<1>1. \A t : Turn(t)' = Turn(t)
  BY DEF Turn
<1>2. CASE user'.pc = "collect"
  <2>1. Turns' = IF p + 1 \in {fctx.nextFinished, fctx.nextFinished + ThreadCount}
                 THEN ThreadCount
                 ELSE IF p + 1 = ThreadCount THEN Turn(0) ELSE Turn(p + 1)
    BY <1>1, <1>2 DEF Turns, Turn
  <2>2. Turns' = ThreadCount \/ Turns' = Turn(p) + 1
    BY <2>1, FrameThreadsAssumption DEF Turn, Thread
  <2> QED BY <1>1, <2>2, TurnFacts, FrameThreadsAssumption DEF Thread
<1>3. CASE user'.pc = "relock" /\ p + 1 <= ThreadCount - 1 /\ fctx.nextFinished = 0
  <2>1. Turns' = Turn(p + 1)
    BY <1>1, <1>3 DEF Turns, Turn
  <2>2. Turn(p + 1) = Turn(p) + 1
    BY <1>3, FrameThreadsAssumption DEF Turn, Thread
  <2> QED BY <1>1, <2>1, <2>2
<1> QED BY <1>2, <1>3

-----------------------------------------------------------------------------
(* The user's thread.                                                      *)

(* What the frames do not depend on, and a frame that is taken away.       *)
SameWork(w, v) ==
  /\ v.pc = w.pc /\ v.ret = w.ret /\ v.state = w.state /\ v.avpkt = w.avpkt
  /\ v.needs = w.needs /\ v.avctx = w.avctx /\ v.frame \in {None, w.frame}

(* A step that leaves every thread at its work, or takes a finished frame  *)
(* away, keeps what is said of the frames.                                 *)
LEMMA Quiet ==
  ASSUME \A t \in Thread : FrameOK(t), UNCHANGED <<codec, progress>>,
         \A t \in Thread : SameWork(threads[t], threads'[t])
  PROVE  /\ \A t \in Thread : FrameOK(t)'
         /\ OnPacket' = OnPacket /\ OnDrain' \subseteq OnDrain
<1>1. \A q : Complete(q)' <=> Complete(q)
  BY DEF Complete, SameWork, Predicted
<1>2. ASSUME NEW t \in Thread PROVE FrameOK(t)'
  <2>1. FrameOK(t) /\ SameWork(threads[t], threads'[t])
    OBVIOUS
  <2> QED BY <1>1, <2>1 DEF FrameOK, SameWork, Predicted, Unpredicted, Decoded
<1>3. OnPacket' = OnPacket /\ OnDrain' \subseteq OnDrain
  BY DEF OnPacket, OnDrain, SameWork
<1> QED BY <1>2, <1>3

(* A step that hands out no packet and collects none.                      *)
LEMMA QuietKeeps ==
  ASSUME LockInv, FrameInv, UNCHANGED <<codec, fctx, progress>>,
         \A t \in Thread : SameWork(threads[t], threads'[t]),
         user.pc \notin {"serve", "collect"}, user'.pc # "serve",
         user'.pc = "collect" => user.pc = "submit" /\ user'.finished = fctx.nextFinished,
         DrainInv', GotInv', FramesAreComplete'
  PROVE  FrameInv'
<1>0. fctx \in FctxRecord /\ fctx.nextFinished \in Thread /\ fctx.nextDecoding \in Thread
  BY UserFacts DEF FctxRecord, UserOK
<1>1. /\ \A t \in Thread : FrameOK(t)'
      /\ OnPacket' = OnPacket /\ OnDrain' \subseteq OnDrain
  BY Quiet DEF FrameInv
<1>2. \A t : Turn(t)' = Turn(t)
  BY DEF Turn
<1>3. ASSUME NEW t \in Thread, Turn(t) < Turns PROVE Turn(t)' < Turns'
  <2>1. Turns = Turn(fctx.nextDecoding)
    BY DEF Turns
  <2>2. fctx.nextDecoding # ThreadCount
    BY <1>0, FrameThreadsAssumption DEF Thread
  <2>3. Turns' \in {Turn(fctx.nextDecoding), ThreadCount}
    BY <1>2, <2>2 DEF Turns, Turn
  <2> QED BY <1>0, <1>2, <1>3, <2>1, <2>3, TurnFacts, FrameThreadsAssumption
<1>4. user'.pc = "collect" => \A t \in Thread : Turn(user.finished)' <= Turn(t)'
  <2>1. ASSUME user'.pc = "collect", NEW t \in Thread PROVE Turn(user'.finished) <= Turn(t)
    BY <1>0, <2>1, TurnFacts, FrameThreadsAssumption
  <2> QED BY <1>2, <2>1 DEF Turn
<1>5. OnPacket \subseteq Thread /\ OnDrain \subseteq Thread
  BY DEF OnPacket, OnDrain
<1>6. RingInv'
  <2>1. \A t \in OnPacket' : Turn(t)' < Turns'
    BY <1>1, <1>3, <1>5 DEF FrameInv, RingInv
  <2>2. \A t \in OnPacket', u \in OnDrain' : Turn(t)' < Turn(u)'
    BY <1>1, <1>2 DEF FrameInv, RingInv
  <2>3. user'.pc = "collect" => \A t \in OnPacket' \cup OnDrain' : Turn(user.finished)' <= Turn(t)'
    BY <1>1, <1>4, <1>5
  <2> QED BY <2>1, <2>2, <2>3 DEF RingInv
<1> QED BY <1>1, <1>6 DEF FrameInv

(* The packet is handed to the thread whose turn it is.                    *)
LEMMA Starts ==
  ASSUME LockInv, FrameInv, NEW p \in Thread, p = fctx.nextDecoding, user.pc = "waitPrev",
         UNCHANGED <<codec, progress>>,
         threads' = [threads EXCEPT ![p].avctx = ContextFrom(fctx.prev, p),
                                    ![p].avpkt = user.pkt,
                                    ![p].state = "SETTING_UP"]
  PROVE  /\ \A t \in Thread : FrameOK(t)'
         /\ \A t \in OnPacket' : t \in Thread /\ Turn(t) < Turn(p) + 1
         /\ \A t \in OnPacket', u \in OnDrain' : u \in Thread /\ Turn(t) < Turn(u)
         /\ ~avci.draining => OnDrain' = {}
<1> DEFINE c == ContextFrom(fctx.prev, p)
<1>0. /\ threads \in [Thread -> ThreadRecord] /\ user.pkt \in Packet \cup {Drain}
      /\ threads[p].pc = "idle" /\ Decoding /\ fctx.prev \in Thread \cup {None}
      /\ avci.draining <=> user.pkt = Drain
      /\ ~Resetting /\ fctx.nextFinished \in Thread
      /\ \A t \in Thread : FrameOK(t)
      /\ codec \in Codecs
  <2>1. user.pkt \in Packet \cup {Drain, None} /\ user.pkt # None /\ Decoding /\ user.holds = p
    BY UserFacts, UserFacts DEF UserRecord, UserOK
  <2>2. threads[p].pc = "idle"
    BY <2>1, UserFacts, Names DEF HeldIsIdle
  <2>3. ~Resetting
    BY <2>1 DEF Decoding, Resetting
  <2> QED BY <2>1, <2>2, <2>3, UserFacts DEF FrameInv, DrainInv, FctxRecord
<1>1. /\ threads'[p].pc = "idle" /\ threads'[p].state = "SETTING_UP"
      /\ threads'[p].avpkt = user.pkt /\ threads'[p].avctx = c
  <2> HIDE DEF c
  <2>1. threads' = [threads EXCEPT ![p].avctx = c, ![p].avpkt = user.pkt,
                                   ![p].state = "SETTING_UP"]
    BY DEF c
  <2> QED BY <1>0, <2>1 DEF ThreadRecord
<1>2. \A t \in Thread \ {p} : threads'[t] = threads[t]
  BY <1>0
<1>3. \A q : Complete(q)' <=> Complete(q)
  BY <1>0, <1>1, <1>2 DEF Complete, Predicted
<1>4. /\ c.held # <<>> => c.ref # None /\ c.held = <<c.ref>>
      /\ c.ref # None => codec.updates /\ Complete(c.ref)
  <2>1. \A t \in Thread :
          /\ threads[t].avctx.held # <<>> =>
               threads[t].avctx.ref # None /\ threads[t].avctx.held = <<threads[t].avctx.ref>>
          /\ threads[t].avctx.ref # None => codec.updates /\ Complete(threads[t].avctx.ref)
    BY <1>0 DEF FrameOK
  <2>2. CASE fctx.prev = None
    BY <2>1, <2>2 DEF ContextFrom
  <2>3. CASE fctx.prev # None /\ codec.updates
    BY <1>0, <2>1, <2>3 DEF ContextFrom
  <2>4. CASE fctx.prev # None /\ ~codec.updates
    <3>1. threads[p].avctx \in ContextRecord
      BY <1>0 DEF ThreadRecord
    <3>2. c.ref = threads[p].avctx.ref /\ c.held = threads[p].avctx.held
      BY <2>4, <3>1 DEF ContextFrom, ContextRecord
    <3> QED BY <2>1, <3>2
  <2> QED BY <2>2, <2>3, <2>4, CodecOK, <1>0
<1> HIDE DEF c
<1>5. ASSUME NEW t \in Thread PROVE FrameOK(t)'
  <2>1. CASE t # p
    <3>1. FrameOK(t) /\ threads'[t] = threads[t] /\ codec' = codec /\ progress' = progress
      BY <1>0, <1>2, <2>1
    <3> QED BY <1>3, <3>1 DEF FrameOK, Predicted, Unpredicted, Decoded
  <2>2. CASE t = p
    BY <1>1, <1>3, <1>4, <2>2 DEF FrameOK, Predicted, Unpredicted, Decoded
  <2> QED BY <2>1, <2>2
<1>6. ASSUME NEW t \in OnPacket' PROVE t \in Thread /\ Turn(t) < Turn(p) + 1
  <2>1. t \in Thread
    BY DEF OnPacket
  <2>2. CASE t = p
    BY <1>0, <2>2, TurnFacts, FrameThreadsAssumption
  <2>3. CASE t # p
    <3>1. t \in OnPacket
      BY <1>2, <2>1, <2>3 DEF OnPacket
    <3>2. Turn(t) < Turn(p)
      BY <3>1 DEF FrameInv, RingInv, Turns
    <3> QED BY <1>0, <2>1, <3>2, TurnFacts, FrameThreadsAssumption
  <2> QED BY <2>1, <2>2, <2>3
<1>7. \A u \in OnDrain' \ {p} : u \in OnDrain /\ u \in Thread
  BY <1>2 DEF OnDrain
<1>8. ~avci.draining => OnDrain' = {}
  <2>1. ~avci.draining => OnDrain = {} /\ user.pkt # Drain
    BY <1>0 DEF FrameInv, DrainInv
  <2>2. ~avci.draining => p \notin OnDrain'
    BY <1>1, <2>1 DEF OnDrain
  <2> QED BY <1>7, <2>1, <2>2
<1>9. ASSUME NEW t \in OnPacket', NEW u \in OnDrain' PROVE u \in Thread /\ Turn(t) < Turn(u)
  <2>1. user.pkt = Drain
    BY <1>0, <1>8
  <2>2. t # p
    BY <1>1, <2>1, Names DEF OnPacket
  <2>3. t \in OnPacket
    BY <1>2, <2>2 DEF OnPacket
  <2>4. CASE u = p
    BY <2>3, <2>4 DEF FrameInv, RingInv, Turns
  <2>5. CASE u # p
    BY <1>7, <2>3, <2>5 DEF FrameInv, RingInv
  <2> QED BY <2>4, <2>5
<1> QED BY <1>5, <1>6, <1>8, <1>9

(* The submitting side goes on to the next thread.                         *)
LEMMA Counts ==
  ASSUME LockInv, FrameInv, NEW p \in Thread, p = fctx.nextDecoding,
         user.pc \in {"waitPrev", "serve"}, user'.pc = AfterSubmit(Counted(p)),
         UNCHANGED <<progress, apiVars>>, fctx' = Counted(p),
         user'.call = user.call, user'.pkt = user.pkt, user'.finished = user.finished,
         user'.got = user.got, user'.err = user.err,
         \A t \in Thread : FrameOK(t)',
         \A t \in OnPacket' : t \in Thread /\ Turn(t) < Turn(p) + 1,
         \A t \in OnPacket', u \in OnDrain' : u \in Thread /\ Turn(t) < Turn(u),
         ~avci.draining => OnDrain' = {}
  PROVE  FrameInv'
<1>0. /\ Decoding /\ ~Resetting /\ fctx \in FctxRecord /\ fctx.nextFinished \in Thread
      /\ avci.draining <=> user.pkt = Drain
      /\ user.finished = fctx.nextFinished
  BY UserFacts DEF UserOK, FctxRecord, FrameInv, DrainInv, Decoding, Resetting
<1>1. PICK d \in BOOLEAN :
        /\ fctx' = [fctx EXCEPT !.prev = p, !.nextDecoding = @ + 1, !.delaying = d]
        /\ d => fctx.delaying /\ p + 1 <= ThreadCount - 1
  <2>1. (fctx.delaying /\ fctx.nextDecoding + 1 <= ThreadCount - 1) \in BOOLEAN
    OBVIOUS
  <2> QED BY <2>1 DEF Counted
<1>2. /\ fctx'.nextFinished = fctx.nextFinished /\ fctx'.nextDecoding = p + 1
      /\ fctx'.delaying = d
  BY <1>0, <1>1 DEF FctxRecord
<1>3. /\ user'.pc \in {"collect", "relock"}
      /\ user'.pc = "relock" => d /\ ~avci.draining
      /\ ~avci.draining /\ user'.pc = "collect" => ~d
  BY <1>0, <1>2 DEF AfterSubmit
<1>4. ~avci.draining /\ d => fctx.nextFinished = 0
  BY <1>0, <1>1 DEF FrameInv, DrainInv
<1>5. /\ \A t \in Thread : Turn(t)' = Turn(t)
      /\ \A t \in Thread : Turn(t) < Turn(p) + 1 => Turn(t)' < Turns'
  BY <1>0, <1>1, <1>2, <1>3, <1>4, TurnsCounted
<1>6. RingInv'
  <2>1. \A t \in OnPacket' : Turn(t)' < Turns'
    BY <1>5
  <2>2. \A t \in OnPacket', u \in OnDrain' : Turn(t)' < Turn(u)'
    BY <1>5
  <2>3. ASSUME NEW t \in OnPacket' \cup OnDrain' PROVE Turn(user.finished)' <= Turn(t)'
    <3>1. t \in Thread
      BY DEF OnPacket, OnDrain
    <3> QED BY <1>0, <1>5, <3>1, TurnFacts, FrameThreadsAssumption
  <2> QED BY <2>1, <2>2, <2>3 DEF RingInv
<1>7. DrainInv'
  <2>1. avci' = avci
    BY DEF apiVars
  <2> QED BY <1>0, <1>2, <1>3, <1>4, <2>1 DEF DrainInv, Decoding, Resetting
<1>8. GotInv' /\ FramesAreComplete'
  BY DEF FrameInv, GotInv, FramesAreComplete, apiVars
<1> QED BY <1>6, <1>7, <1>8 DEF FrameInv

(* The result of the thread whose turn it is.                              *)
LEMMA ResultComplete ==
  ASSUME LockInv, FrameInv, NEW p \in Thread, p = user.finished, user.pc = "collect",
         Finished(p), threads[p].frame # None
  PROVE  threads[p].frame \in progress
<1>1. threads[p].state = "INPUT_READY" /\ StateOK(p) /\ FrameOK(p)
  BY DEF LockInv, FrameInv, Finished
<1>2. Decoded(threads[p])
  BY <1>1 DEF StateOK, Decoded
<1>3. CASE threads[p].avpkt # Drain
  BY <1>1, <1>2, <1>3 DEF FrameOK
<1>4. CASE threads[p].avpkt = Drain
  <2>1. Complete(threads[p].frame) /\ p \in OnDrain
    BY <1>1, <1>2, <1>4 DEF FrameOK, OnDrain
  <2>2. ASSUME NEW t \in Thread, Predicted(threads[t]) PROVE FALSE
    <3>1. t \in OnPacket
      BY <2>2 DEF LockInv, StateOK, Predicted, OnPacket, WithPacket
    <3>2. Turn(t) < Turn(p) /\ Turn(p) <= Turn(t)
      BY <2>1, <3>1 DEF FrameInv, RingInv
    <3>3. Turn(t) \in 0 .. ThreadCount - 1 /\ Turn(p) \in 0 .. ThreadCount - 1
      BY UserFacts, TurnFacts DEF FctxRecord
    <3> QED BY <3>2, <3>3, FrameThreadsAssumption
  <2> QED BY <2>1, <2>2 DEF Complete
<1> QED BY <1>3, <1>4

(* The loop that collects goes on, or ends.                                *)
LEMMA Collects ==
  ASSUME LockInv, FrameInv, Collect, UNCHANGED apiVars PROVE FrameInv'
<1> DEFINE n == (user.finished + 1) % ThreadCount
<1>1. PICK p \in Thread : p = user.finished
  BY UserFacts DEF UserRecord
<1>0. /\ n \in Thread /\ Decoding /\ ~Resetting /\ user.pc = "collect" /\ user \in UserRecord
      /\ threads \in [Thread -> ThreadRecord] /\ threads[p].state = "INPUT_READY"
      /\ fctx \in FctxRecord /\ fctx.nextFinished \in Thread
      /\ fctx.nextDecoding \in 0 .. ThreadCount
      /\ avci.draining <=> user.pkt = Drain
      /\ UNCHANGED <<codec, progress, avci, reply>>
      /\ threads[p] \in ThreadRecord
  BY <1>1, UserFacts, NextTurn DEF Collect, UserOK, FctxRecord, FrameInv, DrainInv, Decoding,
       Resetting, Finished, apiVars
<1>2. /\ threads' = [threads EXCEPT ![p].frame = None, ![p].result = "ok"]
      /\ \A t \in Thread : SameWork(threads[t], threads'[t])
      /\ threads'[p].frame = None /\ threads'[p].state = "INPUT_READY"
  <2>1. threads' = [threads EXCEPT ![p].frame = None, ![p].result = "ok"]
    BY <1>1 DEF Collect, TakeResult
  <2> QED BY <1>0, <2>1 DEF SameWork, ThreadRecord
<1>3. /\ \A t \in Thread : FrameOK(t)'
      /\ OnPacket' = OnPacket /\ OnDrain' \subseteq OnDrain
  BY <1>0, <1>2, Quiet DEF FrameInv
<1>4. p \notin OnPacket' /\ p \notin OnDrain'
  BY <1>2 DEF OnPacket, OnDrain
<1>5. ASSUME NEW t \in OnPacket' \cup OnDrain'
      PROVE  t \in Thread /\ Turn(t) \in Turn(p) + 1 .. ThreadCount - 1
  <2>1. t \in Thread /\ t # p
    BY <1>4 DEF OnPacket, OnDrain
  <2>2. Turn(p) <= Turn(t)
    BY <1>0, <1>1, <1>3 DEF FrameInv, RingInv
  <2>3. /\ Turn(t) \in 0 .. ThreadCount - 1 /\ Turn(p) \in 0 .. ThreadCount - 1
        /\ Turn(t) # Turn(p)
    BY <1>0, <2>1, TurnFacts
  <2> QED BY <2>1, <2>2, <2>3, FrameThreadsAssumption
<1>6. PICK again \in BOOLEAN :
        /\ again => user.pkt = Drain /\ n # fctx.nextFinished
        /\ user'.pc = IF again THEN "collect" ELSE "relock"
        /\ user'.finished = n /\ user'.call = user.call /\ user'.pkt = user.pkt
        /\ ~user'.err => user'.got = threads[p].frame
        /\ fctx' = IF again THEN fctx
                   ELSE [fctx EXCEPT !.nextFinished = n, !.nextDecoding = @ % ThreadCount]
  <2>1. PICK again, e, g :
          /\ again \in BOOLEAN /\ e \in BOOLEAN
          /\ again => user.pkt = Drain /\ n # fctx.nextFinished
          /\ ~e => g = threads[p].frame
          /\ user' = [user EXCEPT !.finished = n, !.err = e, !.got = g,
                                  !.pc = IF again THEN "collect" ELSE "relock"]
          /\ fctx' = IF again THEN fctx
                     ELSE [fctx EXCEPT !.nextFinished = n, !.nextDecoding = @ % ThreadCount]
    <3> DEFINE e == threads[user.finished].result = "error"
               g == IF e THEN threads[user.finished].avpkt ELSE threads[user.finished].frame
               again == Again(threads[user.finished].frame, e, n)
    <3>1. again \in BOOLEAN /\ e \in BOOLEAN
      BY DEF Again
    <3>2. again => user.pkt = Drain /\ n # fctx.nextFinished
      BY DEF Again
    <3>3. /\ user' = [user EXCEPT !.finished = n, !.err = e, !.got = g,
                                  !.pc = IF again THEN "collect" ELSE "relock"]
          /\ fctx' = IF again THEN fctx
                     ELSE [fctx EXCEPT !.nextFinished = n, !.nextDecoding = @ % ThreadCount]
      BY DEF Collect
    <3>4. ~e => g = threads[p].frame
      BY <1>1
    <3> HIDE DEF e, g, again
    <3> QED BY <3>1, <3>2, <3>3, <3>4
  <2> HIDE DEF n
  <2> QED BY <1>0, <2>1 DEF UserRecord
<1>7. RingInv'
  <2>1. CASE again
    <3>1. fctx' = fctx /\ user'.pc = "collect"
      BY <1>6, <2>1
    <3>2. (\A t : Turn(t)' = Turn(t)) /\ Turns' = Turns
      BY <1>0, <3>1 DEF Turn, Turns
    <3>3. \A t \in OnPacket' : Turn(t)' < Turns'
      BY <1>3, <3>2 DEF FrameInv, RingInv
    <3>4. \A t \in OnPacket', u \in OnDrain' : Turn(t)' < Turn(u)'
      BY <1>3, <3>2 DEF FrameInv, RingInv
    <3>5. ASSUME NEW t \in OnPacket' \cup OnDrain' PROVE Turn(user.finished)' <= Turn(t)'
      <4>1. Turn(n) = Turn(p) + 1
        BY <1>0, <1>1, <1>6, <2>1, TurnAfter
      <4>2. Turn(user.finished)' = Turn(n)
        BY <1>6, <3>1 DEF Turn
      <4>3. Turn(p) + 1 <= Turn(t)
        BY <1>0, <1>5, TurnFacts, FrameThreadsAssumption
      <4> QED BY <3>2, <4>1, <4>2, <4>3
    <3> QED BY <3>3, <3>4, <3>5 DEF RingInv
  <2>2. CASE ~again
    <3>0. PICK d \in Thread : d = fctx.nextDecoding % ThreadCount
      BY <1>0, WrapTurn
    <3>1. /\ user'.pc = "relock" /\ fctx'.nextFinished = n /\ fctx'.nextDecoding = d
          /\ d = IF fctx.nextDecoding = ThreadCount THEN 0 ELSE fctx.nextDecoding
      BY <1>0, <1>6, <2>2, <3>0, WrapTurn DEF FctxRecord
    <3>2. \A t \in Thread :
            Turn(t)' = IF Turn(t) > Turn(p) THEN Turn(t) - Turn(p) - 1
                       ELSE Turn(t) - Turn(p) - 1 + ThreadCount
      BY <1>0, <1>1, <3>1, TurnMoves
    <3>3. Turns' = Turn(d)'
      BY <3>1 DEF Turns, Turn
    <3>4. \/ Turns = ThreadCount /\ d = fctx.nextFinished
          \/ Turns = Turn(d)
      BY <1>0, <3>1, FrameThreadsAssumption DEF Turns, Thread
    <3>5. /\ \A t \in Thread : Turn(t) \in 0 .. ThreadCount - 1
          /\ Turn(fctx.nextFinished) = 0
      BY <1>0, TurnFacts
    <3>6. ASSUME NEW t \in OnPacket' PROVE Turn(t)' < Turns'
      <4>1. Turn(t) < Turns /\ t \in Thread /\ Turn(t) \in Turn(p) + 1 .. ThreadCount - 1
        BY <1>3, <1>5 DEF FrameInv, RingInv
      <4>2. Turn(t)' = Turn(t) - Turn(p) - 1
        BY <3>2, <3>5, <4>1, FrameThreadsAssumption
      <4>3. Turn(d)' = IF Turn(d) > Turn(p) THEN Turn(d) - Turn(p) - 1
                       ELSE Turn(d) - Turn(p) - 1 + ThreadCount
        BY <3>1, <3>2
      <4>4. Turn(d) \in 0 .. ThreadCount - 1 /\ Turn(p) \in 0 .. ThreadCount - 1
        BY <3>1, <3>5
      <4>5. CASE Turns = Turn(d)
        BY <3>3, <4>1, <4>2, <4>3, <4>4, <4>5, FrameThreadsAssumption
      <4>6. CASE Turns = ThreadCount /\ d = fctx.nextFinished
        <5>1. Turn(d) = 0
          BY <3>5, <4>6
        <5> QED BY <3>3, <4>1, <4>2, <4>3, <4>4, <4>6, <5>1, FrameThreadsAssumption
      <4> QED BY <3>4, <4>5, <4>6
    <3>7. ASSUME NEW t \in OnPacket', NEW u \in OnDrain' PROVE Turn(t)' < Turn(u)'
      <4>1. Turn(t) < Turn(u)
        BY <1>3 DEF FrameInv, RingInv
      <4>2. /\ t \in Thread /\ Turn(t) \in Turn(p) + 1 .. ThreadCount - 1
            /\ u \in Thread /\ Turn(u) \in Turn(p) + 1 .. ThreadCount - 1
        BY <1>5
      <4>3. Turn(t)' = Turn(t) - Turn(p) - 1 /\ Turn(u)' = Turn(u) - Turn(p) - 1
        BY <3>2, <3>5, <4>2, FrameThreadsAssumption
      <4> QED BY <3>5, <4>1, <4>2, <4>3, FrameThreadsAssumption
    <3> QED BY <3>1, <3>6, <3>7 DEF RingInv
  <2> QED BY <2>1, <2>2
<1>8. DrainInv'
  <2>1. ~avci.draining => OnDrain = {} /\ ~fctx.delaying
    BY <1>0 DEF FrameInv, DrainInv
  <2>2. fctx'.delaying = fctx.delaying
    BY <1>0, <1>6 DEF FctxRecord
  <2> QED BY <1>0, <1>3, <1>6, <2>1, <2>2 DEF DrainInv, Decoding, Resetting
<1>9. GotInv'
  BY <1>0, <1>1, <1>6, ResultComplete DEF GotInv, Finished
<1>10. FramesAreComplete'
  BY <1>0 DEF FrameInv, FramesAreComplete
<1> QED BY <1>3, <1>7, <1>8, <1>9, <1>10 DEF FrameInv

(* A step of the user's thread inside the threads keeps the invariant.     *)
LEMMA UserKeepsFrames ==
  ASSUME LockInv, FrameInv, InThreads, UNCHANGED apiVars PROVE FrameInv'
<1>0. /\ threads \in [Thread -> ThreadRecord] /\ user \in UserRecord /\ fctx \in FctxRecord
      /\ fctx.nextDecoding \in 0 .. ThreadCount /\ fctx.nextFinished \in Thread
      /\ UserOK /\ DrainInv /\ GotInv /\ FramesAreComplete
      /\ UNCHANGED <<avci, reply>>
  BY UserFacts DEF FrameInv, FctxRecord, apiVars
<1>t. ASSUME UNCHANGED threads PROVE \A t \in Thread : SameWork(threads[t], threads'[t])
  BY <1>t DEF SameWork
<1>1. CASE AsyncUnlock
  <2>1. /\ UNCHANGED <<codec, fctx, progress, threads>> /\ user.pc = "unlock"
        /\ user'.pc \in {"park", "submit"} /\ user'.call = user.call /\ user'.pkt = user.pkt
        /\ user'.pc = "submit" => user'.finished = fctx.nextFinished
        /\ user'.err = user.err /\ user'.got = user.got
    BY <1>0, <1>1 DEF AsyncUnlock, UserRecord
  <2>2. DrainInv'
    BY <1>0, <2>1 DEF DrainInv, Decoding, Resetting, OnDrain
  <2>3. GotInv' /\ FramesAreComplete'
    BY <1>0, <2>1 DEF GotInv, FramesAreComplete
  <2> QED BY <1>t, <2>1, <2>2, <2>3, QuietKeeps
<1>2. CASE AsyncRelock
  <2>1. /\ UNCHANGED <<codec, fctx, progress, threads>> /\ user.pc = "relock"
        /\ user'.pc = "returned" /\ user'.call = user.call /\ user'.pkt = user.pkt
        /\ user'.err = user.err /\ user'.got = user.got
    BY <1>0, <1>2 DEF AsyncRelock, UserRecord
  <2>2. DrainInv'
    BY <1>0, <2>1 DEF DrainInv, Decoding, Resetting, OnDrain
  <2>3. GotInv' /\ FramesAreComplete'
    BY <1>0, <2>1 DEF GotInv, FramesAreComplete
  <2> QED BY <1>t, <2>1, <2>2, <2>3, QuietKeeps
<1>3. CASE SubmitNothing
  <2>1. /\ UNCHANGED <<codec, fctx, progress, threads>> /\ user.pc = "submit"
        /\ user'.pc = "collect" /\ user'.call = user.call /\ user'.pkt = user.pkt
        /\ user'.finished = user.finished
        /\ user'.err = user.err /\ user'.got = user.got /\ user.pkt = Drain
    BY <1>0, <1>3 DEF SubmitNothing, UserRecord
  <2>2. DrainInv'
    BY <1>0, <2>1 DEF DrainInv, Decoding, Resetting, OnDrain, UserOK
  <2>3. GotInv' /\ FramesAreComplete'
    BY <1>0, <2>1 DEF GotInv, FramesAreComplete
  <2>4. user'.finished = fctx.nextFinished
    BY <1>0, <2>1 DEF DrainInv
  <2> QED BY <1>t, <2>1, <2>2, <2>3, <2>4, QuietKeeps
<1>4. CASE SubmitLock
  <2>1. /\ UNCHANGED <<codec, fctx, progress>> /\ user.pc = "submit"
        /\ user'.pc = "waitPrev" /\ user'.call = user.call /\ user'.pkt = user.pkt
        /\ user'.finished = user.finished
        /\ user'.err = user.err /\ user'.got = user.got
        /\ threads' = [threads EXCEPT ![fctx.nextDecoding].released = 0]
    BY <1>0, <1>4 DEF SubmitLock, UserRecord
  <2>2. \A t \in Thread : SameWork(threads[t], threads'[t])
    BY <1>0, <2>1 DEF SameWork, ThreadRecord
  <2>3. OnDrain' \subseteq OnDrain
    BY <2>2 DEF OnDrain, SameWork
  <2>4. DrainInv'
    BY <1>0, <2>1, <2>3 DEF DrainInv, Decoding, Resetting
  <2>5. GotInv' /\ FramesAreComplete'
    BY <1>0, <2>1 DEF GotInv, FramesAreComplete
  <2> QED BY <2>1, <2>2, <2>4, <2>5, QuietKeeps
<1>5. CASE SubmitStart
  <2>1. PICK p \in Thread : p = fctx.nextDecoding /\ user.pc = "waitPrev"
    BY <1>0, <1>5 DEF SubmitStart, UserOK
  <2>2. CASE ~SetupDone(fctx.prev)
    <3>1. UNCHANGED <<codec, fctx, user, apiVars, threads, progress>>
      BY <1>5, <2>2 DEF SubmitStart
    <3>2. (\A q : Complete(q) => Complete(q)') /\ FrameOK(p)'
      BY <3>1 DEF Complete, FrameInv, FrameOK
    <3> QED BY <3>1, <3>2, FramesMove
  <2>3. CASE SetupDone(fctx.prev)
    <3>1. /\ UNCHANGED <<codec, progress>>
          /\ threads' = [threads EXCEPT ![p].avctx = ContextFrom(fctx.prev, p),
                                        ![p].avpkt = user.pkt,
                                        ![p].state = "SETTING_UP"]
      BY <1>5, <2>1, <2>3 DEF SubmitStart
    <3>2. /\ \A t \in Thread : FrameOK(t)'
          /\ \A t \in OnPacket' : t \in Thread /\ Turn(t) < Turn(p) + 1
          /\ \A t \in OnPacket', u \in OnDrain' : u \in Thread /\ Turn(t) < Turn(u)
          /\ ~avci.draining => OnDrain' = {}
      BY <2>1, <3>1, Starts
    <3>3. CASE CallsBack
      <4>1. /\ user'.pc = "serve" /\ user'.call = user.call /\ user'.pkt = user.pkt
            /\ user'.finished = user.finished /\ UNCHANGED <<fctx, avci, reply>>
            /\ user'.err = user.err /\ user'.got = user.got
        BY <1>0, <1>5, <2>3, <3>3 DEF SubmitStart, UserRecord
      <4>2. (\A t : Turn(t)' = Turn(t)) /\ Turns' = Turn(p) + 1
        BY <2>1, <4>1 DEF Turn, Turns
      <4>3. RingInv'
        BY <3>2, <4>1, <4>2 DEF RingInv
      <4>4. DrainInv'
        BY <1>0, <2>1, <3>2, <4>1 DEF DrainInv, Decoding, Resetting
      <4>5. GotInv' /\ FramesAreComplete'
        BY <1>0, <3>1, <4>1 DEF GotInv, FramesAreComplete
      <4> QED BY <3>2, <4>3, <4>4, <4>5 DEF FrameInv
    <3>4. CASE ~CallsBack
      <4>1. /\ user'.pc = AfterSubmit(Counted(p)) /\ fctx' = Counted(p)
            /\ user'.call = user.call /\ user'.pkt = user.pkt
            /\ user'.finished = user.finished
            /\ user'.err = user.err /\ user'.got = user.got
        BY <1>0, <1>5, <2>1, <2>3, <3>4 DEF SubmitStart, UserRecord
      <4> QED BY <2>1, <3>1, <3>2, <4>1, Counts
    <3> QED BY <3>3, <3>4
  <2> QED BY <2>2, <2>3
<1>6. CASE Serve
  <2>1. PICK p \in Thread : p = fctx.nextDecoding /\ user.pc = "serve"
    BY <1>0, <1>6 DEF Serve, UserOK
  <2>2. CASE threads[p].state = "SETTING_UP"
    <3>1. UNCHANGED <<codec, fctx, user, apiVars, threads, progress>>
      BY <1>6, <2>1, <2>2 DEF Serve
    <3>2. (\A q : Complete(q) => Complete(q)') /\ FrameOK(p)'
      BY <3>1 DEF Complete, FrameInv, FrameOK
    <3> QED BY <3>1, <3>2, FramesMove
  <2>3. CASE threads[p].state \in {"GET_BUFFER", "GET_FORMAT"}
    <3>1. /\ UNCHANGED <<codec, fctx, user, apiVars, progress>>
          /\ threads' = [threads EXCEPT ![p].state = "SETTING_UP"]
      BY <1>6, <2>1, <2>3 DEF Serve
    <3>2. /\ threads[p].pc \in {"formatWait", "bufferWait"} /\ FrameOK(p)
          /\ threads[p] \in ThreadRecord
      BY <1>0, <2>3 DEF FrameInv, LockInv, StateOK
    <3>3. /\ \A u \in Thread \ {p} : threads'[u] = threads[u]
          /\ threads'[p].pc = threads[p].pc /\ threads'[p].ret = threads[p].ret
          /\ threads'[p].avpkt = threads[p].avpkt /\ threads'[p].needs = threads[p].needs
          /\ threads'[p].avctx = threads[p].avctx /\ threads'[p].frame = threads[p].frame
      BY <1>0, <3>1, <3>2 DEF ThreadRecord
    <3>4. \A q : Complete(q) => Complete(q)'
      BY <3>1, <3>3, CompleteStays DEF Predicted
    <3>5. FrameOK(p)'
      BY <3>1, <3>2, <3>3, <3>4 DEF FrameOK, Predicted, Unpredicted, Decoded
    <3> QED BY <2>3, <3>1, <3>3, <3>4, <3>5, FramesMove
  <2>4. CASE threads[p].state \in {"SETUP_FINISHED", "INPUT_READY"}
    <3>1. /\ UNCHANGED <<codec, progress, threads>> /\ fctx' = Counted(p)
          /\ user'.pc = AfterSubmit(Counted(p)) /\ user'.call = user.call
          /\ user'.pkt = user.pkt /\ user'.finished = user.finished
          /\ user'.err = user.err /\ user'.got = user.got
      BY <1>0, <1>6, <2>1, <2>4 DEF Serve, UserRecord
    <3>2. /\ \A t \in Thread : FrameOK(t)'
          /\ OnPacket' = OnPacket /\ OnDrain' \subseteq OnDrain
      BY <1>t, <3>1, Quiet DEF FrameInv
    <3>3. \A t \in OnPacket : t \in Thread /\ Turn(t) < Turn(p) + 1
      BY <2>1 DEF FrameInv, RingInv, Turns, OnPacket
    <3>4. \A t \in OnPacket', u \in OnDrain' : u \in Thread /\ Turn(t) < Turn(u)
      BY <3>2 DEF FrameInv, RingInv, OnDrain
    <3>5. ~avci.draining => OnDrain' = {}
      BY <1>0, <2>1, <3>2 DEF DrainInv, Resetting, UserOK, Decoding
    <3> QED BY <2>1, <3>1, <3>2, <3>3, <3>4, <3>5, Counts
  <2> QED BY <1>6, <2>1, <2>2, <2>3, <2>4 DEF Serve
<1>7. CASE Collect
  BY <1>7, Collects
<1>8. CASE Park
  <2>1. /\ UNCHANGED <<codec, fctx, progress>> /\ user.pc = "park"
        /\ user'.pc \in {"park", "relock"} /\ user'.call = user.call
        /\ user'.err = user.err /\ user'.got = user.got
        /\ threads' = [threads EXCEPT ![user.finished].frame = None]
    BY <1>0, <1>8 DEF Park, UserRecord
  <2>2. \A t \in Thread : SameWork(threads[t], threads'[t])
    BY <1>0, <2>1 DEF SameWork, ThreadRecord
  <2>3. OnDrain' \subseteq OnDrain
    BY <2>2 DEF OnDrain, SameWork
  <2>4. DrainInv'
    BY <1>0, <2>1, <2>3 DEF DrainInv, Decoding, Resetting, UserOK
  <2>5. GotInv' /\ FramesAreComplete'
    BY <1>0, <2>1 DEF GotInv, FramesAreComplete
  <2> QED BY <2>1, <2>2, <2>4, <2>5, QuietKeeps
<1>9. CASE Kill
  <2>1. /\ UNCHANGED <<codec, fctx, progress>> /\ user.pc = "kill"
        /\ user'.pc = "joinThread" /\ user'.call = user.call
        /\ user'.err = user.err /\ user'.got = user.got
        /\ threads' = [threads EXCEPT ![user.finished].die = TRUE]
    BY <1>0, <1>9 DEF Kill, UserRecord
  <2>2. \A t \in Thread : SameWork(threads[t], threads'[t])
    BY <1>0, <2>1 DEF SameWork, ThreadRecord
  <2>3. OnDrain' \subseteq OnDrain
    BY <2>2 DEF OnDrain, SameWork
  <2>4. DrainInv'
    BY <1>0, <2>1, <2>3 DEF DrainInv, Decoding, Resetting, UserOK
  <2>5. GotInv' /\ FramesAreComplete'
    BY <1>0, <2>1 DEF GotInv, FramesAreComplete
  <2> QED BY <2>1, <2>2, <2>4, <2>5, QuietKeeps
<1>10. CASE JoinThread
  <2>1. /\ UNCHANGED <<codec, fctx, progress, threads>> /\ user.pc = "joinThread"
        /\ user'.pc \in {"kill", "joined"} /\ user'.call = user.call
        /\ user'.err = user.err /\ user'.got = user.got
    BY <1>0, <1>10 DEF JoinThread, UserRecord
  <2>2. DrainInv'
    BY <1>0, <2>1 DEF DrainInv, Decoding, Resetting, UserOK, OnDrain
  <2>3. GotInv' /\ FramesAreComplete'
    BY <1>0, <2>1 DEF GotInv, FramesAreComplete
  <2> QED BY <1>t, <2>1, <2>2, <2>3, QuietKeeps
<1> QED BY <1>1, <1>2, <1>3, <1>4, <1>5, <1>6, <1>7, <1>8, <1>9, <1>10 DEF InThreads

-----------------------------------------------------------------------------
(* The calls.                                                              *)

(* A step of a call that does not touch the threads.                       *)
LEMMA CallMovesFrames ==
  ASSUME LockInv, FrameInv, UNCHANGED othersOfThreads,
         user.pc \notin {"serve", "collect"},
         user'.pc \in {"out", "get", "sent", "unlock", "kill"},
         user'.pc = "unlock" /\ user'.call \in {"send", "receive"} =>
           (avci'.draining <=> user'.pkt = Drain),
         Resetting => Resetting',
         avci.draining => avci'.draining \/ Resetting',
         ~user'.err /\ user'.got # None => user'.got \in progress,
         avci'.frame \in progress \cup {None},
         reply'.ret = "frame" => reply'.about \in progress
  PROVE  FrameInv'
<1>1. UNCHANGED <<codec, fctx, progress, threads>>
  BY DEF othersOfThreads
<1>2. \A t \in Thread : SameWork(threads[t], threads'[t])
  BY <1>1 DEF SameWork
<1>3. DrainInv'
  BY <1>1 DEF FrameInv, DrainInv, Decoding, Resetting, OnDrain
<1>4. GotInv' /\ FramesAreComplete'
  BY <1>1 DEF GotInv, FramesAreComplete
<1> QED BY <1>1, <1>2, <1>3, <1>4, QuietKeeps

(* The calls begin.                                                        *)
LEMMA CallKeepsFrames ==
  ASSUME LockInv, FrameInv, Call PROVE FrameInv'
<1>0. /\ user.pc = "out" /\ user.call = "none" /\ ~Resetting /\ avci \in AvciRecord
      /\ FramesAreComplete /\ GotInv
  BY UserFacts DEF FrameInv, Call, SendTooLate, SendRefused, SendAccepted, SendNull,
         ReceiveBuffered, ReceiveDecodes, Flush, Close, UserOK, Resetting
<1>e. ASSUME NEW pc \in {"get", "sent", "unlock"},
             NEW call \in {"send", "receive", "flush", "close"}, Enter(pc, call)
      PROVE  user'.pc = pc /\ user'.call = call /\ user'.got = None
  BY <1>e DEF Enter, Outside
<1>1. CASE SendTooLate \/ SendRefused
  <2>1. /\ UNCHANGED othersOfThreads /\ UNCHANGED <<user, avci>>
        /\ reply'.ret # "frame"
    BY <1>1 DEF SendTooLate, SendRefused, Answer, threadVars, othersOfThreads
  <2> QED BY <1>0, <2>1, CallMovesFrames DEF GotInv, FramesAreComplete, Resetting
<1>2. CASE SendAccepted
  <2>1. /\ UNCHANGED othersOfThreads /\ UNCHANGED reply
        /\ avci'.draining = avci.draining /\ avci'.frame = avci.frame
    BY <1>0, <1>2 DEF SendAccepted, AvciRecord
  <2>2. user'.pc \in {"get", "sent"} /\ user'.call = "send" /\ user'.got = None
    BY <1>2, <1>e DEF SendAccepted
  <2> QED BY <1>0, <2>1, <2>2, CallMovesFrames DEF FramesAreComplete
<1>3. CASE SendNull
  <2>1. /\ UNCHANGED othersOfThreads /\ UNCHANGED reply
        /\ avci'.draining = avci.draining /\ avci'.frame = avci.frame
    BY <1>0, <1>3 DEF SendNull, AvciRecord
  <2>2. user'.pc \in {"get", "sent"} /\ user'.call = "send" /\ user'.got = None
    BY <1>3, <1>e DEF SendNull
  <2> QED BY <1>0, <2>1, <2>2, CallMovesFrames DEF FramesAreComplete
<1>4. CASE ReceiveBuffered
  <2>1. /\ UNCHANGED othersOfThreads /\ UNCHANGED user
        /\ avci'.draining = avci.draining /\ avci'.frame = None
        /\ reply'.about = avci.frame
    BY <1>0, <1>4 DEF ReceiveBuffered, AvciRecord, Answer, threadVars, othersOfThreads
  <2>2. avci.frame \in progress
    BY <1>0, <1>4 DEF ReceiveBuffered, FramesAreComplete
  <2> QED BY <1>0, <2>1, <2>2, CallMovesFrames DEF GotInv, FramesAreComplete, Resetting
<1>5. CASE ReceiveDecodes
  <2>1. UNCHANGED othersOfThreads /\ UNCHANGED <<reply, avci>>
    BY <1>5 DEF ReceiveDecodes, apiVars
  <2>2. user'.pc = "get" /\ user'.call = "receive" /\ user'.got = None
    BY <1>5, <1>e DEF ReceiveDecodes
  <2> QED BY <1>0, <2>1, <2>2, CallMovesFrames DEF FramesAreComplete
<1>6. CASE Flush
  <2>1. UNCHANGED othersOfThreads /\ UNCHANGED reply /\ avci'.frame = None
    BY <1>6 DEF Flush, NewAvci
  <2>2. user'.pc = "unlock" /\ user'.call = "flush" /\ user'.got = None
    BY <1>6, <1>e DEF Flush
  <2> QED BY <1>0, <2>1, <2>2, CallMovesFrames DEF FramesAreComplete, Resetting
<1>7. CASE Close
  <2>1. UNCHANGED othersOfThreads /\ UNCHANGED <<reply, avci>>
    BY <1>7 DEF Close, apiVars
  <2>2. user'.pc = "unlock" /\ user'.call = "close" /\ user'.got = None
    BY <1>7, <1>e DEF Close
  <2> QED BY <1>0, <2>1, <2>2, CallMovesFrames DEF FramesAreComplete, Resetting
<1> QED BY <1>1, <1>2, <1>3, <1>4, <1>5, <1>6, <1>7 DEF Call

(* New threads, of a flush or of another decoder, have no frames.          *)
LEMMA NewThreadsFrames ==
  ASSUME UNCHANGED codec, fctx' = NewFctx, user' = Outside,
         \A t \in Thread :
           /\ threads'[t].pc = "idle" /\ threads'[t].state = "INPUT_READY"
           /\ threads'[t].frame = None /\ threads'[t].avpkt = None
           /\ threads'[t].avctx.held = <<>> /\ threads'[t].avctx.ref = None,
         FramesAreComplete'
  PROVE  FrameInv'
<1>1. OnPacket' = {} /\ OnDrain' = {}
  BY Names DEF OnPacket, OnDrain
<1>2. \A t \in Thread : FrameOK(t)'
  BY DEF FrameOK, Predicted, Unpredicted, Decoded
<1>3. RingInv' /\ GotInv'
  BY <1>1 DEF RingInv, GotInv, Outside
<1>4. DrainInv'
  BY <1>1 DEF DrainInv, Decoding, Resetting, NewFctx, Outside
<1> QED BY <1>2, <1>3, <1>4 DEF FrameInv

(* A thread as the opening or the reset of the codec makes it has no       *)
(* frame.                                                                  *)
LEMMA BlankFrames ==
  ASSUME NEW b
  PROVE  LET w == [NewThread EXCEPT !.avctx.hwaccel = b]
         IN  /\ w.pc = "idle" /\ w.state = "INPUT_READY" /\ w.frame = None /\ w.avpkt = None
             /\ w.avctx.held = <<>> /\ w.avctx.ref = None
  BY DEF NewThread, BlankContext

(* The steps inside a call.                                                *)
LEMMA InsideCallKeepsFrames ==
  ASSUME LockInv, FrameInv, InsideCall PROVE FrameInv'
<1>0. /\ user \in UserRecord /\ avci \in AvciRecord /\ UserOK
      /\ FramesAreComplete /\ GotInv
  BY UserFacts DEF FrameInv
<1>f. avci.frame \in progress \cup {None}
  BY <1>0 DEF FramesAreComplete
<1>o. Outside.pc = "out" /\ Outside.got = None
  BY DEF Outside
<1>1. CASE SendReturns
  <2>1. UNCHANGED othersOfThreads /\ UNCHANGED avci /\ reply'.ret = "ok" /\ user' = Outside
    BY <1>1 DEF SendReturns, Answer
  <2>2. user.pc = "sent" /\ ~Resetting
    BY <1>0, <1>1 DEF SendReturns, UserOK, Decoding, Resetting
  <2> QED BY <1>f, <1>o, <2>1, <2>2, CallMovesFrames
<1>2. CASE GetNothing \/ GetEnd
  <2>1. UNCHANGED othersOfThreads /\ UNCHANGED avci /\ reply'.ret # "frame" /\ user' = Outside
    BY <1>2 DEF GetNothing, GetEnd, Ends, Answer
  <2>2. user.pc = "get" /\ ~Resetting
    BY <1>0, <1>2 DEF GetNothing, GetEnd, UserOK, Decoding, Resetting
  <2> QED BY <1>f, <1>o, <2>1, <2>2, CallMovesFrames
<1>3. CASE GetPacket
  <2>1. /\ UNCHANGED othersOfThreads /\ UNCHANGED reply
        /\ avci'.draining = avci.draining /\ avci'.frame = avci.frame
        /\ ~avci.draining /\ avci.bsf \in Packet
    BY <1>0, <1>3 DEF GetPacket, AvciRecord
  <2>2. user.pc = "get" /\ ~Resetting
    BY <1>0, <1>3 DEF GetPacket, UserOK, Decoding, Resetting
  <2>3. user'.pc = "unlock" /\ user'.pkt = avci.bsf /\ user'.got = None
    BY <1>0, <1>3 DEF GetPacket, UserRecord
  <2> QED BY <1>0, <1>f, <2>1, <2>2, <2>3, Names, CallMovesFrames DEF FramesAreComplete
<1>4. CASE GetDrain
  <2>1. /\ UNCHANGED othersOfThreads /\ UNCHANGED reply
        /\ avci'.draining /\ avci'.frame = avci.frame
    BY <1>0, <1>4 DEF GetDrain, AvciRecord
  <2>2. user.pc = "get" /\ ~Resetting
    BY <1>0, <1>4 DEF GetDrain, UserOK, Decoding, Resetting
  <2>3. user'.pc = "unlock" /\ user'.pkt = Drain /\ user'.got = None
    BY <1>0, <1>4 DEF GetDrain, UserRecord
  <2> QED BY <1>0, <1>f, <2>1, <2>2, <2>3, CallMovesFrames DEF FramesAreComplete
<1>5. CASE GotFrame
  <2>1. /\ user.pc = "returned" /\ ~Resetting /\ user.got \in progress
        /\ UNCHANGED othersOfThreads /\ user' = Outside
    BY <1>0, <1>5 DEF GotFrame, InDecode, Resetting, GotInv, Ends
  <2>2. CASE user.call = "send"
    <3>1. avci'.frame = user.got /\ avci'.draining = avci.draining /\ reply'.ret # "frame"
      BY <1>0, <1>5, <2>2 DEF GotFrame, Ends, Answer, AvciRecord
    <3> QED BY <1>o, <2>1, <3>1, CallMovesFrames
  <2>3. CASE user.call # "send"
    <3>1. UNCHANGED avci /\ reply'.about = user.got
      BY <1>5, <2>3 DEF GotFrame, Ends, Answer
    <3> QED BY <1>f, <1>o, <2>1, <3>1, CallMovesFrames
  <2> QED BY <2>2, <2>3
<1>6. CASE GotError
  <2>1. /\ user.pc = "returned" /\ ~Resetting
        /\ UNCHANGED othersOfThreads /\ user' = Outside /\ reply'.ret # "frame"
    BY <1>0, <1>6 DEF GotError, InDecode, Resetting, Ends, Answer
  <2>2. avci'.frame = avci.frame /\ avci'.draining = avci.draining
    BY <1>0, <1>6 DEF GotError, AvciRecord
  <2> QED BY <1>f, <1>o, <2>1, <2>2, CallMovesFrames
<1>7. CASE GotNothing
  <2>1. /\ user.pc = "returned" /\ ~Resetting
        /\ UNCHANGED othersOfThreads /\ UNCHANGED reply
        /\ avci'.frame = avci.frame /\ avci'.draining = avci.draining
    BY <1>0, <1>7 DEF GotNothing, InDecode, Resetting, AvciRecord
  <2>2. user'.pc = "get" /\ user'.got = None
    BY <1>0, <1>7 DEF GotNothing, UserRecord
  <2> QED BY <1>0, <1>f, <2>1, <2>2, CallMovesFrames DEF FramesAreComplete
<1>8. CASE CloseThreads
  <2>1. /\ UNCHANGED othersOfThreads /\ UNCHANGED <<reply, avci>> /\ user.pc = "returned"
        /\ user'.pc = "kill" /\ user'.call = user.call /\ user'.got = user.got
        /\ user'.err = user.err
    BY <1>0, <1>8 DEF CloseThreads, apiVars, UserRecord
  <2> QED BY <1>0, <1>f, <2>1, CallMovesFrames DEF FramesAreComplete, GotInv, Resetting
<1>9. CASE FlushReturns
  <2>1. /\ fctx' = NewFctx /\ user' = Outside /\ UNCHANGED <<codec, progress>>
        /\ reply'.ret = "ok" /\ avci'.frame = avci.frame
    BY <1>0, <1>9 DEF FlushReturns, FlushThreads, Answer, AvciRecord
  <2>2. ASSUME NEW t \in Thread
        PROVE  /\ threads'[t].pc = "idle" /\ threads'[t].state = "INPUT_READY"
               /\ threads'[t].frame = None /\ threads'[t].avpkt = None
               /\ threads'[t].avctx.held = <<>> /\ threads'[t].avctx.ref = None
    <3>1. PICK b : threads'[t] = [NewThread EXCEPT !.avctx.hwaccel = b]
      BY <1>9 DEF FlushReturns, FlushThreads
    <3> QED BY <3>1, BlankFrames
  <2>3. FramesAreComplete'
    BY <1>0, <2>1 DEF FramesAreComplete
  <2> QED BY <2>1, <2>2, <2>3, NewThreadsFrames
<1>10. CASE CloseAndOpen
  <2>1. FramesAreComplete'
    BY <1>10 DEF CloseAndOpen, FramesAreComplete, NewAvci, Answer
  <2>2. ASSUME NEW t \in Thread
        PROVE  /\ threads'[t].pc = "idle" /\ threads'[t].state = "INPUT_READY"
               /\ threads'[t].frame = None /\ threads'[t].avpkt = None
               /\ threads'[t].avctx.held = <<>> /\ threads'[t].avctx.ref = None
    BY <1>10 DEF CloseAndOpen, NewThread, BlankContext
  <2> QED BY <1>10, <2>1, <2>2, NewThreadsFrames DEF CloseAndOpen
<1>11. CASE InThreads /\ UNCHANGED apiVars
  BY <1>11, UserKeepsFrames
<1> QED BY <1>1, <1>2, <1>3, <1>4, <1>5, <1>6, <1>7, <1>8, <1>9, <1>10, <1>11 DEF InsideCall

-----------------------------------------------------------------------------
(* The order of the threads and what their frames are, in every state.     *)
THEOREM FrameInvariance == Spec => []FrameInv
<1>1. Init => FrameInv
  BY FrameInit
<1>2. LockInv /\ LockInv' /\ FrameInv /\ [Next]_vars => FrameInv'
  <2> SUFFICES ASSUME LockInv, LockInv', FrameInv, [Next]_vars PROVE FrameInv'
    OBVIOUS
  <2>1. CASE Next
    BY <2>1, CallKeepsFrames, InsideCallKeepsFrames, WorkerKeepsFrames DEF Next
  <2>2. CASE UNCHANGED vars
    BY <2>2 DEF vars, threadVars, apiVars, FrameInv, FrameOK, Predicted, Complete, Unpredicted,
         Decoded, Turn, OnPacket, OnDrain, Turns, RingInv, Resetting, Decoding, DrainInv, GotInv,
         FramesAreComplete
  <2> QED BY <2>1, <2>2
<1> QED BY <1>1, <1>2, LockInvariance, PTL DEF Spec

(* FramesAreComplete: an application that receives a frame finds every row *)
(* of it decoded, whatever the workers do at that moment.                  *)
THEOREM FramesComplete == Spec => []FramesAreComplete
<1>1. FrameInv => FramesAreComplete
  BY DEF FrameInv
<1> QED BY <1>1, FrameInvariance, PTL
=============================================================================
