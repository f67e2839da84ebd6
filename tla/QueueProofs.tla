---------------------------- MODULE QueueProofs -----------------------------
(***************************************************************************)
(* Proofs that SendReceive implements DecoderQueue, for any number of      *)
(* threads and packets and any codecs: the initial states map to initial   *)
(* states and every step to a step of the queue or to none.                *)
(*                                                                         *)
(* First the inductive invariant QueueInv, on top of LockInv and FrameInv: *)
(* where each packet of `inside' is, in which order and how many there     *)
(* are.  While the application flushes or closes, nothing is said: the     *)
(* queue is emptied when the call returns.                                 *)
(***************************************************************************)
EXTENDS SendReceiveProofs, FiniteSetTheorems

-----------------------------------------------------------------------------
(* Where the packets are.                                                  *)

(* The decoder knows what comes of the packet: a frame, none or an error.  *)
Settled(w) == Predicted(w) \/ Decoded(w)

Undecided(t) == threads[t].avpkt \in Packet /\ ~Settled(threads[t])

Failed(t) == threads[t].result = "error"

(* The packet that the result of thread t is going to answer.              *)
Awaited(t) == IF Undecided(t) \/ Failed(t) THEN threads[t].avpkt ELSE threads[t].frame

(* Thread t is at work or has a result that was not collected.             *)
Busy(t) == ~Finished(t) \/ threads[t].frame # None \/ Failed(t)

(* The thread that was handed something last: it has the newest context.   *)
Last == IF user.pc = "serve" THEN fctx.nextDecoding ELSE fctx.prev

(* The frame a context holds back.                                         *)
Kept(t) == IF threads[t].avctx.held = <<>> THEN None ELSE threads[t].avctx.ref

Latent == IF Last = None THEN None ELSE Kept(Last)

(* What is handed over but on no thread yet.                               *)
Entering == IF user.pc \in {"unlock", "submit", "waitPrev"} THEN user.pkt ELSE None

Somewhere(x) ==
  \/ x \in {avci.frame, avci.bsf, user.got, Entering, Latent}
  \/ \E t \in Thread : Awaited(t) = x

PlaceInv ==
  /\ inside \subseteq Packet
  /\ \A x \in inside : x < next
  /\ ~Resetting => \A x \in Packet : x \in inside <=> Somewhere(x)

FlagInv ==
  /\ avci.draining => avci.eof
  /\ avci.done => avci.draining
  /\ avci.eof => avci.bsf = None
  /\ ~avci.draining => avci.errors = 0
  /\ user.call = "flush" => ~avci.draining /\ avci.frame = None

(* The thread handed something last is the one before the next one.        *)
PrevInv == fctx.prev # None => fctx.nextDecoding \in {fctx.prev + 1, (fctx.prev + 1) % ThreadCount}

(* A thread that waits for a callback, or may still ask for one, is served.*)
WaitOK(t) ==
  LET w == threads[t] IN
  /\ w.pc = "formatWait" => w.state \in {"GET_FORMAT", "SETTING_UP"}
  /\ w.pc = "bufferWait" => w.state \in {"GET_BUFFER", "SETTING_UP"}
  /\ w.state \in {"GET_FORMAT", "GET_BUFFER"} => CallsBack
  /\ CallsBack /\ w.state \in {"SETTING_UP", "GET_FORMAT", "GET_BUFFER"} =>
       user.pc = "serve" /\ t = fctx.nextDecoding

ResultOK(t) ==
  LET w == threads[t] IN
  /\ ~Settled(w) => w.frame = None /\ ~Failed(t)
  /\ Failed(t) => Decoded(w) /\ w.frame = None /\ w.avpkt \in codec.broken
  /\ w.avpkt = Drain /\ Decoded(w) => Kept(t) = None
  /\ ~codec.updates => w.frame \in {None, w.avpkt}
  /\ codec.reorder = 0 \/ ~codec.updates => Kept(t) = None
  /\ w.frame # None =>
       /\ w.frame \notin codec.broken
       /\ w.avpkt # Drain => w.avpkt \in Packet /\ w.frame <= w.avpkt

-----------------------------------------------------------------------------
(* In which order they are.                                                *)

(* All that the threads were handed came before packet x.                  *)
Newest(x) ==
  /\ \A t \in Thread : threads[t].avpkt \in Packet => threads[t].avpkt < x
  /\ Latent # None => Latent < x
  /\ \A y \in inside : y <= x

NewInv ==
  /\ Newest(next)
  /\ avci.bsf # None => Newest(avci.bsf)
  /\ Entering \in Packet => Newest(Entering)
  /\ user.pc \notin {"out", "sent", "get"} => avci.bsf = None
  /\ user.pc \notin {"relock", "returned"} => user.got = None /\ ~user.err

(* Threads later in the turn have later packets and later frames.          *)
LineInv ==
  /\ \A t, u \in Thread :
       Turn(t) < Turn(u) /\ Awaited(t) # None /\ Awaited(u) # None =>
         /\ threads[t].avpkt \in Packet /\ threads[u].avpkt \in Packet =>
              threads[t].avpkt < threads[u].avpkt
         /\ threads[t].frame # None => threads[t].frame < Awaited(u)
  /\ Latent # None =>
       /\ Latent \notin codec.broken
       /\ \A t \in Thread :
            /\ Undecided(t) => Latent < threads[t].avpkt
            /\ threads[t].frame # None => threads[t].frame < Latent

(* Frame f comes before what is on the threads and in the slot.            *)
Foremost(f) ==
  /\ f \notin codec.broken
  /\ avci.bsf # None => f < avci.bsf
  /\ \A t \in Thread : Awaited(t) # None => f < Awaited(t)
  /\ Latent # None => f < Latent

HandInv ==
  /\ avci.frame # None => Foremost(avci.frame)
  /\ user.got # None /\ ~user.err => Foremost(user.got)
  /\ user.err => user.got \in codec.broken /\ \A t \in Thread : Awaited(t) # user.got

BusyInv ==
  /\ \A t \in Thread : Busy(t) => Turn(t) < Turns /\ Last # None
  /\ user.pc = "collect" => \A t \in Thread : Busy(t) => Turn(user.finished) <= Turn(t)
  /\ codec.updates => \A t \in Thread : t = Last \/ Settled(threads[t])
  /\ Last = None => \A t \in Thread : Kept(t) = None

-----------------------------------------------------------------------------
(* How many there are, before draining.                                    *)

(* A thread that has taken its packet in without putting out a frame: the  *)
(* decoder holds that frame back from then on.                             *)
Gap(t) == Turn(t) < Turns /\ Awaited(t) = None

GapInv ==
  /\ \A t \in Thread : Gap(t) =>
       /\ codec.reorder = 1 /\ Latent # None
       /\ \A u \in Thread :
            /\ Gap(u) => t = u
            /\ threads[u].frame # None => Turn(t) < Turn(u)
  /\ codec.reorder = 1 /\ Latent = None => \A t \in Thread : threads[t].frame = None

(* The frame held back is one more than the threads answer.                *)
Primed == codec.reorder = 1 /\ Latent # None /\ \A t \in Thread : ~Gap(t)

One(b) == IF b THEN 1 ELSE 0

CountInv ==
  Cardinality(inside) = One(avci.frame # None) + One(avci.bsf # None) + One(Entering # None)
                          + One(user.got # None) + Turns + One(Primed)

(* After the first frames, a packet is submitted for every one collected.  *)
DelayInv ==
  /\ ~fctx.delaying =>
       Turns = IF user.pc \in {"serve", "collect"} THEN ThreadCount ELSE ThreadCount - 1
  /\ user.pc = "collect" => user.finished = fctx.nextFinished

(* With a frame in hand, the threads and the decoder have all they hold.   *)
FullInv ==
  (\/ avci.frame # None
   \/ avci.bsf # None /\ user.pc \in {"out", "sent"}
   \/ user.got # None /\ ~user.err) => ~fctx.delaying /\ (codec.reorder = 1 => Primed)

-----------------------------------------------------------------------------
(* The end of the stream.                                                  *)

MayFail == {t \in Thread : Busy(t) /\ threads[t].avpkt \in Packet}

EndInv ==
  /\ avci.errors + One(user.err) + Cardinality(MayFail) <= ThreadCount
  /\ codec.capDelay /\ user.pc \in {"serve", "collect"} => Last # None /\ threads[Last].avpkt = Drain
  /\ user.pc \in {"relock", "returned"} /\ user.got = None => inside = {}
  /\ avci.done => inside = {}

QueueInv ==
  /\ PlaceInv
  /\ FlagInv
  /\ PrevInv
  /\ ~Resetting =>
       /\ \A t \in Thread : WaitOK(t) /\ ResultOK(t)
       /\ NewInv /\ LineInv /\ HandInv /\ BusyInv
       /\ ~avci.draining => GapInv /\ CountInv /\ DelayInv /\ FullInv
       /\ avci.draining => EndInv


-----------------------------------------------------------------------------
(* What every proof needs.                                                 *)

(* What the packets and frames of a thread may be.                         *)
LEMMA ThreadTypes ==
  ASSUME LockInv, FrameInv, NEW t \in Thread
  PROVE  /\ threads[t].avpkt \in Packet \cup {Drain, None}
         /\ threads[t].frame \in Packet \cup {None}
         /\ Kept(t) \in Packet \cup {None}
         /\ threads[t].state # "INPUT_READY" => threads[t].avpkt \in Packet \cup {Drain}
         /\ threads[t].state = "INPUT_READY" => Settled(threads[t])
         /\ codec.broken \subseteq Packet
         /\ ~Finished(t) <=> threads[t].state # "INPUT_READY"
<1>1. /\ threads[t] \in ThreadRecord /\ threads[t].avctx \in ContextRecord
      /\ StateOK(t) /\ FrameOK(t) /\ codec \in Codecs
  BY WorkerFacts DEF FrameInv
<1>2. codec.broken \subseteq Packet
  BY <1>1, FrameThreadsAssumption DEF Codec
<1>3. Kept(t) \in Packet \cup {None}
  BY <1>1 DEF Kept, ContextRecord
<1>4. threads[t].state = "INPUT_READY" => Settled(threads[t])
  BY <1>1 DEF StateOK, Settled, Decoded
<1> QED BY <1>1, <1>2, <1>3, <1>4 DEF ThreadRecord, StateOK, Finished

(* What a thread is waited for.                                            *)
LEMMA AwaitedTypes ==
  ASSUME LockInv, FrameInv, NEW t \in Thread, ResultOK(t)
  PROVE  /\ Awaited(t) \in Packet \cup {None}
         /\ Awaited(t) # None => Busy(t)
         /\ Undecided(t) => Awaited(t) = threads[t].avpkt /\ threads[t].frame = None
         /\ threads[t].frame # None => Awaited(t) = threads[t].frame
         /\ Finished(t) => ~Undecided(t)
<1>1. /\ codec.broken \subseteq Packet /\ threads[t].frame \in Packet \cup {None}
      /\ Finished(t) => Settled(threads[t])
  BY ThreadTypes DEF Finished
<1> QED BY <1>1 DEF Awaited, Undecided, ResultOK, Busy

(* The context handed on last.                                             *)
LEMMA LatentTypes ==
  ASSUME LockInv, FrameInv
  PROVE  /\ Last \in Thread \cup {None}
         /\ Latent \in Packet \cup {None}
         /\ fctx.nextFinished \in Thread
<1>1. /\ fctx.prev \in Thread \cup {None} /\ fctx.nextFinished \in Thread
      /\ user.pc = "serve" => fctx.nextDecoding \in Thread
  BY UserFacts DEF FctxRecord, UserOK
<1>2. Last \in Thread \cup {None}
  BY <1>1 DEF Last
<1> QED BY <1>1, <1>2, ThreadTypes DEF Latent

(* What of a thread the queue depends on.                                  *)
Similar(w, v) ==
  /\ v.avpkt = w.avpkt /\ v.frame = w.frame /\ v.result = w.result
  /\ v.avctx.held = w.avctx.held /\ v.avctx.ref = w.avctx.ref
  /\ Settled(v) <=> Settled(w)
  /\ Decoded(w) => Decoded(v)
  /\ w.avpkt = Drain /\ Decoded(v) => Decoded(w)
  /\ v.state # "INPUT_READY" => w.state # "INPUT_READY"

(* Threads that stay as they are for the queue.                            *)
LEMMA SimilarThreads ==
  ASSUME \A t \in Thread : Similar(threads[t], threads'[t]), NEW t \in Thread,
         UNCHANGED codec
  PROVE  /\ threads'[t].avpkt = threads[t].avpkt /\ threads'[t].frame = threads[t].frame
         /\ Awaited(t)' = Awaited(t) /\ Kept(t)' = Kept(t)
         /\ Undecided(t)' <=> Undecided(t)
         /\ Settled(threads'[t]) <=> Settled(threads[t])
         /\ Busy(t)' => Busy(t)
         /\ ResultOK(t) => ResultOK(t)'
<1>1. Similar(threads[t], threads'[t])
  OBVIOUS
<1>2. Undecided(t)' <=> Undecided(t)
  BY <1>1 DEF Undecided, Similar
<1>3. Failed(t)' <=> Failed(t)
  BY <1>1 DEF Failed, Similar
<1>4. Awaited(t)' = Awaited(t)
  BY <1>1, <1>2, <1>3 DEF Awaited, Similar
<1>5. Kept(t)' = Kept(t)
  BY <1>1 DEF Kept, Similar
<1>6. Busy(t)' => Busy(t)
  BY <1>1, <1>3 DEF Busy, Finished, Similar
<1>7. ASSUME ResultOK(t) PROVE ResultOK(t)'
  BY <1>1, <1>3, <1>5, <1>7 DEF ResultOK, Similar
<1> QED BY <1>1, <1>2, <1>4, <1>5, <1>6, <1>7 DEF Similar

-----------------------------------------------------------------------------
(* The turns that may be taken are no more than the threads.               *)
LEMMA TurnsType ==
  ASSUME LockInv
  PROVE  Turns \in 0 .. ThreadCount
<1>0. /\ fctx.nextFinished \in Thread /\ fctx.nextDecoding \in 0 .. ThreadCount
      /\ user.pc # "collect" => fctx.nextDecoding \in Thread
      /\ 0 \in Thread
  BY UserFacts, Names DEF FctxRecord, UserOK
<1>1. \A t \in Thread : Turn(t) \in 0 .. ThreadCount - 1
  BY <1>0, TurnFacts
<1>2. CASE user.pc # "collect"
  BY <1>0, <1>1, <1>2, FrameThreadsAssumption DEF Turns
<1>3. CASE user.pc = "collect"
  BY <1>0, <1>1, <1>3, FrameThreadsAssumption DEF Turns, Thread
<1> QED BY <1>2, <1>3

-----------------------------------------------------------------------------
(* The turn of the thread that was handed something last.                  *)
LEMMA LastTurn ==
  ASSUME LockInv, FrameInv, PrevInv, Last # None, Turns > 0
  PROVE  Turn(Last) = Turns - 1
<1>0. /\ fctx.nextFinished \in Thread /\ fctx.nextDecoding \in 0 .. ThreadCount
      /\ user.pc # "collect" => fctx.nextDecoding \in Thread
      /\ fctx.prev \in Thread \cup {None}
  BY UserFacts DEF FctxRecord, UserOK
<1>1. CASE user.pc = "serve"
  <2>1. fctx.nextDecoding \in Thread /\ Last = fctx.nextDecoding /\ Turns = Turn(Last) + 1
    BY <1>0, <1>1 DEF Last, Turns
  <2>2. Turn(Last) \in 0 .. ThreadCount - 1
    BY <1>0, <2>1, TurnFacts
  <2> QED BY <2>1, <2>2, FrameThreadsAssumption
<1>2. CASE user.pc # "serve"
  <2>1. PICK p \in Thread : p = fctx.prev /\ Last = p
    BY <1>0, <1>2 DEF Last
  <2>2. PICK n \in Thread : /\ n = IF p + 1 = ThreadCount THEN 0 ELSE p + 1
                            /\ n = (p + 1) % ThreadCount
    BY NextTurn
  <2>3. fctx.nextDecoding \in {p + 1, n}
    BY <2>1, <2>2, Names DEF PrevInv
  <2>4. Turns \in {ThreadCount, Turn(n)} /\ (Turns = ThreadCount => n = fctx.nextFinished)
    <3>1. CASE user.pc = "collect"
      BY <1>0, <2>2, <2>3, <3>1, FrameThreadsAssumption DEF Turns, Turn, Thread
    <3>2. CASE user.pc # "collect"
      BY <1>0, <1>2, <2>2, <2>3, <3>2, FrameThreadsAssumption DEF Turns, Turn, Thread
    <3> QED BY <3>1, <3>2
  <2> QED BY <1>0, <2>1, <2>2, <2>4, FrameThreadsAssumption DEF Turn, Thread
<1> QED BY <1>1, <1>2

(* No busy thread comes after the one handed something last.               *)
LEMMA LastIsLast ==
  ASSUME LockInv, FrameInv, PrevInv, BusyInv, NEW t \in Thread, Busy(t)
  PROVE  /\ Last \in Thread /\ Turn(t) < Turns /\ Turn(Last) = Turns - 1 /\ Turn(t) <= Turn(Last)
         /\ t # Last => Turn(t) < Turn(Last)
         /\ Turn(t) \in Nat /\ Turns \in Nat
<1>1. Turn(t) < Turns /\ Last # None
  BY DEF BusyInv
<1>2. Last \in Thread /\ fctx.nextFinished \in Thread
  BY <1>1, LatentTypes
<1>3. /\ Turn(t) \in 0 .. ThreadCount - 1 /\ Turn(Last) \in 0 .. ThreadCount - 1
      /\ t # Last => Turn(t) # Turn(Last)
  BY <1>2, TurnFacts
<1>4. Turns \in Nat
  BY <1>2, TurnsType
<1>5. Turn(Last) = Turns - 1
  BY <1>1, <1>3, <1>4, LastTurn, FrameThreadsAssumption
<1> QED BY <1>1, <1>2, <1>3, <1>4, <1>5, FrameThreadsAssumption

(* There are finitely many threads.                                        *)
LEMMA ThreadsFinite ==
  IsFiniteSet(Thread) /\ Cardinality(Thread) = ThreadCount
  BY FS_Interval, FrameThreadsAssumption DEF Thread

-----------------------------------------------------------------------------
(* Steps the queue does not see.                                           *)

(* Flushing and closing keep the little that is said meanwhile.            *)
LEMMA ResetKeeps ==
  ASSUME QueueInv, UNCHANGED <<next, inside>>, FlagInv', PrevInv', Resetting'
  PROVE  QueueInv'
<1>1. PlaceInv'
  BY DEF QueueInv, PlaceInv
<1> QED BY <1>1 DEF QueueInv

(* What Similar threads show.                                              *)
LEMMA SimilarView ==
  ASSUME LockInv, FrameInv, UNCHANGED codec,
         \A t \in Thread : Similar(threads[t], threads'[t]),
         Last' = Last, fctx'.nextFinished = fctx.nextFinished
  PROVE  /\ Latent' = Latent
         /\ \A t : Turn(t)' = Turn(t)
         /\ \A t \in Thread : Turns' = Turns => (Gap(t)' <=> Gap(t))
<1>1. \A t : Turn(t)' = Turn(t)
  BY DEF Turn
<1>2. Latent' = Latent
  BY LatentTypes, SimilarThreads DEF Latent
<1>3. ASSUME NEW t \in Thread, Turns' = Turns PROVE Gap(t)' <=> Gap(t)
  BY <1>1, <1>3, SimilarThreads DEF Gap
<1> QED BY <1>1, <1>2, <1>3

(* A step after which threads, packets and frames are where they were.     *)
LEMMA QuietQueue ==
  ASSUME LockInv, FrameInv, QueueInv, ~Resetting,
         UNCHANGED <<codec, avci, next, inside>>,
         \A t \in Thread : Similar(threads[t], threads'[t]),
         \A t \in Thread : WaitOK(t)',
         user'.call = user.call, user'.got = user.got, user'.err = user.err,
         Last' = Last, PrevInv', fctx'.nextFinished = fctx.nextFinished,
         ~fctx.delaying => ~fctx'.delaying,
         Entering' = Entering \/ (avci.draining /\ Entering = Drain /\ Entering' = None),
         ~avci.draining => Turns' = Turns /\ DelayInv',
         \A t \in Thread : Busy(t) => Turn(t) < Turns',
         user'.pc = "collect" => \A t \in Thread : Busy(t) => Turn(user.finished)' <= Turn(t),
         user'.pc # user.pc => {user.pc, user'.pc} \cap {"out", "sent", "get"} = {},
         user.pc \in {"relock", "returned"} => user'.pc \in {"relock", "returned"},
         avci.draining /\ user'.pc \in {"relock", "returned"} => user.pc \in {"relock", "returned"},
         avci.draining /\ codec.capDelay /\ user'.pc \in {"serve", "collect"} =>
           user.pc \in {"serve", "collect"}
  PROVE  QueueInv'
<1>1. ~Resetting'
  BY DEF Resetting
<1>2. /\ Latent' = Latent
      /\ \A t : Turn(t)' = Turn(t)
      /\ \A t \in Thread : Turns' = Turns => (Gap(t)' <=> Gap(t))
  BY SimilarView
<1>3. \A t \in Thread :
        /\ threads'[t].avpkt = threads[t].avpkt /\ threads'[t].frame = threads[t].frame
        /\ Awaited(t)' = Awaited(t) /\ Kept(t)' = Kept(t)
        /\ Undecided(t)' <=> Undecided(t)
        /\ Settled(threads'[t]) <=> Settled(threads[t])
        /\ Busy(t)' => Busy(t)
        /\ ResultOK(t)'
  BY SimilarThreads DEF QueueInv
<1>4. PlaceInv'
  <2>1. ASSUME NEW x \in Packet PROVE Somewhere(x)' <=> Somewhere(x)
    BY <1>2, <1>3, Names DEF Somewhere
  <2> QED BY <1>1, <2>1 DEF QueueInv, PlaceInv
<1>5. FlagInv'
  BY DEF QueueInv, FlagInv
<1>6. NewInv'
  <2>1. \A x : Newest(x)' <=> Newest(x)
    BY <1>2, <1>3 DEF Newest
  <2>2. /\ Newest(next)
        /\ avci.bsf # None => Newest(avci.bsf)
        /\ Entering \in Packet => Newest(Entering)
        /\ user.pc \notin {"out", "sent", "get"} => avci.bsf = None
        /\ user.pc \notin {"relock", "returned"} => user.got = None /\ ~user.err
    BY DEF QueueInv, NewInv
  <2>3. Newest(next)' /\ (avci'.bsf # None => Newest(avci.bsf)')
    BY <2>1, <2>2 DEF Newest
  <2>4. Entering' \in Packet => Newest(Entering)'
    BY <1>2, <1>3, <2>2, Names DEF Newest
  <2> QED BY <2>2, <2>3, <2>4 DEF NewInv
<1>7. LineInv'
  BY <1>2, <1>3 DEF QueueInv, LineInv
<1>8. HandInv'
  BY <1>2, <1>3 DEF QueueInv, HandInv, Foremost
<1>9. BusyInv'
  BY <1>2, <1>3 DEF QueueInv, BusyInv
<1>10. ASSUME ~avci'.draining PROVE GapInv' /\ CountInv' /\ DelayInv' /\ FullInv'
  <2>1. Turns' = Turns /\ ~avci.draining /\ (\A t \in Thread : Gap(t)' <=> Gap(t)) /\ DelayInv'
    BY <1>2, <1>10
  <2>2. GapInv'
    BY <1>2, <1>3, <2>1 DEF QueueInv, GapInv
  <2>3. Primed' <=> Primed
    BY <1>2, <2>1 DEF Primed
  <2>4. CountInv'
    <3>1. CountInv /\ Entering' = Entering
      BY <2>1 DEF QueueInv
    <3> QED BY <2>1, <2>3, <3>1 DEF CountInv, One
  <2>5. FullInv'
    BY <2>1, <2>3 DEF QueueInv, FullInv
  <2> QED BY <2>1, <2>2, <2>4, <2>5
<1>11. ASSUME avci'.draining PROVE EndInv'
  <2>1. EndInv /\ avci.draining /\ avci' = avci
    BY <1>11 DEF QueueInv
  <2>2. MayFail' \subseteq MayFail /\ MayFail \subseteq Thread
    BY <1>3 DEF MayFail
  <2>3. IsFiniteSet(MayFail)
    BY <2>2, ThreadsFinite, FS_Subset
  <2>4. Cardinality(MayFail') <= Cardinality(MayFail) /\ Cardinality(MayFail) \in Nat
        /\ Cardinality(MayFail') \in Nat
    BY <2>2, <2>3, FS_Subset, FS_CardinalityType
  <2>5. avci'.errors + One(user'.err) + Cardinality(MayFail') <= ThreadCount
    <3>1. avci.errors \in Nat /\ One(user.err) \in Nat
      BY UserFacts DEF LockInv, TypeOK, AvciRecord, One
    <3>2. avci.errors + One(user.err) + Cardinality(MayFail) <= ThreadCount
      BY <2>1 DEF EndInv
    <3>3. One(user'.err) = One(user.err) /\ avci'.errors = avci.errors
      BY <2>1 DEF One
    <3> QED BY <2>4, <3>1, <3>2, <3>3, FrameThreadsAssumption
  <2>6. codec'.capDelay /\ user'.pc \in {"serve", "collect"} =>
          Last' # None /\ threads'[Last'].avpkt = Drain
    BY <1>3, <2>1, LatentTypes DEF EndInv
  <2> QED BY <2>1, <2>5, <2>6 DEF EndInv
<1> QED BY <1>1, <1>3, <1>4, <1>5, <1>6, <1>7, <1>8, <1>9, <1>10, <1>11 DEF QueueInv

-----------------------------------------------------------------------------
(* The workers.                                                            *)

(* A step of a worker that the queue does not see.                         *)
LEMMA WorkerIsQuiet ==
  ASSUME LockInv, FrameInv, QueueInv, NEW t \in Thread,
         UNCHANGED <<codec, fctx, user, avci, next, inside>>,
         \A u \in Thread \ {t} : threads'[u] = threads[u],
         ~Resetting => Similar(threads[t], threads'[t]) /\ WaitOK(t)'
  PROVE  QueueInv'
<1>1. FlagInv' /\ PrevInv'
  BY DEF QueueInv, FlagInv, PrevInv
<1>2. CASE Resetting
  <2>1. Resetting'
    BY <1>2 DEF Resetting
  <2> QED BY <1>1, <2>1, ResetKeeps
<1>3. CASE ~Resetting
  <2>1. \A u : Turn(u)' = Turn(u)
    BY DEF Turn
  <2>2. Turns' = Turns
    BY <2>1 DEF Turns
  <2>3. ASSUME NEW u \in Thread PROVE Similar(threads[u], threads'[u]) /\ WaitOK(u)'
    <3>1. CASE u = t
      BY <1>3, <3>1
    <3>2. CASE u # t
      <4>1. threads'[u] = threads[u] /\ WaitOK(u)
        BY <1>3, <3>2 DEF QueueInv
      <4>2. Similar(threads[u], threads'[u])
        BY <4>1 DEF Similar
      <4>3. WaitOK(u)'
        BY <4>1 DEF WaitOK, CallsBack
      <4> QED BY <4>2, <4>3
    <3> QED BY <3>1, <3>2
  <2>4. Last' = Last /\ Entering' = Entering
    BY DEF Last, Entering
  <2>5. ~avci.draining => DelayInv'
    BY <1>3, <2>2 DEF QueueInv, DelayInv
  <2>6. \A u \in Thread : Busy(u) => Turn(u) < Turns'
    BY <1>3, <2>2 DEF QueueInv, BusyInv
  <2>7. user'.pc = "collect" => \A u \in Thread : Busy(u) => Turn(user.finished)' <= Turn(u)
    BY <1>3, <2>1 DEF QueueInv, BusyInv
  <2> QED BY <1>1, <1>3, <2>2, <2>3, <2>4, <2>5, <2>6, <2>7, QuietQueue
<1> QED BY <1>2, <1>3

(* What the other steps of a worker do not change of it.                   *)
Carries(w, v) ==
  /\ v.avpkt = w.avpkt /\ v.frame = w.frame /\ v.result = w.result
  /\ v.avctx.ref = w.avctx.ref /\ v.avctx.held = w.avctx.held

(* The steps of a worker that decide nothing about its packet.             *)
LEMMA WorkerKeepsQueue ==
  ASSUME LockInv, FrameInv, QueueInv, NEW t \in Thread, WorkerStep(t),
         ~DecodeDrain(t), ~DecodeFails(t), ~Predict(t)
  PROVE  QueueInv'
<1> DEFINE w == threads[t]
           v == threads'[t]
<1>0. /\ threads \in [Thread -> ThreadRecord] /\ w \in ThreadRecord
      /\ \A u \in Thread \ {t} : threads'[u] = threads[u]
      /\ w.avctx \in ContextRecord
      /\ codec \in Codecs /\ UNCHANGED apiVars
      /\ StateOK(t)
  BY WorkerFacts, WorkerAlone DEF WorkerStep
<1>a. UNCHANGED <<avci, next, inside>>
  BY <1>0 DEF apiVars
<1>b. ~Resetting => WaitOK(t) /\ ResultOK(t)
  BY DEF QueueInv
<1>1. CASE Pick(t)
  <2>1. UNCHANGED <<codec, fctx, user>>
    BY <1>1 DEF Pick
  <2>2. /\ Carries(w, v)
        /\ w.pc = "idle" /\ v.state = w.state
        /\ \/ v.pc = "exited"
           \/ v.pc \in {"begin", "finish"} /\ w.state # "INPUT_READY" /\ v.ret = "begin"
    BY <1>0, <1>1 DEF Pick, ThreadRecord, Carries
  <2>3. Carries(w, v)
    BY <2>2
  <2>4. ~Resetting => Similar(w, v)
    BY <1>0, <2>2, <2>3, Names DEF Similar, Carries, Settled, Predicted, Decoded, StateOK, WithPacket
  <2>5. ~Resetting => WaitOK(t)'
    BY <1>0, <1>b, <2>1, <2>2 DEF WaitOK, CallsBack, StateOK, SetupFirst, SafeCallbacks
  <2> QED BY <1>0, <1>a, <2>1, <2>4, <2>5, WorkerIsQuiet
<1>2. CASE Begin(t)
  <2>1. UNCHANGED <<codec, fctx, user>>
    BY <1>2 DEF Begin
  <2>2. /\ v.avpkt = w.avpkt /\ v.frame = None /\ v.result = "ok" /\ v.avctx = w.avctx
        /\ w.pc = "begin" /\ v.pc = "setup" /\ v.state = w.state
    BY <1>0, <1>2 DEF Begin, ThreadRecord
  <2>3. ~Resetting => Carries(w, v)
    BY <1>0, <1>b, <2>2 DEF Carries, ResultOK, Settled, Predicted, Decoded, Failed, ThreadRecord
  <2>4. ~Resetting => Similar(w, v)
    BY <1>0, <2>2, <2>3, Names DEF Similar, Carries, Settled, Predicted, Decoded, StateOK, WithPacket
  <2>5. ~Resetting => WaitOK(t)'
    BY <1>0, <1>b, <2>1, <2>2 DEF WaitOK, CallsBack, StateOK, SetupFirst, SafeCallbacks
  <2> QED BY <1>0, <1>a, <2>1, <2>4, <2>5, WorkerIsQuiet
<1>3. CASE DecodeStarts(t)
  <2>1. UNCHANGED <<codec, fctx, user>>
    BY <1>3 DEF DecodeStarts
  <2>2. /\ Carries(w, v)
        /\ w.pc = "setup" /\ v.pc \in {"format", "buffer"} /\ v.state = w.state
    BY <1>0, <1>3 DEF DecodeStarts, ThreadRecord, Carries
  <2>3. Carries(w, v)
    BY <2>2
  <2>4. ~Resetting => Similar(w, v)
    BY <1>0, <2>2, <2>3, Names DEF Similar, Carries, Settled, Predicted, Decoded, StateOK, WithPacket
  <2>5. ~Resetting => WaitOK(t)'
    BY <1>0, <1>b, <2>1, <2>2 DEF WaitOK, CallsBack, StateOK, SetupFirst, SafeCallbacks
  <2> QED BY <1>0, <1>a, <2>1, <2>4, <2>5, WorkerIsQuiet
<1>4. CASE AskFormat(t)
  <2>1. UNCHANGED <<codec, fctx, user>>
    BY <1>4 DEF AskFormat
  <2>2. /\ Carries(w, v)
        /\ w.pc = "format" /\ v.pc = "formatWait"
        /\ v.state = IF codec.ownFormat THEN "GET_FORMAT" ELSE w.state
    BY <1>0, <1>4 DEF AskFormat, ThreadRecord, Carries
  <2>3. Carries(w, v)
    BY <2>2
  <2>4. ~Resetting => Similar(w, v)
    BY <1>0, <2>2, <2>3, Names DEF Similar, Carries, Settled, Predicted, Decoded, StateOK, WithPacket
  <2>5. ~Resetting => WaitOK(t)'
    BY <1>0, <1>b, <2>1, <2>2 DEF WaitOK, CallsBack, StateOK, SetupFirst, SafeCallbacks
  <2> QED BY <1>0, <1>a, <2>1, <2>4, <2>5, WorkerIsQuiet
<1>5. CASE GotFormat(t)
  <2>1. UNCHANGED <<codec, fctx, user>>
    BY <1>5 DEF GotFormat
  <2>2. /\ Carries(w, v)
        /\ w.pc = "formatWait" /\ v.pc \in {"formatWait", "buffer"} /\ v.state = w.state
    <3>1. CASE w.state # "SETTING_UP"
      BY <1>0, <1>5, <3>1 DEF GotFormat, Carries
    <3>2. CASE w.state = "SETTING_UP"
      <4>1. PICK hw \in BOOLEAN :
              threads' = [threads EXCEPT ![t].pc = "buffer", ![t].avctx.hwaccel = hw]
        BY <1>5, <3>2 DEF GotFormat
      <4>2. v.avctx.ref = w.avctx.ref /\ v.avctx.held = w.avctx.held
        BY <1>0, <4>1 DEF ThreadRecord, ContextRecord
      <4>3. /\ v.pc = "buffer" /\ v.state = w.state /\ v.frame = w.frame
            /\ v.result = w.result /\ v.avpkt = w.avpkt
        BY <1>0, <4>1 DEF ThreadRecord
      <4> QED BY <1>5, <4>2, <4>3 DEF GotFormat, Carries
    <3> QED BY <3>1, <3>2
  <2>3. Carries(w, v)
    BY <2>2
  <2>4. ~Resetting => Similar(w, v)
    BY <1>0, <2>2, <2>3, Names DEF Similar, Carries, Settled, Predicted, Decoded, StateOK, WithPacket
  <2>5. ~Resetting => WaitOK(t)'
    BY <1>0, <1>b, <2>1, <2>2 DEF WaitOK, CallsBack, StateOK, SetupFirst, SafeCallbacks
  <2> QED BY <1>0, <1>a, <2>1, <2>4, <2>5, WorkerIsQuiet
<1>6. CASE AskBuffer(t)
  <2>1. UNCHANGED <<codec, fctx, user>>
    BY <1>6 DEF AskBuffer
  <2>2. /\ Carries(w, v)
        /\ w.pc = "buffer"
        /\ \/ v.pc = "predict" /\ v.state = w.state
           \/ v.pc = "bufferWait" /\ v.state = "GET_BUFFER" /\ codec.ownBuffer
    BY <1>0, <1>6 DEF AskBuffer, ThreadRecord, Carries, SafeCallbacks
  <2>3. Carries(w, v)
    BY <2>2
  <2>4. ~Resetting => Similar(w, v)
    BY <1>0, <2>2, <2>3, Names DEF Similar, Carries, Settled, Predicted, Decoded, StateOK, WithPacket
  <2>5. ~Resetting => WaitOK(t)'
    BY <1>0, <1>b, <2>1, <2>2 DEF WaitOK, CallsBack, StateOK, SetupFirst, SafeCallbacks
  <2> QED BY <1>0, <1>a, <2>1, <2>4, <2>5, WorkerIsQuiet
<1>7. CASE GotBuffer(t)
  <2>1. UNCHANGED <<codec, fctx, user>>
    BY <1>7 DEF GotBuffer
  <2>2. /\ Carries(w, v)
        /\ w.pc = "bufferWait" /\ v.state = w.state
        /\ \/ v.pc \in {"bufferWait", "predict"}
           \/ v.pc = "finish" /\ v.ret = "unlockBuffer"
    BY <1>0, <1>7 DEF GotBuffer, ThreadRecord, Carries
  <2>3. Carries(w, v)
    BY <2>2
  <2>4. ~Resetting => Similar(w, v)
    BY <1>0, <2>2, <2>3, Names DEF Similar, Carries, Settled, Predicted, Decoded, StateOK, WithPacket
  <2>5. ~Resetting => WaitOK(t)'
    BY <1>0, <1>b, <2>1, <2>2 DEF WaitOK, CallsBack, StateOK, SetupFirst, SafeCallbacks
  <2> QED BY <1>0, <1>a, <2>1, <2>4, <2>5, WorkerIsQuiet
<1>8. CASE UnlockBuffer(t)
  <2>1. UNCHANGED <<codec, fctx, user>>
    BY <1>8 DEF UnlockBuffer
  <2>2. /\ Carries(w, v)
        /\ w.pc = "unlockBuffer" /\ v.pc = "predict" /\ v.state = w.state
    BY <1>0, <1>8 DEF UnlockBuffer, ThreadRecord, Carries
  <2>3. Carries(w, v)
    BY <2>2
  <2>4. ~Resetting => Similar(w, v)
    BY <1>0, <2>2, <2>3, Names DEF Similar, Carries, Settled, Predicted, Decoded, StateOK, WithPacket
  <2>5. ~Resetting => WaitOK(t)'
    BY <1>0, <1>b, <2>1, <2>2 DEF WaitOK, CallsBack, StateOK, SetupFirst, SafeCallbacks
  <2> QED BY <1>0, <1>a, <2>1, <2>4, <2>5, WorkerIsQuiet
<1>9. CASE Decode(t)
  <2>1. UNCHANGED <<codec, fctx, user>>
    BY <1>9 DEF Decode
  <2>2. /\ Carries(w, v)
        /\ w.pc = "decode" /\ v.state = w.state
        /\ \/ v.pc = "decode"
           \/ v.pc \in {"finish", "cleanup"} /\ v.ret = "cleanup"
    BY <1>0, <1>9 DEF Decode, ThreadRecord, Carries, Returned
  <2>3. Carries(w, v)
    BY <2>2
  <2>4. ~Resetting => Similar(w, v)
    BY <1>0, <2>2, <2>3, Names DEF Similar, Carries, Settled, Predicted, Decoded, StateOK, WithPacket
  <2>5. ~Resetting => WaitOK(t)'
    BY <1>0, <1>b, <2>1, <2>2 DEF WaitOK, CallsBack, StateOK, SetupFirst, SafeCallbacks
  <2> QED BY <1>0, <1>a, <2>1, <2>4, <2>5, WorkerIsQuiet
<1>10. CASE FinishHwaccel(t)
  <2>1. UNCHANGED <<codec, fctx, user>>
    BY <1>10 DEF FinishHwaccel
  <2>2. threads' = threads
    BY <1>10 DEF FinishHwaccel
  <2>3. ~Resetting => Similar(w, v) /\ WaitOK(t)'
    BY <1>b, <2>1, <2>2 DEF Similar, WaitOK, CallsBack
  <2> QED BY <1>0, <1>a, <2>1, <2>3, WorkerIsQuiet
<1>11. CASE FinishAsync(t)
  <2>1. UNCHANGED <<codec, fctx, user>>
    BY <1>11 DEF FinishAsync
  <2>2. /\ Carries(w, v)
        /\ w.pc = "finish" /\ v.pc = "publish" /\ v.ret = w.ret /\ v.state = w.state
    BY <1>0, <1>11 DEF FinishAsync, ThreadRecord, Carries
  <2>3. Carries(w, v)
    BY <2>2
  <2>4. ~Resetting => Similar(w, v)
    BY <1>0, <2>2, <2>3, Names DEF Similar, Carries, Settled, Predicted, Decoded, StateOK, WithPacket
  <2>5. ~Resetting => WaitOK(t)'
    BY <1>0, <1>b, <2>1, <2>2 DEF WaitOK, CallsBack, StateOK, SetupFirst, SafeCallbacks
  <2> QED BY <1>0, <1>a, <2>1, <2>4, <2>5, WorkerIsQuiet
<1>12. CASE Publish(t)
  <2>1. UNCHANGED <<codec, fctx, user>>
    BY <1>12 DEF Publish
  <2>2. /\ Carries(w, v)
        /\ w.pc \in {"finish", "publish"} /\ v.pc = w.ret /\ v.ret = w.ret
        /\ v.state = "SETUP_FINISHED"
    BY <1>0, <1>12 DEF Publish, ThreadRecord, Carries, CanPublish
  <2>3. Carries(w, v)
    BY <2>2
  <2>4. ~Resetting => Similar(w, v)
    BY <1>0, <2>2, <2>3, Names DEF Similar, Carries, Settled, Predicted, Decoded, StateOK, WithPacket
  <2>5. ~Resetting => WaitOK(t)'
    BY <1>0, <1>b, <2>1, <2>2 DEF WaitOK, CallsBack, StateOK, SetupFirst, SafeCallbacks,
         ThreadRecord
  <2> QED BY <1>0, <1>a, <2>1, <2>4, <2>5, WorkerIsQuiet
<1>13. CASE UnlockHwaccel(t)
  <2>1. UNCHANGED <<codec, fctx, user>>
    BY <1>13 DEF UnlockHwaccel
  <2>2. threads' = threads
    BY <1>13 DEF UnlockHwaccel
  <2>3. ~Resetting => Similar(w, v) /\ WaitOK(t)'
    BY <1>b, <2>1, <2>2 DEF Similar, WaitOK, CallsBack
  <2> QED BY <1>0, <1>a, <2>1, <2>3, WorkerIsQuiet
<1>14. CASE UnlockAsync(t)
  <2>1. UNCHANGED <<codec, fctx, user>>
    BY <1>14 DEF UnlockAsync
  <2>2. threads' = threads
    BY <1>14 DEF UnlockAsync
  <2>3. ~Resetting => Similar(w, v) /\ WaitOK(t)'
    BY <1>b, <2>1, <2>2 DEF Similar, WaitOK, CallsBack
  <2> QED BY <1>0, <1>a, <2>1, <2>3, WorkerIsQuiet
<1>15. CASE Ready(t)
  <2>1. UNCHANGED <<codec, fctx, user>>
    BY <1>15 DEF Ready
  <2>2. /\ Carries(w, v)
        /\ w.pc = "cleanup" /\ v.pc = "idle" /\ v.state = "INPUT_READY"
    BY <1>0, <1>15 DEF Ready, ThreadRecord, Carries
  <2>3. Carries(w, v)
    BY <2>2
  <2>4. ~Resetting => Similar(w, v)
    BY <1>0, <2>2, <2>3, Names DEF Similar, Carries, Settled, Predicted, Decoded, StateOK, WithPacket
  <2>5. ~Resetting => WaitOK(t)'
    BY <1>0, <1>b, <2>1, <2>2 DEF WaitOK, CallsBack, StateOK, SetupFirst, SafeCallbacks
  <2> QED BY <1>0, <1>a, <2>1, <2>4, <2>5, WorkerIsQuiet
<1> QED BY <1>1, <1>2, <1>3, <1>4, <1>5, <1>6, <1>7, <1>8, <1>9, <1>10, <1>11, <1>12, <1>13, <1>14, <1>15 DEF WorkerStep, Worker

(* A worker decides on its packet: the packet is answered by an error or   *)
(* its own frame, or changes places with the frame held back.              *)
LEMMA Decides ==
  ASSUME LockInv, FrameInv, QueueInv, ~Resetting, NEW t \in Thread,
         UNCHANGED <<codec, fctx, user, avci, next, inside>>,
         \A u \in Thread \ {t} : threads'[u] = threads[u],
         ~Settled(threads[t]), Settled(threads'[t]), threads[t].state # "INPUT_READY",
         threads'[t].avpkt = threads[t].avpkt, threads'[t].state = threads[t].state,
         ResultOK(t)', WaitOK(t)',
         threads'[t].frame # None => Awaited(t)' = threads'[t].frame,
         \/ /\ Awaited(t)' = Awaited(t) /\ Kept(t)' = Kept(t)
            /\ threads'[t].frame # None => threads'[t].frame = threads[t].avpkt /\ codec.reorder = 0
         \/ /\ t = Last /\ Awaited(t)' = Latent /\ Kept(t)' = Awaited(t)
            /\ threads'[t].frame = Latent
            /\ \/ Awaited(t) = threads[t].avpkt /\ codec.reorder = 1 /\ Awaited(t) \notin codec.broken
               \/ Awaited(t) = None /\ threads[t].avpkt = Drain /\ avci.draining
  PROVE  QueueInv'
<1> DEFINE w == threads[t]
           v == threads'[t]
           Same == /\ Awaited(t)' = Awaited(t) /\ Kept(t)' = Kept(t)
                   /\ v.frame # None => v.frame = w.avpkt /\ codec.reorder = 0
           Swap == /\ t = Last /\ Awaited(t)' = Latent /\ Kept(t)' = Awaited(t)
                   /\ v.frame = Latent
                   /\ \/ Awaited(t) = w.avpkt /\ codec.reorder = 1 /\ Awaited(t) \notin codec.broken
                      \/ Awaited(t) = None /\ threads[t].avpkt = Drain /\ avci.draining
<1>0. /\ PlaceInv /\ FlagInv /\ PrevInv /\ NewInv /\ LineInv /\ HandInv /\ BusyInv
      /\ \A u \in Thread : WaitOK(u) /\ ResultOK(u)
      /\ ~avci.draining => GapInv /\ CountInv /\ DelayInv /\ FullInv
      /\ avci.draining => EndInv
      /\ ~Resetting'
  BY DEF QueueInv, Resetting
<1>1. /\ \A u : Turn(u)' = Turn(u)
      /\ Turns' = Turns /\ Last' = Last /\ Entering' = Entering
  BY DEF Turn, Turns, Last, Entering
<1>2. ASSUME NEW u \in Thread \ {t}
      PROVE  /\ threads'[u] = threads[u]
             /\ Awaited(u)' = Awaited(u) /\ Kept(u)' = Kept(u)
             /\ Undecided(u)' <=> Undecided(u)
             /\ Busy(u)' <=> Busy(u)
             /\ Failed(u)' <=> Failed(u)
             /\ WaitOK(u)' /\ ResultOK(u)'
  <2>1. threads'[u] = threads[u] /\ WaitOK(u) /\ ResultOK(u)
    BY <1>0
  <2>2. /\ Undecided(u)' <=> Undecided(u)
        /\ Failed(u)' <=> Failed(u)
    BY <2>1 DEF Undecided, Failed
  <2>3. Awaited(u)' = Awaited(u) /\ Kept(u)' = Kept(u)
    BY <2>1, <2>2 DEF Awaited, Kept
  <2>4. Busy(u)' <=> Busy(u)
    BY <2>1, <2>2 DEF Busy, Finished
  <2>5. WaitOK(u)' /\ ResultOK(u)'
    BY <2>1, <2>2, <2>3 DEF WaitOK, ResultOK, CallsBack
  <2> QED BY <2>1, <2>2, <2>3, <2>4, <2>5
<1>3. /\ Busy(t) /\ Busy(t)' /\ ~Undecided(t)'
      /\ Last \in Thread /\ Turn(t) < Turns
      /\ \A u \in Thread : Busy(u) /\ u # Last => Turn(u) < Turn(Last)
      /\ \A u \in Thread : Busy(u) => Turn(u) <= Turn(Last)
      /\ codec.updates => t = Last
      /\ codec.reorder = 1 => codec.updates
      /\ codec.reorder \in {0, 1}
  <2>1. Busy(t) /\ Busy(t)'
    BY DEF Busy, Finished
  <2>2. ~Undecided(t)'
    BY DEF Undecided
  <2>3. codec.updates => t = Last
    BY <1>0 DEF BusyInv
  <2>4. codec.reorder \in 0 .. 1 /\ (codec.reorder > 0 => codec.updates)
    BY WorkerFacts, CodecOK, FrameThreadsAssumption
  <2> QED BY <1>0, <2>1, <2>2, <2>3, <2>4, LastIsLast
<1>4. /\ \A u \in Thread : /\ Turn(u) \in Nat
                           /\ Awaited(u) \in Packet \cup {None}
                           /\ Awaited(u) # None => Busy(u)
                           /\ Undecided(u) => Awaited(u) = threads[u].avpkt
                           /\ threads[u].frame # None => Awaited(u) = threads[u].frame
      /\ Latent \in Packet \cup {None}
      /\ w.avpkt \in Packet \cup {Drain} /\ w.frame = None /\ ~Failed(t)
      /\ Packet \subseteq Nat
  <2>1. \A u \in Thread : Turn(u) \in 0 .. ThreadCount - 1
    BY LatentTypes, TurnFacts
  <2>2. Packet \subseteq Nat /\ \A u \in Thread : Turn(u) \in Nat
    BY <2>1, FrameThreadsAssumption DEF Packet
  <2>3. w.frame = None /\ ~Failed(t)
    BY <1>0 DEF ResultOK
  <2> QED BY <1>0, <2>2, <2>3, AwaitedTypes, LatentTypes, ThreadTypes
<1>5. ASSUME Same
      PROVE  /\ LineInv' /\ HandInv' /\ PlaceInv'
             /\ Latent' \in {None, Latent} \cup ({w.avpkt} \cap Packet)
             /\ ~avci.draining => GapInv' /\ CountInv' /\ FullInv'
  <2>1. Latent' = Latent /\ \A u \in Thread : Awaited(u)' = Awaited(u)
    BY <1>1, <1>2, <1>3, <1>5 DEF Latent
  <2>2. w.avpkt \in Packet => Awaited(t) = w.avpkt
    BY DEF Awaited, Undecided
  <2>3. v.frame # None => Latent = None
    BY <1>0, <1>3, <1>5 DEF Latent, ResultOK
  <2>4. LineInv'
    <3>1. ASSUME NEW a \in Thread, NEW b \in Thread, Turn(a) < Turn(b),
                 Awaited(a) # None, Awaited(b) # None,
                 threads'[a].frame # None
          PROVE  threads'[a].frame < Awaited(b)
      <4>1. CASE a # t
        BY <1>0, <1>2, <3>1, <4>1 DEF LineInv
      <4>2. CASE a = t
        <5>1. ~codec.updates
          BY <1>3, <1>4, <3>1, <4>2
        <5>2. Awaited(b) = threads[b].avpkt /\ threads[b].avpkt \in Packet
          <6>1. threads[b].frame \in {None, threads[b].avpkt}
            BY <1>0, <5>1 DEF ResultOK
          <6> QED BY <1>0, <1>4, <3>1, <6>1 DEF Awaited
        <5>3. w.avpkt \in Packet /\ v.frame = w.avpkt
          <6>1. Awaited(t) = v.frame /\ v.frame = w.avpkt
            BY <1>5, <3>1, <4>2
          <6> QED BY <1>4, <3>1, <4>2, <6>1
        <5> QED BY <1>0, <3>1, <4>2, <5>2, <5>3 DEF LineInv
      <4> QED BY <4>1, <4>2
    <3>2. \A a, b \in Thread :
            Turn(a)' < Turn(b)' /\ Awaited(a)' # None /\ Awaited(b)' # None =>
              /\ threads'[a].avpkt \in Packet /\ threads'[b].avpkt \in Packet =>
                   threads'[a].avpkt < threads'[b].avpkt
              /\ threads'[a].frame # None => threads'[a].frame < Awaited(b)'
      <4>1. \A u \in Thread : threads'[u].avpkt = threads[u].avpkt
        BY <1>2
      <4> QED BY <1>0, <1>1, <2>1, <3>1, <4>1 DEF LineInv
    <3>3. Latent' # None =>
            /\ Latent' \notin codec'.broken
            /\ \A a \in Thread :
                 /\ Undecided(a)' => Latent' < threads'[a].avpkt
                 /\ threads'[a].frame # None => threads'[a].frame < Latent'
      <4>1. ASSUME NEW a \in Thread, Latent # None
            PROVE  /\ Undecided(a)' => Latent < threads'[a].avpkt
                   /\ threads'[a].frame # None => threads'[a].frame < Latent
        BY <1>0, <1>2, <1>3, <2>3, <4>1 DEF LineInv
      <4> QED BY <1>0, <2>1, <4>1 DEF LineInv
    <3> QED BY <3>2, <3>3 DEF LineInv
  <2>5. HandInv'
    BY <1>0, <2>1 DEF HandInv, Foremost
  <2>6. PlaceInv'
    <3>1. \A x \in Packet : Somewhere(x)' <=> Somewhere(x)
      BY <1>1, <2>1 DEF Somewhere
    <3> QED BY <1>0, <3>1 DEF PlaceInv
  <2>7. Latent' \in {None, Latent} \cup ({w.avpkt} \cap Packet)
    BY <2>1
  <2>8. ASSUME ~avci.draining PROVE GapInv' /\ CountInv' /\ FullInv'
    <3>1. \A u \in Thread : Gap(u)' <=> Gap(u)
      BY <1>1, <2>1 DEF Gap
    <3>2. codec.reorder = 1 => v.frame = None
      BY <1>5
    <3>3. \A u \in Thread : codec.reorder = 1 /\ threads'[u].frame # None =>
            threads[u].frame # None
      BY <1>2, <3>2
    <3>4. GapInv'
      BY <1>0, <1>1, <2>1, <2>8, <3>1, <3>3 DEF GapInv
    <3>5. Primed' <=> Primed
      BY <2>1, <3>1 DEF Primed
    <3>6. CountInv'
      <4>1. CountInv
        BY <1>0, <2>8
      <4> QED BY <1>1, <3>5, <4>1 DEF CountInv, One
    <3>7. FullInv'
      BY <1>0, <2>8, <3>5 DEF FullInv
    <3> QED BY <3>4, <3>6, <3>7
  <2> QED BY <2>4, <2>5, <2>6, <2>7, <2>8
<1>6. ASSUME Swap
      PROVE  /\ LineInv' /\ HandInv' /\ PlaceInv'
             /\ Latent' \in {None, Latent} \cup ({w.avpkt} \cap Packet)
             /\ ~avci.draining => GapInv' /\ CountInv' /\ FullInv'
  <2>1. /\ t = Last /\ Awaited(t)' = Latent /\ v.frame = Latent
        /\ Awaited(t) \in {None, w.avpkt}
        /\ Latent' = Awaited(t)
        /\ Awaited(t) # None => Awaited(t) = w.avpkt /\ Awaited(t) \notin codec.broken
        /\ ~avci.draining => Awaited(t) # None
    <3>1. Latent' = Kept(t)'
      BY <1>1, <1>3, <1>6, Names DEF Latent
    <3> QED BY <1>3, <1>4, <1>6, <3>1, Names
  <2>2. \A u \in Thread \ {t} : Busy(u) => Turn(u) < Turn(t)
    BY <1>3, <2>1
  <2>3. ASSUME NEW u \in Thread, Undecided(u)' PROVE Latent' = None
    <3>1. u # t /\ Undecided(u)
      BY <1>2, <1>3, <2>3
    <3>2. ~codec.updates
      BY <1>0, <2>1, <3>1 DEF BusyInv, Undecided
    <3> QED BY <1>3, <1>6, <2>1, <3>2
  <2>4. LineInv'
    <3>1. ASSUME NEW a \in Thread, NEW b \in Thread,
                 Turn(a) < Turn(b), Awaited(a)' # None, Awaited(b)' # None
          PROVE  /\ threads'[a].avpkt \in Packet /\ threads'[b].avpkt \in Packet =>
                      threads'[a].avpkt < threads'[b].avpkt
                 /\ threads'[a].frame # None => threads'[a].frame < Awaited(b)'
      <4>1. a # t
        <5>1. CASE b = t
          BY <1>4, <3>1, <5>1
        <5>2. CASE b # t
          <6>1. Busy(b) /\ Turn(a) \in Nat /\ Turn(b) \in Nat
            BY <1>2, <1>4, <3>1, <5>2
          <6>2. Turn(b) < Turn(t)
            BY <2>2, <5>2, <6>1
          <6> QED BY <3>1, <6>1, <6>2
        <5> QED BY <5>1, <5>2
      <4>2. threads'[a] = threads[a] /\ Awaited(a) # None
        BY <1>2, <3>1, <4>1
      <4>3. CASE b # t
        BY <1>0, <1>2, <3>1, <4>2, <4>3 DEF LineInv
      <4>4. CASE b = t
        <5>1. Latent # None
          BY <2>1, <3>1, <4>4
        <5>2. threads[a].frame # None => threads[a].frame < Latent
          BY <1>0, <5>1 DEF LineInv
        <5>3. w.avpkt \in Packet => Awaited(t) # None
          BY <1>6, Names
        <5> QED BY <1>0, <2>1, <3>1, <4>2, <4>4, <5>2, <5>3 DEF LineInv
      <4> QED BY <4>3, <4>4
    <3>2. ASSUME Latent' # None
          PROVE  /\ Latent' \notin codec'.broken
                 /\ \A a \in Thread : threads'[a].frame # None => threads'[a].frame < Latent'
      <4>1. Awaited(t) = w.avpkt /\ Latent' = w.avpkt /\ w.avpkt \in Packet /\ Latent' \notin codec.broken
        BY <1>4, <2>1, <3>2
      <4>2. ASSUME NEW a \in Thread, threads'[a].frame # None PROVE threads'[a].frame < w.avpkt
        <5>1. CASE a # t
          <6>1. threads'[a] = threads[a] /\ Busy(a) /\ Awaited(a) # None
            BY <1>2, <1>4, <4>2, <5>1
          <6>2. Turn(a) < Turn(t)
            BY <2>2, <5>1, <6>1
          <6> QED BY <1>0, <3>2, <4>1, <4>2, <6>1, <6>2, <2>1 DEF LineInv
        <5>2. CASE a = t
          <6>1. Undecided(t)
            BY <4>1 DEF Undecided
          <6> QED BY <1>0, <2>1, <4>2, <5>2, <6>1 DEF LineInv
        <5> QED BY <5>1, <5>2
      <4> QED BY <4>1, <4>2
    <3>3. \A a \in Thread : Latent' # None => ~Undecided(a)'
      BY <2>3
    <3> QED BY <1>1, <3>1, <3>2, <3>3 DEF LineInv
  <2>5. HandInv'
    <3>1. ASSUME NEW f, Foremost(f) PROVE Foremost(f)'
      <4>1. \A u \in Thread : Awaited(u)' # None => f < Awaited(u)'
        BY <1>2, <2>1, <3>1 DEF Foremost
      <4>2. Latent' # None => f < Latent'
        BY <2>1, <3>1 DEF Foremost
      <4> QED BY <3>1, <4>1, <4>2 DEF Foremost
    <3>2. ASSUME user.err PROVE user.got \in codec.broken /\ \A u \in Thread : Awaited(u)' # user.got
      <4>1. user.got \in codec.broken /\ \A u \in Thread : Awaited(u) # user.got
        BY <1>0, <3>2 DEF HandInv
      <4>2. Latent # user.got
        BY <1>0, <4>1, ThreadTypes, Names DEF LineInv
      <4> QED BY <1>2, <2>1, <4>1, <4>2
    <3>3. avci'.frame # None => Foremost(avci.frame)'
      BY <1>0, <3>1 DEF HandInv
    <3>4. user'.got # None /\ ~user'.err => Foremost(user.got)'
      BY <1>0, <3>1 DEF HandInv
    <3> QED BY <3>2, <3>3, <3>4 DEF HandInv
  <2>6. PlaceInv'
    <3>1. \A x \in Packet : Somewhere(x)' <=> Somewhere(x)
      BY <1>1, <1>2, <2>1 DEF Somewhere
    <3> QED BY <1>0, <3>1 DEF PlaceInv
  <2>7. Latent' \in {None, Latent} \cup ({w.avpkt} \cap Packet)
    BY <1>4, <2>1
  <2>8. ASSUME ~avci.draining PROVE GapInv' /\ CountInv' /\ FullInv'
    <3>0. /\ Awaited(t) # None /\ codec.reorder = 1 /\ Latent' # None
          /\ GapInv /\ CountInv /\ FullInv
      BY <1>0, <1>6, <2>1, <2>8
    <3>1. \A u \in Thread \ {t} : Gap(u)' <=> Gap(u)
      BY <1>1, <1>2 DEF Gap
    <3>2. ~Gap(t) /\ (Gap(t)' <=> Latent = None)
      BY <1>1, <1>3, <2>1, <3>0 DEF Gap
    <3>3. GapInv'
      <4>1. CASE Latent = None
        <5>1. /\ \A u \in Thread : ~Gap(u)
              /\ \A u \in Thread : threads'[u].frame = None
          BY <1>2, <2>1, <3>0, <4>1 DEF GapInv
        <5> QED BY <3>0, <3>1, <5>1 DEF GapInv
      <4>2. CASE Latent # None
        <5>1. ASSUME NEW a \in Thread, Gap(a) PROVE a # t /\ Turn(a) < Turn(t)
          <6>1. a # t /\ Turn(a) < Turns
            BY <3>2, <5>1 DEF Gap
          <6>2. Turn(t) = Turns - 1 /\ Turns \in Nat
            BY <1>0, <1>3, <2>1, LastIsLast
          <6>3. Turn(a) # Turn(t)
            BY <6>1, LatentTypes, TurnFacts
          <6> QED BY <1>4, <6>1, <6>2, <6>3
        <5>2. ASSUME NEW a \in Thread, Gap(a)'
              PROVE  \A u \in Thread : /\ Gap(u)' => a = u
                                       /\ threads'[u].frame # None => Turn(a)' < Turn(u)'
          <6>1. Gap(a) /\ a # t /\ Turn(a) < Turn(t)
            BY <3>1, <3>2, <4>2, <5>1, <5>2
          <6>2. \A u \in Thread : Gap(u)' => Gap(u)
            BY <3>1, <3>2, <4>2
          <6>3. \A u \in Thread \ {t} : threads'[u].frame # None => Turn(a) < Turn(u)
            BY <1>2, <3>0, <6>1 DEF GapInv
          <6> QED BY <1>1, <3>0, <6>1, <6>2, <6>3 DEF GapInv
        <5> QED BY <3>0, <5>2 DEF GapInv
      <4> QED BY <4>1, <4>2
    <3>4. Primed' <=> Primed
      BY <3>0, <3>1, <3>2 DEF Primed
    <3>5. CountInv'
      BY <1>1, <3>0, <3>4 DEF CountInv, One
    <3>6. FullInv'
      BY <3>0, <3>4 DEF FullInv
    <3> QED BY <3>3, <3>5, <3>6
  <2> QED BY <2>4, <2>5, <2>6, <2>7, <2>8
<1>7. /\ LineInv' /\ HandInv' /\ PlaceInv'
      /\ Latent' \in {None, Latent} \cup ({w.avpkt} \cap Packet)
      /\ ~avci.draining => GapInv' /\ CountInv' /\ FullInv'
  BY <1>5, <1>6
<1>8. FlagInv' /\ PrevInv'
  BY <1>0 DEF FlagInv, PrevInv
<1>9. \A u \in Thread : WaitOK(u)' /\ ResultOK(u)'
  BY <1>2
<1>10. NewInv'
  <2>1. ASSUME NEW x, Newest(x) PROVE Newest(x)'
    <3>1. \A u \in Thread : threads'[u].avpkt = threads[u].avpkt
      BY <1>2
    <3>2. Latent' # None => Latent' < x
      BY <1>4, <1>7, <2>1, Names DEF Newest
    <3> QED BY <2>1, <3>1, <3>2 DEF Newest
  <2>2. Newest(next)' /\ (avci'.bsf # None => Newest(avci.bsf)')
    BY <1>0, <2>1 DEF NewInv
  <2>3. Entering' \in Packet => Newest(Entering)'
    <3>1. PICK e : e = Entering
      OBVIOUS
    <3>2. e \in Packet => Newest(e)'
      BY <1>0, <2>1, <3>1 DEF NewInv
    <3>3. Entering' = e
      BY <1>1, <3>1
    <3> QED BY <3>2, <3>3 DEF Newest
  <2> QED BY <1>0, <2>2, <2>3 DEF NewInv
<1>11. BusyInv'
  <2>1. \A u \in Thread : Busy(u)' <=> Busy(u)
    BY <1>2, <1>3
  <2>2. \A u \in Thread : Settled(threads[u]) => Settled(threads'[u])
    BY <1>2
  <2>3. Last # None
    BY <1>3, LatentTypes, Names
  <2> QED BY <1>0, <1>1, <2>1, <2>2, <2>3 DEF BusyInv
<1>12. ~avci.draining => DelayInv'
  BY <1>0, <1>1 DEF DelayInv
<1>13. avci.draining => EndInv'
  <2>1. MayFail' = MayFail
    <3>1. \A u \in Thread : (Busy(u)' <=> Busy(u)) /\ threads'[u].avpkt = threads[u].avpkt
      BY <1>2, <1>3
    <3> QED BY <3>1 DEF MayFail
  <2>2. threads'[Last].avpkt = threads[Last].avpkt
    BY <1>2, <1>3
  <2> QED BY <1>0, <1>1, <2>1, <2>2 DEF EndInv, One
<1> QED BY <1>0, <1>7, <1>8, <1>9, <1>10, <1>11, <1>12, <1>13 DEF QueueInv

(* The steps of a worker that settle what comes of its packet.             *)
LEMMA WorkerDecides ==
  ASSUME LockInv, FrameInv, QueueInv, NEW t \in Thread, WorkerStep(t),
         DecodeDrain(t) \/ DecodeFails(t) \/ Predict(t)
  PROVE  QueueInv'
<1> DEFINE w == threads[t]
           v == threads'[t]
<1>0. /\ threads \in [Thread -> ThreadRecord] /\ w \in ThreadRecord
      /\ \A u \in Thread \ {t} : threads'[u] = threads[u]
      /\ w.avctx \in ContextRecord
      /\ codec \in Codecs /\ UNCHANGED apiVars
      /\ StateOK(t) /\ FrameOK(t)
      /\ codec.broken \subseteq Packet
      /\ codec.reorder \in {0, 1} /\ (codec.reorder = 1 => codec.updates)
  <2>1. codec.reorder \in 0 .. 1 /\ (codec.reorder > 0 => codec.updates)
    BY WorkerFacts, CodecOK, FrameThreadsAssumption
  <2> QED BY <2>1, WorkerFacts, WorkerAlone, ThreadTypes DEF WorkerStep, FrameInv
<1>1. UNCHANGED <<codec, fctx, user, avci, next, inside>>
  BY <1>0 DEF apiVars, DecodeDrain, DecodeFails, Predict
<1>2. CASE Resetting
  <2>1. Resetting' /\ FlagInv' /\ PrevInv'
    BY <1>1, <1>2 DEF Resetting, QueueInv, FlagInv, PrevInv
  <2> QED BY <1>1, <2>1, ResetKeeps
<1>3. CASE ~Resetting
  <2>1. /\ w.pc \in {"setup", "predict"} /\ w.state # "INPUT_READY" /\ ~Settled(w)
        /\ WaitOK(t) /\ ResultOK(t) /\ w.frame = None /\ ~Failed(t)
        /\ w.avpkt \in Packet \cup {Drain}
        /\ w.avctx.held # <<>> => Kept(t) = w.avctx.ref /\ w.avctx.held = <<w.avctx.ref>> /\ Kept(t) # None
        /\ w.avctx.held = <<>> => Kept(t) = None
        /\ Awaited(t) = IF w.avpkt = Drain THEN None ELSE w.avpkt
        /\ codec.updates => t = Last /\ Latent = Kept(t)
        /\ ~codec.updates => Kept(t) = None
        /\ w.result = "ok"
    <3>1. w.pc \in {"setup", "predict"} /\ w.state # "INPUT_READY" /\ ~Settled(w)
      BY <1>0 DEF DecodeDrain, DecodeFails, Predict, StateOK, Settled, Predicted, Decoded
    <3>2. WaitOK(t) /\ ResultOK(t) /\ w.frame = None /\ ~Failed(t)
      BY <1>3, <3>1 DEF QueueInv, ResultOK
    <3>3. w.avpkt \in Packet \cup {Drain} /\ Kept(t) \in Packet \cup {None}
      BY <3>1, ThreadTypes
    <3>4. /\ w.avctx.held # <<>> => Kept(t) = w.avctx.ref /\ w.avctx.held = <<w.avctx.ref>>
                                      /\ Kept(t) # None
          /\ w.avctx.held = <<>> => Kept(t) = None
      BY <1>0 DEF Kept, FrameOK
    <3>5. Awaited(t) = IF w.avpkt = Drain THEN None ELSE w.avpkt
      BY <3>1, <3>2, <3>3, Names DEF Awaited, Undecided
    <3>6. codec.updates => t = Last /\ Latent = Kept(t)
      BY <1>3, <3>1, Names DEF QueueInv, BusyInv, Latent
    <3>7. ~codec.updates => Kept(t) = None
      BY <3>2 DEF ResultOK
    <3> QED BY <1>0, <3>1, <3>2, <3>3, <3>4, <3>5, <3>6, <3>7 DEF Failed, ThreadRecord
  <2>2. CASE DecodeFails(t)
    <3>1. /\ v.avpkt = w.avpkt /\ v.state = w.state /\ v.frame = None /\ v.result = "error"
          /\ v.avctx = w.avctx
          /\ v.pc \in {"finish", "cleanup"} /\ v.ret = "cleanup" /\ w.avpkt \in codec.broken
      BY <1>0, <2>1, <2>2 DEF DecodeFails, ThreadRecord, Returned
    <3>2. Decoded(v) /\ Settled(v)
      BY <3>1 DEF Decoded, Settled
    <3>3. Kept(t)' = Kept(t) /\ Failed(t)'
      BY <3>1 DEF Kept, Failed
    <3>4. Awaited(t)' = Awaited(t)
      BY <1>0, <2>1, <3>1, <3>3, Names DEF Awaited
    <3>5. ResultOK(t)'
      BY <1>0, <1>1, <2>1, <3>1, <3>2, <3>3, Names DEF ResultOK
    <3>6. WaitOK(t)'
      BY <1>1, <2>1, <3>1 DEF WaitOK, CallsBack
    <3> QED BY <1>0, <1>1, <1>3, <2>1, <3>1, <3>2, <3>3, <3>4, <3>5, <3>6, Decides
  <2>3. CASE DecodeDrain(t)
    <3>1. /\ v.avpkt = Drain /\ w.avpkt = Drain /\ v.state = w.state /\ v.frame = Kept(t)
          /\ v.result = w.result /\ v.avctx.held = <<>>
          /\ v.pc \in {"finish", "cleanup"} /\ v.ret = "cleanup"
      <4>1. \A x : Tail(<<x>>) = <<>> /\ Head(<<x>>) = x
        OBVIOUS
      <4>2. /\ (IF w.avctx.held = <<>> THEN <<>> ELSE Tail(w.avctx.held)) = <<>>
            /\ (IF w.avctx.held = <<>> THEN None ELSE Head(w.avctx.held)) = Kept(t)
        BY <2>1, <4>1
      <4> DEFINE f == Kept(t)
                 pc == Returned(t)
      <4>3. /\ threads' = [threads EXCEPT ![t].frame = f, ![t].avctx.held = <<>>,
                                          ![t].pc = pc, ![t].ret = "cleanup"]
            /\ w.avpkt = Drain
        BY <2>3, <4>2 DEF DecodeDrain
      <4>4. pc \in {"finish", "cleanup"}
        BY DEF Returned
      <4> HIDE DEF f, pc
      <4>5. v.avctx.held = <<>>
        BY <1>0, <4>3 DEF ThreadRecord, ContextRecord
      <4>6. /\ v.pc = pc /\ v.ret = "cleanup" /\ v.state = w.state /\ v.frame = f
            /\ v.avpkt = w.avpkt /\ v.result = w.result
        BY <1>0, <4>3 DEF ThreadRecord
      <4> QED BY <4>3, <4>4, <4>5, <4>6 DEF f
    <3>2. Decoded(v) /\ Settled(v)
      BY <3>1 DEF Decoded, Settled
    <3>3. Kept(t)' = None /\ ~Failed(t)'
      BY <2>1, <3>1 DEF Kept, Failed
    <3>4. Awaited(t)' = Kept(t)
      BY <3>1, <3>2, <3>3 DEF Awaited, Undecided
    <3>5. avci.draining
      <4>1. t \in OnDrain
        BY <2>1, <3>1 DEF OnDrain
      <4> QED BY <1>3, <4>1 DEF FrameInv, DrainInv
    <3>6. Latent # None => Latent \in Packet /\ Latent \notin codec.broken
      BY <1>3, LatentTypes DEF QueueInv, LineInv
    <3>7. ResultOK(t)'
      BY <1>0, <1>1, <2>1, <3>1, <3>2, <3>3, <3>6 DEF ResultOK
    <3>8. WaitOK(t)'
      BY <1>1, <2>1, <3>1 DEF WaitOK, CallsBack
    <3>9. CASE codec.updates
      BY <1>0, <1>1, <1>3, <2>1, <3>1, <3>2, <3>3, <3>4, <3>5, <3>7, <3>8, <3>9, Decides
    <3>10. CASE ~codec.updates
      BY <1>0, <1>1, <1>3, <2>1, <3>1, <3>2, <3>3, <3>4, <3>5, <3>7, <3>8, <3>10, Decides
    <3> QED BY <3>9, <3>10
  <2>4. CASE Predict(t)
    <3> DEFINE all == Append(w.avctx.held, w.avpkt)
               h == IF Full(all) THEN Tail(all) ELSE all
               f == IF Full(all) THEN Head(all) ELSE None
    <3>0. w.avpkt \in Packet /\ w.avpkt # Drain /\ w.avpkt \notin codec.broken
      BY <1>0, <2>4, Names DEF Predict, StateOK, WithPacket
    <3>1. /\ threads' = [threads EXCEPT
               ![t].needs = w.avctx.ref,
               ![t].avctx = [@ EXCEPT !.ref = IF codec.updates THEN w.avpkt ELSE None, !.held = h],
               ![t].frame = f,
               ![t].pc = IF codec.updates THEN "finish" ELSE "decode",
               ![t].ret = "decode"]
          /\ w.pc = "predict"
      BY <2>4 DEF Predict
    <3>2. /\ v.frame = f /\ v.ret = "decode" /\ v.state = w.state
          /\ v.avpkt = w.avpkt /\ v.result = w.result
          /\ v.pc = IF codec.updates THEN "finish" ELSE "decode"
          /\ v.avctx.ref = IF codec.updates THEN w.avpkt ELSE None
          /\ v.avctx.held = h
      <4> HIDE DEF h, f
      <4> QED BY <1>0, <3>1 DEF ThreadRecord, ContextRecord
    <3>3. IF codec.reorder = 0 THEN f = w.avpkt /\ h = <<>> ELSE f = Kept(t) /\ h = <<w.avpkt>>
      <4>1. CASE w.avctx.held = <<>>
        <5>1. all = <<w.avpkt>> /\ Len(<<w.avpkt>>) = 1
          BY <4>1
        <5>2. Tail(<<w.avpkt>>) = <<>> /\ Head(<<w.avpkt>>) = w.avpkt
          OBVIOUS
        <5>3. Full(all) <=> codec.reorder = 0
          BY <1>0, <5>1 DEF Full
        <5> QED BY <2>1, <4>1, <5>1, <5>2, <5>3
      <4>2. CASE w.avctx.held # <<>>
        <5>1. w.avctx.held = <<Kept(t)>> /\ codec.reorder = 1
          BY <1>0, <2>1, <4>2 DEF ResultOK
        <5>2. /\ Tail(Append(<<Kept(t)>>, w.avpkt)) = <<w.avpkt>>
              /\ Head(Append(<<Kept(t)>>, w.avpkt)) = Kept(t)
              /\ Len(Append(<<Kept(t)>>, w.avpkt)) = 2
          BY TwoFrames
        <5>3. Tail(all) = <<w.avpkt>> /\ Head(all) = Kept(t) /\ Len(all) = 2
          BY <5>1, <5>2
        <5>4. Full(all)
          BY <5>1, <5>3 DEF Full
        <5> QED BY <5>1, <5>3, <5>4
      <4> QED BY <4>1, <4>2
    <3> HIDE DEF h, f
    <3>4. Settled(v) /\ ~Failed(t)' /\ v.frame = f
      BY <2>1, <3>2 DEF Settled, Predicted, Failed
    <3>5. Awaited(t)' = f
      BY <3>4 DEF Awaited, Undecided
    <3>6. WaitOK(t)'
      BY <1>1, <2>1, <3>2 DEF WaitOK, CallsBack
    <3>7. CASE codec.reorder = 0
      <4>1. f = w.avpkt /\ v.avctx.held = <<>> /\ Kept(t)' = None /\ Kept(t) = None
        BY <2>1, <3>2, <3>3, <3>7 DEF Kept, ResultOK
      <4>2. ResultOK(t)'
        BY <1>0, <1>1, <2>1, <3>0, <3>2, <3>4, <4>1, FrameThreadsAssumption DEF ResultOK, Packet
      <4> QED BY <1>0, <1>1, <1>3, <2>1, <3>0, <3>2, <3>4, <3>5, <3>6, <3>7, <4>1, <4>2, Decides
    <3>8. CASE codec.reorder = 1
      <4>1. /\ f = Kept(t) /\ v.avctx.held = <<w.avpkt>> /\ codec.updates
            /\ <<w.avpkt>> # <<>>
        BY <1>0, <3>2, <3>3, <3>8
      <4>2. Kept(t)' = w.avpkt /\ Latent = Kept(t) /\ t = Last
        BY <2>1, <3>2, <4>1 DEF Kept
      <4>3. Latent # None => Latent \in Packet /\ Latent \notin codec.broken /\ Latent < w.avpkt
        <5>1. Undecided(t)
          BY <2>1, <3>0 DEF Undecided
        <5> QED BY <1>3, <5>1, LatentTypes DEF QueueInv, LineInv
      <4>5. Latent # None => Latent <= w.avpkt
        BY <3>0, <4>3, FrameThreadsAssumption DEF Packet
      <4>6. v.frame = Latent /\ v.avpkt = w.avpkt /\ Settled(v) /\ w.avpkt # Drain
        BY <3>0, <3>2, <3>4, <4>1, <4>2
      <4>7. ResultOK(t)'
        BY <1>1, <3>0, <3>4, <3>8, <4>1, <4>3, <4>5, <4>6 DEF ResultOK
      <4> QED BY <1>0, <1>1, <1>3, <2>1, <3>0, <3>2, <3>4, <3>5, <3>6, <3>8, <4>1, <4>2, <4>7, Decides
    <3> QED BY <1>0, <3>7, <3>8
  <2> QED BY <2>2, <2>3, <2>4
<1> QED BY <1>2, <1>3

-----------------------------------------------------------------------------
(* The user's thread.                                                      *)

(* A step of the user's thread between the calls of the threads.           *)
LEMMA UserIsQuiet ==
  ASSUME LockInv, FrameInv, QueueInv, ~Resetting,
         UNCHANGED <<codec, fctx, avci, next, inside>>,
         \A t \in Thread : Similar(threads[t], threads'[t]) /\ threads'[t].pc = threads[t].pc,
         \A t \in Thread : threads'[t].state = threads[t].state,
         user'.call = user.call, user'.got = user.got, user'.err = user.err,
         user'.pkt = user.pkt,
         \/ user'.pc = user.pc /\ user'.finished = user.finished
         \/ <<user.pc, user'.pc>> \in {<<"unlock", "submit">>, <<"submit", "waitPrev">>,
                                       <<"relock", "returned">>}
  PROVE  QueueInv'
<1>1. PrevInv' /\ \A u : Turn(u)' = Turn(u)
  BY DEF QueueInv, PrevInv, Turn
<1>2. \/ user'.pc = user.pc /\ user'.finished = user.finished
      \/ /\ {user.pc, user'.pc} \cap {"out", "sent", "get", "serve", "collect"} = {}
         /\ user.pc \in {"unlock", "submit", "waitPrev"} <=> user'.pc \in {"unlock", "submit", "waitPrev"}
         /\ user.pc \in {"relock", "returned"} <=> user'.pc \in {"relock", "returned"}
  OBVIOUS
<1>3. Turns' = Turns /\ Last' = Last /\ Entering' = Entering
  BY <1>1, <1>2 DEF Turns, Last, Entering
<1>4. ASSUME NEW t \in Thread PROVE WaitOK(t)'
  <2>1. WaitOK(t) /\ threads'[t].pc = threads[t].pc /\ threads'[t].state = threads[t].state
    BY DEF QueueInv
  <2> QED BY <1>2, <2>1 DEF WaitOK, CallsBack
<1>5. ~avci.draining => DelayInv'
  BY <1>2, <1>3 DEF QueueInv, DelayInv
<1>6. \A u \in Thread : Busy(u) => Turn(u) < Turns'
  BY <1>3 DEF QueueInv, BusyInv
<1>7. user'.pc = "collect" => \A u \in Thread : Busy(u) => Turn(user.finished)' <= Turn(u)
  BY <1>1, <1>2 DEF QueueInv, BusyInv
<1> QED BY <1>1, <1>2, <1>3, <1>4, <1>5, <1>6, <1>7, QuietQueue

(* The thread submitted to is counted.                                     *)
LEMMA CountedTurns ==
  ASSUME LockInv, FrameInv, NEW p \in Thread, p = fctx.nextDecoding,
         user.pc \in {"waitPrev", "serve"}, user'.pc = AfterSubmit(Counted(p)), fctx' = Counted(p)
  PROVE  /\ fctx'.nextFinished = fctx.nextFinished /\ fctx'.prev = p /\ PrevInv'
         /\ user'.pc \in {"collect", "relock"}
         /\ user'.pc = "relock" => ~avci.draining
         /\ ~avci.draining => (user'.pc = "collect" <=> ~fctx'.delaying)
         /\ ~fctx.delaying => ~fctx'.delaying
         /\ Turns' = Turn(p) + 1
         /\ ~avci.draining /\ fctx.delaying /\ ~fctx'.delaying => Turn(p) = ThreadCount - 1
         /\ user.finished = fctx.nextFinished /\ fctx.nextFinished \in Thread
<1>0. /\ Decoding /\ ~Resetting /\ fctx \in FctxRecord /\ fctx.nextFinished \in Thread
      /\ avci.draining <=> user.pkt = Drain
      /\ user.finished = fctx.nextFinished
      /\ ~avci.draining /\ fctx.delaying => fctx.nextFinished = 0
  BY UserFacts DEF UserOK, FctxRecord, FrameInv, DrainInv, Decoding, Resetting
<1>1. PICK d \in BOOLEAN :
        /\ fctx' = [fctx EXCEPT !.prev = p, !.nextDecoding = @ + 1, !.delaying = d]
        /\ d <=> fctx.delaying /\ p + 1 <= ThreadCount - 1
  <2>1. (fctx.delaying /\ fctx.nextDecoding + 1 <= ThreadCount - 1) \in BOOLEAN
    OBVIOUS
  <2> QED BY <2>1 DEF Counted
<1>2. /\ fctx'.nextFinished = fctx.nextFinished /\ fctx'.nextDecoding = p + 1
      /\ fctx'.prev = p /\ fctx'.delaying = d
  BY <1>0, <1>1 DEF FctxRecord
<1>3. /\ user'.pc \in {"collect", "relock"}
      /\ user'.pc = "relock" => d /\ ~avci.draining
      /\ ~avci.draining => (user'.pc = "collect" <=> ~d)
  BY <1>0, <1>2 DEF AfterSubmit
<1>4. PrevInv'
  BY <1>2 DEF PrevInv
<1>5. ~avci.draining /\ fctx.delaying /\ ~d => Turn(p) = ThreadCount - 1
  BY <1>0, <1>1, FrameThreadsAssumption DEF Turn, Thread
<1>6. \A u : Turn(u)' = Turn(u)
  BY <1>2 DEF Turn
<1>7. Turns' = Turn(p) + 1
  <2>1. CASE user'.pc = "collect"
    <3>1. Turns' = IF p + 1 \in {fctx.nextFinished, fctx.nextFinished + ThreadCount}
                   THEN ThreadCount
                   ELSE IF p + 1 = ThreadCount THEN Turn(0) ELSE Turn(p + 1)
      BY <1>2, <1>6, <2>1 DEF Turns
    <3> QED BY <1>0, <3>1, FrameThreadsAssumption DEF Turn, Thread
  <2>2. CASE user'.pc = "relock"
    <3>1. p + 1 <= ThreadCount - 1 /\ fctx.nextFinished = 0
      BY <1>0, <1>1, <1>3, <2>2
    <3>2. Turns' = Turn(p + 1)
      BY <1>2, <1>6, <2>2 DEF Turns
    <3> QED BY <3>1, <3>2, FrameThreadsAssumption DEF Turn, Thread
  <2> QED BY <1>3, <2>1, <2>2
<1> QED BY <1>0, <1>1, <1>2, <1>3, <1>4, <1>5, <1>7

(* The steps of the user's thread that hand out no packet and collect no   *)
(* result.                                                                 *)
LEMMA UserKeepsQueue ==
  ASSUME LockInv, FrameInv, QueueInv, UNCHANGED apiVars,
         \/ AsyncUnlock \/ AsyncRelock \/ SubmitNothing \/ SubmitLock
         \/ (SubmitStart /\ UNCHANGED user) \/ Serve \/ Park \/ Kill \/ JoinThread
  PROVE  QueueInv'
<1>0. /\ threads \in [Thread -> ThreadRecord] /\ user \in UserRecord /\ fctx \in FctxRecord
      /\ UserOK /\ DrainInv /\ FlagInv /\ PrevInv
      /\ UNCHANGED <<avci, next, inside>>
      /\ \A t \in Thread : StateOK(t)
  BY UserFacts DEF FrameInv, apiVars, QueueInv
<1>1. \A t \in Thread : Similar(threads[t], threads[t])
  BY DEF Similar
<1>2. CASE Resetting
  <2>1. user'.call = user.call /\ fctx' = fctx
    BY <1>0, <1>2 DEF AsyncUnlock, AsyncRelock, SubmitNothing, SubmitLock, SubmitStart, Serve, Park,
         Kill, JoinThread, UserRecord, UserOK, Decoding, Resetting
  <2>2. Resetting' /\ FlagInv' /\ PrevInv'
    BY <1>0, <1>2, <2>1 DEF Resetting, FlagInv, PrevInv
  <2> QED BY <1>0, <2>2, ResetKeeps
<1>3. CASE ~Resetting
  <2>1. CASE AsyncUnlock
    <3>1. /\ user.pc = "unlock" /\ user'.pc = "submit" /\ user'.call = user.call
          /\ user'.got = user.got /\ user'.err = user.err /\ user'.pkt = user.pkt
          /\ UNCHANGED <<codec, threads, fctx>>
      BY <1>0, <1>3, <2>1 DEF AsyncUnlock, UserRecord, Resetting
    <3> QED BY <1>0, <1>1, <1>3, <3>1, UserIsQuiet
  <2>2. CASE AsyncRelock
    <3>1. /\ user.pc = "relock" /\ user'.pc = "returned" /\ user'.call = user.call
          /\ user'.got = user.got /\ user'.err = user.err /\ user'.pkt = user.pkt
          /\ UNCHANGED <<codec, threads, fctx>>
      BY <1>0, <2>2 DEF AsyncRelock, UserRecord
    <3> QED BY <1>0, <1>1, <1>3, <3>1, UserIsQuiet
  <2>3. CASE SubmitLock
    <3>1. PICK p \in Thread : p = fctx.nextDecoding
      BY <1>0, <2>3 DEF SubmitLock, UserOK
    <3>2. /\ user.pc = "submit" /\ user'.pc = "waitPrev" /\ user'.call = user.call
          /\ user'.got = user.got /\ user'.err = user.err /\ user'.pkt = user.pkt
          /\ UNCHANGED <<codec, fctx>>
      BY <1>0, <2>3 DEF SubmitLock, UserRecord
    <3>3. threads' = [threads EXCEPT ![p].released = 0]
      BY <2>3, <3>1 DEF SubmitLock
    <3>4. ASSUME NEW t \in Thread
          PROVE  /\ Similar(threads[t], threads'[t]) /\ threads'[t].pc = threads[t].pc
                 /\ threads'[t].state = threads[t].state
      BY <1>0, <3>3 DEF Similar, ThreadRecord, Settled, Predicted, Decoded
    <3> QED BY <1>0, <1>3, <3>2, <3>4, UserIsQuiet
  <2>4. CASE SubmitStart /\ UNCHANGED user
    <3>1. UNCHANGED <<codec, threads, fctx>> /\ UNCHANGED user
      BY <1>0, <2>4 DEF SubmitStart, AfterSubmit, UserRecord
    <3> QED BY <1>0, <1>1, <1>3, <3>1, UserIsQuiet
  <2>5. CASE SubmitNothing
    <3>1. /\ user.pc = "submit" /\ user'.pc = "collect" /\ user'.call = user.call
          /\ user'.got = user.got /\ user'.err = user.err /\ user'.finished = user.finished
          /\ user.pkt = Drain /\ ~codec.capDelay
          /\ UNCHANGED <<codec, threads, fctx>>
      BY <1>0, <2>5 DEF SubmitNothing, UserRecord
    <3>2. avci.draining /\ user.finished = fctx.nextFinished /\ fctx.nextFinished \in Thread
      BY <1>0, <3>1 DEF DrainInv, UserOK, FctxRecord
    <3>3. \A u : Turn(u)' = Turn(u)
      BY <3>1 DEF Turn
    <3>4. \A u \in Thread : Turn(u) \in 0 .. ThreadCount - 1 /\ Turn(fctx.nextFinished) = 0
      BY <3>2, TurnFacts
    <3>5. Turns' \in {Turns, ThreadCount}
      <4>1. fctx.nextDecoding # ThreadCount
        BY <1>0, <3>1, FrameThreadsAssumption DEF UserOK, Thread
      <4> QED BY <3>1, <3>3, <4>1 DEF Turns, Turn
    <3>6. \A u \in Thread : Busy(u) => Turn(u) < Turns'
      BY <1>3, <3>4, <3>5, FrameThreadsAssumption DEF QueueInv, BusyInv
    <3>7. \A u \in Thread : Turn(user.finished)' <= Turn(u)
      BY <3>1, <3>2, <3>3, <3>4, FrameThreadsAssumption
    <3>8. Last' = Last /\ Entering' = None /\ Entering = Drain
      BY <3>1 DEF Last, Entering
    <3>9. \A t \in Thread : WaitOK(t)'
      <4>1. \A t \in Thread : WaitOK(t)
        BY <1>3 DEF QueueInv
      <4> QED BY <3>1, <4>1 DEF WaitOK, CallsBack
    <3>10. PrevInv'
      BY <1>0, <3>1 DEF PrevInv
    <3> QED BY <1>0, <1>1, <1>3, <3>1, <3>2, <3>6, <3>7, <3>8, <3>9, <3>10, QuietQueue
  <2>6. CASE Serve
    <3>1. PICK p \in Thread : p = fctx.nextDecoding
      BY <1>0, <2>6 DEF Serve, UserOK
    <3>2. CASE threads[p].state = "SETTING_UP" /\ UNCHANGED <<threads, fctx, user>>
      <4>1. UNCHANGED codec
        BY <2>6 DEF Serve
      <4> QED BY <1>0, <1>1, <1>3, <3>2, <4>1, UserIsQuiet
    <3>3. CASE /\ threads[p].state \in {"GET_BUFFER", "GET_FORMAT"}
               /\ threads' = [threads EXCEPT ![p].state = "SETTING_UP"]
               /\ UNCHANGED <<fctx, user>>
      <4>1. UNCHANGED codec /\ user.pc = "serve"
        BY <2>6 DEF Serve
      <4>2. threads[p].pc \in {"formatWait", "bufferWait"}
        BY <1>0, <3>3 DEF StateOK
      <4>3. ASSUME NEW t \in Thread PROVE Similar(threads[t], threads'[t])
        BY <1>0, <3>3, <4>2 DEF Similar, ThreadRecord, Settled, Predicted, Decoded
      <4>4. ASSUME NEW t \in Thread PROVE WaitOK(t)'
        <5>1. WaitOK(t)
          BY <1>3 DEF QueueInv
        <5>2. CASE t # p
          BY <1>0, <3>3, <4>1, <5>1, <5>2 DEF WaitOK, CallsBack
        <5>3. CASE t = p
          BY <1>0, <3>1, <3>3, <4>1, <5>1, <5>3 DEF WaitOK, CallsBack, ThreadRecord
        <5> QED BY <5>2, <5>3
      <4>5. /\ \A u : Turn(u)' = Turn(u)
            /\ Last' = Last /\ Entering' = Entering
        BY <3>3 DEF Turn, Last, Entering
      <4>6. Turns' = Turns
        BY <3>3, <4>5 DEF Turns
      <4>7. ~avci.draining => DelayInv'
        BY <1>3, <3>3, <4>6 DEF QueueInv, DelayInv
      <4>8. \A u \in Thread : Busy(u) => Turn(u) < Turns'
        BY <1>3, <4>6 DEF QueueInv, BusyInv
      <4>9. PrevInv'
        BY <1>0, <3>3 DEF PrevInv
      <4> QED BY <1>0, <1>3, <3>3, <4>1, <4>3, <4>4, <4>5, <4>6, <4>7, <4>8, <4>9, QuietQueue
    <3>4. CASE /\ threads[p].state \in {"SETUP_FINISHED", "INPUT_READY"}
               /\ fctx' = Counted(p)
               /\ user' = [user EXCEPT !.pc = AfterSubmit(Counted(p))]
               /\ UNCHANGED threads
      <4>1. UNCHANGED codec /\ user.pc = "serve" /\ Last = p
        BY <2>6, <3>1 DEF Serve, Last
      <4>2. /\ user'.call = user.call /\ user'.got = user.got /\ user'.err = user.err
            /\ user'.finished = user.finished /\ user'.pc = AfterSubmit(Counted(p))
        BY <1>0, <3>4 DEF UserRecord
      <4>3. /\ fctx'.nextFinished = fctx.nextFinished /\ fctx'.prev = p /\ PrevInv'
            /\ user'.pc \in {"collect", "relock"}
            /\ user'.pc = "relock" => ~avci.draining
            /\ ~avci.draining => (user'.pc = "collect" <=> ~fctx'.delaying)
            /\ ~fctx.delaying => ~fctx'.delaying
            /\ Turns' = Turn(p) + 1
            /\ ~avci.draining /\ fctx.delaying /\ ~fctx'.delaying => Turn(p) = ThreadCount - 1
            /\ user.finished = fctx.nextFinished /\ fctx.nextFinished \in Thread
        BY <3>1, <3>4, <4>1, <4>2, CountedTurns
      <4>4. Last' = Last /\ Entering' = Entering /\ Turns' = Turns
        BY <3>1, <4>1, <4>3 DEF Last, Entering, Turns
      <4>5. ASSUME NEW t \in Thread PROVE WaitOK(t)'
        <5>1. WaitOK(t)
          BY <1>3 DEF QueueInv
        <5>2. ~(CallsBack /\ threads[t].state \in {"SETTING_UP", "GET_FORMAT", "GET_BUFFER"})
          BY <3>1, <3>4, <5>1 DEF WaitOK
        <5> QED BY <3>4, <4>1, <5>1, <5>2 DEF WaitOK, CallsBack
      <4>6. /\ \A u : Turn(u)' = Turn(u)
            /\ \A u \in Thread : Turn(u) \in 0 .. ThreadCount - 1 /\ Turn(fctx.nextFinished) = 0
        BY <4>3, TurnFacts DEF Turn
      <4>7. ~avci.draining => DelayInv'
        <5>1. ~avci.draining /\ ~fctx'.delaying => Turns' = ThreadCount
          <6>1. ~avci.draining /\ ~fctx.delaying => Turns = ThreadCount
            BY <1>3, <4>1 DEF QueueInv, DelayInv
          <6> QED BY <4>3, <4>4, <6>1, FrameThreadsAssumption
        <5> QED BY <4>2, <4>3, <5>1 DEF DelayInv
      <4>8. \A u \in Thread : Busy(u) => Turn(u) < Turns'
        BY <1>3, <4>4 DEF QueueInv, BusyInv
      <4>9. \A u \in Thread : Turn(user.finished)' <= Turn(u)
        BY <4>2, <4>3, <4>6, FrameThreadsAssumption
      <4> QED BY <1>0, <1>1, <1>3, <3>4, <4>1, <4>2, <4>3, <4>4, <4>5, <4>7, <4>8, <4>9, QuietQueue
    <3> QED BY <2>6, <3>1, <3>2, <3>3, <3>4 DEF Serve
  <2> QED BY <1>0, <1>3, <2>1, <2>2, <2>3, <2>4, <2>5, <2>6
        DEF Park, Kill, JoinThread, UserOK, Resetting
<1> QED BY <1>2, <1>3

(* The packet handed over goes to the thread whose turn it is, with the    *)
(* context, and the frame held back, of the thread before.                 *)
LEMMA Submits ==
  ASSUME LockInv, FrameInv, QueueInv, UNCHANGED apiVars, SubmitStart, ~UNCHANGED user
  PROVE  QueueInv'
<1> DEFINE prev == fctx.prev
           x == user.pkt
<1>0. /\ threads \in [Thread -> ThreadRecord] /\ user \in UserRecord /\ fctx \in FctxRecord
      /\ UNCHANGED <<codec, avci, next, inside>>
      /\ user.pc = "waitPrev" /\ ~Resetting
      /\ avci.frame = None /\ user.pkt \in Packet \cup {Drain}
      /\ avci.draining <=> user.pkt = Drain
      /\ fctx.nextDecoding \in Thread /\ fctx.nextFinished \in Thread
      /\ user.holds = fctx.nextDecoding
      /\ prev \in Thread \cup {None}
      /\ user.finished = fctx.nextFinished
      /\ Packet \subseteq Nat
  BY UserFacts, FrameThreadsAssumption
     DEF SubmitStart, UserOK, Decoding, Resetting, FctxRecord, apiVars, UserRecord, FrameInv, DrainInv,
         Packet
<1>1. PICK p \in Thread : p = fctx.nextDecoding
  BY <1>0
<1>2. /\ PlaceInv /\ FlagInv /\ PrevInv /\ NewInv /\ LineInv /\ HandInv /\ BusyInv
      /\ \A u \in Thread : WaitOK(u) /\ ResultOK(u)
      /\ ~avci.draining => GapInv /\ CountInv /\ DelayInv /\ FullInv
      /\ avci.draining => EndInv
  BY <1>0 DEF QueueInv
<1>3. /\ Last = prev /\ Turns = Turn(p) /\ ~Busy(p) /\ Finished(p)
      /\ threads[p].frame = None /\ ~Failed(p)
      /\ p # prev
      /\ \A u : Turn(u) \in Nat \/ u \notin Thread
      /\ Entering = x /\ user.got = None /\ ~user.err /\ avci.bsf = None
      /\ threads[p].pc = "idle"
  <2>1. Last = prev /\ Turns = Turn(p) /\ Entering = x
    BY <1>0, <1>1 DEF Last, Turns, Entering
  <2>2. \A u \in Thread : Turn(u) \in 0 .. ThreadCount - 1
    BY <1>0, TurnFacts
  <2>3. ~Busy(p)
    BY <1>2, <2>1, <2>2, FrameThreadsAssumption DEF BusyInv
  <2>4. p # prev
    <3>1. ASSUME p = prev PROVE FALSE
      <4>1. p \in {p + 1, (p + 1) % ThreadCount}
        BY <1>1, <1>2, <3>1, Names DEF PrevInv
      <4>2. (p + 1) % ThreadCount = IF p + 1 = ThreadCount THEN 0 ELSE p + 1
        BY NextTurn
      <4> QED BY <4>1, <4>2, FrameThreadsAssumption DEF Thread
    <3> QED BY <3>1
  <2>5. user.got = None /\ ~user.err /\ avci.bsf = None
    BY <1>0, <1>2 DEF NewInv
  <2>6. threads[p].pc = "idle"
    BY <1>0, <1>1, UserFacts, Names DEF HeldIsIdle
  <2>7. Finished(p) /\ threads[p].frame = None /\ ~Failed(p)
    BY <2>3 DEF Busy
  <2> QED BY <2>1, <2>2, <2>4, <2>5, <2>6, <2>7, <2>3, FrameThreadsAssumption
<1>4. SetupDone(prev) /\ sleeping' = sleeping
  BY <1>0, <1>1 DEF SubmitStart
<1>5. /\ threads' = [threads EXCEPT ![p].avctx = ContextFrom(prev, p), ![p].avpkt = x,
                                    ![p].state = "SETTING_UP"]
      /\ \/ CallsBack /\ user' = [user EXCEPT !.pc = "serve", !.holds = None] /\ fctx' = fctx
         \/ /\ ~CallsBack /\ fctx' = Counted(p)
            /\ user' = [user EXCEPT !.pc = AfterSubmit(Counted(p)), !.holds = None]
  BY <1>1, <1>4 DEF SubmitStart
<1>6. /\ user'.call = user.call /\ user'.got = None /\ ~user'.err /\ user'.finished = user.finished
      /\ user'.pkt = user.pkt
      /\ \/ CallsBack /\ user'.pc = "serve" /\ fctx' = fctx
         \/ ~CallsBack /\ fctx' = Counted(p) /\ user'.pc = AfterSubmit(Counted(p))
  BY <1>0, <1>3, <1>5 DEF UserRecord
<1>7. /\ fctx'.nextFinished = fctx.nextFinished /\ Last' = p /\ PrevInv'
      /\ user'.pc \in {"serve", "collect", "relock"}
      /\ CallsBack => user'.pc = "serve" /\ p = fctx'.nextDecoding
      /\ user'.pc = "relock" => ~avci.draining
      /\ Turns' = Turn(p) + 1
      /\ ~avci.draining /\ ~fctx'.delaying =>
           user'.pc \in {"serve", "collect"} /\ (~fctx.delaying \/ Turn(p) = ThreadCount - 1)
  <2>1. CASE CallsBack
    <3>1. user'.pc = "serve" /\ fctx' = fctx
      BY <1>6, <2>1
    <3>2. Turns' = Turn(p) + 1
      BY <1>1, <3>1 DEF Turns, Turn
    <3> QED BY <1>1, <1>2, <3>1, <3>2 DEF PrevInv, Last
  <2>2. CASE ~CallsBack
    <3>1. user'.pc = AfterSubmit(Counted(p)) /\ fctx' = Counted(p)
      BY <1>6, <2>2
    <3>2. /\ fctx'.nextFinished = fctx.nextFinished /\ fctx'.prev = p /\ PrevInv'
          /\ user'.pc \in {"collect", "relock"}
          /\ user'.pc = "relock" => ~avci.draining
          /\ ~avci.draining => (user'.pc = "collect" <=> ~fctx'.delaying)
          /\ ~fctx.delaying => ~fctx'.delaying
          /\ Turns' = Turn(p) + 1
          /\ ~avci.draining /\ fctx.delaying /\ ~fctx'.delaying => Turn(p) = ThreadCount - 1
      BY <1>0, <1>1, <3>1, CountedTurns
    <3> QED BY <2>2, <3>2 DEF Last
  <2> QED BY <2>1, <2>2
<1>8. \A u : Turn(u)' = Turn(u)
  BY <1>7 DEF Turn
<1> DEFINE c == ContextFrom(prev, p)
<1>9. /\ threads'[p].pc = "idle" /\ threads'[p].state = "SETTING_UP" /\ threads'[p].avpkt = x
      /\ threads'[p].frame = None /\ threads'[p].result = threads[p].result
      /\ threads'[p].avctx = c
      /\ \A u \in Thread \ {p} : threads'[u] = threads[u]
  <2> HIDE DEF c
  <2>1. threads' = [threads EXCEPT ![p].avctx = c, ![p].avpkt = x, ![p].state = "SETTING_UP"]
    BY <1>5 DEF c
  <2> QED BY <1>0, <1>3, <2>1 DEF ThreadRecord
<1>10. ASSUME NEW u \in Thread \ {p}
       PROVE  /\ threads'[u] = threads[u]
              /\ Awaited(u)' = Awaited(u) /\ Kept(u)' = Kept(u)
              /\ Undecided(u)' <=> Undecided(u)
              /\ Busy(u)' <=> Busy(u)
              /\ ResultOK(u)' /\ WaitOK(u)'
  <2>1. threads'[u] = threads[u] /\ WaitOK(u) /\ ResultOK(u)
    BY <1>2, <1>9
  <2>2. /\ Undecided(u)' <=> Undecided(u)
        /\ Failed(u)' <=> Failed(u)
    BY <2>1 DEF Undecided, Failed
  <2>3. Awaited(u)' = Awaited(u) /\ Kept(u)' = Kept(u)
    BY <2>1, <2>2 DEF Awaited, Kept
  <2>4. Busy(u)' <=> Busy(u)
    BY <2>1, <2>2 DEF Busy, Finished
  <2>5. ResultOK(u)'
    BY <1>0, <2>1, <2>2, <2>3 DEF ResultOK
  <2>6. WaitOK(u)'
    BY <1>0, <2>1 DEF WaitOK, CallsBack
  <2> QED BY <2>1, <2>2, <2>3, <2>4, <2>5, <2>6
<1>11. c.held # <<>> => Latent = c.ref
  <2>1. CASE prev = None
    <3>1. Kept(p) = None
      BY <1>2, <1>3, <2>1 DEF BusyInv
    <3>2. c = threads[p].avctx
      BY <2>1 DEF ContextFrom
    <3>3. FrameOK(p)
      BY DEF FrameInv
    <3> QED BY <3>1, <3>2, <3>3 DEF Kept, FrameOK
  <2>2. CASE prev # None /\ codec.updates
    BY <1>0, <1>3, <2>2 DEF ContextFrom, Latent, Kept
  <2>3. CASE prev # None /\ ~codec.updates
    <3>1. threads[p].avctx \in ContextRecord
      BY <1>0 DEF ThreadRecord
    <3>2. c.held = threads[p].avctx.held
      BY <2>3, <3>1 DEF ContextFrom, ContextRecord
    <3>3. FrameOK(p) /\ Kept(p) = None
      BY <1>2, <2>3 DEF FrameInv, ResultOK
    <3> QED BY <3>2, <3>3 DEF Kept, FrameOK
  <2> QED BY <2>1, <2>2, <2>3, WorkerFacts, CodecOK
<1>12. Latent' = Latent /\ Kept(p)' = Latent
  <2>1. c.held = <<>> => Latent = None
    <3>1. CASE prev = None
      BY <1>3, <3>1 DEF Latent
    <3>2. CASE prev # None /\ codec.updates
      BY <1>0, <1>3, <3>2 DEF ContextFrom, Latent, Kept
    <3>3. CASE prev # None /\ ~codec.updates
      BY <1>0, <1>2, <1>3, <3>3 DEF Latent, ResultOK
    <3> QED BY <3>1, <3>2, <3>3, WorkerFacts, CodecOK
  <2>2. Kept(p)' = Latent
    BY <1>9, <1>11, <2>1 DEF Kept
  <2>3. Latent' = Kept(p)'
    BY <1>7, Names DEF Latent
  <2> QED BY <2>2, <2>3
<1> HIDE DEF c
<1>13. /\ ~Failed(p)' /\ ~Settled(threads'[p]) /\ Busy(p)'
       /\ Undecided(p)' <=> x \in Packet
       /\ Awaited(p)' = IF x \in Packet THEN x ELSE None
       /\ Entering' = None
       /\ Awaited(p) = None /\ ~Undecided(p)
  <2>1. ~Failed(p)' /\ ~Settled(threads'[p]) /\ Busy(p)'
    BY <1>3, <1>9 DEF Failed, Settled, Predicted, Decoded, Busy, Finished
  <2>2. Undecided(p)' <=> x \in Packet
    BY <1>9, <2>1 DEF Undecided
  <2>3. Awaited(p)' = IF x \in Packet THEN x ELSE None
    BY <1>9, <2>1, <2>2 DEF Awaited
  <2>4. ~Undecided(p)
    BY <1>2, <1>3, AwaitedTypes
  <2> QED BY <1>3, <1>7, <2>1, <2>2, <2>3, <2>4 DEF Entering, Awaited
<1>14. x \in Packet => Newest(x)
  <2>1. PICK e : e = Entering
    OBVIOUS
  <2>2. e \in Packet => Newest(e)
    BY <1>2, <2>1 DEF NewInv
  <2> QED BY <1>3, <2>1, <2>2
<1>15. PlaceInv'
  <2>1. ASSUME NEW y \in Packet PROVE Somewhere(y)' <=> Somewhere(y)
    BY <1>0, <1>3, <1>6, <1>10, <1>12, <1>13, Names DEF Somewhere
  <2> QED BY <1>0, <1>2, <2>1 DEF PlaceInv
<1>16. FlagInv'
  BY <1>0, <1>2, <1>6 DEF FlagInv
<1>17. NewInv'
  <2>1. x \in Packet => x < next
    BY <1>2, <1>3, <1>0 DEF PlaceInv, Somewhere
  <2>2. Newest(next)'
    BY <1>0, <1>2, <1>9, <1>10, <1>12, <2>1 DEF NewInv, Newest
  <2> QED BY <1>0, <1>3, <1>6, <1>7, <1>13, <2>2, Names DEF NewInv
<1>18. \A u \in Thread : /\ Awaited(u) \in Packet \cup {None}
                         /\ Awaited(u) # None => Busy(u)
                         /\ threads[u].frame # None => Awaited(u) = threads[u].frame
                         /\ threads[u].frame \in Packet \cup {None}
                         /\ Busy(u) => u # p /\ Turn(u) < Turn(p)
  BY <1>2, <1>3, AwaitedTypes, ThreadTypes DEF BusyInv
<1>19. LineInv'
  <2>1. ASSUME NEW a \in Thread, NEW b \in Thread,
               Turn(a) < Turn(b), Awaited(a)' # None, Awaited(b)' # None
        PROVE  /\ threads'[a].avpkt \in Packet /\ threads'[b].avpkt \in Packet =>
                    threads'[a].avpkt < threads'[b].avpkt
               /\ threads'[a].frame # None => threads'[a].frame < Awaited(b)'
    <3>1. a # p
      <4>1. CASE b = p
        BY <1>3, <2>1, <4>1
      <4>2. CASE b # p
        BY <1>3, <1>10, <1>18, <2>1, <4>2
      <4> QED BY <4>1, <4>2
    <3>2. threads'[a] = threads[a] /\ Awaited(a) # None
      BY <1>10, <2>1, <3>1
    <3>3. CASE b # p
      BY <1>2, <1>10, <2>1, <3>2, <3>3 DEF LineInv
    <3>4. CASE b = p
      <4>1. x \in Packet /\ Awaited(p)' = x /\ threads'[p].avpkt = x /\ Newest(x)
        BY <1>9, <1>13, <1>14, <2>1, <3>4
      <4>2. ~avci.draining
        BY <1>0, <4>1, Names
      <4>3. threads[a].frame # None => threads[a].avpkt \in Packet /\ threads[a].frame <= threads[a].avpkt
        <5>1. threads[a].frame # None => threads[a].avpkt # Drain
          BY <1>0, <4>2 DEF FrameInv, DrainInv, OnDrain
        <5> QED BY <1>2, <5>1 DEF ResultOK
      <4>4. threads[a].avpkt \in Packet => threads[a].avpkt < x
        BY <4>1 DEF Newest
      <4>5. threads[a].frame # None => threads[a].frame < x
        <5>1. threads[a].frame \in Packet \cup {None}
          BY <1>18
        <5> QED BY <4>1, <4>3, <4>4, <5>1, FrameThreadsAssumption DEF Packet
      <4> QED BY <3>2, <3>4, <4>1, <4>4, <4>5
    <3> QED BY <3>3, <3>4
  <2>2. ASSUME Latent # None
        PROVE  /\ Latent \notin codec.broken
               /\ \A a \in Thread :
                    /\ Undecided(a)' => Latent < threads'[a].avpkt
                    /\ threads'[a].frame # None => threads'[a].frame < Latent
    <3>1. ASSUME NEW a \in Thread \ {p}
          PROVE  /\ Undecided(a)' => Latent < threads'[a].avpkt
                 /\ threads'[a].frame # None => threads'[a].frame < Latent
      BY <1>2, <1>10, <2>2, <3>1 DEF LineInv
    <3>2. Undecided(p)' => Latent < threads'[p].avpkt
      BY <1>9, <1>13, <1>14, <2>2 DEF Newest
    <3> QED BY <1>2, <1>9, <2>2, <3>1, <3>2 DEF LineInv
  <2>3. \A a, b \in Thread : Turn(a)' < Turn(b)' => Turn(a) < Turn(b)
    BY <1>8
  <2> QED BY <1>0, <1>12, <2>1, <2>2, <2>3 DEF LineInv
<1>20. HandInv'
  BY <1>0, <1>6 DEF HandInv
<1>21. ASSUME NEW u \in Thread PROVE WaitOK(u)' /\ ResultOK(u)'
  <2>1. WaitOK(p)'
    BY <1>0, <1>1, <1>7, <1>9 DEF WaitOK, CallsBack
  <2>2. codec.reorder = 0 \/ ~codec.updates => Latent = None
    BY <1>0, <1>2, <1>3 DEF Latent, ResultOK
  <2>3. ResultOK(p)'
    <3>1. ~Decoded(threads'[p])
      BY <1>13 DEF Settled
    <3> QED BY <1>0, <1>9, <1>12, <1>13, <2>2, <3>1 DEF ResultOK
  <2> QED BY <1>10, <2>1, <2>3
<1>22. \A u \in Thread \ {p} : codec.updates => Settled(threads[u])
  <2>1. ASSUME NEW u \in Thread \ {p}, codec.updates, ~Settled(threads[u]) PROVE FALSE
    <3>1. u = prev
      BY <1>2, <1>3, <2>1 DEF BusyInv
    <3>2. threads[u].state # "SETTING_UP" /\ WaitOK(u) /\ threads[u] \in ThreadRecord /\ StateOK(u)
      BY <1>0, <1>2, <1>4, <3>1, UserFacts, Names DEF SetupDone
    <3>3. threads[u].state \notin {"GET_FORMAT", "GET_BUFFER"}
      BY <1>0, <3>2 DEF WaitOK
    <3>4. threads[u].pc \notin {"formatWait", "bufferWait"}
      BY <3>2, <3>3 DEF WaitOK
    <3> QED BY <2>1, <3>2, <3>3, <3>4
            DEF StateOK, SetupFirst, Settled, Predicted, Decoded, ThreadRecord, WorkerLabel
  <2> QED BY <2>1
<1>23. BusyInv'
  <2>1. \A u \in Thread : Busy(u)' => Turn(u) < Turn(p) + 1
    BY <1>3, <1>10, <1>18
  <2>2. \A u \in Thread : Turn(fctx.nextFinished) <= Turn(u)
    <3>1. Turn(fctx.nextFinished) = 0
      BY <1>0, TurnFacts
    <3> QED BY <1>3, <3>1
  <2>3. user'.finished = fctx.nextFinished
    BY <1>0, <1>6
  <2>4. \A u \in Thread : Turn(user.finished)' <= Turn(u)'
    BY <1>8, <2>2, <2>3 DEF Turn
  <2>5. codec'.updates => \A u \in Thread : u = Last' \/ Settled(threads'[u])
    BY <1>0, <1>7, <1>10, <1>22
  <2>6. Last' # None
    BY <1>7, Names
  <2> QED BY <1>7, <1>8, <2>1, <2>4, <2>5, <2>6 DEF BusyInv
<1>24. ASSUME ~avci.draining PROVE GapInv' /\ CountInv' /\ DelayInv' /\ FullInv'
  <2>0. /\ GapInv /\ CountInv /\ DelayInv /\ FullInv /\ x \in Packet /\ Awaited(p)' # None
        /\ Turn(p) \in Nat
    BY <1>0, <1>2, <1>3, <1>13, <1>24, Names
  <2>1. ASSUME NEW u \in Thread PROVE Gap(u)' <=> Gap(u)
    <3>1. CASE u = p
      BY <1>3, <2>0, <3>1 DEF Gap
    <3>2. CASE u # p
      <4>1. Turn(u) # Turn(p) /\ Turn(u) \in Nat
        BY <1>0, <1>3, <3>2, TurnFacts
      <4> QED BY <1>3, <1>7, <1>8, <1>10, <2>0, <3>2, <4>1 DEF Gap
    <3> QED BY <3>1, <3>2
  <2>2. \A u \in Thread : threads'[u].frame = threads[u].frame
    BY <1>3, <1>9, <1>10
  <2>3. GapInv'
    BY <1>0, <1>8, <1>12, <2>0, <2>1, <2>2 DEF GapInv
  <2>4. Primed' <=> Primed
    BY <1>0, <1>12, <2>1 DEF Primed
  <2>5. CountInv'
    <3>1. Entering # None /\ Entering' = None
      BY <1>3, <1>13, <2>0, Names
    <3>2. One(Entering # None) = 1 /\ One(Entering' # None) = 0
      BY <3>1 DEF One
    <3>3. One(user.got # None) = One(user'.got # None)
      BY <1>3, <1>6
    <3>4. One(avci.frame # None) \in Nat /\ One(avci.bsf # None) \in Nat /\ One(Primed) \in Nat
          /\ One(user.got # None) \in Nat
      BY DEF One
    <3>5. One(Primed') = One(Primed)
      BY <2>4 DEF One
    <3> HIDE DEF One
    <3>6. Turns = Turn(p) /\ Turns' = Turn(p) + 1 /\ avci' = avci /\ inside' = inside
      BY <1>0, <1>3, <1>7
    <3> QED BY <2>0, <3>2, <3>3, <3>4, <3>5, <3>6 DEF CountInv
  <2>6. DelayInv'
    <3>1. ~fctx'.delaying => Turns' = ThreadCount
      <4>1. ~fctx.delaying => Turn(p) = ThreadCount - 1
        BY <1>0, <1>3, <2>0 DEF DelayInv
      <4> QED BY <1>7, <1>24, <4>1, FrameThreadsAssumption
    <3> QED BY <1>0, <1>6, <1>7, <1>24, <3>1 DEF DelayInv
  <2>7. FullInv'
    BY <1>0, <1>3, <1>6, <1>7 DEF FullInv
  <2> QED BY <2>3, <2>5, <2>6, <2>7
<1>25. ASSUME avci.draining PROVE EndInv'
  <2>0. EndInv /\ x = Drain /\ x \notin Packet
    BY <1>0, <1>2, <1>25, Names
  <2>1. MayFail' = MayFail
    <3>1. p \notin MayFail /\ p \notin MayFail'
      BY <1>3, <1>9, <2>0 DEF MayFail
    <3>2. \A u \in Thread \ {p} : (Busy(u)' <=> Busy(u)) /\ threads'[u].avpkt = threads[u].avpkt
      BY <1>10
    <3> QED BY <3>1, <3>2 DEF MayFail
  <2>2. One(user'.err) = One(user.err)
    BY <1>3, <1>6 DEF One
  <2>3. Last' # None /\ threads'[Last'].avpkt = Drain
    BY <1>7, <1>9, <2>0, Names
  <2> QED BY <1>0, <1>7, <1>25, <2>0, <2>1, <2>2, <2>3 DEF EndInv
<1>26. ~Resetting'
  BY <1>0, <1>6 DEF Resetting
<1> QED BY <1>0, <1>7, <1>15, <1>16, <1>17, <1>19, <1>20, <1>21, <1>23, <1>24, <1>25, <1>26 DEF QueueInv

(* The result of the thread whose turn it is is taken.                     *)
LEMMA CollectsQueue ==
  ASSUME LockInv, FrameInv, QueueInv, UNCHANGED apiVars, Collect
  PROVE  QueueInv'
<1> DEFINE n == (user.finished + 1) % ThreadCount
<1>1. PICK p \in Thread : p = user.finished
  BY UserFacts DEF UserRecord
<1>0. /\ threads \in [Thread -> ThreadRecord] /\ user \in UserRecord /\ fctx \in FctxRecord
      /\ UNCHANGED <<codec, avci, next, inside>>
      /\ user.pc = "collect" /\ ~Resetting /\ Finished(p)
      /\ avci.frame = None
      /\ avci.draining <=> user.pkt = Drain
      /\ fctx.nextDecoding \in 0 .. ThreadCount /\ fctx.nextFinished \in Thread
      /\ fctx.prev \in Thread \cup {None}
      /\ n \in Thread
      /\ threads[p] \in ThreadRecord
      /\ ~avci.draining => ~fctx.delaying
      /\ Packet \subseteq Nat
      /\ codec.reorder \in {0, 1} /\ (codec.reorder = 1 => codec.updates /\ codec.capDelay)
  <2>1. codec.reorder \in 0 .. 1 /\ (codec.reorder > 0 => codec.updates /\ codec.capDelay)
    BY WorkerFacts, CodecOK, FrameThreadsAssumption
  <2> QED BY <1>1, <2>1, UserFacts, NextTurn, FrameThreadsAssumption
     DEF Collect, UserOK, Decoding, Resetting, FctxRecord, apiVars, FrameInv, DrainInv, Packet
<1>2. /\ PlaceInv /\ FlagInv /\ PrevInv /\ NewInv /\ LineInv /\ HandInv /\ BusyInv
      /\ \A u \in Thread : WaitOK(u) /\ ResultOK(u)
      /\ ~avci.draining => GapInv /\ CountInv /\ DelayInv /\ FullInv
      /\ avci.draining => EndInv
  BY <1>0 DEF QueueInv
<1>3. /\ Last = fctx.prev /\ Entering = None /\ user.got = None /\ ~user.err /\ avci.bsf = None
      /\ \A u \in Thread : Turn(u) \in 0 .. ThreadCount - 1
      /\ \A u \in Thread : Busy(u) => Turn(p) <= Turn(u)
      /\ \A u \in Thread : u # p => Turn(u) # Turn(p)
  BY <1>0, <1>1, <1>2, TurnFacts DEF Last, Entering, NewInv, BusyInv
<1>4. /\ threads' = [threads EXCEPT ![p].frame = None, ![p].result = "ok"]
      /\ threads'[p].frame = None /\ threads'[p].result = "ok"
      /\ threads'[p].avpkt = threads[p].avpkt /\ threads'[p].pc = threads[p].pc
      /\ threads'[p].ret = threads[p].ret
      /\ threads'[p].state = threads[p].state /\ threads'[p].avctx = threads[p].avctx
      /\ \A u \in Thread \ {p} : threads'[u] = threads[u]
  <2>1. threads' = [threads EXCEPT ![p].frame = None, ![p].result = "ok"]
    BY <1>1 DEF Collect, TakeResult
  <2> QED BY <1>0, <2>1 DEF ThreadRecord
<1>5. /\ Settled(threads[p]) /\ ~Undecided(p) /\ Settled(threads'[p]) /\ ~Undecided(p)'
      /\ Awaited(p) = IF Failed(p) THEN threads[p].avpkt ELSE threads[p].frame
      /\ Failed(p) => threads[p].frame = None /\ threads[p].avpkt \in codec.broken
      /\ Awaited(p) \in Packet \cup {None}
      /\ threads[p].frame \in Packet \cup {None}
      /\ codec.broken \subseteq Packet
      /\ ~Failed(p)' /\ Awaited(p)' = None /\ Kept(p)' = Kept(p) /\ ~Busy(p)'
  <2>1. Settled(threads[p]) /\ Settled(threads'[p])
    BY <1>0, <1>4, UserFacts DEF Finished, StateOK, Settled, Decoded
  <2>2. ~Undecided(p) /\ ~Undecided(p)'
    BY <2>1 DEF Undecided
  <2>3. ~Failed(p)' /\ Kept(p)' = Kept(p)
    BY <1>4 DEF Failed, Kept
  <2>4. Failed(p) => threads[p].frame = None /\ threads[p].avpkt \in codec.broken
    BY <1>2 DEF ResultOK
  <2>5. ~Busy(p)'
    BY <1>0, <1>4, <2>3 DEF Busy, Finished
  <2> QED BY <1>2, <1>4, <2>1, <2>2, <2>3, <2>4, <2>5, AwaitedTypes, ThreadTypes DEF Awaited
<1>6. PICK again \in BOOLEAN :
        /\ again <=> user.pkt = Drain /\ Awaited(p) = None /\ n # fctx.nextFinished
        /\ user'.pc = IF again THEN "collect" ELSE "relock"
        /\ user'.finished = n /\ user'.call = user.call /\ user'.pkt = user.pkt
        /\ user'.got = Awaited(p) /\ (user'.err <=> Failed(p))
        /\ fctx' = IF again THEN fctx
                   ELSE [fctx EXCEPT !.nextFinished = n, !.nextDecoding = @ % ThreadCount]
  <2> DEFINE e == Failed(p)
             g == IF e THEN threads[p].avpkt ELSE threads[p].frame
             again == Again(threads[p].frame, e, n)
  <2>1. again \in BOOLEAN /\ e \in BOOLEAN
    BY DEF Again, Failed
  <2>2. /\ user' = [user EXCEPT !.finished = n, !.err = e, !.got = g,
                                !.pc = IF again THEN "collect" ELSE "relock"]
        /\ fctx' = IF again THEN fctx
                   ELSE [fctx EXCEPT !.nextFinished = n, !.nextDecoding = @ % ThreadCount]
    BY <1>1 DEF Collect, Failed
  <2>3. g = Awaited(p)
    BY <1>5
  <2>4. again <=> user.pkt = Drain /\ Awaited(p) = None /\ n # fctx.nextFinished
    <3>1. Failed(p) => Awaited(p) # None
      BY <1>5, Names
    <3>2. ~Failed(p) => Awaited(p) = threads[p].frame
      BY <1>5
    <3> QED BY <3>1, <3>2 DEF Again
  <2>5. e <=> Failed(p)
    OBVIOUS
  <2> HIDE DEF e, g, again, n
  <2>6. /\ user'.pc = IF again THEN "collect" ELSE "relock"
        /\ user'.finished = n /\ user'.call = user.call /\ user'.pkt = user.pkt
        /\ user'.got = g /\ user'.err = e
    BY <1>0, <2>2 DEF UserRecord
  <2> QED BY <2>1, <2>2, <2>3, <2>4, <2>5, <2>6
<1> HIDE DEF n
<1>7. CASE again
  <2>1. fctx' = fctx /\ user'.pc = "collect" /\ Awaited(p) = None /\ avci.draining /\ ~Failed(p)
        /\ threads[p].frame = None /\ n # fctx.nextFinished
    BY <1>0, <1>5, <1>6, <1>7, Names
  <2>2. \A u \in Thread : Similar(threads[u], threads'[u])
    <3>1. threads[p].result = "ok"
      BY <1>0, <2>1 DEF Failed, ThreadRecord
    <3>2. Similar(threads[p], threads'[p])
      BY <1>4, <2>1, <3>1 DEF Similar, Settled, Predicted, Decoded
    <3>3. \A u \in Thread \ {p} : Similar(threads[u], threads'[u])
      BY <1>4 DEF Similar
    <3> QED BY <3>2, <3>3
  <2>3. \A u \in Thread : WaitOK(u)'
    <3>1. ASSUME NEW u \in Thread PROVE WaitOK(u)'
      <4>1. WaitOK(u) /\ threads'[u].pc = threads[u].pc /\ threads'[u].state = threads[u].state
        BY <1>2, <1>4
      <4> QED BY <1>0, <2>1, <4>1 DEF WaitOK, CallsBack
    <3> QED BY <3>1
  <2>4. /\ \A u : Turn(u)' = Turn(u)
        /\ Last' = Last /\ Entering' = Entering
    BY <1>0, <1>6, <2>1 DEF Turn, Last, Entering
  <2>5. Turns' = Turns
    BY <1>0, <2>1, <2>4 DEF Turns
  <2>6. \A u \in Thread : Busy(u) => Turn(u) < Turns'
    BY <1>2, <2>5 DEF BusyInv
  <2>7. ASSUME NEW u \in Thread, Busy(u) PROVE Turn(user.finished)' <= Turn(u)
    <3>1. Turn(n) = Turn(p) + 1
      BY <1>0, <1>1, <2>1, TurnAfter DEF n
    <3>2. Turn(user.finished)' = Turn(n)
      BY <1>6, <2>4
    <3>3. u # p
      BY <1>0, <2>1, <2>7 DEF Busy
    <3>4. Turn(p) <= Turn(u) /\ Turn(u) # Turn(p)
      BY <1>3, <2>7, <3>3
    <3> QED BY <1>3, <3>1, <3>2, <3>4, FrameThreadsAssumption
  <2>8. PrevInv'
    BY <1>2, <2>1 DEF PrevInv
  <2>9. user'.got = user.got /\ user'.err = user.err /\ user'.call = user.call
    <3>1. user'.err = FALSE /\ user.err = FALSE
      <4>1. user.err \in BOOLEAN /\ user'.err \in BOOLEAN
        <5>1. user' = [user EXCEPT !.finished = user'.finished, !.err = (threads[p].result = "error"),
                                   !.got = user'.got, !.pc = user'.pc]
          BY <1>0, <1>1 DEF Collect, UserRecord
        <5> QED BY <1>0, <5>1 DEF UserRecord
      <4> QED BY <1>3, <1>6, <2>1, <4>1
    <3> QED BY <1>3, <1>6, <2>1, <3>1
  <2> QED BY <1>0, <2>1, <2>2, <2>3, <2>4, <2>5, <2>6, <2>7, <2>8, <2>9, QuietQueue
<1>8. CASE ~again
  <2>0. PICK d \in Thread : d = fctx.nextDecoding % ThreadCount
    BY <1>0, WrapTurn
  <2>1. /\ user'.pc = "relock" /\ fctx'.nextFinished = n /\ fctx'.nextDecoding = d
        /\ fctx'.prev = fctx.prev /\ fctx'.delaying = fctx.delaying
        /\ d = IF fctx.nextDecoding = ThreadCount THEN 0 ELSE fctx.nextDecoding
    BY <1>0, <1>6, <1>8, <2>0, WrapTurn DEF FctxRecord
  <2>2. \A t \in Thread :
          Turn(t)' = IF Turn(t) > Turn(p) THEN Turn(t) - Turn(p) - 1
                     ELSE Turn(t) - Turn(p) - 1 + ThreadCount
    BY <1>0, <1>1, <2>1, TurnMoves DEF n
  <2>3. Turns' = Turn(d)'
    BY <2>1 DEF Turns, Turn
  <2>4. \/ Turns = ThreadCount /\ d = fctx.nextFinished
        \/ Turns = Turn(d)
    BY <1>0, <2>1, FrameThreadsAssumption DEF Turns, Thread
  <2>5. Turn(fctx.nextFinished) = 0
    BY <1>0, TurnFacts
  <2>6. /\ Last' = Last /\ Entering' = None
    BY <1>3, <2>1 DEF Last, Entering
  <2>7. ASSUME NEW u \in Thread \ {p}
        PROVE  /\ threads'[u] = threads[u]
               /\ Awaited(u)' = Awaited(u) /\ Kept(u)' = Kept(u)
               /\ Undecided(u)' <=> Undecided(u)
               /\ Busy(u)' <=> Busy(u)
               /\ ResultOK(u)'
    <3>1. threads'[u] = threads[u] /\ ResultOK(u)
      BY <1>2, <1>4
    <3>2. /\ Undecided(u)' <=> Undecided(u)
          /\ Failed(u)' <=> Failed(u)
      BY <3>1 DEF Undecided, Failed
    <3>3. Awaited(u)' = Awaited(u) /\ Kept(u)' = Kept(u)
      BY <3>1, <3>2 DEF Awaited, Kept
    <3>4. Busy(u)' <=> Busy(u)
      BY <3>1, <3>2 DEF Busy, Finished
    <3>5. ResultOK(u)'
      BY <1>0, <3>1, <3>2, <3>3 DEF ResultOK
    <3> QED BY <3>1, <3>2, <3>3, <3>4, <3>5
  <2>8. Latent' = Latent
    BY <1>3, <1>0, <1>5, <2>6, <2>7 DEF Latent
  <2>9. ASSUME NEW u \in Thread, Busy(u), u # p
        PROVE  Turn(u) > Turn(p) /\ Turn(u)' = Turn(u) - Turn(p) - 1 /\ Turn(u)' < Turns'
    <3>1. Turn(u) > Turn(p)
      BY <1>3, <2>9, FrameThreadsAssumption
    <3>2. Turn(u)' = Turn(u) - Turn(p) - 1
      BY <2>2, <3>1
    <3>3. Turn(u) < Turns
      BY <1>2, <2>9 DEF BusyInv
    <3>4. Turn(d)' = IF Turn(d) > Turn(p) THEN Turn(d) - Turn(p) - 1
                     ELSE Turn(d) - Turn(p) - 1 + ThreadCount
      BY <2>2
    <3>5. Turn(d) \in 0 .. ThreadCount - 1 /\ Turn(p) \in 0 .. ThreadCount - 1
          /\ Turn(u) \in 0 .. ThreadCount - 1
      BY <1>3
    <3>6. CASE Turns = Turn(d)
      BY <2>3, <3>1, <3>2, <3>3, <3>4, <3>5, <3>6, FrameThreadsAssumption
    <3>7. CASE Turns = ThreadCount /\ d = fctx.nextFinished
      BY <2>3, <2>5, <3>1, <3>2, <3>3, <3>4, <3>5, <3>7, FrameThreadsAssumption
    <3> QED BY <2>4, <3>1, <3>2, <3>6, <3>7
  <2>10. /\ \A u \in Thread : /\ Awaited(u) \in Packet \cup {None}
                              /\ Awaited(u) # None => Busy(u)
                              /\ Undecided(u) => Busy(u)
                              /\ threads[u].frame # None => Busy(u)
    BY <1>2, AwaitedTypes, Names DEF Undecided, Busy
  <2>11. ASSUME NEW a \in Thread, NEW b \in Thread, Turn(a)' < Turn(b)', Busy(a), Busy(b), a # p, b # p
         PROVE  Turn(a) < Turn(b)
    <3>1. Turn(a)' = Turn(a) - Turn(p) - 1 /\ Turn(b)' = Turn(b) - Turn(p) - 1
      BY <2>9, <2>11
    <3> QED BY <1>3, <2>11, <3>1, FrameThreadsAssumption
  <2>12. PlaceInv'
    <3>1. ASSUME NEW y \in Packet PROVE Somewhere(y)' <=> Somewhere(y)
      BY <1>0, <1>3, <1>5, <1>6, <2>6, <2>7, <2>8, Names DEF Somewhere
    <3> QED BY <1>0, <1>2, <3>1 DEF PlaceInv
  <2>13. FlagInv'
    BY <1>0, <1>2, <1>6 DEF FlagInv
  <2>14. PrevInv'
    <3>1. ASSUME fctx.prev # None PROVE d = (fctx.prev + 1) % ThreadCount
      <4>1. PICK q \in Thread : q = fctx.prev
        BY <1>0, <3>1
      <4>2. fctx.nextDecoding \in {q + 1, (q + 1) % ThreadCount}
        BY <1>2, <3>1, <4>1 DEF PrevInv
      <4>3. (q + 1) % ThreadCount = IF q + 1 = ThreadCount THEN 0 ELSE q + 1
        BY NextTurn
      <4> QED BY <2>1, <4>1, <4>2, <4>3, FrameThreadsAssumption DEF Thread
    <3> QED BY <2>1, <3>1 DEF PrevInv
  <2>15. NewInv'
    <3>1. \A u \in Thread : threads'[u].avpkt = threads[u].avpkt
      BY <1>4
    <3>2. Newest(next)'
      BY <1>0, <1>2, <2>8, <3>1 DEF NewInv, Newest
    <3> QED BY <1>0, <1>3, <2>1, <2>6, <3>2, Names DEF NewInv
  <2>16. LineInv'
    <3>1. ASSUME NEW a \in Thread, NEW b \in Thread, Turn(a)' < Turn(b)',
                 Awaited(a)' # None, Awaited(b)' # None
          PROVE  /\ threads'[a].avpkt \in Packet /\ threads'[b].avpkt \in Packet =>
                      threads'[a].avpkt < threads'[b].avpkt
                 /\ threads'[a].frame # None => threads'[a].frame < Awaited(b)'
      <4>1. a # p /\ b # p
        BY <1>5, <3>1
      <4>2. /\ threads'[a] = threads[a] /\ Awaited(a) # None /\ Busy(a)
            /\ threads'[b] = threads[b] /\ Awaited(b) # None /\ Busy(b) /\ Awaited(b)' = Awaited(b)
        BY <2>7, <2>10, <3>1, <4>1
      <4>3. Turn(a) < Turn(b)
        BY <2>11, <3>1, <4>1, <4>2
      <4> QED BY <1>2, <4>2, <4>3 DEF LineInv
    <3>2. ASSUME Latent # None
          PROVE  /\ Latent \notin codec.broken
                 /\ \A a \in Thread :
                      /\ Undecided(a)' => Latent < threads'[a].avpkt
                      /\ threads'[a].frame # None => threads'[a].frame < Latent
      BY <1>2, <1>4, <1>5, <2>7, <3>2 DEF LineInv
    <3> QED BY <1>0, <2>8, <3>1, <3>2 DEF LineInv
  <2>17. HandInv'
    <3>1. ASSUME Awaited(p) # None, ~Failed(p) PROVE Foremost(user.got)'
      <4>1. PICK f \in Packet : f = Awaited(p) /\ f = threads[p].frame
        BY <1>5, <3>1
      <4>2. f \notin codec.broken
        BY <1>2, <3>1, <4>1, <1>5, Names DEF ResultOK
      <4>3. \A u \in Thread : Awaited(u)' # None => f < Awaited(u)'
        <5>1. ASSUME NEW u \in Thread, Awaited(u)' # None PROVE f < Awaited(u)'
          <6>1. u # p /\ Awaited(u)' = Awaited(u) /\ Awaited(u) # None /\ Busy(u)
            BY <1>5, <2>7, <2>10, <5>1
          <6>2. Turn(p) < Turn(u)
            BY <1>3, <2>9, <6>1, FrameThreadsAssumption
          <6> QED BY <1>2, <3>1, <4>1, <6>1, <6>2, Names DEF LineInv
        <5> QED BY <5>1
      <4>4. Latent # None => f < Latent
        BY <1>2, <4>1, Names DEF LineInv
      <4>5. user'.got = f
        BY <1>6, <4>1
      <4> QED BY <1>0, <1>3, <2>8, <4>2, <4>3, <4>4, <4>5 DEF Foremost
    <3>2. ASSUME Failed(p), NEW u \in Thread PROVE Awaited(u)' # threads[p].avpkt
      <4>1. PICK x \in Packet : x = threads[p].avpkt /\ x = Awaited(p) /\ x \in codec.broken
        BY <1>5, <3>2
      <4>2. CASE u = p
        BY <1>5, <4>1, <4>2, Names
      <4>3. CASE u # p
        <5>1. SUFFICES ASSUME Awaited(u) = x PROVE FALSE
          BY <2>7, <4>1, <4>3
        <5>2. Busy(u) /\ Turn(p) < Turn(u) /\ Awaited(u) # None /\ Awaited(p) # None
          BY <1>3, <2>9, <2>10, <4>1, <4>3, <5>1, Names, FrameThreadsAssumption
        <5>3. threads[u].avpkt \in Packet => x < threads[u].avpkt
          BY <1>2, <4>1, <5>2 DEF LineInv
        <5>4. ResultOK(u) /\ codec.broken \subseteq Packet
          BY <1>2, <1>5
        <5>5. CASE Undecided(u) \/ Failed(u)
          <6>1. threads[u].avpkt = x
            BY <5>1, <5>5 DEF Awaited
          <6> QED BY <4>1, <5>3, <6>1, FrameThreadsAssumption DEF Packet
        <5>6. CASE ~(Undecided(u) \/ Failed(u))
          <6>1. threads[u].frame = x
            BY <5>1, <5>6 DEF Awaited
          <6> QED BY <4>1, <5>4, <6>1, Names DEF ResultOK
        <5> QED BY <5>5, <5>6
      <4> QED BY <4>2, <4>3
    <3>3. Failed(p) => user'.got \in codec.broken /\ user'.got = threads[p].avpkt
      BY <1>5, <1>6
    <3> QED BY <1>0, <1>6, <3>1, <3>2, <3>3 DEF HandInv
  <2>18. BusyInv'
    <3>1. \A u \in Thread : Busy(u)' => Turn(u)' < Turns' /\ Last' # None
      <4>1. ASSUME NEW u \in Thread, Busy(u)' PROVE Turn(u)' < Turns' /\ Last' # None
        <5>1. u # p /\ Busy(u)
          BY <1>5, <2>7, <4>1
        <5> QED BY <1>2, <2>6, <2>9, <5>1 DEF BusyInv
      <4> QED BY <4>1
    <3>2. codec.updates => \A u \in Thread : u = Last \/ Settled(threads'[u])
      BY <1>2, <1>4, <1>5 DEF BusyInv
    <3>3. Last = None => \A u \in Thread : Kept(u)' = None
      BY <1>2, <1>5, <2>7 DEF BusyInv
    <3> QED BY <1>0, <2>1, <2>6, <3>1, <3>2, <3>3 DEF BusyInv
  <2>19. ASSUME NEW u \in Thread PROVE WaitOK(u)' /\ ResultOK(u)'
    <3>1. WaitOK(u)'
      <4>1. WaitOK(u) /\ threads'[u].pc = threads[u].pc /\ threads'[u].state = threads[u].state
        BY <1>2, <1>4
      <4> QED BY <1>0, <2>1, <4>1 DEF WaitOK, CallsBack
    <3>2. ResultOK(p)'
      <4>1. ResultOK(p) /\ (Decoded(threads'[p]) <=> Decoded(threads[p]))
        BY <1>2, <1>4 DEF Decoded
      <4> QED BY <1>0, <1>4, <1>5, <4>1 DEF ResultOK
    <3> QED BY <2>7, <3>1, <3>2
  <2>20. ~Resetting'
    BY <1>0, <1>6, <2>1 DEF Resetting
  <2>21. ASSUME ~avci.draining PROVE GapInv' /\ CountInv' /\ DelayInv' /\ FullInv'
    <3>0. /\ GapInv /\ CountInv /\ DelayInv /\ FullInv /\ ~fctx.delaying
          /\ Turns = ThreadCount /\ p = fctx.nextFinished /\ Turn(p) = 0
      BY <1>0, <1>1, <1>2, <2>5, <2>21 DEF DelayInv
    <3>1. Turn(p)' = ThreadCount - 1 /\ Turns' = ThreadCount - 1
      <4>1. d = p
        BY <1>3, <2>4, <3>0, FrameThreadsAssumption
      <4>2. Turn(p)' = ThreadCount - 1
        BY <2>2, <3>0, FrameThreadsAssumption
      <4>3. Turns' = Turn(p)'
        BY <2>1, <4>1 DEF Turns, Turn
      <4> QED BY <4>2, <4>3
    <3>2. \A u \in Thread \ {p} : Turn(u) > 0 /\ Turn(u)' = Turn(u) - 1 /\ Turn(u) < ThreadCount
      BY <1>3, <2>2, <3>0, FrameThreadsAssumption
    <3>3. \A u \in Thread \ {p} : Gap(u)' <=> Gap(u)
      <4>1. ASSUME NEW u \in Thread \ {p} PROVE Gap(u)' <=> Gap(u)
        <5>1. Turn(u)' < Turns' /\ Turn(u) < Turns
          BY <1>3, <3>0, <3>1, <3>2, FrameThreadsAssumption
        <5> QED BY <2>7, <5>1 DEF Gap
      <4> QED BY <4>1
    <3>4. ~Gap(p)' /\ (Gap(p) <=> Awaited(p) = None)
      BY <3>0, <3>1, FrameThreadsAssumption DEF Gap
    <3>5. GapInv'
      <4>1. ASSUME NEW t \in Thread, Gap(t)'
            PROVE  /\ codec.reorder = 1 /\ Latent # None
                   /\ \A u \in Thread :
                        /\ Gap(u)' => t = u
                        /\ threads'[u].frame # None => Turn(t)' < Turn(u)'
        <5>1. t # p /\ Gap(t)
          BY <3>3, <3>4, <4>1
        <5>2. ASSUME NEW u \in Thread, threads'[u].frame # None PROVE Turn(t)' < Turn(u)'
          <6>1. u # p /\ threads[u].frame # None
            BY <1>4, <5>2
          <6>2. Turn(t) < Turn(u)
            BY <3>0, <5>1, <6>1 DEF GapInv
          <6> QED BY <1>3, <3>2, <5>1, <6>1, <6>2
        <5> QED BY <3>0, <3>3, <3>4, <5>1, <5>2 DEF GapInv
      <4>2. ASSUME codec.reorder = 1, Latent = None, NEW u \in Thread PROVE threads'[u].frame = None
        BY <1>4, <3>0, <4>2 DEF GapInv
      <4> QED BY <1>0, <2>8, <4>1, <4>2 DEF GapInv
    <3>6. CountInv'
      <4>1. CASE Awaited(p) # None
        <5>1. ~Gap(p)
          BY <3>4, <4>1
        <5>2. Primed' <=> Primed
          BY <1>0, <2>8, <3>3, <3>4, <5>1 DEF Primed
        <5>3. /\ One(user'.got # None) = 1 /\ One(user.got # None) = 0 /\ One(Primed') = One(Primed)
              /\ One(Entering' # None) = 0 /\ One(Entering # None) = 0
          BY <1>3, <1>6, <2>6, <4>1, <5>2 DEF One
        <5>4. One(avci.frame # None) = 0 /\ One(avci.bsf # None) = 0 /\ One(Primed) \in Nat
          BY <1>0, <1>3 DEF One
        <5> HIDE DEF One, Primed
        <5> QED BY <1>0, <3>0, <3>1, <5>3, <5>4, FrameThreadsAssumption DEF CountInv
      <4>2. CASE Awaited(p) = None
        <5>1. Gap(p)
          BY <3>4, <4>2
        <5>2. ~Primed /\ Primed'
          BY <1>0, <2>8, <3>0, <3>3, <3>4, <5>1 DEF Primed, GapInv
        <5>3. /\ One(user'.got # None) = 0 /\ One(user.got # None) = 0
              /\ One(Primed') = 1 /\ One(Primed) = 0
              /\ One(Entering' # None) = 0 /\ One(Entering # None) = 0
          BY <1>3, <1>6, <2>6, <4>2, <5>2 DEF One
        <5>4. One(avci.frame # None) = 0 /\ One(avci.bsf # None) = 0
          BY <1>0, <1>3 DEF One
        <5> HIDE DEF One, Primed
        <5> QED BY <1>0, <3>0, <3>1, <5>3, <5>4, FrameThreadsAssumption DEF CountInv
      <4> QED BY <4>1, <4>2
    <3>7. DelayInv'
      BY <2>1, <3>0, <3>1 DEF DelayInv
    <3>8. FullInv'
      <4>1. ASSUME user'.got # None, ~user'.err, codec.reorder = 1 PROVE Primed'
        <5>1. threads[p].frame # None
          BY <1>5, <1>6, <4>1
        <5>2. Latent # None
          BY <3>0, <4>1, <5>1 DEF GapInv
        <5>3. ASSUME NEW u \in Thread, Gap(u)' PROVE FALSE
          <6>1. u # p /\ Gap(u)
            BY <3>3, <3>4, <5>3
          <6>2. Turn(u) < Turn(p)
            BY <3>0, <5>1, <6>1 DEF GapInv
          <6> QED BY <3>0, <3>2, <6>1, <6>2, <1>3
        <5> QED BY <1>0, <2>8, <4>1, <5>2, <5>3 DEF Primed
      <4> QED BY <1>0, <1>3, <2>1, <3>0, <4>1 DEF FullInv
    <3> QED BY <3>5, <3>6, <3>7, <3>8
  <2>22. ASSUME avci.draining PROVE EndInv'
    <3>0. EndInv
      BY <1>2, <2>22
    <3>1. MayFail' = MayFail \ {p}
      <4>1. p \notin MayFail'
        BY <1>5 DEF MayFail
      <4>2. \A u \in Thread \ {p} : (Busy(u)' <=> Busy(u)) /\ threads'[u].avpkt = threads[u].avpkt
        BY <2>7
      <4> QED BY <4>1, <4>2 DEF MayFail
    <3>2. /\ IsFiniteSet(MayFail) /\ Cardinality(MayFail) \in Nat /\ Cardinality(MayFail') \in Nat
          /\ Cardinality(MayFail') = IF p \in MayFail THEN Cardinality(MayFail) - 1
                                    ELSE Cardinality(MayFail)
      <4>1. IsFiniteSet(MayFail)
        <5>1. MayFail \subseteq Thread
          BY DEF MayFail
        <5> QED BY <5>1, ThreadsFinite, FS_Subset
      <4> QED BY <3>1, <4>1, FS_RemoveElement, FS_CardinalityType
    <3>3. avci.errors + One(user'.err) + Cardinality(MayFail') <= ThreadCount
      <4>1. One(user.err) = 0
        BY <1>3 DEF One
      <4>2. avci.errors \in Nat
        BY UserFacts DEF AvciRecord
      <4>3. CASE Failed(p)
        <5>1. p \in MayFail /\ One(user'.err) = 1
          BY <1>5, <1>6, <4>3 DEF MayFail, One, Busy
        <5> HIDE DEF One, MayFail
        <5> QED BY <3>0, <3>2, <4>1, <4>2, <5>1, FrameThreadsAssumption DEF EndInv
      <4>4. CASE ~Failed(p)
        <5>1. One(user'.err) = 0
          BY <1>6, <4>4 DEF One
        <5> HIDE DEF One, MayFail
        <5> QED BY <3>0, <3>2, <4>1, <4>2, <5>1, FrameThreadsAssumption DEF EndInv
      <4> QED BY <4>3, <4>4
    <3>4. ASSUME user'.got = None PROVE inside = {}
      <4>1. Awaited(p) = None /\ n = fctx.nextFinished /\ ~Failed(p)
        BY <1>0, <1>5, <1>6, <1>8, <2>22, <3>4, Names
      <4>2. Turn(p) = ThreadCount - 1
        <5>1. n = IF p + 1 = ThreadCount THEN 0 ELSE p + 1
          BY <1>1, NextTurn DEF n
        <5> QED BY <1>0, <4>1, <5>1, FrameThreadsAssumption DEF Turn, Thread
      <4>3. \A u \in Thread : ~Busy(u)
        <5>1. ~Busy(p)
          BY <1>0, <1>5, <4>1 DEF Busy
        <5>2. ASSUME NEW u \in Thread, Busy(u), u # p PROVE FALSE
          BY <1>3, <2>9, <4>2, <5>2, FrameThreadsAssumption
        <5> QED BY <5>1, <5>2
      <4>4. \A u \in Thread : Awaited(u) = None
        BY <2>10, <4>3
      <4>5. Latent = None
        <5>1. CASE Last = None
          BY <5>1 DEF Latent
        <5>2. CASE Last # None /\ codec.capDelay
          <6>1. PICK q \in Thread : q = Last
            BY <5>2, LatentTypes
          <6>2. threads[q].avpkt = Drain
            BY <1>0, <3>0, <5>2, <6>1 DEF EndInv
          <6>3. Finished(q)
            BY <4>3 DEF Busy
          <6>4. Decoded(threads[q])
            BY <6>3, WorkerFacts DEF Finished, StateOK, Decoded
          <6>5. Kept(q) = None
            BY <1>2, <6>2, <6>4 DEF ResultOK
          <6> QED BY <5>2, <6>1, <6>5 DEF Latent
        <5>3. CASE Last # None /\ ~codec.capDelay
          <6>1. Last \in Thread /\ codec.reorder = 0
            BY <1>0, <5>3, LatentTypes
          <6> QED BY <1>2, <5>3, <6>1 DEF Latent, ResultOK
        <5> QED BY <5>1, <5>2, <5>3
      <4>6. \A x \in Packet : ~Somewhere(x)
        BY <1>0, <1>3, <4>4, <4>5, Names DEF Somewhere
      <4> QED BY <1>0, <1>2, <4>6 DEF PlaceInv
    <3> QED BY <1>0, <2>1, <3>0, <3>3, <3>4 DEF EndInv
  <2> QED BY <1>0, <2>12, <2>13, <2>14, <2>15, <2>16, <2>17, <2>18, <2>19, <2>20, <2>21, <2>22
          DEF QueueInv
<1> QED BY <1>7, <1>8


-----------------------------------------------------------------------------
(* The calls.                                                              *)

(* What a step of a call leaves that only moves packets between the slots. *)
LEMMA CallView ==
  ASSUME LockInv, FrameInv, QueueInv, ~Resetting,
         UNCHANGED <<threads, fctx, codec>>,
         {user.pc, user'.pc} \cap {"serve", "collect"} = {}
  PROVE  /\ Last' = Last /\ Latent' = Latent /\ Turns' = Turns /\ (Primed' <=> Primed)
         /\ \A t \in Thread : Awaited(t)' = Awaited(t)
         /\ MayFail' = MayFail
         /\ PrevInv' /\ (\A t \in Thread : WaitOK(t)' /\ ResultOK(t)') /\ LineInv' /\ BusyInv'
         /\ ~avci.draining => GapInv' /\ DelayInv' /\ CountInv /\ FullInv
         /\ avci.draining => EndInv
         /\ PlaceInv /\ FlagInv /\ NewInv /\ LineInv /\ HandInv
<1>1. /\ \A u \in Thread : WaitOK(u) /\ ResultOK(u)
      /\ PlaceInv /\ FlagInv /\ PrevInv /\ NewInv /\ LineInv /\ HandInv /\ BusyInv
      /\ ~avci.draining => GapInv /\ CountInv /\ DelayInv /\ FullInv
      /\ avci.draining => EndInv
  BY DEF QueueInv
<1>2. threads' = threads /\ fctx' = fctx /\ codec' = codec
  OBVIOUS
<1>3. /\ user.pc # "serve" /\ user'.pc # "serve" /\ user.pc # "collect" /\ user'.pc # "collect"
  OBVIOUS
<1>4. \A t : Turn(t)' = Turn(t)
  BY <1>2 DEF Turn
<1>5. Last' = Last /\ Turns' = Turns
  BY <1>2, <1>3, <1>4 DEF Last, Turns
<1>6. ASSUME NEW t \in Thread
      PROVE  /\ Undecided(t)' <=> Undecided(t)
             /\ Failed(t)' <=> Failed(t)
             /\ Kept(t)' = Kept(t)
             /\ Busy(t)' <=> Busy(t)
             /\ Awaited(t)' = Awaited(t)
  <2>1. /\ Undecided(t)' <=> Undecided(t)
        /\ Failed(t)' <=> Failed(t)
    BY <1>2 DEF Undecided, Failed
  <2>2. Kept(t)' = Kept(t)
    BY <1>2 DEF Kept
  <2>3. (Busy(t)' <=> Busy(t)) /\ Awaited(t)' = Awaited(t)
    BY <1>2, <2>1 DEF Busy, Finished, Awaited
  <2> QED BY <2>1, <2>2, <2>3
<1>7. Latent' = Latent
  BY <1>5, <1>6, LatentTypes DEF Latent
<1>8. \A t \in Thread : Gap(t)' <=> Gap(t)
  BY <1>4, <1>5, <1>6 DEF Gap
<1>9. Primed' <=> Primed
  BY <1>2, <1>7, <1>8 DEF Primed
<1>10. MayFail' = MayFail
  BY <1>2, <1>6 DEF MayFail
<1>11. PrevInv'
  BY <1>1, <1>2 DEF PrevInv
<1>12. ASSUME NEW t \in Thread PROVE WaitOK(t)' /\ ResultOK(t)'
  <2>1. WaitOK(t)'
    BY <1>1, <1>2, <1>3 DEF WaitOK, CallsBack
  <2>2. ResultOK(t)'
    BY <1>1, <1>2, <1>6 DEF ResultOK
  <2> QED BY <2>1, <2>2
<1>13. LineInv'
  BY <1>1, <1>2, <1>4, <1>6, <1>7 DEF LineInv
<1>14. BusyInv'
  BY <1>1, <1>2, <1>3, <1>4, <1>5, <1>6 DEF BusyInv
<1>15. GapInv => GapInv'
  BY <1>2, <1>4, <1>7, <1>8 DEF GapInv
<1>16. DelayInv => DelayInv'
  BY <1>2, <1>3, <1>5 DEF DelayInv
<1> QED BY <1>1, <1>5, <1>6, <1>7, <1>9, <1>10, <1>11, <1>12, <1>13, <1>14, <1>15, <1>16

(* What is left to show of such a step.                                    *)
LEMMA CallQueue ==
  ASSUME LockInv, FrameInv, QueueInv, ~Resetting,
         UNCHANGED <<threads, fctx, codec>>,
         {user.pc, user'.pc} \cap {"serve", "collect"} = {},
         PlaceInv', FlagInv', NewInv', HandInv',
         ~avci'.draining => ~avci.draining /\ CountInv' /\ FullInv',
         avci'.draining => EndInv'
  PROVE  QueueInv'
BY CallView DEF QueueInv

(* A step that moves no packet.                                            *)
LEMMA CallMovesNothing ==
  ASSUME LockInv, FrameInv, QueueInv, ~Resetting, ~Resetting',
         UNCHANGED <<threads, fctx, codec, next, inside>>,
         user.pc \in {"out", "sent", "get", "returned"}, user'.pc \in {"out", "sent", "get", "unlock"},
         avci'.frame = avci.frame, avci'.bsf = avci.bsf, avci'.errors = avci.errors,
         FlagInv', avci.draining => avci'.draining, avci'.done => inside = {},
         user.got = None, ~user.err, user'.got = None, ~user'.err,
         Entering = None, Entering' = None \/ (Entering' = Drain /\ avci'.draining),
         avci.bsf # None => user'.pc # "unlock" /\ (user.pc = "get" => user'.pc = "get")
  PROVE  QueueInv'
<1>1. /\ Last' = Last /\ Latent' = Latent /\ Turns' = Turns /\ (Primed' <=> Primed)
      /\ \A t \in Thread : Awaited(t)' = Awaited(t)
      /\ MayFail' = MayFail
      /\ ~avci.draining => CountInv /\ FullInv
      /\ avci.draining => EndInv
      /\ PlaceInv /\ NewInv /\ HandInv
  BY CallView
<1>2. PlaceInv'
  <2>1. ASSUME NEW x \in Packet PROVE Somewhere(x)' <=> Somewhere(x)
    BY <1>1, Names DEF Somewhere
  <2> QED BY <1>1, <2>1 DEF PlaceInv
<1>3. NewInv'
  <2>1. Entering' \notin Packet
    BY Names
  <2>2. avci.bsf # None => Newest(avci.bsf)'
    BY <1>1 DEF NewInv, Newest
  <2>3. Newest(next)'
    BY <1>1 DEF NewInv, Newest
  <2>4. user'.pc \notin {"out", "sent", "get"} => avci.bsf = None
    BY <1>1 DEF NewInv
  <2> QED BY <2>1, <2>2, <2>3, <2>4 DEF NewInv
<1>4. HandInv'
  BY <1>1 DEF HandInv, Foremost
<1>5. ASSUME ~avci'.draining PROVE ~avci.draining /\ CountInv' /\ FullInv'
  <2>1. ~avci.draining /\ Entering' = None
    BY <1>5
  <2>2. CountInv'
    BY <1>1, <2>1 DEF CountInv, One
  <2>3. FullInv'
    <3>1. avci.bsf # None /\ user'.pc \in {"out", "sent"} => user.pc \in {"out", "sent"}
      BY <1>1 DEF NewInv
    <3> QED BY <1>1, <2>1, <3>1 DEF FullInv
  <2> QED BY <2>1, <2>2, <2>3
<1>6. ASSUME avci'.draining PROVE EndInv'
  <2>1. One(user'.err) = 0 /\ One(user.err) = 0
    BY DEF One
  <2>2. avci.errors + Cardinality(MayFail) <= ThreadCount
    <3>1. CASE avci.draining
      <4>1. avci.errors \in Nat
        BY UserFacts DEF AvciRecord
      <4>2. IsFiniteSet(MayFail) /\ Cardinality(MayFail) \in Nat
        <5>1. MayFail \subseteq Thread
          BY DEF MayFail
        <5> QED BY <5>1, ThreadsFinite, FS_Subset, FS_CardinalityType
      <4> HIDE DEF MayFail, One
      <4> QED BY <1>1, <2>1, <3>1, <4>1, <4>2 DEF EndInv
    <3>2. CASE ~avci.draining
      <4>1. avci.errors = 0
        BY <3>2 DEF QueueInv, FlagInv
      <4>2. MayFail \subseteq Thread
        BY DEF MayFail
      <4>3. Cardinality(MayFail) \in Nat /\ Cardinality(MayFail) <= ThreadCount
        BY <4>2, ThreadsFinite, FS_Subset, FS_CardinalityType
      <4> QED BY <4>1, <4>3
    <3> QED BY <3>1, <3>2
  <2>3. avci'.errors + One(user'.err) + Cardinality(MayFail') <= ThreadCount
    <3>1. Cardinality(MayFail) \in Nat /\ avci.errors \in Nat
      <4>1. MayFail \subseteq Thread
        BY DEF MayFail
      <4> QED BY <4>1, ThreadsFinite, FS_Subset, FS_CardinalityType, UserFacts DEF AvciRecord
    <3> HIDE DEF MayFail, One
    <3> QED BY <1>1, <2>1, <2>2, <3>1
  <2> QED BY <2>3 DEF EndInv
<1> QED BY <1>2, <1>3, <1>4, <1>5, <1>6, CallQueue

(* The steps of the calls that move no packet.                             *)
LEMMA QuietCalls ==
  ASSUME LockInv, FrameInv, QueueInv,
         \/ SendTooLate \/ SendRefused \/ SendNull \/ SendReturns \/ ReceiveDecodes
         \/ GetNothing \/ GetDrain \/ GetEnd \/ GotNothing
  PROVE  QueueInv'
<1>0. /\ user \in UserRecord /\ avci \in AvciRecord /\ UserOK
      /\ FlagInv /\ Outside.pc = "out" /\ Outside.call = "none" /\ Outside.got = None /\ ~Outside.err
  BY UserFacts DEF QueueInv, Outside
<1>1. /\ ~Resetting
      /\ UNCHANGED <<threads, fctx, codec, next, inside>>
      /\ user.pc \in {"out", "sent", "get", "returned"}
      /\ avci'.frame = avci.frame /\ avci'.bsf = avci.bsf /\ avci'.errors = avci.errors
  BY <1>0 DEF SendTooLate, SendRefused, SendNull, SendReturns, ReceiveDecodes, GetNothing, GetDrain,
              GetEnd, GotNothing, InDecode, UserOK, Decoding, Resetting, threadVars,
              othersOfThreads, apiVars, AvciRecord
<1>2. /\ NewInv /\ (avci.draining => EndInv)
      /\ user.pc \notin {"relock", "returned"} => user.got = None /\ ~user.err
      /\ Entering = None
  BY <1>1 DEF QueueInv, NewInv, Entering
<1>3. CASE SendTooLate \/ SendRefused
  <2>1. user' = user /\ avci' = avci /\ user.pc = "out"
    BY <1>3 DEF SendTooLate, SendRefused, threadVars
  <2>2. FlagInv' /\ (avci.done => inside = {})
    BY <1>0, <1>2, <2>1 DEF FlagInv, EndInv
  <2> QED BY <1>1, <1>2, <2>1, <2>2, CallMovesNothing DEF Entering, Resetting
<1>4. CASE SendNull
  <2>1. /\ user'.pc \in {"get", "sent"} /\ user'.call = "send" /\ user'.got = None /\ ~user'.err
        /\ user.pc = "out" /\ avci.bsf = None /\ ~avci.draining
        /\ avci'.draining = avci.draining /\ avci'.done = avci.done /\ avci'.eof
        /\ avci'.bsf = None /\ avci'.errors = avci.errors /\ avci'.frame = avci.frame
    BY <1>0, <1>4 DEF SendNull, Enter, Outside, SlotFree, AvciRecord
  <2>2. FlagInv' /\ ~avci'.done
    BY <1>0, <2>1 DEF FlagInv
  <2> QED BY <1>1, <1>2, <2>1, <2>2, CallMovesNothing DEF Entering, Resetting
<1>5. CASE SendReturns \/ GetNothing \/ GetEnd
  <2>1. user' = Outside /\ avci' = avci /\ user.pc \in {"sent", "get"}
    BY <1>5 DEF SendReturns, GetNothing, GetEnd, Ends
  <2>2. FlagInv' /\ (avci.done => inside = {})
    BY <1>0, <1>2, <2>1 DEF FlagInv, EndInv
  <2>3. user.pc = "get" => avci.bsf = None
    BY <1>0, <1>5 DEF SendReturns, GetNothing, GetEnd, FlagInv
  <2> QED BY <1>0, <1>1, <1>2, <2>1, <2>2, <2>3, CallMovesNothing DEF Entering, Resetting
<1>6. CASE ReceiveDecodes
  <2>1. /\ user'.pc = "get" /\ user'.call = "receive" /\ user'.got = None /\ ~user'.err
        /\ user.pc = "out" /\ avci' = avci
    BY <1>6 DEF ReceiveDecodes, Enter, Outside, apiVars
  <2>2. FlagInv' /\ (avci.done => inside = {})
    BY <1>0, <1>2, <2>1 DEF FlagInv, EndInv
  <2> QED BY <1>1, <1>2, <2>1, <2>2, CallMovesNothing DEF Entering, Resetting
<1>7. CASE GetDrain
  <2>1. /\ user'.pc = "unlock" /\ user'.pkt = Drain /\ user'.call = user.call
        /\ user'.got = None /\ ~user'.err /\ user.pc = "get"
        /\ avci'.draining /\ ~avci'.done /\ avci'.eof = avci.eof /\ (avci.draining \/ avci.eof)
        /\ avci'.bsf = avci.bsf
    BY <1>0, <1>7 DEF GetDrain, UserRecord, AvciRecord
  <2>2. FlagInv' /\ avci.bsf = None
    BY <1>0, <1>1, <2>1 DEF FlagInv, Resetting
  <2> QED BY <1>1, <1>2, <2>1, <2>2, Names, CallMovesNothing DEF Entering, Resetting
<1>8. CASE GotNothing
  <2>1. /\ user'.pc = "get" /\ user'.call = user.call
        /\ user.got = None /\ ~user.err /\ user.pc = "returned" /\ user'.got = None /\ ~user'.err
    <3>1. user' = [user EXCEPT !.pc = "get"] /\ user.got = None /\ ~user.err /\ user.pc = "returned"
      BY <1>8 DEF GotNothing, InDecode
    <3> QED BY <1>0, <3>1 DEF UserRecord
  <2>3. /\ avci'.draining = avci.draining /\ avci'.done = avci.draining /\ avci'.eof = avci.eof
        /\ avci'.bsf = avci.bsf /\ avci'.errors = avci.errors
    BY <1>0, <1>8 DEF GotNothing, EmptyEndsDraining, AvciRecord
  <2>2. FlagInv' /\ (avci.draining => inside = {}) /\ avci.bsf = None
    BY <1>0, <1>1, <1>2, <2>1, <2>3 DEF FlagInv, EndInv, NewInv, Resetting
  <2> QED BY <1>1, <1>2, <2>1, <2>2, <2>3, CallMovesNothing DEF Entering, Resetting
<1> QED BY <1>3, <1>4, <1>5, <1>6, <1>7, <1>8

(* There are finitely many packets.                                        *)
LEMMA InsideFinite ==
  ASSUME PlaceInv PROVE IsFiniteSet(inside) /\ Cardinality(inside) \in Nat
<1>1. IsFiniteSet(Packet)
  BY FS_Interval, FrameThreadsAssumption DEF Packet
<1> QED BY <1>1, FS_Subset, FS_CardinalityType DEF PlaceInv

(* A packet is accepted into the slot.                                     *)
LEMMA SendsQueue ==
  ASSUME LockInv, FrameInv, QueueInv, SendAccepted PROVE QueueInv'
<1>0. /\ avci \in AvciRecord /\ UserOK /\ user.pc = "out"
      /\ UNCHANGED <<threads, fctx, codec>>
      /\ user'.pc \in {"get", "sent"} /\ user'.call = "send" /\ user'.got = None /\ ~user'.err
      /\ user'.pc = "sent" => avci.frame # None
      /\ ~avci.draining /\ ~avci.eof /\ avci.bsf = None
      /\ avci'.draining = avci.draining /\ avci'.done = avci.done /\ avci'.eof = avci.eof
      /\ avci'.bsf = next /\ avci'.errors = avci.errors /\ avci'.frame = avci.frame
      /\ inside' = inside \cup {next} /\ next' = next + 1
      /\ next \in Packet /\ Packet \subseteq Nat
  <2>1. avci \in AvciRecord /\ UserOK /\ Packet \subseteq Nat
    BY UserFacts, FrameThreadsAssumption DEF Packet
  <2>2. /\ user'.pc \in {"get", "sent"} /\ user'.call = "send" /\ user'.got = None /\ ~user'.err
        /\ user'.pc = "sent" => avci.frame # None
    BY DEF SendAccepted, Enter, Outside
  <2>3. /\ avci'.draining = avci.draining /\ avci'.done = avci.done /\ avci'.eof = avci.eof
        /\ avci'.bsf = next /\ avci'.errors = avci.errors /\ avci'.frame = avci.frame
    BY <2>1 DEF SendAccepted, AvciRecord
  <2> QED BY <2>1, <2>2, <2>3 DEF SendAccepted, SlotFree, othersOfThreads
<1>1. ~Resetting /\ Entering = None /\ Entering' = None
  BY <1>0 DEF UserOK, Resetting, Entering
<1>2. /\ Last' = Last /\ Latent' = Latent /\ Turns' = Turns /\ (Primed' <=> Primed)
      /\ \A t \in Thread : Awaited(t)' = Awaited(t)
      /\ CountInv /\ FullInv
      /\ PlaceInv /\ FlagInv /\ NewInv /\ HandInv
  BY <1>0, <1>1, CallView
<1>3. user.got = None /\ ~user.err /\ next \notin inside /\ IsFiniteSet(inside)
  <2>1. next \notin inside
    BY <1>0, <1>2 DEF PlaceInv
  <2> QED BY <1>0, <1>2, <2>1, InsideFinite DEF NewInv
<1>4. PlaceInv'
  <2>1. ASSUME NEW x \in Packet PROVE Somewhere(x)' <=> Somewhere(x) \/ x = next
    BY <1>0, <1>1, <1>2, <1>3, Names DEF Somewhere
  <2>2. \A x \in inside' : x < next'
    <3>1. \A x \in inside : x \in Nat /\ x < next
      BY <1>0, <1>2 DEF PlaceInv
    <3> QED BY <1>0, <3>1
  <2> QED BY <1>0, <1>1, <1>2, <2>1, <2>2 DEF PlaceInv
<1>5. FlagInv'
  BY <1>0, <1>2 DEF FlagInv
<1>6. NewInv'
  <2>1. Newest(avci.bsf)'
    BY <1>0, <1>2 DEF NewInv, Newest
  <2>2. Newest(next)'
    <3>1. \A t \in Thread : threads[t].avpkt \in Packet => threads[t].avpkt < next + 1
      <4>1. \A t \in Thread : threads[t].avpkt \in Packet => threads[t].avpkt < next
        BY <1>2 DEF NewInv, Newest
      <4> QED BY <1>0, <4>1
    <3>2. Latent # None => Latent < next + 1
      <4>1. PICK l : l = Latent
        OBVIOUS
      <4>2. l # None => l \in Packet /\ l < next
        BY <1>2, <4>1, LatentTypes DEF NewInv, Newest
      <4>3. l # None => l < next + 1
        BY <1>0, <4>2
      <4> QED BY <4>1, <4>3
    <3>3. \A y \in inside \cup {next} : y <= next + 1
      <4>1. \A x \in inside : x \in Nat /\ x < next
        BY <1>0, <1>2 DEF PlaceInv
      <4> QED BY <1>0, <4>1
    <3> QED BY <1>0, <1>2, <3>1, <3>2, <3>3 DEF Newest
  <2> QED BY <1>0, <1>1, <2>1, <2>2, Names DEF NewInv
<1>7. HandInv'
  <2>1. avci.frame # None => avci.frame < next
    BY <1>0, <1>1, <1>2 DEF PlaceInv, Somewhere, AvciRecord
  <2> QED BY <1>0, <1>2, <2>1 DEF HandInv, Foremost
<1>8. CountInv'
  <2>1. Cardinality(inside') = Cardinality(inside) + 1 /\ Cardinality(inside) \in Nat
    BY <1>0, <1>3, FS_AddElement, FS_CardinalityType
  <2>2. /\ One(avci'.bsf # None) = 1 /\ One(avci.bsf # None) = 0
        /\ One(avci'.frame # None) = One(avci.frame # None)
        /\ One(Entering' # None) = 0 /\ One(Entering # None) = 0
        /\ One(user'.got # None) = 0 /\ One(user.got # None) = 0
        /\ One(Primed') = One(Primed) /\ One(Primed) \in Nat
        /\ One(avci.frame # None) \in Nat
    BY <1>0, <1>1, <1>2, <1>3, Names DEF One
  <2>3. Turns \in Nat
    BY TurnsType
  <2> HIDE DEF One, Primed
  <2> QED BY <1>2, <2>1, <2>2, <2>3 DEF CountInv
<1>9. FullInv'
  BY <1>0, <1>2 DEF FullInv
<1>10. {user.pc, user'.pc} \cap {"serve", "collect"} = {}
  BY <1>0
<1> QED BY <1>0, <1>1, <1>4, <1>5, <1>6, <1>7, <1>8, <1>9, <1>10, CallQueue
(* The packet in the slot is taken for the threads.                        *)
LEMMA TakesQueue ==
  ASSUME LockInv, FrameInv, QueueInv, GetPacket PROVE QueueInv'
<1>0. /\ UserOK /\ user.pc = "get" /\ UNCHANGED <<threads, fctx, codec, inside, next>>
      /\ user'.pc = "unlock" /\ user'.pkt = avci.bsf /\ user'.call = user.call
      /\ user'.got = None /\ ~user'.err
      /\ ~avci.draining /\ avci.bsf \in Packet
      /\ avci'.draining = avci.draining /\ avci'.done = avci.done /\ avci'.eof = avci.eof
      /\ avci'.bsf = None /\ avci'.errors = avci.errors /\ avci'.frame = avci.frame
  <2>1. avci \in AvciRecord /\ UserOK /\ user \in UserRecord
    BY UserFacts
  <2>2. /\ user'.pc = "unlock" /\ user'.pkt = avci.bsf /\ user'.call = user.call
        /\ user'.got = None /\ ~user'.err
    BY <2>1 DEF GetPacket, UserRecord
  <2>3. /\ avci'.draining = avci.draining /\ avci'.done = avci.done /\ avci'.eof = avci.eof
        /\ avci'.bsf = None /\ avci'.errors = avci.errors /\ avci'.frame = avci.frame
    BY <2>1 DEF GetPacket, AvciRecord
  <2> QED BY <2>1, <2>2, <2>3 DEF GetPacket, othersOfThreads, AvciRecord
<1>1. ~Resetting /\ Entering = None /\ Entering' = avci.bsf /\ avci.bsf # None
  BY <1>0, Names DEF UserOK, Decoding, Resetting, Entering
<1>10. {user.pc, user'.pc} \cap {"serve", "collect"} = {}
  BY <1>0
<1>2. /\ Last' = Last /\ Latent' = Latent /\ Turns' = Turns /\ (Primed' <=> Primed)
      /\ \A t \in Thread : Awaited(t)' = Awaited(t)
      /\ CountInv /\ FullInv
      /\ PlaceInv /\ FlagInv /\ NewInv /\ HandInv
  BY <1>0, <1>1, <1>10, CallView
<1>3. user.got = None /\ ~user.err
  BY <1>0, <1>2 DEF NewInv
<1>4. PlaceInv'
  <2>1. ASSUME NEW x \in Packet PROVE Somewhere(x)' <=> Somewhere(x)
    BY <1>0, <1>1, <1>2, <1>3, Names DEF Somewhere
  <2> QED BY <1>0, <1>1, <1>2, <2>1 DEF PlaceInv
<1>5. FlagInv'
  BY <1>0, <1>2 DEF FlagInv
<1>6. NewInv'
  <2>1. Newest(Entering)'
    BY <1>0, <1>1, <1>2 DEF NewInv, Newest
  <2>2. Newest(next)'
    BY <1>0, <1>2 DEF NewInv, Newest
  <2> QED BY <1>0, <2>1, <2>2 DEF NewInv
<1>7. HandInv'
  BY <1>0, <1>2 DEF HandInv, Foremost
<1>8. CountInv'
  <2>2. /\ One(avci'.bsf # None) = 0 /\ One(avci.bsf # None) = 1
        /\ One(avci'.frame # None) = One(avci.frame # None)
        /\ One(Entering' # None) = 1 /\ One(Entering # None) = 0
        /\ One(user'.got # None) = 0 /\ One(user.got # None) = 0
        /\ One(Primed') = One(Primed) /\ One(Primed) \in Nat
        /\ One(avci.frame # None) \in Nat
    BY <1>0, <1>1, <1>2, <1>3, Names DEF One
  <2>3. Turns \in Nat
    BY TurnsType
  <2> HIDE DEF One, Primed
  <2> QED BY <1>0, <1>2, <2>2, <2>3 DEF CountInv
<1>9. FullInv'
  BY <1>0, <1>2 DEF FullInv
<1> QED BY <1>0, <1>1, <1>4, <1>5, <1>6, <1>7, <1>8, <1>9, <1>10, CallQueue

(* What is in front of all else is nowhere else.                           *)
LEMMA ForemostIsAlone ==
  ASSUME NEW f \in Packet, Foremost(f), codec.broken \subseteq Packet
  PROVE  /\ f # avci.bsf /\ f # Latent
         /\ \A t \in Thread : Awaited(t) # f
<1>1. ~(f < f)
  BY FrameThreadsAssumption DEF Packet
<1> QED BY <1>1, Names DEF Foremost

(* A packet answered leaves; the others stay where they are.               *)
LEMMA AnswerQueue ==
  ASSUME LockInv, FrameInv, QueueInv, ~Resetting, ~Resetting',
         UNCHANGED <<threads, fctx, codec, next>>,
         {user.pc, user'.pc} \cap {"serve", "collect"} = {},
         user.pc \in {"out", "returned"}, user'.pc = "out",
         NEW f \in Packet, inside' = inside \ {f},
         f \in {avci.frame, user.got}, f # avci.bsf, f # Latent,
         \A t \in Thread : Awaited(t) # f,
         avci'.frame = None, avci'.bsf = avci.bsf, avci'.draining = avci.draining,
         user.got # None => user.got = f /\ avci.frame = None, user'.got = None, ~user'.err,
         FlagInv', avci.draining => EndInv'
  PROVE  QueueInv'
<1>1. /\ Last' = Last /\ Latent' = Latent /\ Turns' = Turns /\ (Primed' <=> Primed)
      /\ \A t \in Thread : Awaited(t)' = Awaited(t)
      /\ ~avci.draining => CountInv /\ FullInv
      /\ PlaceInv /\ NewInv /\ HandInv
  BY CallView
<1>2. /\ Entering = None /\ Entering' = None
      /\ avci.frame \in Packet \cup {None} /\ avci.bsf \in Packet \cup {None}
      /\ f # None
  BY UserFacts, Names DEF Entering, AvciRecord
<1>3. f \in inside /\ IsFiniteSet(inside)
  <2>1. f \in inside
    BY <1>1 DEF PlaceInv, Somewhere
  <2> QED BY <1>1, <2>1, InsideFinite
<1>4. PlaceInv'
  <2>1. ASSUME NEW x \in Packet PROVE Somewhere(x)' <=> Somewhere(x) /\ x # f
    <3>1. avci.frame \in {f, None} /\ user.got \in {f, None}
      BY <1>2
    <3> QED BY <1>1, <1>2, <3>1, Names DEF Somewhere
  <2> QED BY <1>1, <2>1 DEF PlaceInv
<1>5. NewInv'
  <2>1. Newest(next)'
    BY <1>1 DEF NewInv, Newest
  <2>2. avci.bsf # None => Newest(avci.bsf)'
    BY <1>1 DEF NewInv, Newest
  <2> QED BY <1>1, <1>2, <2>1, <2>2, Names DEF NewInv
<1>6. HandInv'
  BY <1>1 DEF HandInv
<1>7. ASSUME ~avci.draining PROVE CountInv' /\ FullInv'
  <2>1. Cardinality(inside') = Cardinality(inside) - 1
    BY <1>3, FS_RemoveElement
  <2>2. One(avci.frame # None) + One(user.got # None) = 1
    BY <1>2, Names DEF One
  <2>3. /\ One(avci'.bsf # None) = One(avci.bsf # None) /\ One(avci.bsf # None) \in Nat
        /\ One(avci'.frame # None) = 0 /\ One(user'.got # None) = 0
        /\ One(Entering' # None) = 0 /\ One(Entering # None) = 0
        /\ One(Primed') = One(Primed) /\ One(Primed) \in Nat
        /\ One(avci.frame # None) \in Nat /\ One(user.got # None) \in Nat
    BY <1>1, <1>2, Names DEF One
  <2>4. Turns \in Nat /\ Cardinality(inside) \in Nat
    BY TurnsType, <1>3, FS_CardinalityType
  <2>5. CountInv'
    <3> HIDE DEF One, Primed
    <3> QED BY <1>1, <1>7, <2>1, <2>2, <2>3, <2>4 DEF CountInv
  <2>6. FullInv'
    <3>1. avci.bsf # None => user.pc = "out"
      BY <1>1 DEF NewInv
    <3> QED BY <1>1, <1>7, <3>1 DEF FullInv
  <2> QED BY <2>5, <2>6
<1> QED BY <1>4, <1>5, <1>6, <1>7, CallQueue
(* The frame in buffer_frame goes to the application.                      *)
LEMMA ReceivesQueue ==
  ASSUME LockInv, FrameInv, QueueInv, ReceiveBuffered PROVE QueueInv'
<1>0. /\ avci \in AvciRecord /\ UserOK /\ user.pc = "out" /\ user' = user
      /\ UNCHANGED <<threads, fctx, codec, next>>
      /\ avci.frame # None /\ inside' = inside \ {avci.frame}
      /\ avci'.draining = avci.draining /\ avci'.done = avci.done /\ avci'.eof = avci.eof
      /\ avci'.bsf = avci.bsf /\ avci'.errors = avci.errors /\ avci'.frame = None
  <2>1. avci \in AvciRecord /\ UserOK
    BY UserFacts
  <2>2. /\ avci'.draining = avci.draining /\ avci'.done = avci.done /\ avci'.eof = avci.eof
        /\ avci'.bsf = avci.bsf /\ avci'.errors = avci.errors /\ avci'.frame = None
    BY <2>1 DEF ReceiveBuffered, AvciRecord
  <2> QED BY <2>1, <2>2 DEF ReceiveBuffered, Settle, threadVars
<1>1. ~Resetting /\ ~Resetting'
  BY <1>0 DEF UserOK, Resetting
<1>2. {user.pc, user'.pc} \cap {"serve", "collect"} = {}
  BY <1>0
<1>3. PICK f \in Packet : f = avci.frame
  BY <1>0 DEF AvciRecord
<1>4. HandInv /\ NewInv /\ FlagInv /\ (avci.draining => EndInv)
  BY <1>1 DEF QueueInv
<1>5. f # avci.bsf /\ f # Latent /\ \A t \in Thread : Awaited(t) # f
  <2>1. Foremost(f)
    BY <1>0, <1>3, <1>4 DEF HandInv
  <2>2. codec.broken \subseteq Packet
    BY UserFacts, FrameThreadsAssumption DEF Codec
  <2> QED BY <2>1, <2>2, ForemostIsAlone
<1>6. user.got = None /\ ~user.err
  BY <1>0, <1>4 DEF NewInv
<1>7. FlagInv'
  BY <1>0, <1>4 DEF FlagInv
<1>8. ASSUME avci.draining PROVE EndInv'
  <2>1. MayFail' = MayFail
    BY <1>1, <1>0, <1>2, CallView
  <2>2. EndInv /\ One(user'.err) = One(user.err)
    BY <1>0, <1>4, <1>8 DEF One
  <2>3. avci.done => inside' = {}
    BY <1>0, <2>2 DEF EndInv
  <2> HIDE DEF One
  <2> QED BY <1>0, <2>1, <2>2, <2>3 DEF EndInv
<1> QED BY <1>0, <1>1, <1>2, <1>3, <1>5, <1>6, <1>7, <1>8, AnswerQueue

(* The frame of the threads goes to the application or to buffer_frame.    *)
LEMMA GotFrameQueue ==
  ASSUME LockInv, FrameInv, QueueInv, GotFrame PROVE QueueInv'
<1>0. /\ avci \in AvciRecord /\ UserOK /\ user.pc = "returned" /\ user' = Outside
      /\ user.call \in {"send", "receive"} /\ avci.frame = None
      /\ user.got # None /\ ~user.err /\ user.got \in Packet
      /\ UNCHANGED <<threads, fctx, codec, next>>
  <2>1. avci \in AvciRecord /\ UserOK /\ user \in UserRecord
    BY UserFacts
  <2> QED BY <2>1 DEF GotFrame, InDecode, Ends, othersOfThreads, UserOK, Decoding, UserRecord
<1>1. /\ user'.pc = "out" /\ user'.call = "none" /\ user'.got = None /\ ~user'.err
      /\ ~Resetting /\ ~Resetting' /\ Entering = None /\ Entering' = None
      /\ {user.pc, user'.pc} \cap {"serve", "collect"} = {}
  BY <1>0 DEF Resetting, Outside, Entering
<1>2. /\ Last' = Last /\ Latent' = Latent /\ Turns' = Turns /\ (Primed' <=> Primed)
      /\ \A t \in Thread : Awaited(t)' = Awaited(t)
      /\ MayFail' = MayFail
      /\ ~avci.draining => CountInv /\ FullInv
      /\ avci.draining => EndInv
      /\ PlaceInv /\ FlagInv /\ NewInv /\ HandInv
  BY <1>0, <1>1, CallView
<1>3. PICK f \in Packet : f = user.got
  BY <1>0
<1>4. Foremost(f) /\ avci.bsf = None
  BY <1>0, <1>2, <1>3 DEF HandInv, NewInv
<1>5. CASE user.call = "send"
  <2>1. /\ avci'.draining = avci.draining /\ avci'.done = avci.done /\ avci'.eof = avci.eof
        /\ avci'.bsf = avci.bsf /\ avci'.errors = avci.errors /\ avci'.frame = f
        /\ inside' = inside
    BY <1>0, <1>3, <1>5 DEF GotFrame, AvciRecord
  <2>2. PlaceInv'
    <3>1. ASSUME NEW x \in Packet PROVE Somewhere(x)' <=> Somewhere(x)
      BY <1>0, <1>1, <1>2, <1>3, <2>1, Names DEF Somewhere
    <3> QED BY <1>0, <1>1, <1>2, <2>1, <3>1 DEF PlaceInv
  <2>3. FlagInv'
    BY <1>1, <1>2, <2>1 DEF FlagInv
  <2>4. NewInv'
    <3>1. Newest(next)'
      BY <1>0, <1>2, <2>1 DEF NewInv, Newest
    <3> QED BY <1>1, <1>4, <2>1, <3>1, Names DEF NewInv
  <2>5. HandInv'
    BY <1>0, <1>1, <1>2, <1>4, <2>1 DEF HandInv, Foremost
  <2>6. ASSUME ~avci.draining PROVE CountInv' /\ FullInv'
    <3>1. /\ One(avci'.bsf # None) = One(avci.bsf # None) /\ One(avci.bsf # None) \in Nat
          /\ One(avci'.frame # None) = 1 /\ One(avci.frame # None) = 0
          /\ One(user'.got # None) = 0 /\ One(user.got # None) = 1
          /\ One(Entering' # None) = 0 /\ One(Entering # None) = 0
          /\ One(Primed') = One(Primed) /\ One(Primed) \in Nat
      BY <1>0, <1>1, <1>2, <1>3, <2>1, Names DEF One
    <3>2. Turns \in Nat
      BY TurnsType
    <3>3. CountInv'
      <4> HIDE DEF One, Primed
      <4> QED BY <1>2, <2>1, <2>6, <3>1, <3>2 DEF CountInv
    <3>4. FullInv'
      BY <1>0, <1>2, <2>6 DEF FullInv
    <3> QED BY <3>3, <3>4
  <2>7. ASSUME avci.draining PROVE EndInv'
    <3>1. EndInv /\ One(user'.err) = One(user.err)
      BY <1>0, <1>1, <1>2, <2>7 DEF One
    <3> HIDE DEF One
    <3> QED BY <1>0, <1>1, <1>2, <2>1, <3>1 DEF EndInv
  <2> QED BY <1>0, <1>1, <2>1, <2>2, <2>3, <2>4, <2>5, <2>6, <2>7, CallQueue
<1>6. CASE user.call = "receive"
  <2>1. avci' = avci /\ inside' = inside \ {f}
    BY <1>3, <1>6 DEF GotFrame, Settle
  <2>2. f # avci.bsf /\ f # Latent /\ \A t \in Thread : Awaited(t) # f
    <3>1. codec.broken \subseteq Packet
      BY UserFacts, FrameThreadsAssumption DEF Codec
    <3> QED BY <1>4, <3>1, ForemostIsAlone
  <2>3. FlagInv'
    BY <1>1, <1>2, <2>1 DEF FlagInv
  <2>4. ASSUME avci.draining PROVE EndInv'
    <3>1. EndInv /\ One(user'.err) = One(user.err)
      BY <1>0, <1>1, <1>2, <2>4 DEF One
    <3>2. avci.done => inside' = {}
      BY <2>1, <3>1 DEF EndInv
    <3> HIDE DEF One
    <3> QED BY <1>0, <1>1, <1>2, <2>1, <3>1, <3>2 DEF EndInv
  <2> QED BY <1>0, <1>1, <1>3, <2>1, <2>2, <2>3, <2>4, AnswerQueue
<1> QED BY <1>0, <1>5, <1>6

(* A packet that does not decode is answered by its error.                 *)
LEMMA GotErrorQueue ==
  ASSUME LockInv, FrameInv, QueueInv, GotError PROVE QueueInv'
<1>0. /\ avci \in AvciRecord /\ UserOK /\ user.pc = "returned" /\ user' = Outside
      /\ user.call \in {"send", "receive"} /\ avci.frame = None
      /\ user.err /\ inside' = inside \ {user.got}
      /\ UNCHANGED <<threads, fctx, codec, next>>
      /\ codec.broken \subseteq Packet
  <2>1. avci \in AvciRecord /\ UserOK
    BY UserFacts
  <2>2. codec.broken \subseteq Packet
    BY UserFacts, FrameThreadsAssumption DEF Codec
  <2> QED BY <2>1, <2>2 DEF GotError, InDecode, Ends, othersOfThreads, UserOK, Decoding, Settle
<1>1. /\ user'.pc = "out" /\ user'.call = "none" /\ user'.got = None /\ ~user'.err
      /\ ~Resetting /\ ~Resetting' /\ Entering = None /\ Entering' = None
      /\ {user.pc, user'.pc} \cap {"serve", "collect"} = {}
  BY <1>0 DEF Resetting, Outside, Entering
<1>2. /\ Last' = Last /\ Latent' = Latent
      /\ MayFail' = MayFail
      /\ avci.draining => EndInv
      /\ PlaceInv /\ FlagInv /\ NewInv /\ HandInv /\ LineInv
  BY <1>0, <1>1, CallView
<1>3. PICK f \in Packet : f = user.got /\ f \in codec.broken
  BY <1>0, <1>2 DEF HandInv
<1>4. f # avci.bsf /\ f # Latent /\ \A t \in Thread : Awaited(t) # f
  <2>1. avci.bsf = None
    BY <1>0, <1>2 DEF NewInv
  <2>2. f # Latent
    BY <1>2, <1>3, Names DEF LineInv
  <2> QED BY <1>0, <1>2, <1>3, <2>1, <2>2, Names DEF HandInv
<1>5. /\ avci'.draining = avci.draining /\ avci'.eof = avci.eof
      /\ avci'.bsf = avci.bsf /\ avci'.frame = None
      /\ IF avci.draining
         THEN /\ avci'.errors = avci.errors + 1
              /\ avci'.done <=> avci.errors >= MaxDrainErrors
         ELSE /\ avci'.errors = avci.errors
              /\ avci'.done = avci.done
  BY <1>0 DEF GotError, AvciRecord
<1>6. ASSUME avci.draining PROVE EndInv' /\ ~avci'.done
  <2>1. One(user.err) = 1 /\ One(user'.err) = 0
    BY <1>0, <1>1 DEF One
  <2>2. Cardinality(MayFail) \in Nat /\ avci.errors \in Nat
    <3>1. MayFail \subseteq Thread
      BY DEF MayFail
    <3> QED BY <1>0, <3>1, ThreadsFinite, FS_Subset, FS_CardinalityType DEF AvciRecord
  <2>3. avci.errors + 1 + Cardinality(MayFail) <= ThreadCount
    <3> HIDE DEF One, MayFail
    <3> QED BY <1>2, <1>6, <2>1, <2>2 DEF EndInv
  <2>4. ~avci'.done
    <3>1. avci.errors < MaxDrainErrors
      <4> HIDE DEF MayFail
      <4> QED BY <2>2, <2>3, SendReceiveAssumption, FrameThreadsAssumption
    <3>2. ~(avci.errors >= MaxDrainErrors)
      BY <2>2, <3>1, SendReceiveAssumption
    <3> QED BY <1>5, <1>6, <3>2
  <2>5. avci'.errors + One(user'.err) + Cardinality(MayFail') <= ThreadCount
    <3> HIDE DEF One, MayFail
    <3> QED BY <1>2, <1>5, <1>6, <2>1, <2>2, <2>3, FrameThreadsAssumption
  <2> QED BY <1>1, <2>4, <2>5 DEF EndInv
<1>7. FlagInv'
  BY <1>1, <1>2, <1>5, <1>6 DEF FlagInv
<1> QED BY <1>0, <1>1, <1>3, <1>4, <1>5, <1>6, <1>7, AnswerQueue
(* A decoder that was opened or flushed.                                   *)
Blank ==
  /\ \A t \in Thread :
       /\ threads[t].pc = "idle" /\ threads[t].ret = "none" /\ threads[t].state = "INPUT_READY"
       /\ threads[t].frame = None /\ threads[t].avpkt = None /\ threads[t].result = "ok"
       /\ threads[t].avctx.held = <<>>
  /\ fctx = NewFctx
  /\ user = Outside
  /\ inside = {}
  /\ avci.frame = None /\ avci.bsf = None
  /\ ~avci.draining /\ ~avci.done /\ avci.errors = 0
  /\ next \in Nat

(* It holds nothing.                                                       *)
LEMMA BlankQueue ==
  ASSUME Blank PROVE QueueInv
<1>0. /\ user.pc = "out" /\ user.call = "none" /\ user.got = None /\ ~user.err
      /\ fctx.prev = None /\ fctx.nextDecoding = 0 /\ fctx.nextFinished = 0 /\ fctx.delaying
  BY DEF Blank, Outside, NewFctx
<1>1. Last = None /\ Latent = None /\ Entering = None /\ ~Resetting
  BY <1>0 DEF Last, Latent, Entering, Resetting
<1>2. ASSUME NEW t \in Thread
      PROVE  /\ Settled(threads[t]) /\ ~Undecided(t) /\ ~Failed(t) /\ Awaited(t) = None
             /\ Kept(t) = None /\ ~Busy(t) /\ WaitOK(t) /\ ResultOK(t)
             /\ threads[t].avpkt = None /\ threads[t].frame = None
  <2>1. Decoded(threads[t]) /\ Settled(threads[t]) /\ threads[t].avpkt # Drain
    BY Names DEF Blank, Decoded, Settled
  <2>2. ~Undecided(t) /\ ~Failed(t) /\ Awaited(t) = None /\ Kept(t) = None /\ ~Busy(t)
    BY Names DEF Blank, Undecided, Failed, Awaited, Kept, Busy, Finished
  <2>3. WaitOK(t)
    BY DEF Blank, WaitOK
  <2>4. ResultOK(t)
    BY <2>1, <2>2 DEF Blank, ResultOK
  <2> QED BY <2>2, <2>1, <2>3, <2>4 DEF Blank
<1>3. Turns = 0
  <2>1. Turn(0) = 0
    BY <1>0, FrameThreadsAssumption DEF Turn
  <2> QED BY <1>0, <2>1 DEF Turns
<1>4. \A t \in Thread : ~Gap(t)
  <2>1. \A t \in Thread : Turn(t) \in 0 .. ThreadCount - 1
    BY <1>0, Names, TurnFacts
  <2> QED BY <1>3, <2>1 DEF Gap
<1>5. PlaceInv
  <2>1. \A x \in Packet : ~Somewhere(x)
    BY <1>0, <1>1, <1>2, Names DEF Somewhere, Blank
  <2> QED BY <2>1 DEF PlaceInv, Blank
<1>6. FlagInv /\ PrevInv
  BY <1>0 DEF FlagInv, PrevInv, Blank
<1>7. NewInv
  <2>1. Newest(next)
    BY <1>1, <1>2, Names DEF Newest, Blank
  <2> QED BY <1>0, <1>1, <2>1, Names DEF NewInv, Blank
<1>8. LineInv /\ HandInv /\ BusyInv
  BY <1>0, <1>1, <1>2 DEF LineInv, HandInv, BusyInv, Blank
<1>9. GapInv /\ DelayInv /\ FullInv
  BY <1>0, <1>1, <1>2, <1>4 DEF GapInv, DelayInv, FullInv, Blank
<1>10. CountInv
  <2>1. ~Primed /\ Cardinality(inside) = 0
    BY <1>1, FS_EmptySet DEF Primed, Blank
  <2>2. /\ One(avci.frame # None) = 0 /\ One(avci.bsf # None) = 0 /\ One(Entering # None) = 0
        /\ One(user.got # None) = 0 /\ One(Primed) = 0
    BY <1>0, <1>1, <2>1 DEF One, Blank
  <2> HIDE DEF One, Primed
  <2> QED BY <1>3, <2>1, <2>2 DEF CountInv
<1>11. ~avci.draining
  BY DEF Blank
<1> QED BY <1>1, <1>2, <1>5, <1>6, <1>7, <1>8, <1>9, <1>10, <1>11 DEF QueueInv

(* A flush or a close begins.                                              *)
LEMMA ResetsQueue ==
  ASSUME LockInv, QueueInv, Flush \/ Close \/ CloseThreads PROVE QueueInv'
<1>0. avci \in AvciRecord /\ user \in UserRecord /\ FlagInv /\ PrevInv
  BY UserFacts DEF QueueInv
<1>1. UNCHANGED <<next, inside, fctx>> /\ PrevInv'
  BY <1>0 DEF Flush, Close, CloseThreads, othersOfThreads, apiVars, PrevInv
<1>2. CASE Flush
  <2>1. user'.call = "flush"
    BY <1>2 DEF Flush, Enter, Outside
  <2>2. /\ avci'.bsf = avci.bsf /\ avci'.eof = avci.eof
        /\ ~avci'.draining /\ ~avci'.done /\ avci'.frame = None /\ avci'.errors = 0
    BY <1>2 DEF Flush, NewAvci
  <2>3. FlagInv'
    BY <1>0, <2>2 DEF FlagInv
  <2> QED BY <1>1, <2>1, <2>3, ResetKeeps DEF Resetting
<1>3. CASE Close \/ CloseThreads
  <2>1. user'.call = "close" /\ avci' = avci
    BY <1>0, <1>3 DEF Close, CloseThreads, Enter, Outside, apiVars, UserRecord
  <2>2. FlagInv'
    BY <1>0, <2>1 DEF FlagInv
  <2> QED BY <1>1, <2>1, <2>2, ResetKeeps DEF Resetting
<1> QED BY <1>2, <1>3

(* It ends, and the next packets find a new decoder.                       *)
LEMMA FreshQueue ==
  ASSUME LockInv, QueueInv, FlushReturns \/ CloseAndOpen PROVE QueueInv'
<1>0. avci \in AvciRecord /\ UserOK /\ FlagInv /\ next \in Nat
  BY UserFacts, FrameThreadsAssumption DEF QueueInv
<1>1. CASE FlushReturns
  <2>1. /\ ~avci.draining /\ avci.frame = None
        /\ avci'.bsf = None
        /\ ~avci'.draining /\ ~avci'.done /\ avci'.frame = None /\ avci'.errors = 0
    BY <1>0, <1>1 DEF FlushReturns, FlagInv, AvciRecord
  <2>2. ASSUME NEW t \in Thread
        PROVE  /\ threads'[t].pc = "idle" /\ threads'[t].ret = "none"
               /\ threads'[t].state = "INPUT_READY"
               /\ threads'[t].frame = None /\ threads'[t].avpkt = None
               /\ threads'[t].result = "ok" /\ threads'[t].avctx.held = <<>>
    <3>1. PICK b : threads'[t] = [NewThread EXCEPT !.avctx.hwaccel = b]
      BY <1>1 DEF FlushReturns, FlushThreads
    <3> QED BY <3>1 DEF NewThread, BlankContext
  <2>3. fctx' = NewFctx /\ user' = Outside /\ inside' = {} /\ next' = next
    BY <1>1 DEF FlushReturns, FlushThreads
  <2>4. Blank'
    BY <1>0, <2>1, <2>2, <2>3 DEF Blank
  <2> QED BY <2>4, BlankQueue, PTL
<1>2. CASE CloseAndOpen
  <2>1. Blank'
    BY <1>2 DEF CloseAndOpen, NewThread, BlankContext, NewAvci, Blank
  <2> QED BY <2>1, BlankQueue, PTL
<1> QED BY <1>1, <1>2

(* The first state.                                                        *)
LEMMA QueueInit ==
  ASSUME Init PROVE QueueInv
<1>1. Blank
  BY DEF Init, ThreadsInit, NewThread, BlankContext, NewAvci, Blank
<1> QED BY <1>1, BlankQueue

(* Every step keeps the invariant.                                         *)
LEMMA QueueNext ==
  ASSUME LockInv, FrameInv, QueueInv, [Next]_vars PROVE QueueInv'
<1>1. CASE Call
  BY <1>1, QuietCalls, SendsQueue, ReceivesQueue, ResetsQueue DEF Call
<1>2. CASE InsideCall
  <2>1. CASE InThreads /\ UNCHANGED apiVars
    BY <2>1, UserKeepsQueue, Submits, CollectsQueue DEF InThreads
  <2>2. CASE ~(InThreads /\ UNCHANGED apiVars)
    BY <1>2, <2>2, QuietCalls, TakesQueue, GotFrameQueue, GotErrorQueue, ResetsQueue, FreshQueue
       DEF InsideCall
  <2> QED BY <2>1, <2>2
<1>3. ASSUME NEW t \in Thread, WorkerStep(t) PROVE QueueInv'
  BY <1>3, WorkerKeepsQueue, WorkerDecides
<1>4. CASE UNCHANGED vars
  <2>0. UNCHANGED <<codec, threads, fctx, user, avci, next, inside>>
    BY <1>4 DEF vars, threadVars, apiVars
  <2>1. FlagInv' /\ PrevInv'
    BY <2>0 DEF QueueInv, FlagInv, PrevInv
  <2>2. CASE Resetting
    BY <2>0, <2>1, <2>2, ResetKeeps DEF Resetting
  <2>3. CASE ~Resetting
    <3>1. \A t \in Thread : Similar(threads[t], threads'[t])
      BY <2>0 DEF Similar
    <3>2. \A t \in Thread : WaitOK(t)'
      BY <2>0, <2>3 DEF QueueInv, WaitOK, CallsBack
    <3>3. Last' = Last /\ Entering' = Entering /\ \A t : Turn(t)' = Turn(t)
      BY <2>0 DEF Last, Entering, Turn
    <3>4. Turns' = Turns
      BY <2>0, <3>3 DEF Turns
    <3>5. ~avci.draining => DelayInv'
      BY <2>0, <2>3, <3>4 DEF QueueInv, DelayInv
    <3>6. BusyInv
      BY <2>3 DEF QueueInv
    <3>7. /\ \A t \in Thread : Busy(t) => Turn(t) < Turns'
          /\ user'.pc = "collect" => \A t \in Thread : Busy(t) => Turn(user.finished)' <= Turn(t)
      BY <2>0, <3>3, <3>4, <3>6 DEF BusyInv
    <3> QED BY <2>0, <2>1, <2>3, <3>1, <3>2, <3>3, <3>4, <3>5, <3>7, QuietQueue
  <2> QED BY <2>2, <2>3
<1> QED BY <1>1, <1>2, <1>3, <1>4 DEF Next

(* Where the packets are, in which order and how many, in every state.     *)
THEOREM QueueInvariance == Spec => []QueueInv
<1>1. Init => QueueInv
  BY QueueInit
<1>2. LockInv /\ FrameInv /\ QueueInv /\ [Next]_vars => QueueInv'
  BY QueueNext
<1> QED BY <1>1, <1>2, LockInvariance, FrameInvariance, PTL DEF Spec
-----------------------------------------------------------------------------
(* Every step is a step of the queue or none.                              *)

(* The packets the decoder may hold back.                                  *)
Delay == ThreadCount - 1 + codec.reorder

(* How many packets there are when a call returns.                         *)
LEMMA CountBounds ==
  ASSUME LockInv, QueueInv, ~Resetting, ~avci.draining, user.pc \in {"out", "get", "returned"}
  PROVE  /\ Cardinality(inside) \in Nat /\ Delay \in Nat
         /\ user.got = None /\ avci.bsf = None => Cardinality(inside) < Delay + 2
         /\ user.got = None /\ avci.bsf = None /\ avci.frame = None => Cardinality(inside) <= Delay
         /\ (\/ avci.frame # None
             \/ avci.bsf # None /\ user.pc = "out"
             \/ user.got # None /\ ~user.err) => Cardinality(inside) > Delay
<1>1. PlaceInv /\ CountInv /\ DelayInv /\ FullInv
  BY DEF QueueInv
<1>2. Cardinality(inside) \in Nat
  BY <1>1, InsideFinite
<1>3. Turns \in 0 .. ThreadCount - 1 /\ (~fctx.delaying => Turns = ThreadCount - 1)
  <2>1. fctx.nextDecoding \in Thread /\ fctx.nextFinished \in Thread
    BY UserFacts DEF UserOK, FctxRecord
  <2>2. Turns = Turn(fctx.nextDecoding)
    BY DEF Turns
  <2>3. Turn(fctx.nextDecoding) \in 0 .. ThreadCount - 1
    BY <2>1, TurnFacts
  <2> QED BY <1>1, <2>2, <2>3 DEF DelayInv
<1>4. codec.reorder \in {0, 1}
  BY Names, WorkerFacts, CodecOK, FrameThreadsAssumption
<1>5. One(Primed) \in 0 .. codec.reorder /\ (codec.reorder = 1 /\ Primed => One(Primed) = 1)
  BY <1>4 DEF One, Primed
<1>6. One(Entering # None) = 0
  BY DEF One, Entering
<1>7. /\ One(avci.frame # None) \in {0, 1} /\ (avci.frame # None <=> One(avci.frame # None) = 1)
      /\ One(avci.bsf # None) \in {0, 1} /\ (avci.bsf # None <=> One(avci.bsf # None) = 1)
      /\ One(user.got # None) \in {0, 1} /\ (user.got # None <=> One(user.got # None) = 1)
  BY DEF One
<1>8. Delay \in Nat
  BY <1>4, FrameThreadsAssumption DEF Delay
<1>9. Cardinality(inside) = One(avci.frame # None) + One(avci.bsf # None)
                              + One(user.got # None) + Turns + One(Primed)
  <2> HIDE DEF One, Primed
  <2> QED BY <1>1, <1>3, <1>5, <1>6, <1>7 DEF CountInv
<1>10. (\/ avci.frame # None
        \/ avci.bsf # None /\ user.pc = "out"
        \/ user.got # None /\ ~user.err)
       => Turns = ThreadCount - 1 /\ (codec.reorder = 1 => One(Primed) = 1)
  BY <1>1, <1>3, <1>5 DEF FullInv
<1> HIDE DEF One, Primed
<1>11. user.got = None /\ avci.bsf = None => Cardinality(inside) < Delay + 2
  BY <1>3, <1>4, <1>5, <1>7, <1>9, FrameThreadsAssumption DEF Delay
<1>12. user.got = None /\ avci.bsf = None /\ avci.frame = None => Cardinality(inside) <= Delay
  BY <1>3, <1>4, <1>5, <1>7, <1>9, FrameThreadsAssumption DEF Delay
<1>13. (\/ avci.frame # None
        \/ avci.bsf # None /\ user.pc = "out"
        \/ user.got # None /\ ~user.err) => Cardinality(inside) > Delay
  BY <1>3, <1>4, <1>5, <1>7, <1>9, <1>10, FrameThreadsAssumption DEF Delay
<1> QED BY <1>2, <1>8, <1>11, <1>12, <1>13

(* The frame that a call returns is the first of what was accepted.        *)
LEMMA FrameIsFirst ==
  ASSUME LockInv, QueueInv, ~Resetting, user.pc \in {"out", "returned"},
         NEW f \in Packet, f \in {avci.frame, user.got}, Foremost(f),
         avci.frame # None => user.got = None
  PROVE  f \in inside \ codec.broken /\ \A q \in inside : f <= q
<1>1. PlaceInv /\ Entering = None
  BY DEF QueueInv, Entering
<1>2. f \in inside \ codec.broken
  BY <1>1 DEF PlaceInv, Somewhere, Foremost
<1>3. ASSUME NEW q \in inside PROVE f <= q
  <2>1. q \in Packet /\ Somewhere(q) /\ Packet \subseteq Nat
    BY <1>1, FrameThreadsAssumption DEF PlaceInv, Packet
  <2>2. q # f => f < q
    <3>1. q # f => q = avci.bsf \/ q = Latent \/ \E t \in Thread : Awaited(t) = q
      BY <1>1, <2>1, Names DEF Somewhere
    <3> QED BY <2>1, <3>1, Names DEF Foremost
  <2> QED BY <2>1, <2>2
<1> QED BY <1>2, <1>3

(* The queue counts its packets in the same way.                           *)
LEMMA SameCount ==
  ASSUME NEW S PROVE Queue!Cardinality(S) = Cardinality(S)
BY DEF Cardinality, Queue!Cardinality

(* A step that the queue does not see.                                     *)
LEMMA QueueStutters ==
  ASSUME UNCHANGED <<codec, inside, reply>>,
         (~avci'.draining /\ ~avci'.eof) <=> (~avci.draining /\ ~avci.eof)
  PROVE  [Queue!Next]_(Queue!queue)
BY DEF Queue!queue

(* The calls.                                                              *)
LEMMA CallIsQueue ==
  ASSUME LockInv, FrameInv, QueueInv, Call PROVE [Queue!Next]_(Queue!queue)
<1>0. /\ user.pc = "out" /\ user \in UserRecord /\ avci \in AvciRecord /\ ~Resetting
      /\ PlaceInv /\ FlagInv /\ NewInv /\ HandInv /\ user.got = None /\ ~user.err
      /\ codec' = codec
  <2>1. user.pc = "out" /\ codec' = codec
    BY DEF Call, SendTooLate, SendRefused, SendAccepted, SendNull, ReceiveBuffered, ReceiveDecodes,
           Flush, Close, threadVars, othersOfThreads
  <2> QED BY <2>1, UserFacts DEF UserOK, Resetting, QueueInv, NewInv
<1>1. CASE SendTooLate
  BY <1>0, <1>1 DEF SendTooLate, Answer, Queue!Next, Queue!Sent, Queue!Answer
<1>2. CASE SendRefused
  <2>1. Cardinality(inside) > Delay
    BY <1>0, <1>2, CountBounds DEF SendRefused, SlotFree
  <2> QED BY <1>0, <1>2, <2>1, SameCount
          DEF SendRefused, Answer, Delay, Queue!Next, Queue!Refuse, Queue!Answer
<1>3. CASE SendAccepted
  <2>1. Cardinality(inside) < Delay + 2
    BY <1>0, <1>3, CountBounds DEF SendAccepted, SlotFree
  <2>2. avci'.draining = avci.draining /\ avci'.eof = avci.eof
    BY <1>0, <1>3 DEF SendAccepted, AvciRecord
  <2>3. /\ \A q \in inside : q < next
        /\ next \in Packet /\ inside' = inside \cup {next} /\ reply' = reply
        /\ ~avci.draining /\ ~avci.eof
    BY <1>0, <1>3 DEF SendAccepted, PlaceInv
  <2>4. Queue!Accept(next)
    BY <2>1, <2>2, <2>3, SameCount DEF Delay, Queue!Accept
  <2> QED BY <1>0, <2>3, <2>4 DEF Queue!Next
<1>4. CASE SendNull
  <2>1. avci'.eof
    BY <1>0, <1>4 DEF SendNull, AvciRecord
  <2> QED BY <1>0, <1>4, <2>1 DEF SendNull, Queue!Next, Queue!EndInput
<1>5. CASE ReceiveBuffered
  <2>1. PICK f \in Packet : f = avci.frame
    BY <1>0, <1>5 DEF ReceiveBuffered, AvciRecord
  <2>2. f \in inside \ codec.broken /\ \A q \in inside : f <= q
    <3>1. Foremost(f)
      BY <1>0, <1>5, <2>1 DEF ReceiveBuffered, HandInv
    <3> QED BY <1>0, <2>1, <3>1, FrameIsFirst
  <2>3. ~avci.draining => Cardinality(inside) > Delay
    BY <1>0, <1>5, CountBounds DEF ReceiveBuffered
  <2>4. avci'.draining = avci.draining /\ avci'.eof = avci.eof
    BY <1>0, <1>5 DEF ReceiveBuffered, AvciRecord
  <2>5. Queue!Deliver
    BY <1>5, <2>1, <2>2, <2>3, <2>4, SameCount
       DEF ReceiveBuffered, Answer, Settle, Delay, Queue!Deliver, Queue!Answer
  <2> QED BY <1>0, <2>5 DEF Queue!Next
<1>6. CASE ReceiveDecodes \/ Close
  BY <1>0, <1>6, QueueStutters DEF ReceiveDecodes, Close, apiVars
<1>7. CASE Flush
  <2>1. ~avci'.draining /\ avci'.eof = avci.eof
    BY <1>7 DEF Flush, NewAvci
  <2> QED BY <1>0, <1>7, <2>1, QueueStutters DEF Flush, FlagInv
<1> QED BY <1>1, <1>2, <1>3, <1>4, <1>5, <1>6, <1>7 DEF Call

(* What happens inside a call.                                             *)
LEMMA InsideCallIsQueue ==
  ASSUME LockInv, FrameInv, QueueInv, InsideCall PROVE [Queue!Next]_(Queue!queue)
<1>0. user \in UserRecord /\ avci \in AvciRecord /\ UserOK /\ FlagInv /\ PlaceInv
  BY UserFacts DEF QueueInv
<1>1. CASE SendReturns
  BY <1>1 DEF SendReturns, Answer, othersOfThreads, Queue!Next, Queue!Sent, Queue!Answer
<1>2. CASE GetPacket
  <2>1. avci'.draining = avci.draining /\ avci'.eof = avci.eof
    BY <1>0, <1>2 DEF GetPacket, AvciRecord
  <2> QED BY <1>2, <2>1, QueueStutters DEF GetPacket, othersOfThreads
<1>3. CASE GetNothing
  <2>1. /\ user.pc = "get" /\ avci.frame = None /\ avci.bsf = None /\ ~Resetting
        /\ ~avci.draining /\ ~avci.eof /\ user.call \in {"send", "receive"}
        /\ UNCHANGED <<codec, inside, avci>>
    BY <1>0, <1>3 DEF GetNothing, UserOK, Decoding, Resetting, othersOfThreads
  <2>2. user.got = None
    BY <2>1 DEF QueueInv, NewInv
  <2>3. Cardinality(inside) <= Delay
    BY <2>1, <2>2, CountBounds
  <2>4. CASE user.call = "send"
    BY <1>3, <2>1, <2>4 DEF GetNothing, Ends, Answer, Queue!Next, Queue!Sent, Queue!Answer
  <2>5. CASE user.call = "receive"
    BY <1>3, <2>1, <2>3, <2>5, SameCount
       DEF GetNothing, Ends, Answer, Delay, Queue!Next, Queue!NoFrameYet, Queue!Answer
  <2> QED BY <2>1, <2>4, <2>5
<1>4. CASE GetDrain
  <2>1. /\ avci'.draining /\ (avci.draining \/ avci.eof)
    BY <1>0, <1>4 DEF GetDrain, AvciRecord
  <2> QED BY <1>4, <2>1, QueueStutters DEF GetDrain, othersOfThreads
<1>5. CASE GetEnd
  <2>1. /\ user.pc = "get" /\ avci.draining /\ ~Resetting /\ user.call \in {"send", "receive"}
        /\ UNCHANGED <<codec, inside, avci>>
    BY <1>0, <1>5 DEF GetEnd, FlagInv, UserOK, Decoding, Resetting, othersOfThreads
  <2>2. inside = {}
    BY <1>5, <2>1 DEF GetEnd, QueueInv, EndInv
  <2>3. CASE user.call = "send"
    BY <1>5, <2>1, <2>3 DEF GetEnd, Ends, Answer, Queue!Next, Queue!Sent, Queue!Answer
  <2>4. CASE user.call = "receive"
    BY <1>5, <2>1, <2>2, <2>4
       DEF GetEnd, Ends, Answer, Queue!Next, Queue!EndOfStream, Queue!Answer
  <2> QED BY <2>1, <2>3, <2>4
<1>6. CASE GotFrame
  <2>1. /\ user.pc = "returned" /\ ~Resetting /\ user.call \in {"send", "receive"}
        /\ codec' = codec /\ avci.frame = None
        /\ user.got # None /\ ~user.err
    BY <1>0, <1>6 DEF GotFrame, InDecode, UserOK, Decoding, Resetting, othersOfThreads
  <2>2. CASE user.call = "send"
    <3>1. avci'.draining = avci.draining /\ avci'.eof = avci.eof
      BY <1>0, <1>6, <2>2 DEF GotFrame, AvciRecord
    <3> QED BY <1>6, <2>1, <2>2, <3>1
            DEF GotFrame, Ends, Answer, Queue!Next, Queue!Sent, Queue!Answer
  <2>3. CASE user.call = "receive"
    <3>1. PICK f \in Packet : f = user.got
      BY <1>0, <2>1 DEF UserOK, UserRecord
    <3>2. f \in inside \ codec.broken /\ \A q \in inside : f <= q
      <4>1. Foremost(f)
        BY <2>1, <3>1 DEF QueueInv, HandInv
      <4> QED BY <2>1, <3>1, <4>1, FrameIsFirst
    <3>3. ~avci.draining => Cardinality(inside) > Delay
      BY <2>1, CountBounds
    <3>4. /\ avci' = avci /\ inside' = inside \ {f}
          /\ reply' = [call |-> "receive", ret |-> "frame", about |-> f]
      BY <1>6, <2>3, <3>1 DEF GotFrame, Ends, Answer, Settle
    <3>5. Queue!Deliver
      BY <3>2, <3>3, <3>4, SameCount DEF Delay, Queue!Deliver, Queue!Answer
    <3> QED BY <2>1, <3>5 DEF Queue!Next
  <2> QED BY <2>1, <2>2, <2>3
<1>7. CASE GotError
  <2>1. /\ user.pc = "returned" /\ ~Resetting /\ user.call \in {"send", "receive"}
        /\ codec' = codec /\ user.err
    BY <1>0, <1>7 DEF GotError, InDecode, UserOK, Decoding, Resetting, othersOfThreads
  <2>2. codec.broken \subseteq Packet
    BY UserFacts, FrameThreadsAssumption DEF Codec
  <2>3. PICK f \in Packet : f = user.got /\ f \in codec.broken
    BY <2>1, <2>2 DEF QueueInv, HandInv
  <2>4. f \in inside \cap codec.broken
    BY <1>0, <2>1, <2>3 DEF PlaceInv, Somewhere
  <2>5. avci'.draining = avci.draining /\ avci'.eof = avci.eof
    BY <1>0, <1>7 DEF GotError, AvciRecord
  <2>6. /\ inside' = inside \ {f}
        /\ reply' = [call |-> user.call, ret |-> "error", about |-> f]
    BY <1>7, <2>3 DEF GotError, Ends, Answer, Settle
  <2>7. Queue!Fail(user.call)
    BY <2>4, <2>5, <2>6 DEF Queue!Fail, Queue!Answer
  <2> QED BY <2>1, <2>7 DEF Queue!Next
<1>8. CASE GotNothing
  <2>1. avci'.draining = avci.draining /\ avci'.eof = avci.eof
    BY <1>0, <1>8 DEF GotNothing, AvciRecord
  <2> QED BY <1>8, <2>1, QueueStutters DEF GotNothing, othersOfThreads
<1>9. CASE FlushReturns
  <2>1. ~avci'.draining /\ ~avci'.eof
    BY <1>0, <1>9 DEF FlushReturns, FlagInv, AvciRecord
  <2> QED BY <1>9, <2>1 DEF FlushReturns, Answer, Queue!Next, Queue!Forget, Queue!Answer
<1>10. CASE CloseAndOpen
  <2>1. ~avci'.draining /\ ~avci'.eof
    BY <1>10 DEF CloseAndOpen, NewAvci
  <2> QED BY <1>10, <2>1 DEF CloseAndOpen, Answer, Queue!Next, Queue!Forget, Queue!Answer
<1>11. CASE CloseThreads
  BY <1>11, QueueStutters DEF CloseThreads, othersOfThreads, apiVars
<1>12. CASE InThreads /\ UNCHANGED apiVars
  <2>1. codec' = codec
    BY <1>12 DEF InThreads, AsyncUnlock, AsyncRelock, SubmitNothing, SubmitLock, SubmitStart, Serve,
                 Collect, Park, Kill, JoinThread
  <2> QED BY <1>12, <2>1, QueueStutters DEF apiVars
<1> QED BY <1>1, <1>2, <1>3, <1>4, <1>5, <1>6, <1>7, <1>8, <1>9, <1>10, <1>11, <1>12 DEF InsideCall

(* Decoding with threads is a queue, whatever the number of threads and    *)
(* packets and whatever the codec: one frame or one error for every packet,*)
(* in order and not too late, and nothing left at the end of the stream    *)
(* (avcodec_send_packet() and avcodec_receive_frame() on top of            *)
(* pthread_frame.c).                                                       *)
THEOREM QueueImplemented == Spec => DecodesAsQueue
<1>1. Init => Queue!Init
  BY DEF Init, NewAvci, Queue!Init
<1>2. LockInv /\ FrameInv /\ QueueInv /\ [Next]_vars => [Queue!Next]_(Queue!queue)
  <2> SUFFICES ASSUME LockInv, FrameInv, QueueInv, [Next]_vars PROVE [Queue!Next]_(Queue!queue)
    OBVIOUS
  <2>1. ASSUME NEW t \in Thread, WorkerStep(t) PROVE [Queue!Next]_(Queue!queue)
    <3>1. UNCHANGED apiVars /\ codec' = codec
      BY <2>1 DEF WorkerStep, Worker, Pick, Begin, DecodeDrain, DecodeFails, DecodeStarts, AskFormat,
                  GotFormat, AskBuffer, GotBuffer, UnlockBuffer, Predict, Decode, FinishHwaccel,
                  FinishAsync, Publish, UnlockHwaccel, UnlockAsync, Ready
    <3> QED BY <3>1, QueueStutters DEF apiVars
  <2>2. CASE UNCHANGED vars
    BY <2>2, QueueStutters DEF vars, threadVars, apiVars
  <2> QED BY <2>1, <2>2, CallIsQueue, InsideCallIsQueue DEF Next
<1> QED BY <1>1, <1>2, LockInvariance, FrameInvariance, QueueInvariance, PTL
        DEF Spec, DecodesAsQueue, Queue!Spec
=============================================================================
