----------------------------- MODULE IObserver ------------------------------
(***************************************************************************)
(* IObserver::Notify() of the demuxer and the Update() of its observers,   *)
(* the two decoders.  A call in progress belongs to the thread that made   *)
(* it: a demuxer thread, or the control thread while it seeks.  Notify()   *)
(* holds the mutex of the subject over all the Update() calls, and each    *)
(* Update() waits for room in the queue of its decoder.                    *)
(*                                                                         *)
(* The other subjects of the player have one observer each and are only    *)
(* ever notified under the packsMutex of their decoder, so their mutex is  *)
(* never contended and is left out.                                        *)
(***************************************************************************)
EXTENDS IDecode

VARIABLES
  notifyMux,   \* the caller that holds IObserver::mux of the demuxer
  note         \* note[c]: where the Notify() call of c is

noteVars == <<notifyMux, note>>

UI == <<"ui", 0>>

DemuxThread == {"demux"} \X Slot

Caller == {UI} \cup DemuxThread

(* IPlayerBuilder.cpp adds the observers in this order.                    *)
obss == <<"vDecode", "aDecode">>

NotNotifying == [at |-> "done", to |-> 0, pkt |-> NoPacket]

NoteInit ==
  /\ notifyMux = Free
  /\ note = [c \in Caller |-> NotNotifying]

SetNote(c, at, to, p) == note' = [note EXCEPT ![c] = [at |-> at, to |-> to, pkt |-> p]]

BeginNotify(c, p) ==
  /\ SetNote(c, "lock", 0, p)
  /\ UNCHANGED notifyMux

(* Mutant: every decoder takes every packet.                               *)
InterestedAlways(i, p) == i \in DOMAIN obss /\ p # NoPacket

(* Whether the first test of Update() lets observer i take the packet.     *)
Interested(i, p) == (Kind(p) = "audio") = isAudio[obss[i]]

(* Mutant: Notify() returns with the mutex held.                           *)
OfferAndKeep(c, i, p) ==
  LET next == {j \in i .. Len(obss) : Interested(j, p)}
  IN  IF next = {}
      THEN /\ note' = [note EXCEPT ![c] = NotNotifying]
           /\ notifyMux' = c
      ELSE /\ SetNote(c, "test", CHOOSE j \in next : \A k \in next : j <= k, p)
           /\ notifyMux' = c

(* Go on with the next interested observer, or unlock and return.          *)
Offer(c, i, p) ==
  LET next == {j \in i .. Len(obss) : Interested(j, p)}
  IN  IF next = {}
      THEN /\ note' = [note EXCEPT ![c] = NotNotifying]
           /\ notifyMux' = Free
      ELSE /\ SetNote(c, "test", CHOOSE j \in next : \A k \in next : j <= k, p)
           /\ notifyMux' = c

(* Mutant: Notify() without the mutex of the subject.                      *)
EnterNotify(c) ==
  /\ note[c].at = "lock"
  /\ Offer(c, 1, note[c].pkt)
  /\ UNCHANGED packs

LockNotify(c) ==
  /\ note[c].at = "lock"
  /\ notifyMux = Free
  /\ Offer(c, 1, note[c].pkt)
  /\ UNCHANGED packs

(* The loop condition of Update(): a stopped decoder takes no packet, and  *)
(* nobody frees the one it was offered.                                    *)
TestObserver(c) ==
  LET n == note[c] IN
  /\ n.at = "test"
  /\ IF isExit[obss[n.to]]
     THEN Offer(c, n.to + 1, n.pkt)
     ELSE /\ SetNote(c, "push", n.to, n.pkt)
          /\ UNCHANGED notifyMux
  /\ UNCHANGED packs

(* The body of the loop: push, or sleep and test again.                    *)
PushObserver(c) ==
  LET n == note[c]
      d == obss[n.to]
  IN  /\ n.at = "push"
      /\ CanPush(d)
      /\ IF HasRoom(d)
         THEN /\ PushPacket(d, n.pkt)
              /\ Offer(c, n.to + 1, n.pkt)
         ELSE /\ SetNote(c, "test", n.to, n.pkt)
              /\ UNCHANGED <<packs, notifyMux>>

NotifyStep(c) ==
  /\ LockNotify(c) \/ TestObserver(c) \/ PushObserver(c)
  /\ UNCHANGED <<packsMutex, pck, isAudio, synPts, framePts, opened, codec, frame>>

=============================================================================
