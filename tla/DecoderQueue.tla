---------------------------- MODULE DecoderQueue ----------------------------
(***************************************************************************)
(* What avcodec_send_packet() and avcodec_receive_frame() promise: one     *)
(* frame, or one error, for every packet accepted; frames in the order of  *)
(* the packets; no frame later than `delay` packets after its own; never   *)
(* EAGAIN in both directions; every frame before the end of the stream;    *)
(* nothing after a flush.  Module IDecode relies on this queue.            *)
(***************************************************************************)
EXTENDS Naturals, FiniteSets

CONSTANTS Packet, None

VARIABLES
  delay,     \* packets the decoder may hold back, fixed when it is opened
  broken,    \* packets that do not decode
  inside,    \* packets accepted and not yet answered by a frame or an error
  feeding,   \* no flush packet has been sent
  reply      \* what the last call returned

queue == <<delay, broken, inside, feeding, reply>>

Answer(call, ret, about) == reply' = [call |-> call, ret |-> ret, about |-> about]

Accept(p) ==
  /\ feeding /\ Cardinality(inside) < delay + 2
  /\ \A q \in inside : q < p
  /\ inside' = inside \cup {p}
  /\ UNCHANGED <<feeding, reply>>

Refuse ==
  /\ feeding /\ Cardinality(inside) > delay
  /\ Answer("send", "again", None)
  /\ UNCHANGED <<inside, feeding>>

Deliver ==
  /\ feeding => Cardinality(inside) > delay
  /\ \E p \in inside \ broken :
       /\ \A q \in inside : p <= q
       /\ Answer("receive", "frame", p)
       /\ inside' = inside \ {p}
  /\ UNCHANGED feeding

Fail(call) ==
  /\ \E p \in inside \cap broken :
       /\ Answer(call, "error", p)
       /\ inside' = inside \ {p}
  /\ UNCHANGED feeding

NoFrameYet ==
  /\ feeding /\ Cardinality(inside) <= delay
  /\ Answer("receive", "again", None)
  /\ UNCHANGED <<inside, feeding>>

EndOfStream ==
  /\ ~feeding /\ inside = {}
  /\ Answer("receive", "eof", None)
  /\ UNCHANGED <<inside, feeding>>

EndInput ==
  /\ feeding' = FALSE
  /\ UNCHANGED <<inside, reply>>

(* A packet or flush packet sent, or sent too late.                        *)
Sent ==
  /\ \E ret \in {"ok"} \cup (IF feeding THEN {} ELSE {"eof", "invalid"}) :
       Answer("send", ret, None)
  /\ UNCHANGED <<inside, feeding>>

Forget ==
  /\ inside' = {}
  /\ feeding' = TRUE
  /\ Answer("reset", "ok", None)

Next ==
  /\ \/ \E p \in Packet : Accept(p)
     \/ Deliver \/ (\E call \in {"send", "receive"} : Fail(call))
     \/ EndInput \/ Refuse \/ NoFrameYet \/ EndOfStream \/ Sent \/ Forget
  /\ UNCHANGED <<delay, broken>>

Init ==
  /\ inside = {}
  /\ feeding = TRUE
  /\ reply = [call |-> "reset", ret |-> "ok", about |-> None]

Spec == Init /\ [][Next]_queue

=============================================================================
