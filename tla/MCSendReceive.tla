--------------------------- MODULE MCSendReceive ---------------------------
(* Codecs for the runs of SendReceive.                                     *)
EXTENDS SendReceive

Software == [updates |-> TRUE, ownBuffer |-> FALSE, ownFormat |-> FALSE,
             hwaccel |-> "none", capDelay |-> TRUE, reorder |-> 1,
             broken |-> {}, formats |-> {}]

(* An inter codec as the player opens it, here without reordering and with *)
(* a damaged packet.                                                       *)
Damaged == [Software EXCEPT !.reorder = 0, !.broken = {2}]

(* Hardware decoding that may start or stop at packets 1 and 3.            *)
Hardware == [Software EXCEPT !.reorder = 0, !.hwaccel = "unsafe", !.formats = {1, 3}]

SafeHardware == [Hardware EXCEPT !.hwaccel = "safe", !.ownFormat = TRUE]

(* Callbacks of the application that must run on its own thread.           *)
OwnCallbacks == [Software EXCEPT !.ownBuffer = TRUE, !.ownFormat = TRUE, !.formats = {1}]

(* Intra codecs, which have no context to hand on.                         *)
Intra == [Software EXCEPT !.updates = FALSE, !.reorder = 0, !.capDelay = FALSE]

IntraOwnBuffer == [Intra EXCEPT !.ownBuffer = TRUE, !.broken = {2}]

AllCodecs == {Software, Damaged, Hardware, SafeHardware, OwnCallbacks, Intra, IntraOwnBuffer}

=============================================================================
