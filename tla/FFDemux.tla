------------------------------ MODULE FFDemux -------------------------------
(***************************************************************************)
(* The demuxer (FFDemux.cpp): an open input that hands out the packets of  *)
(* a file in order.  A packet is a record: its index n in the file and the *)
(* epoch e, which counts Open() and Seek() calls so that the properties    *)
(* can tell a packet read before one from a packet read after it.          *)
(*                                                                         *)
(* Every method holds FFDemux::mux from beginning to end and waits for     *)
(* nothing inside, so each is one indivisible step here.                   *)
(***************************************************************************)
EXTENDS Naturals, Sequences, FiniteSets

CONSTANTS
  File,          \* the packets of the file: [kind, key, pts]
  OpenOutcome    \* what avformat may do with the url on Open()

Kinds == {"video", "audio", "other"}

(* "other" stands for a stream that is neither the best video nor the best *)
(* audio stream, subtitles for one.                                        *)
ASSUME FileAssumption ==
  /\ File \in Seq([kind : Kinds, key : BOOLEAN, pts : Nat])
  /\ OpenOutcome \subseteq {"ok", "no input", "no stream info"}

VARIABLES
  ic,      \* whether the format context is there
  pos,     \* index of the packet av_read_frame() returns next
  epoch    \* history: number of successful Open() and Seek() calls

demuxVars == <<ic, pos, epoch>>

NoPacket == [n |-> 0, e |-> 0]

Packet == {NoPacket} \cup [n : 1 .. Len(File), e : Nat]

Kind(p) == File[p.n].kind
Pts(p) == File[p.n].pts

DemuxInit ==
  /\ ic = FALSE
  /\ pos = 1
  /\ epoch = 0

AtEnd == ~ic \/ pos > Len(File)

(* What Read() returns: nothing without a context and at the end of the    *)
(* file, but also when the packet belongs to another stream, which it frees*)
(* on the way.                                                             *)
ReadResult ==
  IF AtEnd THEN NoPacket
  ELSE IF File[pos].kind = "other" THEN NoPacket
  ELSE [n |-> pos, e |-> epoch]

(* Mutant: the end of the file is not the end.                             *)
AdvancePastEnd ==
  /\ pos' = pos + 1
  /\ UNCHANGED <<ic, epoch>>

Advance ==
  /\ pos' = IF AtEnd THEN pos ELSE pos + 1
  /\ UNCHANGED <<ic, epoch>>

(* Open() closes first.  When avformat_find_stream_info() fails it returns *)
(* false with the context still open.                                      *)
OpenInput(outcome) ==
  /\ ic' = (outcome # "no input")
  /\ IF outcome = "no input"
     THEN UNCHANGED <<pos, epoch>>
     ELSE /\ pos' = 1
          /\ epoch' = epoch + 1

CloseInput ==
  /\ ic' = FALSE
  /\ UNCHANGED <<pos, epoch>>

(* av_seek_frame() with AVSEEK_FLAG_BACKWARD: the last key frame of the    *)
(* video stream at or before the target; it fails when there is none.      *)
KeysBefore(target) ==
  {n \in 1 .. Len(File) :
     File[n].kind = "video" /\ File[n].key /\ File[n].pts <= target}

SeekInput(target) ==
  /\ IF ic /\ KeysBefore(target) # {}
     THEN /\ pos' = CHOOSE n \in KeysBefore(target) :
                      \A k \in KeysBefore(target) : k <= n
          /\ epoch' = epoch + 1
     ELSE UNCHANGED <<pos, epoch>>
  /\ UNCHANGED ic

=============================================================================
