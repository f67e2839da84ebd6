---------------------------- MODULE OwnerProofs ------------------------------
(***************************************************************************)
(* Where the packets of the player are, for every file, every bound, any   *)
(* number of slots and every choice of objects that are slow or may find a *)
(* thread: a packet has one owner at a time, the queues are in the order   *)
(* of the file and of the seeks, and one packet at most is left of what    *)
(* was read before an Open() or a Seek().                                  *)
(***************************************************************************)
EXTENDS IPlayerProofs, FiniteSetTheorems

-----------------------------------------------------------------------------
(* Queues as sets.                                                         *)

(* A packet appended to a queue that does not hold it.                     *)
LEMMA Appended ==
  ASSUME NEW S, NEW s \in Seq(S), NEW p \in S
  PROVE  LET r == Append(s, p) IN
         /\ {r[i] : i \in DOMAIN r} = {s[i] : i \in DOMAIN s} \cup {p}
         /\ (\A i, j \in DOMAIN s : s[i] = s[j] => i = j) /\ p \notin {s[i] : i \in DOMAIN s}
              => \A i, j \in DOMAIN r : r[i] = r[j] => i = j
<1> DEFINE r == Append(s, p)
<1>1. /\ DOMAIN r = 1 .. Len(s) + 1 /\ DOMAIN s = 1 .. Len(s) /\ Len(s) \in Nat
      /\ \A i \in 1 .. Len(s) : r[i] = s[i]
      /\ r[Len(s) + 1] = p
  OBVIOUS
<1> HIDE DEF r
<1>2. DOMAIN r = DOMAIN s \cup {Len(s) + 1} /\ Len(s) + 1 \notin DOMAIN s
  BY <1>1
<1>3. \A i \in DOMAIN s : r[i] = s[i]
  BY <1>1
<1>4. {r[i] : i \in DOMAIN r} = {s[i] : i \in DOMAIN s} \cup {p}
  BY <1>1, <1>2, <1>3
<1>5. ASSUME \A i, j \in DOMAIN s : s[i] = s[j] => i = j, p \notin {s[i] : i \in DOMAIN s}
      PROVE  \A i, j \in DOMAIN r : r[i] = r[j] => i = j
  BY <1>1, <1>2, <1>3, <1>5
<1> QED BY <1>4, <1>5 DEF r

(* The first packet leaves a queue that holds it once.                     *)
LEMMA Shortened ==
  ASSUME NEW S, NEW s \in Seq(S), s # <<>>, \A i, j \in DOMAIN s : s[i] = s[j] => i = j
  PROVE  LET r == Tail(s) IN
         /\ Head(s) \in {s[i] : i \in DOMAIN s}
         /\ {r[i] : i \in DOMAIN r} = {s[i] : i \in DOMAIN s} \ {Head(s)}
         /\ \A i, j \in DOMAIN r : r[i] = r[j] => i = j
<1> DEFINE r == Tail(s)
           h == Head(s)
<1>1. /\ DOMAIN r = 1 .. Len(s) - 1 /\ DOMAIN s = 1 .. Len(s) /\ Len(s) \in Nat /\ Len(s) >= 1
      /\ \A i \in 1 .. Len(s) - 1 : r[i] = s[i + 1]
      /\ h = s[1]
  OBVIOUS
<1> HIDE DEF r, h
<1>2. h \in {s[i] : i \in DOMAIN s}
  BY <1>1
<1>3. \A i \in DOMAIN r : i + 1 \in DOMAIN s /\ r[i] = s[i + 1] /\ i + 1 # 1
  BY <1>1
<1>4. \A i \in DOMAIN s : i # 1 => i - 1 \in DOMAIN r /\ r[i - 1] = s[i]
  BY <1>1
<1>5. {r[i] : i \in DOMAIN r} = {s[i] : i \in DOMAIN s} \ {h}
  <2>1. \A i \in DOMAIN r : r[i] \in {s[j] : j \in DOMAIN s} /\ r[i] # h
    BY <1>1, <1>3
  <2>2. \A i \in DOMAIN s : s[i] # h => s[i] \in {r[j] : j \in DOMAIN r}
    BY <1>1, <1>4
  <2> QED BY <2>1, <2>2
<1>6. \A i, j \in DOMAIN r : r[i] = r[j] => i = j
  BY <1>1, <1>3
<1> QED BY <1>2, <1>5, <1>6 DEF r, h

-----------------------------------------------------------------------------
(* What a step leaves alone.                                               *)

LEMMA BeforeKept ==
  ASSUME UNCHANGED <<epoch, pos>>, NEW p
  PROVE  Before(p)' <=> Before(p)
  BY DEF Before

(* Later in the file, or after another Open() or Seek().                   *)
LEMMA BeforeLater ==
  ASSUME FileOK, NEW p, p.n \in Nat, Before(p),
         \/ epoch' = epoch /\ pos' \in {pos, pos + 1}
         \/ epoch' = epoch + 1
  PROVE  Before(p)'
  BY FileLength DEF Before, FileOK

(* Nobody gets a packet or loses one.                                      *)
LEMMA OwnersKept ==
  ASSUME OwnInv, UNCHANGED <<packs, pck, note, got>>
  PROVE  QueuedOnce' /\ NotQueued' /\ HeldOnce'
<1>1. /\ \A d : In(d)' = In(d)
      /\ \A c : Offered(c)' = Offered(c)
  BY DEF In, Offered
<1>2. QueuedOnce'
  BY <1>1 DEF OwnInv, QueuedOnce
<1>3. NotQueued'
  BY <1>1 DEF OwnInv, NotQueued
<1>4. HeldOnce'
  BY <1>1 DEF OwnInv, HeldOnce
<1> QED BY <1>2, <1>3, <1>4

(* What the holders have are packets that were read.                       *)
LEMMA HoldersRead ==
  ASSUME PlayInv
  PROVE  /\ \A d \in Decoder : \A p \in In(d) : p \in Read
         /\ \A t \in DecodeThread : pck[t] = NoPacket \/ pck[t] \in Read
         /\ \A c \in Caller : Offered(c) = NoPacket \/ Offered(c) \in Read
         /\ got = NoPacket \/ got \in Read
         /\ \A p \in Read : p.n \in Nat /\ p # NoPacket
<1>1. \A d \in Decoder : \A i \in DOMAIN packs[d] : packs[d][i] \in Read
  <2>1. SUFFICES ASSUME NEW d \in Decoder, NEW i \in DOMAIN packs[d] PROVE packs[d][i] \in Read
    OBVIOUS
  <2>2. packs[d] \in Seq(Read)
    BY DEF PlayInv, DecodersOK
  <2> QED BY <2>2
<1>2. \A p \in Packet : p = NoPacket \/ p \in Read
  BY DEF Packet, Read
<1>3. \A p \in Read : p.n \in Nat /\ p # NoPacket
  BY FileLength, Names DEF Read
<1>4. \A t \in DecodeThread : pck[t] \in Packet
  BY DEF PlayInv, DecodersOK
<1>5. \A c \in Caller : Offered(c) = NoPacket \/ Offered(c) \in Read
  BY DEF PlayInv, NotesOK, Offered
<1>6. got \in Packet
  BY DEF PlayInv, CallOK
<1>7. \A d \in Decoder : \A p \in In(d) : p \in Read
  BY <1>1 DEF In
<1> QED BY <1>2, <1>3, <1>4, <1>5, <1>6, <1>7

(* What was read before stays so when the demuxer moves on.                *)
LEMMA AllBeforeKept ==
  ASSUME PlayInv, OwnInv, UNCHANGED <<packs, pck, note, got>>,
         \/ epoch' = epoch /\ pos' \in {pos, pos + 1}
         \/ epoch' = epoch + 1
  PROVE  AllBefore'
<1>1. /\ \A d : In(d)' = In(d)
      /\ \A c : Offered(c)' = Offered(c)
  BY DEF In, Offered
<1>2. \A p \in Read : Before(p) => Before(p)'
  BY HoldersRead, BeforeLater DEF PlayInv
<1>3. \A d \in Decoder : \A p \in In(d)' : Before(p)'
  BY <1>1, <1>2, HoldersRead DEF OwnInv, AllBefore
<1>4. \A t \in DecodeThread : (pck[t] = NoPacket)' \/ Before(pck[t])'
  BY <1>2, HoldersRead DEF OwnInv, AllBefore
<1>5. \A c \in Caller : Offered(c)' = NoPacket \/ Before(Offered(c))'
  BY <1>1, <1>2, HoldersRead DEF OwnInv, AllBefore
<1>6. (got = NoPacket)' \/ Before(got)'
  BY <1>2, HoldersRead DEF OwnInv, AllBefore
<1> QED BY <1>3, <1>4, <1>5, <1>6 DEF AllBefore

-----------------------------------------------------------------------------
(* The streams of the decoders.                                            *)

LEMMA DecodersAre == "vDecode" \in Decoder /\ "aDecode" \in Decoder
  BY DEF Decoder

(* Between the Open() of the demuxer and that of the audio decoder the     *)
(* script goes on one entry at a time.                                     *)
LEMMA Opening ==
  ASSUME PlayInv, [Next]_vars, "aDecode" \notin DecodeFails, op = "open", ip \in 28 .. 33
  PROVE  op' = "open" /\ (ip' \in 28 .. 33 \/ (ip = 33 /\ isAudio'["aDecode"]))
<1>1. CASE UNCHANGED <<op, ip>>
  BY <1>1
<1>2. CASE op # "idle" /\ Control /\ ~UNCHANGED <<op, ip>>
  <2>1. OpenFacts(ip, Entry) /\ ip \in 1 .. 44
    BY <1>2, EntryOK DEF PlayInv, Size
  <2>2. ~(SeekRead \/ SeekRoute \/ SeekNotified \/ SeekRecv)
    BY <2>1 DEF SeekRead, SeekRoute, SeekNotified, SeekRecv, At, OpenFacts
  <2>3. ~SeekNotify
    BY <1>2 DEF SeekNotify, playerVars
  <2>4. ~(Entry.do = "open" /\ Part = "demux")
    BY <2>1 DEF OpenFacts, Part
  <2>5. Continue
    BY <1>2, <2>1, <2>2, <2>3, <2>4 DEF Control, Lock, Unlock, Request, Join, Await, StartPart,
       DecoderCall, AudioCall, DemuxCall, At, OpenFacts
  <2>6. ip' = ip + 1 /\ op' = op
    <3>1. Goto(ip + 1) /\ Len(Script[op]) = 44
      BY <2>5, Scripts DEF Continue, Size
    <3> QED BY <3>1 DEF Goto
  <2>7. ip = 33 => isAudio'["aDecode"]
    <3>1. SUFFICES ASSUME ip = 33 PROVE isAudio'["aDecode"]
      OBVIOUS
    <3>2. Entry.do = "open" /\ Part = "aDecode"
      BY <2>1, <3>1 DEF OpenFacts, Do, Part
    <3>3. DecoderCall /\ OpenCodec("aDecode", TRUE)
      BY <1>2, <2>2, <2>3, <3>2, PlayerAssumption DEF Control, Lock, Unlock, Request, Join, Await,
         StartPart, DecoderCall, AudioCall, DemuxCall, At
    <3> QED BY <3>3, DecodersAre DEF OpenCodec, PlayInv, DecodersOK
  <2> QED BY <2>6, <2>7
<1>3. Call => FALSE
  BY DEF Call
<1>4. \/ \E t \in DemuxThread : Demux(t)
      \/ \E t \in DecodeThread : Decode(t)
      \/ Play
      \/ \E t \in SyncThread : Sync(t)
      \/ UNCHANGED vars
      => UNCHANGED <<op, ip>>
  BY DEF Demux, DemuxLoop, DemuxRead, DemuxNotify, Decode, DecodeLoop, DecodePacket, Show, Output,
     Sync, SyncLoop, SyncCopy, Play, playerVars, vars
<1> QED BY <1>1, <1>2, <1>3, <1>4 DEF Next

(* Neither decoder forgets its stream.                                     *)
LEMMA Streams ==
  ASSUME PlayInv, OwnInv, [Next]_vars
  PROVE  /\ ~isAudio'["vDecode"]
         /\ isAudio["aDecode"] => isAudio'["aDecode"]
<1>1. CASE UNCHANGED isAudio
  BY <1>1 DEF OwnInv, StreamsOK
<1>2. ASSUME NEW ok \in BOOLEAN, Part \in Decoder, OpenCodec(Part, ok)
      PROVE  ~isAudio'["vDecode"] /\ (isAudio["aDecode"] => isAudio'["aDecode"])
  <2>1. CASE Part = "vDecode"
    BY <1>2, <2>1, DecodersAre DEF OwnInv, StreamsOK, OpenCodec, PlayInv, DecodersOK
  <2>2. CASE Part = "aDecode"
    BY <1>2, <2>2, DecodersAre DEF OwnInv, StreamsOK, OpenCodec, PlayInv, DecodersOK
  <2> QED BY <1>2, <2>1, <2>2 DEF Decoder
<1>3. \/ UNCHANGED isAudio
      \/ Part \in Decoder /\ \E ok \in BOOLEAN : OpenCodec(Part, ok)
  <2>1. CASE UNCHANGED vars \/ Call
    BY <2>1 DEF vars, Call, decodeVars
  <2>2. CASE Lock \/ Unlock \/ Request \/ Join \/ Await \/ StartPart \/ AudioCall \/ DemuxCall
             \/ SeekRead \/ SeekRoute \/ SeekNotified \/ SeekRecv \/ SeekNotify
    BY <2>2 DEF Lock, Unlock, Request, Join, Await, StartPart, AudioCall, DemuxCall, SeekRead,
       SeekRoute, SeekNotified, SeekRecv, SeekNotify, NotifyStep, decodeVars
  <2>3. CASE DecoderCall
    BY <2>3 DEF DecoderCall, ClearQueue, FlushCodec, FreeCodec
  <2>4. ASSUME NEW t \in DecodeThread, Decode(t) PROVE UNCHANGED isAudio
    BY <2>4 DEF Decode, DecodeLoop, DecodePacket, Show, Output, Take, Send, Recv, DropPacket,
       decodeVars
  <2>5. CASE \/ \E t \in DemuxThread : Demux(t)
             \/ Play
             \/ \E t \in SyncThread : Sync(t)
    BY <2>5 DEF Demux, DemuxLoop, DemuxRead, DemuxNotify, NotifyStep, Play, Sync, SyncLoop,
       SyncCopy, decodeVars
  <2> QED BY <2>1, <2>2, <2>3, <2>4, <2>5 DEF Next, Control
<1> QED BY <1>1, <1>2, <1>3

(* What the steps do to the demuxer.                                       *)
LEMMA Inputs ==
  ASSUME PlayInv, [Next]_vars
  PROVE  \/ UNCHANGED demuxVars
         \/ Advance
         \/ DemuxCall /\ CloseInput
         \/ DemuxCall /\ SeekInput(target)
         \/ DemuxCall /\ \E outcome \in OpenOutcome :
                           /\ OpenInput(outcome)
                           /\ op = "open" /\ ip = 27
                           /\ IF outcome = "ok" THEN Continue ELSE Goto(34)
<1>1. CASE UNCHANGED vars \/ Call
  BY <1>1 DEF vars, Call
<1>2. CASE Control /\ ~DemuxCall
  BY <1>2 DEF Control, Lock, Unlock, Request, Join, Await, StartPart, AudioCall, DecoderCall,
     SeekRead, SeekRoute, SeekNotified, SeekRecv, SeekNotify
<1>3. CASE DemuxCall
  <2>1. CASE CloseInput \/ SeekInput(target)
    BY <1>3, <2>1
  <2>2. CASE /\ At("open") /\ Part = "demux"
             /\ \E outcome \in OpenOutcome :
                  OpenInput(outcome) /\ IF outcome = "ok" THEN Continue ELSE Goto(UnlockEntry)
    <3>1. op = "open"
      BY <2>2, EntryOK, Scripts DEF SeekFacts, PauseFacts, PlayInv, At
    <3>2. ip = 27
      BY <2>2, <3>1, EntryOK DEF OpenFacts, Part, PlayInv, At
    <3> QED BY <1>3, <2>2, <3>1, <3>2, UnlockOpen
  <2> QED BY <1>3, <2>1, <2>2 DEF DemuxCall
<1>4. CASE \/ \E t \in DemuxThread : Demux(t)
           \/ \E t \in DecodeThread : Decode(t)
           \/ Play
           \/ \E t \in SyncThread : Sync(t)
  BY <1>4 DEF Demux, DemuxLoop, DemuxRead, DemuxNotify, Decode, DecodeLoop, DecodePacket, Show,
     Output, Play, Sync, SyncLoop, SyncCopy
<1> QED BY <1>1, <1>2, <1>3, <1>4 DEF Next

(* Open() does not fail once it has an input.                              *)
Healthy == OpenOutcome \subseteq {"ok", "no input"} /\ "aDecode" \notin DecodeFails

(* Every step keeps what the decoders know of their streams.               *)
LEMMA StepStreams ==
  ASSUME PlayInv, OwnInv, [Next]_vars, Healthy
  PROVE  StreamsOK'
<1>1. ~isAudio'["vDecode"] /\ (isAudio["aDecode"] => isAudio'["aDecode"])
  BY Streams
<1>2. CASE UNCHANGED <<ic, epoch>>
  <2>1. op = "open" /\ ip \in 28 .. 33 => op' = "open" /\ (ip' \in 28 .. 33 \/ isAudio'["aDecode"])
    BY Opening DEF Healthy
  <2> QED BY <1>1, <1>2, <2>1 DEF StreamsOK, OwnInv
<1>3. CASE DemuxCall /\ CloseInput
  <2>1. op = "open" /\ ip \in 28 .. 33 => op' = "open" /\ (ip' \in 28 .. 33 \/ isAudio'["aDecode"])
    BY Opening DEF Healthy
  <2> QED BY <1>1, <1>3, <2>1 DEF StreamsOK, OwnInv, CloseInput
<1>4. CASE DemuxCall /\ SeekInput(target)
  <2>1. op = "open" /\ ip \in 28 .. 33 => op' = "open" /\ (ip' \in 28 .. 33 \/ isAudio'["aDecode"])
    BY Opening DEF Healthy
  <2>2. ic' = ic /\ (~ic => UNCHANGED epoch) /\ epoch' \in {epoch, epoch + 1}
    BY <1>4 DEF SeekInput
  <2>3. epoch \in Nat
    BY DEF PlayInv, FileOK
  <2> QED BY <1>1, <2>1, <2>2, <2>3 DEF StreamsOK, OwnInv
<1>5. CASE \E outcome \in OpenOutcome :
             /\ OpenInput(outcome)
             /\ op = "open" /\ ip = 27
             /\ IF outcome = "ok" THEN Continue ELSE Goto(34)
  <2>1. PICK outcome \in OpenOutcome :
          /\ OpenInput(outcome)
          /\ op = "open" /\ ip = 27
          /\ IF outcome = "ok" THEN Continue ELSE Goto(34)
    BY <1>5
  <2>2. Len(Script[op]) = 44
    BY <2>1, Scripts DEF Size
  <2>3. epoch \in Nat
    BY DEF PlayInv, FileOK
  <2>4. CASE outcome = "ok"
    <3>1. op' = "open" /\ ip' = 28
      BY <2>1, <2>2, <2>4 DEF Continue, Goto
    <3>2. epoch' = epoch + 1
      BY <2>1, <2>4 DEF OpenInput
    <3> QED BY <1>1, <2>3, <3>1, <3>2 DEF StreamsOK
  <2>5. CASE outcome # "ok"
    <3>1. outcome = "no input"
      BY <2>5 DEF Healthy
    <3>2. ~ic' /\ epoch' = epoch
      BY <2>1, <3>1 DEF OpenInput
    <3> QED BY <1>1, <2>1, <3>2 DEF StreamsOK, OwnInv
  <2> QED BY <2>4, <2>5
<1>6. Advance \/ UNCHANGED demuxVars => UNCHANGED <<ic, epoch>>
  BY DEF Advance, demuxVars
<1> QED BY <1>2, <1>3, <1>4, <1>5, <1>6, Inputs

-----------------------------------------------------------------------------
(* The owners.                                                             *)

LEMMA OffersKept ==
  ASSUME PlayInv, OwnInv, [Next]_vars, UNCHANGED note
  PROVE  OffersOK'
  BY Streams DEF OwnInv, OffersOK

(* The demuxer moves on in the file, or to another part of it.             *)
LEMMA MovesOn ==
  ASSUME PlayInv, [Next]_vars
  PROVE  \/ epoch' = epoch /\ pos' \in {pos, pos + 1}
         \/ epoch' = epoch + 1
<1>1. CASE UNCHANGED demuxVars \/ Advance \/ CloseInput
  BY <1>1 DEF demuxVars, Advance, CloseInput
<1>2. CASE SeekInput(target) \/ \E outcome \in OpenOutcome : OpenInput(outcome)
  BY <1>2 DEF SeekInput, OpenInput
<1> QED BY <1>1, <1>2, Inputs

(* A step that hands no packet on.                                         *)
LEMMA OwnQuiet ==
  ASSUME PlayInv, OwnInv, [Next]_vars, Healthy, UNCHANGED <<packs, pck, note, got>>
  PROVE  OwnInv'
<1>1. AllBefore'
  BY MovesOn, AllBeforeKept
<1>2. QueuedOnce' /\ NotQueued' /\ HeldOnce'
  BY OwnersKept
<1> QED BY <1>1, <1>2, StepStreams, OffersKept DEF OwnInv

(* A packet just read is nobody's yet.                                     *)
LEMMA Fresh ==
  ASSUME PlayInv, OwnInv, Advance, NEW p, p = ReadResult, p # NoPacket
  PROVE  p \in Read /\ ~Before(p) /\ Before(p)'
<1>1. p \in Read
  BY ReadOK DEF PlayInv
<1>2. ~AtEnd /\ p.n = pos /\ p.e = epoch
  BY DEF ReadResult
<1>3. ic /\ pos \in 1 .. Len(File) + 1 /\ epoch \in Nat /\ epoch # 0
  BY <1>2 DEF AtEnd, PlayInv, FileOK, OwnInv, StreamsOK
<1>4. pos' = pos + 1 /\ epoch' = epoch
  BY <1>2 DEF Advance
<1>5. ~Before(p)
  BY <1>2, <1>3, FileLength DEF Before
<1>6. p.e \in 1 .. epoch' /\ (p.e = epoch' => p.n < pos')
  BY <1>2, <1>3, <1>4, FileLength
<1> QED BY <1>1, <1>5, <1>6 DEF Before

(* The packet of one call of Notify() changes to p, which no other owner   *)
(* has then; the packet of Seek() stays or goes.                           *)
LEMMA OfferMoves ==
  ASSUME PlayInv, OwnInv, UNCHANGED <<packs, pck>>, NEW c \in Caller,
         \A k \in Caller \ {c} : Offered(k)' = Offered(k),
         got' = got \/ got' = NoPacket,
         NEW p, Offered(c)' = p,
         p # NoPacket =>
           /\ \A d \in Decoder : p \notin In(d)
           /\ \A t \in DecodeThread : pck[t] # p
           /\ \A k \in Caller \ {c} : Offered(k) # p
           /\ got' # p
  PROVE  QueuedOnce' /\ NotQueued' /\ HeldOnce'
<1>1. \A d : In(d)' = In(d)
  BY DEF In
<1>2. \A d \in Decoder : NoPacket \notin In(d)
  BY HoldersRead
<1>3. QueuedOnce'
  BY <1>1 DEF OwnInv, QueuedOnce
<1>4. NotQueued'
  <2>1. \A d \in Decoder, k \in Caller : Offered(k)' \notin In(d)
    BY <1>2 DEF OwnInv, NotQueued
  <2>2. \A d \in Decoder : got' \notin In(d)
    BY <1>2 DEF OwnInv, NotQueued
  <2> QED BY <1>1, <2>1, <2>2 DEF OwnInv, NotQueued
<1>5. HeldOnce'
  <2>1. \A k \in Caller \ {c} : Apart(p, Offered(k)) /\ Apart(Offered(k), p)
    BY DEF Apart
  <2>2. \A j, k \in Caller : j # k => Apart(Offered(j)', Offered(k)')
    BY <2>1 DEF OwnInv, HeldOnce
  <2>3. \A t \in DecodeThread, k \in Caller : Apart(pck[t], Offered(k)')
    BY DEF OwnInv, HeldOnce, Apart
  <2>4. \A t \in DecodeThread : Apart(pck[t], got')
    BY DEF OwnInv, HeldOnce, Apart
  <2>5. \A k \in Caller : Apart(Offered(k)', got')
    BY DEF OwnInv, HeldOnce, Apart
  <2> QED BY <2>2, <2>3, <2>4, <2>5 DEF OwnInv, HeldOnce, Apart
<1> QED BY <1>3, <1>4, <1>5

(* The same for what they hold being packets of the past.                  *)
LEMMA OfferBefore ==
  ASSUME PlayInv, OwnInv, [Next]_vars, UNCHANGED <<packs, pck>>, NEW c \in Caller,
         \A k \in Caller \ {c} : Offered(k)' = Offered(k),
         got' = got \/ got' = NoPacket,
         NEW p, Offered(c)' = p, p = NoPacket \/ Before(p)'
  PROVE  AllBefore'
<1>1. \A q \in Read : Before(q) => Before(q)'
  BY HoldersRead, BeforeLater, MovesOn DEF PlayInv
<1>2. \A d : In(d)' = In(d)
  BY DEF In
<1>3. \A d \in Decoder : \A q \in In(d)' : Before(q)'
  BY <1>1, <1>2, HoldersRead DEF OwnInv, AllBefore
<1>4. \A t \in DecodeThread : (pck[t] = NoPacket)' \/ Before(pck[t])'
  BY <1>1, HoldersRead DEF OwnInv, AllBefore
<1>5. \A k \in Caller : Offered(k)' = NoPacket \/ Before(Offered(k))'
  <2>1. SUFFICES ASSUME NEW k \in Caller PROVE Offered(k)' = NoPacket \/ Before(Offered(k))'
    OBVIOUS
  <2>2. \A q : Offered(k)' = q /\ Before(q)' => Before(Offered(k))'
    BY DEF Before
  <2>3. CASE k = c
    BY <2>2, <2>3
  <2>4. CASE k # c
    <3>1. Offered(k)' = Offered(k)
      BY <2>4
    <3>2. Offered(k) = NoPacket \/ (Offered(k) \in Read /\ Before(Offered(k)))
      BY HoldersRead DEF OwnInv, AllBefore
    <3> DEFINE q == Offered(k)
    <3>3. PICK r : r = q
      OBVIOUS
    <3>4. r = NoPacket \/ Before(r)'
      BY <1>1, <3>2, <3>3
    <3> QED BY <2>2, <3>1, <3>3, <3>4
  <2> QED BY <2>3, <2>4
<1>6. (got = NoPacket)' \/ Before(got)'
  BY <1>1, HoldersRead DEF OwnInv, AllBefore
<1> QED BY <1>3, <1>4, <1>5, <1>6 DEF AllBefore


(* A call of Notify() begins with its packet.                              *)
LEMMA BeginOwn ==
  ASSUME PlayInv, NEW c \in Caller, NEW p \in Read, BeginNotify(c, p)
  PROVE  /\ Offered(c)' = p /\ note'[c].at = "lock"
         /\ \A k \in Caller \ {c} : note'[k] = note[k] /\ Offered(k)' = Offered(k)
<1>1. note' = [note EXCEPT ![c] = [at |-> "lock", to |-> 0, pkt |-> p]]
  BY DEF BeginNotify, SetNote
<1>2. note'[c] = [at |-> "lock", to |-> 0, pkt |-> p] /\ \A k \in Caller \ {c} : note'[k] = note[k]
  BY <1>1 DEF PlayInv, NotesOK
<1> QED BY <1>2 DEF Offered

(* It has offered the packet to nobody yet.                                *)
LEMMA OffersBegun ==
  ASSUME PlayInv, OwnInv, [Next]_vars, NEW c \in Caller, note'[c].at = "lock",
         \A k \in Caller \ {c} : note'[k] = note[k]
  PROVE  OffersOK'
  BY Streams DEF OwnInv, OffersOK

(* The demuxer thread reads a packet.                                      *)
LEMMA OwnDemuxRead ==
  ASSUME PlayInv, OwnInv, [Next]_vars, Healthy, NEW t \in DemuxThread, DemuxRead(t),
         ReadResult # NoPacket
  PROVE  OwnInv'
<1> DEFINE r == ReadResult
<1>1. /\ t \in Caller /\ Advance /\ BeginNotify(t, r)
      /\ UNCHANGED <<packs, pck, got>>
  BY Names DEF DemuxRead, decodeVars, playerVars
<1>2. PICK p : p = r
  OBVIOUS
<1>3. p \in Read /\ ~Before(p) /\ Before(p)'
  BY <1>1, <1>2, Fresh
<1>4. /\ Offered(t)' = p /\ note'[t].at = "lock"
      /\ \A k \in Caller \ {t} : note'[k] = note[k] /\ Offered(k)' = Offered(k)
  BY <1>1, <1>2, <1>3, BeginOwn
<1>5. p # NoPacket =>
        /\ \A d \in Decoder : p \notin In(d)
        /\ \A u \in DecodeThread : pck[u] # p
        /\ \A k \in Caller \ {t} : Offered(k) # p
        /\ got' # p
  BY <1>1, <1>3 DEF OwnInv, AllBefore
<1> HIDE DEF r
<1>6. QueuedOnce' /\ NotQueued' /\ HeldOnce'
  BY <1>1, <1>4, <1>5, OfferMoves
<1>7. AllBefore'
  BY <1>1, <1>3, <1>4, OfferBefore
<1>8. OffersOK'
  BY <1>1, <1>4, OffersBegun
<1> QED BY <1>6, <1>7, <1>8, StepStreams DEF OwnInv

(* Seek() drops, queues or decodes its packet.                             *)
LEMMA OwnSeekRoute ==
  ASSUME PlayInv, OwnInv, [Next]_vars, Healthy, SeekRoute
  PROVE  OwnInv'
<1>1. /\ got' = NoPacket /\ got \in Read /\ UNCHANGED <<packs, pck, epoch, pos>>
      /\ UNCHANGED note \/ BeginNotify(UI, got)
  BY HoldersRead DEF SeekRoute, noteVars, demuxVars
<1>2. UI \in Caller
  BY Names
<1>3. PICK p : p = IF UNCHANGED note THEN Offered(UI) ELSE got
  OBVIOUS
<1>4. Offered(UI)' = p /\ \A k \in Caller \ {UI} : Offered(k)' = Offered(k)
  <2>1. CASE UNCHANGED note
    BY <1>3, <2>1 DEF Offered
  <2>2. CASE ~UNCHANGED note
    BY <1>1, <1>2, <1>3, <2>2, BeginOwn
  <2> QED BY <2>1, <2>2
<1>5. p = Offered(UI) \/ p = got
  BY <1>3
<1>6. p # NoPacket =>
        /\ \A d \in Decoder : p \notin In(d)
        /\ \A u \in DecodeThread : pck[u] # p
        /\ \A k \in Caller \ {UI} : Offered(k) # p
        /\ got' # p
  BY <1>1, <1>2, <1>5 DEF OwnInv, NotQueued, HeldOnce, Apart
<1>7. QueuedOnce' /\ NotQueued' /\ HeldOnce'
  BY <1>1, <1>2, <1>4, <1>6, OfferMoves
<1>8. p = NoPacket \/ Before(p)'
  <2>1. p = NoPacket \/ Before(p)
    BY <1>2, <1>5 DEF OwnInv, AllBefore
  <2> QED BY <1>1, <2>1 DEF Before
<1>9. AllBefore'
  BY <1>1, <1>2, <1>4, <1>8, OfferBefore
<1>10. OffersOK'
  <2>1. CASE UNCHANGED note
    BY <2>1, OffersKept
  <2>2. CASE BeginNotify(UI, got)
    <3>1. note'[UI].at = "lock" /\ \A k \in Caller \ {UI} : note'[k] = note[k]
      BY <1>1, <1>2, <2>2, BeginOwn
    <3> QED BY <1>2, <3>1, OffersBegun
  <2> QED BY <1>1, <2>1, <2>2
<1> QED BY <1>7, <1>9, <1>10, StepStreams DEF OwnInv

(* Seek() reads a packet.                                                  *)
LEMMA OwnSeekRead ==
  ASSUME PlayInv, OwnInv, [Next]_vars, Healthy, SeekRead, ~UNCHANGED got
  PROVE  OwnInv'
<1>1. Advance /\ got' = ReadResult /\ UNCHANGED <<packs, pck, note>>
  BY DEF SeekRead, decodeVars, noteVars
<1>2. PICK p : p = ReadResult
  OBVIOUS
<1>3. p = NoPacket \/ (p \in Read /\ ~Before(p) /\ Before(p)')
  BY <1>1, <1>2, Fresh
<1>4. /\ \A d : In(d)' = In(d)
      /\ \A c : Offered(c)' = Offered(c)
  BY <1>1 DEF In, Offered
<1>5. got' = p
  BY <1>1, <1>2
<1>6. /\ \A d \in Decoder : p \notin In(d)
      /\ p # NoPacket => \A u \in DecodeThread : pck[u] # p
      /\ p # NoPacket => \A k \in Caller : Offered(k) # p
  <2>1. \A d \in Decoder : NoPacket \notin In(d)
    BY HoldersRead
  <2> QED BY <1>3, <2>1 DEF OwnInv, AllBefore
<1>7. QueuedOnce'
  BY <1>1, <1>4 DEF OwnInv, QueuedOnce
<1>8. NotQueued'
  BY <1>1, <1>4, <1>5, <1>6 DEF OwnInv, NotQueued
<1>9. HeldOnce'
  BY <1>1, <1>4, <1>5, <1>6 DEF OwnInv, HeldOnce, Apart
<1>10. AllBefore'
  <2>1. \A q \in Read : Before(q) => Before(q)'
    BY HoldersRead, BeforeLater, MovesOn DEF PlayInv
  <2>2. \A d \in Decoder : \A q \in In(d)' : Before(q)'
    BY <1>4, <2>1, HoldersRead DEF OwnInv, AllBefore
  <2>3. \A t \in DecodeThread : (pck[t] = NoPacket)' \/ Before(pck[t])'
    BY <1>1, <2>1, HoldersRead DEF OwnInv, AllBefore
  <2>4. \A c \in Caller : Offered(c)' = NoPacket \/ Before(Offered(c))'
    BY <1>4, <2>1, HoldersRead DEF OwnInv, AllBefore
  <2>5. (got = NoPacket)' \/ Before(got)'
    <3>1. \A q : got' = q /\ Before(q)' => Before(got)'
      BY DEF Before
    <3> QED BY <1>3, <1>5, <3>1
  <2> QED BY <2>2, <2>3, <2>4, <2>5 DEF AllBefore
<1> QED BY <1>1, <1>7, <1>8, <1>9, <1>10, StepStreams, OffersKept DEF OwnInv

(* Which packets the observers take.                                       *)
LEMMA ListensVideo ==
  ASSUME PlayInv, ~isAudio["vDecode"], NEW p, Interested(1, p)
  PROVE  Kind(p) # "audio"
<1>1. obss[1] = "vDecode"
  BY DEF obss
<1>2. isAudio["vDecode"] = FALSE
  BY DecodersAre DEF PlayInv, DecodersOK
<1>3. (Kind(p) = "audio") = isAudio["vDecode"]
  BY <1>1 DEF Interested
<1> QED BY <1>2, <1>3

(* And those of the audio decoder.                                         *)
LEMMA ListensAudio ==
  ASSUME PlayInv, isAudio["aDecode"], NEW p, Interested(2, p)
  PROVE  Kind(p) = "audio"
<1>1. obss[2] = "aDecode"
  BY DEF obss
<1>2. isAudio["aDecode"] = TRUE
  BY DecodersAre DEF PlayInv, DecodersOK
<1>3. (Kind(p) = "audio") = isAudio["aDecode"]
  BY <1>1 DEF Interested
<1> QED BY <1>2, <1>3

(* What Notify() does next, when the video decoder knows its stream.       *)
LEMMA OfferNote ==
  ASSUME PlayInv, ~isAudio["vDecode"], NEW c \in Caller, NEW p \in Read, NEW i \in {1, 2, 3},
         Offer(c, i, p)
  PROVE  /\ \A k \in Caller \ {c} : note'[k] = note[k]
         /\ \/ note'[c].at = "done"
            \/ /\ note'[c].at = "test" /\ note'[c].pkt = p /\ note'[c].to \in i .. 2
               /\ Interested(note'[c].to, p)
               /\ note'[c].to = 1 => Kind(p) # "audio"
<1> DEFINE next == {j \in i .. Len(obss) : Interested(j, p)}
<1>1. next \in SUBSET {1, 2}
  BY DEF obss
<1>2. CASE next = {}
  <2>1. note' = [note EXCEPT ![c] = NotNotifying]
    BY <1>2 DEF Offer
  <2> QED BY <2>1 DEF PlayInv, NotesOK, NotNotifying
<1>3. CASE next # {}
  <2> DEFINE j == CHOOSE j \in next : \A k \in next : j <= k
  <2>1. note' = [note EXCEPT ![c] = [at |-> "test", to |-> j, pkt |-> p]]
    BY <1>3 DEF Offer, SetNote
  <2> HIDE DEF next
  <2>2. \E k \in next : \A l \in next : k <= l
    <3>1. \A l \in next : l \in {1, 2}
      BY <1>1
    <3>2. CASE 1 \in next
      BY <3>1, <3>2
    <3>3. CASE 1 \notin next
      <4>1. 2 \in next
        BY <1>3, <3>1, <3>3
      <4> QED BY <3>1, <3>3, <4>1
    <3> QED BY <3>2, <3>3
  <2>3. j \in next
    BY <2>2
  <2> HIDE DEF j
  <2>4. j \in i .. 2 /\ Interested(j, p)
    BY <2>3 DEF next, obss
  <2>5. j = 1 => Kind(p) # "audio"
    BY <2>4, ListensVideo
  <2>6. note'[c] = [at |-> "test", to |-> j, pkt |-> p] /\ \A k \in Caller \ {c} : note'[k] = note[k]
    BY <2>1 DEF PlayInv, NotesOK
  <2> QED BY <2>4, <2>5, <2>6
<1> QED BY <1>2, <1>3

(* A call of Notify() that keeps its packet or ends.                       *)
LEMMA OwnHold ==
  ASSUME PlayInv, OwnInv, [Next]_vars, Healthy, UNCHANGED <<packs, pck, got, pos, epoch>>,
         NEW c \in Caller, note[c].at # "done",
         \A k \in Caller \ {c} : note'[k] = note[k],
         \/ note'[c].at = "done"
         \/ /\ note'[c].pkt = note[c].pkt
            /\ note'[c].at \in {"test", "push"} /\ note'[c].to = 1 => Kind(note[c].pkt) # "audio"
            /\ note'[c].at = "push" => isAudio["aDecode"]
  PROVE  OwnInv'
<1>1. \A k \in Caller \ {c} : Offered(k)' = Offered(k)
  BY DEF Offered
<1>2. Offered(c)' \in {NoPacket, Offered(c)}
  BY DEF Offered
<1>3. PICK p : p = Offered(c)'
  OBVIOUS
<1>4. p # NoPacket =>
        /\ \A d \in Decoder : p \notin In(d)
        /\ \A u \in DecodeThread : pck[u] # p
        /\ \A k \in Caller \ {c} : Offered(k) # p
        /\ got' # p
  BY <1>2, <1>3 DEF OwnInv, NotQueued, HeldOnce, Apart
<1>5. QueuedOnce' /\ NotQueued' /\ HeldOnce'
  BY <1>1, <1>3, <1>4, OfferMoves
<1>6. p = NoPacket \/ Before(p)'
  <2>1. p = NoPacket \/ Before(p)
    BY <1>2, <1>3 DEF OwnInv, AllBefore
  <2> QED BY <2>1 DEF Before
<1>7. AllBefore'
  BY <1>1, <1>3, <1>6, OfferBefore
<1>8. OffersOK'
  BY Streams DEF OwnInv, OffersOK
<1> QED BY <1>5, <1>7, <1>8, StepStreams DEF OwnInv

(* Update() appends the packet to the queue, and nobody else takes it: the *)
(* other decoder is not interested.                                        *)
LEMMA OwnPush ==
  ASSUME PlayInv, OwnInv, [Next]_vars, Healthy, UNCHANGED <<pck, got, pos, epoch>>,
         NEW c \in Caller, note[c].at = "push", NEW d \in Decoder, PushPacket(d, note[c].pkt),
         \A k \in Caller \ {c} : note'[k] = note[k], note'[c].at = "done"
  PROVE  OwnInv'
<1> DEFINE p == note[c].pkt
<1>1. p \in Read /\ p = Offered(c) /\ p # NoPacket
  BY Names DEF PlayInv, NotesOK, Offered
<1>2. Offered(c)' = NoPacket /\ \A k \in Caller \ {c} : Offered(k)' = Offered(k)
  BY DEF Offered
<1>3. \A e \in Decoder : p \notin In(e)
  BY <1>1 DEF OwnInv, NotQueued
<1>4. /\ \A t \in DecodeThread : pck[t] # p
      /\ \A k \in Caller \ {c} : Offered(k) # p
      /\ got # p
  BY <1>1 DEF OwnInv, HeldOnce, Apart
<1>5. /\ In(d)' = In(d) \cup {p}
      /\ \A i, j \in DOMAIN packs'[d] : packs'[d][i] = packs'[d][j] => i = j
      /\ \A e \in Decoder \ {d} : packs'[e] = packs[e] /\ In(e)' = In(e)
  <2> DEFINE s == packs[d]
             r == Append(s, p)
  <2>1. s \in Seq(Read)
    BY DEF PlayInv, DecodersOK
  <2>2. packs'[d] = r /\ \A e \in Decoder \ {d} : packs'[e] = packs[e]
    BY DEF PushPacket, PlayInv, DecodersOK
  <2>3. \A i, j \in DOMAIN s : s[i] = s[j] => i = j
    BY DEF OwnInv, QueuedOnce
  <2>4. p \notin {s[i] : i \in DOMAIN s}
    BY <1>3 DEF In
  <2> HIDE DEF s, p
  <2>5. /\ {r[i] : i \in DOMAIN r} = {s[i] : i \in DOMAIN s} \cup {p}
        /\ \A i, j \in DOMAIN r : r[i] = r[j] => i = j
    BY <1>1, <2>1, <2>3, <2>4, Appended
  <2> HIDE DEF r
  <2> QED BY <2>2, <2>5 DEF In, s
<1> HIDE DEF p
<1>6. QueuedOnce'
  BY <1>3, <1>5 DEF OwnInv, QueuedOnce
<1>7. NotQueued'
  <2>1. \A e \in Decoder : NoPacket \notin In(e)
    BY HoldersRead
  <2> QED BY <1>1, <1>2, <1>4, <1>5, <2>1 DEF OwnInv, NotQueued
<1>8. HeldOnce'
  BY <1>2 DEF OwnInv, HeldOnce, Apart
<1>9. AllBefore'
  <2>1. \A q : Before(q)' <=> Before(q)
    BY DEF Before
  <2>2. Before(p)
    BY <1>1 DEF OwnInv, AllBefore
  <2>3. \A e \in Decoder : \A q \in In(e)' : Before(q)'
    BY <1>5, <2>1, <2>2 DEF OwnInv, AllBefore
  <2>4. \A t \in DecodeThread : (pck[t] = NoPacket)' \/ Before(pck[t])'
    BY <2>1 DEF OwnInv, AllBefore
  <2>5. \A k \in Caller : Offered(k)' = NoPacket \/ Before(Offered(k))'
    BY <1>2, <2>1 DEF OwnInv, AllBefore
  <2>6. (got = NoPacket)' \/ Before(got)'
    BY <2>1 DEF OwnInv, AllBefore
  <2> QED BY <2>3, <2>4, <2>5, <2>6 DEF AllBefore
<1>10. OffersOK'
  BY Streams DEF OwnInv, OffersOK
<1> QED BY <1>6, <1>7, <1>8, <1>9, <1>10, StepStreams DEF OwnInv

(* A step of Notify().                                                     *)
LEMMA OwnNotify ==
  ASSUME PlayInv, OwnInv, [Next]_vars, Healthy, UNCHANGED <<got, pos, epoch, op, ip>>,
         NEW c \in Caller, NotifyStep(c)
  PROVE  OwnInv'
<1> DEFINE n == note[c]
<1>1. ~isAudio["vDecode"] /\ UNCHANGED pck
  BY DEF OwnInv, StreamsOK, NotifyStep
<1>2. /\ n.at # "done" => n.pkt \in Read
      /\ n.at \in {"test", "push"} => n.to \in {1, 2}
  BY DEF PlayInv, NotesOK, obss
<1>3. ASSUME NEW i \in {1, 2, 3}, n.at # "done", Offer(c, i, n.pkt), UNCHANGED packs
      PROVE  OwnInv'
  <2>1. /\ \A k \in Caller \ {c} : note'[k] = note[k]
        /\ \/ note'[c].at = "done"
           \/ /\ note'[c].at = "test" /\ note'[c].pkt = n.pkt
              /\ note'[c].to = 1 => Kind(n.pkt) # "audio"
    BY <1>1, <1>2, <1>3, OfferNote
  <2> QED BY <1>1, <1>3, <2>1, OwnHold
<1>4. ASSUME NEW at \in {"test", "push"}, n.at \in {"test", "push"},
             SetNote(c, at, n.to, n.pkt), UNCHANGED packs, at = "push" => isAudio["aDecode"]
      PROVE  OwnInv'
  <2>1. /\ \A k \in Caller \ {c} : note'[k] = note[k]
        /\ note'[c] = [at |-> at, to |-> n.to, pkt |-> n.pkt]
    BY <1>4 DEF SetNote, PlayInv, NotesOK
  <2>2. n.to = 1 => Kind(n.pkt) # "audio"
    BY <1>4 DEF OwnInv, OffersOK
  <2> QED BY <1>1, <1>4, <2>1, <2>2, OwnHold
<1>5. CASE LockNotify(c)
  BY <1>3, <1>5 DEF LockNotify
<1>6. CASE TestObserver(c)
  <2>1. n.at = "test" /\ UNCHANGED packs /\ n.to \in {1, 2} /\ n.to + 1 \in {1, 2, 3}
    BY <1>2, <1>6 DEF TestObserver
  <2>2. CASE isExit[obss[n.to]]
    BY <1>3, <1>6, <2>1, <2>2 DEF TestObserver
  <2>3. CASE ~isExit[obss[n.to]]
    <3>1. isAudio["aDecode"]
      <4>1. Offered(c) # NoPacket /\ Before(Offered(c))
        BY <1>2, <2>1, HoldersRead DEF Offered, OwnInv, AllBefore
      <4>2. epoch # 0
        BY <4>1 DEF Before
      <4>3. obss[n.to] \in {"vDecode", "aDecode"}
        BY <2>1 DEF obss
      <4>4. ~(op = "open" /\ ip \in 28 .. 33)
        BY <2>3, <4>3 DEF PlayInv, StoppedOK
      <4> QED BY <4>2, <4>4 DEF OwnInv, StreamsOK
    <3> QED BY <1>4, <1>6, <2>1, <2>3, <3>1 DEF TestObserver
  <2> QED BY <2>2, <2>3
<1>7. CASE PushObserver(c)
  <2> DEFINE d == obss[n.to]
  <2>1. n.at = "push" /\ n.to \in {1, 2} /\ n.to + 1 \in {1, 2, 3} /\ d \in Decoder
    BY <1>2, <1>7 DEF PushObserver, obss, Decoder
  <2>2. CASE ~HasRoom(d)
    BY <1>4, <1>7, <2>1, <2>2 DEF PushObserver
  <2>3. CASE HasRoom(d)
    <3>1. PushPacket(d, n.pkt) /\ Offer(c, n.to + 1, n.pkt)
      BY <1>7, <2>3 DEF PushObserver
    <3>2. /\ \A k \in Caller \ {c} : note'[k] = note[k]
          /\ note'[c].at = "done" \/ (note'[c].to \in n.to + 1 .. 2 /\ Interested(note'[c].to, n.pkt))
      BY <1>1, <1>2, <2>1, <3>1, OfferNote
    <3>3. ~(note'[c].to \in n.to + 1 .. 2 /\ Interested(note'[c].to, n.pkt))
      <4>1. isAudio["aDecode"] /\ (n.to = 1 => Kind(n.pkt) # "audio")
        BY <2>1 DEF OwnInv, OffersOK
      <4>2. ASSUME note'[c].to \in n.to + 1 .. 2, Interested(note'[c].to, n.pkt) PROVE FALSE
        <5>1. n.to = 1 /\ note'[c].to = 2
          BY <2>1, <4>2
        <5>2. Kind(n.pkt) = "audio"
          BY <4>1, <4>2, <5>1, ListensAudio
        <5> QED BY <4>1, <5>1, <5>2
      <4> QED BY <4>2
    <3> HIDE DEF d
    <3> QED BY <1>1, <2>1, <3>1, <3>2, <3>3, OwnPush
  <2> QED BY <2>2, <2>3
<1> QED BY <1>5, <1>6, <1>7 DEF NotifyStep

-----------------------------------------------------------------------------
(* The workers and Clear().                                                *)

(* The worker takes the first packet out of its queue.                     *)
LEMMA OwnTake ==
  ASSUME PlayInv, OwnInv, [Next]_vars, Healthy, NEW t \in DecodeThread,
         UNCHANGED <<note, got, pos, epoch>>, pck[t] = NoPacket,
         packs[Obj(t)] # <<>>,
         pck' = [pck EXCEPT ![t] = Head(packs[Obj(t)])],
         packs' = [packs EXCEPT ![Obj(t)] = Tail(@)]
  PROVE  OwnInv'
<1>0. PICK d : d = Obj(t)
  OBVIOUS
<1> DEFINE s == packs[d]
           h == Head(s)
           r == Tail(s)
<1>1. d \in Decoder
  BY <1>0, Names
<1>2. /\ packs'[d] = r /\ \A e \in Decoder \ {d} : packs'[e] = packs[e]
      /\ pck'[t] = h /\ \A u \in DecodeThread \ {t} : pck'[u] = pck[u]
  BY <1>0, <1>1 DEF PlayInv, DecodersOK
<1>3. /\ h \in In(d)
      /\ In(d)' = In(d) \ {h}
      /\ \A i, j \in DOMAIN packs'[d] : packs'[d][i] = packs'[d][j] => i = j
  <2>1. s \in Seq(Read) /\ s # <<>>
    BY <1>0, <1>1 DEF PlayInv, DecodersOK
  <2>2. \A i, j \in DOMAIN s : s[i] = s[j] => i = j
    BY <1>1 DEF OwnInv, QueuedOnce
  <2> HIDE DEF s
  <2>3. /\ h \in {s[i] : i \in DOMAIN s}
        /\ {r[i] : i \in DOMAIN r} = {s[i] : i \in DOMAIN s} \ {h}
        /\ \A i, j \in DOMAIN r : r[i] = r[j] => i = j
    BY <2>1, <2>2, Shortened
  <2> HIDE DEF r, h
  <2>4. In(d) = {s[i] : i \in DOMAIN s}
    BY DEF In, s
  <2>5. In(d)' = {packs'[d][i] : i \in DOMAIN packs'[d]}
    BY DEF In
  <2>6. In(d)' = {r[i] : i \in DOMAIN r}
    BY <1>2, <2>5
  <2> QED BY ZenonT(40), <1>2, <2>3, <2>4, <2>6
<1>4. PICK p : p = h
  OBVIOUS
<1>5. /\ p \in In(d) /\ In(d)' = In(d) \ {p} /\ pck'[t] = p
      /\ p \in Read /\ p # NoPacket
  BY <1>1, <1>2, <1>3, <1>4, HoldersRead
<1> HIDE DEF s, h, r
<1>6. /\ \A e \in Decoder \ {d} : In(e)' = In(e) /\ p \notin In(e)
      /\ \A c \in Caller : Offered(c)' = Offered(c) /\ Offered(c) # p
      /\ \A u \in DecodeThread : pck[u] # p
      /\ got # p
  <2>1. \A e \in Decoder \ {d} : In(e)' = In(e)
    BY ZenonT(40), <1>2 DEF In
  <2>2. \A c \in Caller : Offered(c)' = Offered(c)
    BY DEF Offered
  <2>3. \A e \in Decoder \ {d} : p \notin In(e)
    BY <1>1, <1>5 DEF OwnInv, QueuedOnce
  <2> QED BY <1>1, <1>5, <2>1, <2>2, <2>3 DEF OwnInv, NotQueued
<1>7. QueuedOnce'
  <2>1. \A e \in Decoder : \A i, j \in DOMAIN packs'[e] : packs'[e][i] = packs'[e][j] => i = j
    <3>1. SUFFICES ASSUME NEW e \in Decoder
                   PROVE  \A i, j \in DOMAIN packs'[e] : packs'[e][i] = packs'[e][j] => i = j
      OBVIOUS
    <3>2. CASE e = d
      BY <1>3, <3>2
    <3>3. CASE e # d
      <4>1. packs'[e] = packs[e]
        BY <1>2, <3>3
      <4>2. \A i, j \in DOMAIN packs[e] : packs[e][i] = packs[e][j] => i = j
        BY DEF OwnInv, QueuedOnce
      <4> QED BY <4>1, <4>2
    <3> QED BY <3>2, <3>3
  <2>2. \A e \in Decoder : In(e)' \subseteq In(e)
    BY <1>5, <1>6
  <2>3. \A e, f \in Decoder : e # f => In(e)' \cap In(f)' = {}
    BY <2>2 DEF OwnInv, QueuedOnce
  <2> QED BY <2>1, <2>3 DEF QueuedOnce
<1>8. NotQueued'
  BY <1>2, <1>5, <1>6 DEF OwnInv, NotQueued
<1>9. HeldOnce'
  BY <1>2, <1>5, <1>6 DEF OwnInv, HeldOnce, Apart
<1>10. AllBefore'
  <2>1. \A q : Before(q)' <=> Before(q)
    BY DEF Before
  <2>2. \A e \in Decoder : \A q \in In(e)' : Before(q)'
    BY <1>5, <1>6, <2>1 DEF OwnInv, AllBefore
  <2>3. \A u \in DecodeThread : pck'[u] = NoPacket \/ Before(pck[u])'
    <3>1. SUFFICES ASSUME NEW u \in DecodeThread PROVE pck'[u] = NoPacket \/ Before(pck[u])'
      OBVIOUS
    <3>2. \A q : pck'[u] = q /\ Before(q) => Before(pck[u])'
      BY DEF Before
    <3>3. Before(p)
      BY <1>1, <1>5 DEF OwnInv, AllBefore
    <3>4. pck'[u] \in {p, pck[u]}
      BY <1>2, <1>5
    <3>5. pck[u] = NoPacket \/ Before(pck[u])
      BY DEF OwnInv, AllBefore
    <3> QED BY <3>2, <3>3, <3>4, <3>5
  <2>4. \A c \in Caller : Offered(c)' = NoPacket \/ Before(Offered(c))'
    BY <1>6, <2>1 DEF OwnInv, AllBefore
  <2>5. (got = NoPacket)' \/ Before(got)'
    BY <2>1 DEF OwnInv, AllBefore
  <2> QED BY <2>2, <2>3, <2>4, <2>5 DEF AllBefore
<1> QED BY <1>7, <1>8, <1>9, <1>10, StepStreams, OffersKept DEF OwnInv

(* Fewer owners: the worker frees its packet, Clear() those of a queue.    *)
LEMMA OwnLess ==
  ASSUME PlayInv, OwnInv, [Next]_vars, Healthy, UNCHANGED <<note, got, pos, epoch>>,
         \A d \in Decoder : packs'[d] = packs[d] \/ packs'[d] = <<>>,
         \A t \in DecodeThread : pck'[t] = pck[t] \/ pck'[t] = NoPacket
  PROVE  OwnInv'
<1>1. \A d \in Decoder : In(d)' = In(d) \/ In(d)' = {}
  BY DEF In
<1>2. \A c : Offered(c)' = Offered(c)
  BY DEF Offered
<1>3. \A q : Before(q)' <=> Before(q)
  BY DEF Before
<1>4. QueuedOnce'
  <2>1. \A d \in Decoder : \A i, j \in DOMAIN packs'[d] : packs'[d][i] = packs'[d][j] => i = j
    BY DEF OwnInv, QueuedOnce
  <2> QED BY <1>1, <2>1 DEF OwnInv, QueuedOnce
<1>5. NotQueued'
  <2>1. \A d \in Decoder : NoPacket \notin In(d)
    BY HoldersRead
  <2> QED BY <1>1, <1>2, <2>1 DEF OwnInv, NotQueued
<1>6. HeldOnce'
  BY <1>2 DEF OwnInv, HeldOnce, Apart
<1>7. AllBefore'
  <2>1. \A t \in DecodeThread : pck'[t] = NoPacket \/ Before(pck[t])'
    <3>1. \A t \in DecodeThread : pck'[t] = pck[t] /\ Before(pck[t]) => Before(pck[t])'
      BY DEF Before
    <3> QED BY <3>1 DEF OwnInv, AllBefore
  <2> QED BY <1>1, <1>2, <1>3, <2>1 DEF OwnInv, AllBefore
<1> QED BY <1>4, <1>5, <1>6, <1>7, StepStreams, OffersKept DEF OwnInv

(* A decoder thread.                                                       *)
LEMMA OwnDecode ==
  ASSUME PlayInv, OwnInv, [Next]_vars, Healthy, NEW t \in DecodeThread, Decode(t)
  PROVE  OwnInv'
<1>1. CASE DecodeLoop(t) \/ Show(t) \/ Output(t)
  BY <1>1, OwnQuiet DEF DecodeLoop, Show, Output, decodeVars, noteVars, playerVars
<1>2. CASE DecodePacket(t)
  <2>0. UNCHANGED <<note, got, pos, epoch>>
    BY <1>2 DEF DecodePacket, demuxVars, noteVars, playerVars
  <2>1. CASE Send(t) \/ Recv(t)
    BY <2>0, <2>1, OwnQuiet DEF Send, Recv
  <2>2. CASE Take(t)
    <3>1. CASE UNCHANGED <<packs, pck>>
      BY <2>0, <3>1, OwnQuiet
    <3>2. CASE ~UNCHANGED <<packs, pck>>
      <4>1. /\ pc[t] = "take" /\ packs[Obj(t)] # <<>>
            /\ pck' = [pck EXCEPT ![t] = Head(packs[Obj(t)])]
            /\ packs' = [packs EXCEPT ![Obj(t)] = Tail(@)]
        BY <2>2, <3>2 DEF Take
      <4>2. pck[t] = NoPacket
        BY <4>1 DEF PlayInv, WorkersOK, Working
      <4> QED BY <2>0, <4>1, <4>2, OwnTake
    <3> QED BY <3>1, <3>2
  <2>3. CASE DropPacket(t)
    <3>1. packs' = packs /\ \A u \in DecodeThread : pck'[u] = pck[u] \/ pck'[u] = NoPacket
      BY <2>3 DEF DropPacket, PlayInv, DecodersOK
    <3> QED BY <2>0, <3>1, OwnLess
  <2> QED BY <1>2, <2>1, <2>2, <2>3 DEF DecodePacket
<1> QED BY <1>1, <1>2 DEF Decode

(* The control thread.                                                     *)
LEMMA OwnControl ==
  ASSUME PlayInv, OwnInv, [Next]_vars, Healthy, Control
  PROVE  OwnInv'
<1>1. CASE Lock \/ Unlock \/ Request \/ Join \/ Await \/ StartPart \/ AudioCall \/ DemuxCall
           \/ SeekNotified \/ SeekRecv
  BY <1>1, OwnQuiet DEF Lock, Unlock, Request, Join, Await, StartPart, AudioCall, DemuxCall,
     SeekNotified, SeekRecv, decodeVars, noteVars
<1>2. CASE DecoderCall
  <2>0. UNCHANGED <<note, got, pos, epoch>>
    BY <1>2 DEF DecoderCall, demuxVars, noteVars
  <2>1. CASE Part \in Decoder /\ ClearQueue(Part)
    <3>1. pck' = pck /\ \A d \in Decoder : packs'[d] = packs[d] \/ packs'[d] = <<>>
      BY <2>1 DEF ClearQueue, PlayInv, DecodersOK
    <3> QED BY <2>0, <3>1, OwnLess
  <2>2. CASE FlushCodec(Part) \/ FreeCodec(Part) \/ OpenCodec(Part, TRUE) \/ OpenCodec(Part, FALSE)
    BY <2>0, <2>2, OwnQuiet DEF FlushCodec, FreeCodec, OpenCodec
  <2> QED BY <1>2, <2>1, <2>2 DEF DecoderCall
<1>3. CASE SeekRead
  <2>1. CASE UNCHANGED got
    BY <1>3, <2>1, OwnQuiet DEF SeekRead, decodeVars, noteVars
  <2> QED BY <1>3, <2>1, OwnSeekRead
<1>4. CASE SeekRoute
  BY <1>4, OwnSeekRoute
<1>5. CASE SeekNotify
  <2>1. UNCHANGED <<got, pos, epoch, op, ip>> /\ NotifyStep(UI) /\ UI \in Caller
    BY <1>5, Names DEF SeekNotify, demuxVars, playerVars
  <2> QED BY <2>1, OwnNotify
<1> QED BY <1>1, <1>2, <1>3, <1>4, <1>5 DEF Control

(* The demuxer thread.                                                     *)
LEMMA OwnDemux ==
  ASSUME PlayInv, OwnInv, [Next]_vars, Healthy, NEW t \in DemuxThread, Demux(t)
  PROVE  OwnInv'
<1>1. CASE DemuxLoop(t)
  BY <1>1, OwnQuiet DEF DemuxLoop, decodeVars, noteVars, playerVars
<1>2. CASE DemuxRead(t)
  <2>1. CASE ReadResult = NoPacket
    BY <1>2, <2>1, OwnQuiet DEF DemuxRead, decodeVars, noteVars, playerVars
  <2> QED BY <1>2, <2>1, OwnDemuxRead
<1>3. CASE DemuxNotify(t)
  <2>1. UNCHANGED <<got, pos, epoch, op, ip>> /\ NotifyStep(t) /\ t \in Caller
    BY <1>3, Names DEF DemuxNotify, demuxVars, playerVars
  <2> QED BY <2>1, OwnNotify
<1> QED BY <1>1, <1>2, <1>3 DEF Demux

(* Every step keeps the owners apart.                                      *)
LEMMA StepOwns ==
  ASSUME PlayInv, OwnInv, [Next]_vars, Healthy
  PROVE  OwnInv'
<1>1. CASE UNCHANGED vars \/ Call
  BY <1>1, OwnQuiet DEF vars, Call, decodeVars, noteVars, playerVars
<1>2. CASE Play \/ \E t \in SyncThread : Sync(t)
  BY <1>2, OwnQuiet DEF Play, Sync, SyncLoop, SyncCopy, decodeVars, noteVars, playerVars
<1> QED BY <1>1, <1>2, OwnControl, OwnDemux, OwnDecode DEF Next

(* At first there is no packet.                                            *)
LEMMA InitOwns == Init => OwnInv
<1> SUFFICES ASSUME Init PROVE OwnInv
  OBVIOUS
<1> USE DEF Init, DemuxInit, DecodeInit, NoteInit
<1>1. /\ \A d \in Decoder : packs[d] = <<>> /\ In(d) = {}
      /\ \A t \in DecodeThread : pck[t] = NoPacket
      /\ \A c \in Caller : note[c].at = "done" /\ Offered(c) = NoPacket
      /\ got = NoPacket
  BY DEF In, Offered, NotNotifying
<1>2. AllBefore /\ NotQueued /\ HeldOnce
  BY <1>1 DEF AllBefore, NotQueued, HeldOnce, Apart
<1>3. QueuedOnce
  BY <1>1 DEF QueuedOnce
<1>4. StreamsOK
  BY DecodersAre DEF StreamsOK
<1>5. OffersOK
  BY <1>1 DEF OffersOK
<1> QED BY <1>2, <1>3, <1>4, <1>5 DEF OwnInv

-----------------------------------------------------------------------------
(* One owner.                                                              *)

(* Owners that are apart are one owner.                                    *)
LEMMA OnePlace ==
  ASSUME PlayInv, OwnInv
  PROVE  SingleOwner
<1>1. SUFFICES ASSUME NEW n \in 1 .. Len(File), NEW e \in 1 .. epoch
               PROVE  Cardinality(Places([n |-> n, e |-> e])) <= 1
  BY DEF SingleOwner
<1> DEFINE p == [n |-> n, e |-> e]
           queued == {x \in Decoder \X (1 .. maxList) :
                        x[2] \in DOMAIN packs[x[1]] /\ packs[x[1]][x[2]] = p}
           taken == {t \in DecodeThread : pck[t] = p}
<1>2. p # NoPacket
  BY FileLength DEF NoPacket
<1> HIDE DEF p
<1>3. \A x \in queued : x[1] \in Decoder /\ x[2] \in DOMAIN packs[x[1]] /\ p \in In(x[1])
  BY DEF In
<1>4. \A x, y \in queued : x = y
  <2>1. SUFFICES ASSUME NEW x \in queued, NEW y \in queued PROVE x = y
    OBVIOUS
  <2>2. x[1] = y[1]
    BY <1>3 DEF OwnInv, QueuedOnce
  <2>3. packs[x[1]][x[2]] = packs[x[1]][y[2]]
    BY <2>2
  <2>4. x[2] = y[2]
    BY <1>3, <2>2, <2>3 DEF OwnInv, QueuedOnce
  <2> QED BY <2>2, <2>4
<1>5. \A t, u \in taken : t = u
  BY <1>2 DEF OwnInv, HeldOnce, Apart
<1>6. queued = {} \/ taken = {}
  BY <1>3 DEF OwnInv, NotQueued
<1>7. Places(p) = queued \cup taken
  BY DEF Places
<1> HIDE DEF queued, taken
<1>8. Places(p) = {} \/ \E x : Places(p) = {x}
  <2>1. \A x, y \in Places(p) : x = y
    BY <1>4, <1>5, <1>6, <1>7
  <2>2. ASSUME NEW x \in Places(p) PROVE Places(p) = {x}
    BY <2>1
  <2> QED BY <2>2
<1>9. Cardinality(Places(p)) \in {0, 1}
  BY <1>8, FS_EmptySet, FS_Singleton
<1> QED BY <1>9 DEF p

(* A packet the demuxer has read is never in two queues, twice in one, or  *)
(* in the hands of a worker and still queued (IDemux.cpp, IDecode.cpp),    *)
(* whatever waits the control thread misses and whatever threads Start()   *)
(* finds, as long as Open() does not fail between the demuxer and the      *)
(* audio decoder once it has an input.                                     *)
THEOREM OneOwner ==
  ASSUME OpenOutcome \subseteq {"ok", "no input"}, "aDecode" \notin DecodeFails
  PROVE  Spec => []SingleOwner
<1>1. Healthy
  BY DEF Healthy
<1>2. PlayInv /\ OwnInv /\ [Next]_vars => OwnInv'
  BY <1>1, StepOwns
<1>3. PlayInv /\ OwnInv => SingleOwner
  BY OnePlace
<1> QED BY InitOwns, <1>2, <1>3, AlwaysPlays, PTL DEF Spec

-----------------------------------------------------------------------------
(* The calls of Notify().                                                  *)

(* Where Offer() leaves the call.                                          *)
LEMMA Offers ==
  ASSUME NotesOK, NEW c \in Caller, NEW p, NEW i \in {1, 2, 3}, Offer(c, i, p)
  PROVE  /\ \A k \in Caller \ {c} : note'[k] = note[k]
         /\ \/ note'[c] = NotNotifying /\ notifyMux' = Free
            \/ /\ note'[c].at = "test" /\ note'[c].pkt = p /\ note'[c].to \in i .. 2
               /\ notifyMux' = c
<1>0. note \in [Caller -> [at : NoteLabel, to : 0 .. Len(obss), pkt : Packet]] /\ Len(obss) = 2
  BY DEF NotesOK, obss
<1> DEFINE next == {j \in i .. Len(obss) : Interested(j, p)}
<1>1. CASE next = {}
  BY <1>0, <1>1 DEF Offer
<1>2. CASE next # {}
  <2>1. \E j \in next : \A k \in next : j <= k
    <3>1. next \subseteq {1, 2}
      BY <1>0
    <3> HIDE DEF next
    <3>2. CASE 1 \in next
      BY <3>1, <3>2
    <3>3. CASE 1 \notin next
      <4>1. next = {2}
        BY <1>2, <3>1, <3>3
      <4> QED BY <4>1
    <3> QED BY <3>2, <3>3
  <2>2. PICK j \in next : j = CHOOSE m \in next : \A k \in next : m <= k
    BY <2>1
  <2>3. note' = [note EXCEPT ![c] = [at |-> "test", to |-> j, pkt |-> p]] /\ notifyMux' = c
    BY <1>2, <2>2 DEF Offer, SetNote
  <2> QED BY <1>0, <2>3
<1> QED BY <1>1, <1>2

(* A demuxer thread is at "notify" while its call is in progress, and the  *)
(* call that holds the mutex of the subject is at "test" or "push".  Seek()*)
(* calls Notify() at entry 21, with the packet it read.                    *)
NotesFollow ==
  /\ \A t \in DemuxThread : note[t].at # "done" <=> pc[t] = "notify"
  /\ \A c \in Caller : note[c].at = "done" => note[c].pkt = NoPacket
  /\ \A c \in Caller : note[c].at = "lock" => note[c].to = 0
  /\ \A c \in Caller : note[c].at \in {"test", "push"} <=> notifyMux = c
  /\ note[UI].at # "done" => op = "seek" /\ ip = 21
  /\ got # NoPacket => op = "seek" /\ ip = 21 /\ note[UI].at = "done"

(* One step of a call.                                                     *)
NoteStep(c) ==
  /\ note[c].at # "done" /\ note[c].pkt \in Read
  /\ \A k \in Caller \ {c} : note'[k] = note[k]
  /\ \/ note'[c] = NotNotifying /\ notifyMux' = Free
     \/ /\ note'[c].at \in {"test", "push"} /\ note'[c].pkt = note[c].pkt
        /\ note'[c].to \in note[c].to .. 2
        /\ notifyMux' = c
  /\ note[c].at = "lock" => notifyMux = Free
  /\ \/ UNCHANGED packs
     \/ /\ note[c].at = "push" /\ note[c].to \in {1, 2}
        /\ packs' = [packs EXCEPT ![obss[note[c].to]] = Append(@, note[c].pkt)]
        /\ note'[c].at = "done" \/ note'[c].to > note[c].to

(* Every step of it is one.                                                *)
LEMMA NotifyMoves ==
  ASSUME PlayInv, NotesFollow, NEW c \in Caller, NotifyStep(c)
  PROVE  NoteStep(c)
<1>0. /\ note \in [Caller -> [at : NoteLabel, to : 0 .. Len(obss), pkt : Packet]]
      /\ note[c].at # "done" => note[c].pkt \in Read
      /\ note[c].at \in {"test", "push"} => note[c].to \in {1, 2} /\ notifyMux = c
      /\ note[c].at = "lock" => note[c].to = 0
  BY DEF PlayInv, NotesOK, obss, NotesFollow
<1> DEFINE Offered3(i) ==
      /\ \A k \in Caller \ {c} : note'[k] = note[k]
      /\ \/ note'[c] = NotNotifying /\ notifyMux' = Free
         \/ /\ note'[c].at = "test" /\ note'[c].pkt = note[c].pkt /\ note'[c].to \in i .. 2
            /\ notifyMux' = c
<1>a. \A i \in {1, 2, 3} : Offer(c, i, note[c].pkt) => Offered3(i)
  BY Offers DEF PlayInv
<1> HIDE DEF Offered3
<1>b. NotNotifying.at = "done"
  BY DEF NotNotifying
<1>1. CASE LockNotify(c)
  <2>1. note[c].at = "lock" /\ notifyMux = Free /\ Offered3(1) /\ UNCHANGED packs
    BY <1>1, <1>a DEF LockNotify
  <2> QED BY <1>0, <2>1 DEF NoteStep, Offered3
<1>2. CASE TestObserver(c)
  <2>1. note[c].at = "test" /\ UNCHANGED packs /\ note[c].to \in {1, 2} /\ note[c].to + 1 \in {2, 3}
    BY <1>0, <1>2 DEF TestObserver
  <2>2. CASE Offer(c, note[c].to + 1, note[c].pkt)
    <3>1. Offered3(note[c].to + 1)
      BY <1>a, <2>1, <2>2
    <3> QED BY <1>0, <2>1, <3>1 DEF NoteStep, Offered3
  <2>3. CASE SetNote(c, "push", note[c].to, note[c].pkt) /\ UNCHANGED notifyMux
    <3>1. /\ note'[c] = [at |-> "push", to |-> note[c].to, pkt |-> note[c].pkt]
          /\ \A k \in Caller \ {c} : note'[k] = note[k]
      BY <1>0, <2>3 DEF SetNote
    <3> QED BY <1>0, <2>1, <2>3, <3>1 DEF NoteStep
  <2> QED BY <1>2, <2>2, <2>3 DEF TestObserver
<1>3. CASE PushObserver(c)
  <2>1. note[c].at = "push" /\ note[c].to \in {1, 2} /\ note[c].to + 1 \in {2, 3}
    BY <1>0, <1>3 DEF PushObserver
  <2>2. CASE PushPacket(obss[note[c].to], note[c].pkt) /\ Offer(c, note[c].to + 1, note[c].pkt)
    <3>1. Offered3(note[c].to + 1)
      BY <1>a, <2>1, <2>2
    <3>2. packs' = [packs EXCEPT ![obss[note[c].to]] = Append(@, note[c].pkt)]
      BY <2>2 DEF PushPacket
    <3> QED BY <1>0, <1>b, <2>1, <3>1, <3>2 DEF NoteStep, Offered3
  <2>3. CASE SetNote(c, "test", note[c].to, note[c].pkt) /\ UNCHANGED <<packs, notifyMux>>
    <3>1. /\ note'[c] = [at |-> "test", to |-> note[c].to, pkt |-> note[c].pkt]
          /\ \A k \in Caller \ {c} : note'[k] = note[k]
      BY <1>0, <2>3 DEF SetNote
    <3> QED BY <1>0, <2>1, <2>3, <3>1 DEF NoteStep
  <2> QED BY <1>3, <2>2, <2>3 DEF PushObserver
<1> QED BY <1>1, <1>2, <1>3 DEF NotifyStep

(* The demuxer thread, as a way through its labels.                        *)
DemuxGoes(t) ==
  \/ pc[t] \in {"spawned", "head"} /\ pc'[t] = Next2("demux", "read") /\ UNCHANGED <<noteVars, pos, packs>>
  \/ pc[t] = "leave" /\ pc'[t] = "none" /\ UNCHANGED <<noteVars, pos, packs>>
  \/ /\ pc[t] = "read" /\ ReadResult = NoPacket /\ Advance
     /\ pc'[t] = Next2("demux", "read") /\ UNCHANGED <<noteVars, packs>>
  \/ /\ pc[t] = "read" /\ ReadResult # NoPacket /\ Advance
     /\ pc'[t] = "notify" /\ BeginNotify(t, ReadResult) /\ UNCHANGED packs
  \/ /\ pc[t] = "notify" /\ NotifyStep(t) /\ UNCHANGED pos
     /\ pc'[t] = IF note'[t].at = "done" THEN Next2("demux", "read") ELSE "notify"

(* It goes no other, and reads only when it has acknowledged no pause.     *)
LEMMA DemuxSteps ==
  ASSUME PlayInv, NEW t \in DemuxThread, Demux(t)
  PROVE  /\ pc' = [pc EXCEPT ![t] = pc'[t]]
         /\ DemuxGoes(t)
         /\ pc'[t] = "read" => ~isPausing'["demux"]
         /\ pc'[t] = "notify" => UNCHANGED isPausing
<1>0. /\ pc \in [Thread -> Label] /\ t \in Thread /\ Obj(t) = "demux" /\ "demux" \in Object
      /\ isPausing \in [Object -> BOOLEAN]
  BY Names, Kinds4 DEF PlayInv, ThreadsOK
<1>1. Again(t, "read") =>
        /\ pc' = [pc EXCEPT ![t] = pc'[t]] /\ pc'[t] = Next2("demux", "read")
        /\ pc'[t] = "read" => ~isPausing'["demux"]
  BY <1>0 DEF Again, GoTo, Next2
<1>2. CASE DemuxLoop(t)
  <2>1. UNCHANGED <<noteVars, pos, packs>>
    BY <1>2 DEF DemuxLoop, demuxVars, decodeVars
  <2>2. CASE EnterLoop(t, "read") \/ PausedLoop(t, "read")
    <3>1. pc[t] \in {"spawned", "head"} /\ Again(t, "read")
      BY <2>2 DEF EnterLoop, PausedLoop
    <3> QED BY <1>1, <2>1, <3>1 DEF DemuxGoes, Next2
  <2>3. CASE Leave(t)
    BY <1>0, <2>1, <2>3 DEF Leave, GoTo, DemuxGoes
  <2> QED BY <1>2, <2>2, <2>3 DEF DemuxLoop
<1>3. CASE DemuxRead(t)
  <2>1. pc[t] = "read" /\ Advance /\ UNCHANGED packs
    BY <1>3 DEF DemuxRead, decodeVars
  <2>2. CASE ReadResult = NoPacket
    <3>1. Again(t, "read") /\ UNCHANGED noteVars
      BY <1>3, <2>2 DEF DemuxRead
    <3> QED BY <1>1, <2>1, <2>2, <3>1 DEF DemuxGoes, Next2
  <2>3. CASE ReadResult # NoPacket
    <3>1. pc' = [pc EXCEPT ![t] = "notify"] /\ BeginNotify(t, ReadResult) /\ UNCHANGED isPausing
      BY <1>3, <2>3 DEF DemuxRead, GoTo
    <3> QED BY <1>0, <2>1, <2>3, <3>1 DEF DemuxGoes
  <2> QED BY <2>2, <2>3
<1>4. CASE DemuxNotify(t)
  <2>1. pc[t] = "notify" /\ NotifyStep(t) /\ UNCHANGED pos
    BY <1>4 DEF DemuxNotify, demuxVars
  <2>2. CASE note'[t].at = "done"
    <3>1. Again(t, "read")
      BY <1>4, <2>2 DEF DemuxNotify
    <3> QED BY <1>1, <2>1, <2>2, <3>1 DEF DemuxGoes, Next2
  <2>3. CASE note'[t].at # "done"
    <3>1. UNCHANGED <<pc, isPausing>>
      BY <1>4, <2>3 DEF DemuxNotify
    <3> QED BY <1>0, <2>1, <2>3, <3>1 DEF DemuxGoes
  <2> QED BY <2>2, <2>3
<1> QED BY <1>2, <1>3, <1>4 DEF Demux

(* Who calls Notify(), and who has its packet.                             *)
LEMMA NoteWriters ==
  ASSUME PlayInv, [Next]_vars
  PROVE  \/ UNCHANGED noteVars
         \/ \E t \in DemuxThread : Demux(t)
         \/ SeekRoute
         \/ SeekNotify
<1>1. UNCHANGED vars \/ Call => UNCHANGED noteVars
  BY DEF vars, Call, noteVars
<1>2. Control => UNCHANGED noteVars \/ SeekRoute \/ SeekNotify
  BY DEF Control, Lock, Unlock, Request, Join, Await, StartPart, DecoderCall, AudioCall, DemuxCall,
     SeekRead, SeekNotified, SeekRecv, noteVars
<1>3. (\E t \in DecodeThread : Decode(t)) \/ Play \/ (\E t \in SyncThread : Sync(t)) =>
        UNCHANGED noteVars
  BY DEF Decode, DecodeLoop, DecodePacket, Show, Output, Play, Sync, SyncLoop, SyncCopy, noteVars
<1> QED BY <1>1, <1>2, <1>3 DEF Next

(* Seek() alone has a packet in hand.                                      *)
LEMMA GotWriters ==
  ASSUME PlayInv, [Next]_vars
  PROVE  UNCHANGED got \/ SeekRead \/ SeekRoute
<1>1. UNCHANGED vars \/ Call => UNCHANGED got
  BY DEF vars, Call, playerVars
<1>2. Control => UNCHANGED got \/ SeekRead \/ SeekRoute
  BY DEF Control, Lock, Unlock, Request, Join, Await, StartPart, DecoderCall, AudioCall, DemuxCall,
     SeekNotified, SeekRecv, SeekNotify, playerVars
<1> QED BY <1>1, <1>2, ThreadSteps DEF Next

(* Seek() leaves entry 21 without a packet and without a call.             *)
LEMMA RouteLeaves ==
  ASSUME PlayInv, NotesFollow, [Next]_vars, op = "seek", ip = 21, ~UNCHANGED <<op, ip>>
  PROVE  /\ note[UI].at = "done" /\ got' = NoPacket /\ UNCHANGED noteVars
         /\ op' = "seek"
<1>0. CallOK
  BY DEF PlayInv
<1>1. Entry.do = "route"
  BY <1>0, EntryOK DEF SeekFacts
<1>2. SeekRoute \/ SeekNotified
  BY <1>1, EntryDone
<1>3. op' = "seek"
  BY ScriptMoves DEF ScriptStep, GoesOn, Size
<1>4. CASE SeekNotified
  BY <1>3, <1>4 DEF SeekNotified, NotesFollow
<1>5. CASE SeekRoute
  BY <1>3, <1>5 DEF SeekRoute, NotesFollow
<1> QED BY <1>2, <1>4, <1>5

(* A thread in its call keeps its place.                                   *)
LEMMA NotifyStays ==
  ASSUME PlayInv, [Next]_vars, NEW t \in DemuxThread, ~\E u \in DemuxThread : Demux(u)
  PROVE  pc'[t] = pc[t] \/ (pc[t] = "none" /\ pc'[t] = "spawned")
<1>0. /\ "demux" \in Object /\ t = <<"demux", t[2]>> /\ t[2] \in Slot /\ t \in Thread
      /\ pc \in [Thread -> Label] /\ \A d \in Decoder : d # "demux"
  BY Names DEF DemuxThread, Decoder, PlayInv, ThreadsOK
<1>1. CASE SameThreads("demux")
  BY <1>0, <1>1 DEF SameThreads
<1>2. CASE StartPart /\ Part = "demux"
  <2>1. Spawn("demux")
    BY <1>2 DEF StartPart, Start
  <2>2. PICK k \in Slot : pc[<<"demux", k>>] = "none" /\ pc' = [pc EXCEPT ![<<"demux", k>>] = "spawned"]
    BY <1>0, <2>1, SpawnOK
  <2> QED BY <1>0, <2>2
<1> QED BY <1>0, <1>1, <1>2, WhoMoves, Names

(* Every step keeps calls and labels together.                             *)
LEMMA StepNotes ==
  ASSUME PlayInv, NotesFollow, [Next]_vars
  PROVE  NotesFollow'
<1>0. /\ note \in [Caller -> [at : NoteLabel, to : 0 .. Len(obss), pkt : Packet]]
      /\ UI \in Caller /\ DemuxThread \subseteq Caller /\ DemuxThread \subseteq Thread
      /\ UI \notin DemuxThread /\ Free \notin Caller /\ pc \in [Thread -> Label] /\ CallOK
      /\ NotNotifying = [at |-> "done", to |-> 0, pkt |-> NoPacket]
  BY Names DEF PlayInv, NotesOK, UI, DemuxThread, Free, Caller, ThreadsOK, NotNotifying
<1>1. ASSUME UNCHANGED noteVars, ~\E t \in DemuxThread : Demux(t)
      PROVE  NotesFollow'
  <2>1. \A t \in DemuxThread : pc'[t] = "notify" <=> pc[t] = "notify"
    BY <1>1, NotifyStays
  <2>2. note'[UI].at # "done" => op' = "seek" /\ ip' = 21
    BY <1>1, RouteLeaves DEF NotesFollow, noteVars
  <2>3. got' # NoPacket => op' = "seek" /\ ip' = 21 /\ note'[UI].at = "done"
    <3>1. CASE UNCHANGED got
      BY <1>1, <3>1, RouteLeaves DEF NotesFollow, noteVars
    <3>2. CASE SeekRead
      <4>1. op # "idle" /\ Entry.do = "read"
        BY <3>2 DEF SeekRead, At
      <4>2. op = "seek" /\ ip = 20 /\ Size(op) = 35
        BY <1>0, <4>1, OnlySeek
      <4>3. note[UI].at = "done" /\ got = NoPacket
        BY <4>2 DEF NotesFollow
      <4>4. got' # NoPacket => Continue
        BY <3>2, <4>3 DEF SeekRead
      <4>5. got' # NoPacket => op' = "seek" /\ ip' = 21
        BY <1>0, <4>2, <4>4, ContinueMoves DEF GoesOn
      <4> QED BY <1>1, <4>3, <4>5 DEF noteVars
    <3>3. CASE SeekRoute
      BY <3>3 DEF SeekRoute
    <3> QED BY <3>1, <3>2, <3>3, GotWriters
  <2> QED BY <1>1, <2>1, <2>2, <2>3 DEF NotesFollow, noteVars
<1>2. ASSUME NEW c \in Caller, NotifyStep(c), UNCHANGED <<op, ip, got>>,
             \A t \in DemuxThread \ {c} : pc'[t] = pc[t],
             c \in DemuxThread => (pc'[c] = "notify" <=> note'[c].at # "done"),
             c # UI => UNCHANGED <<op, ip>>
      PROVE  NotesFollow'
  <2>1. NoteStep(c)
    BY <1>2, NotifyMoves
  <2>2. \A k \in Caller : note'[k].at = "done" => note'[k].pkt = NoPacket
    BY <1>0, <2>1 DEF NoteStep, NotesFollow
  <2>3. \A k \in Caller : note'[k].at = "lock" => note'[k].to = 0
    BY <1>0, <2>1 DEF NoteStep, NotesFollow
  <2>4. \A k \in Caller \ {c} : note[k].at \notin {"test", "push"}
    BY <1>0, <2>1 DEF NoteStep, NotesFollow, NoteLabel
  <2>5. \A k \in Caller : note'[k].at \in {"test", "push"} <=> notifyMux' = k
    BY <1>0, <2>1, <2>4 DEF NoteStep
  <2>6. \A t \in DemuxThread : note'[t].at # "done" <=> pc'[t] = "notify"
    BY <1>0, <1>2, <2>1 DEF NoteStep, NotesFollow
  <2>7. note[UI].at = "done" => note'[UI].at = "done"
    BY <1>0, <2>1 DEF NoteStep
  <2> QED BY <1>2, <2>2, <2>3, <2>5, <2>6, <2>7 DEF NotesFollow
<1>3. ASSUME NEW c \in Caller, NEW p \in Read, BeginNotify(c, p), note[c].at = "done"
      PROVE  /\ note'[c] = [at |-> "lock", to |-> 0, pkt |-> p]
             /\ \A k \in Caller \ {c} : note'[k] = note[k]
             /\ \A k \in Caller : note'[k].at \in {"test", "push"} <=> notifyMux' = k
             /\ \A k \in Caller : note'[k].at = "done" => note'[k].pkt = NoPacket
             /\ \A k \in Caller : note'[k].at = "lock" => note'[k].to = 0
  <2>1. /\ note'[c] = [at |-> "lock", to |-> 0, pkt |-> p]
        /\ \A k \in Caller \ {c} : note'[k] = note[k]
        /\ UNCHANGED notifyMux
    BY <1>0, <1>3 DEF BeginNotify, SetNote
  <2> QED BY <1>3, <2>1 DEF NotesFollow
<1>4. ASSUME NEW t \in DemuxThread, Demux(t) PROVE NotesFollow'
  <2>1. pc' = [pc EXCEPT ![t] = pc'[t]] /\ DemuxGoes(t)
    BY <1>4, DemuxSteps
  <2>2. UNCHANGED <<op, ip, got>>
    BY <1>4, ThreadSteps
  <2>3. \A u \in DemuxThread \ {t} : pc'[u] = pc[u]
    BY <1>0, <2>1
  <2>4. CASE UNCHANGED noteVars
    <3>1. pc'[t] = "notify" <=> pc[t] = "notify"
      <4>1. CASE pc[t] = "notify" /\ NotifyStep(t)
        <5>1. NoteStep(t)
          BY <1>0, <4>1, NotifyMoves
        <5> QED BY <2>1, <2>4, <4>1, <5>1 DEF DemuxGoes, NoteStep, noteVars
      <4>2. CASE pc[t] = "read" /\ ReadResult # NoPacket /\ BeginNotify(t, ReadResult)
        <5>1. note'[t].at = "lock"
          BY <1>0, <4>2 DEF BeginNotify, SetNote
        <5>2. note[t].at = "done"
          BY <4>2 DEF NotesFollow
        <5> QED BY <2>4, <5>1, <5>2 DEF noteVars
      <4> QED BY <2>1, <4>1, <4>2 DEF DemuxGoes, Next2
    <3> QED BY <2>2, <2>3, <2>4, <3>1 DEF NotesFollow, noteVars
  <2>5. CASE pc[t] = "notify" /\ NotifyStep(t)
    <3>1. pc'[t] = "notify" <=> note'[t].at # "done"
      BY <2>1, <2>5 DEF DemuxGoes, Next2
    <3> QED BY <1>0, <1>2, <2>2, <2>3, <2>5, <3>1
  <2>6. CASE pc[t] = "read" /\ ReadResult # NoPacket /\ BeginNotify(t, ReadResult) /\ pc'[t] = "notify" /\ Advance
    <3>1. ReadResult \in Read
      BY <2>6, ReadOK DEF PlayInv
    <3>2. note[t].at = "done" /\ t \in Caller /\ t # UI
      BY <1>0, <2>6 DEF NotesFollow
    <3>3. /\ note'[t] = [at |-> "lock", to |-> 0, pkt |-> ReadResult]
          /\ \A k \in Caller \ {t} : note'[k] = note[k]
          /\ \A k \in Caller : note'[k].at \in {"test", "push"} <=> notifyMux' = k
          /\ \A k \in Caller : note'[k].at = "done" => note'[k].pkt = NoPacket
          /\ \A k \in Caller : note'[k].at = "lock" => note'[k].to = 0
      BY <1>3, <2>6, <3>1, <3>2
    <3> QED BY <1>0, <2>2, <2>3, <2>6, <3>2, <3>3 DEF NotesFollow
  <2> QED BY <2>1, <2>4, <2>5, <2>6 DEF DemuxGoes
<1>5. ASSUME SeekRoute, ~UNCHANGED noteVars PROVE NotesFollow'
  <2>1. /\ op # "idle" /\ Entry.do = "route" /\ got # NoPacket /\ got' = NoPacket
        /\ BeginNotify(UI, got) /\ UNCHANGED <<op, ip, pc>>
    BY <1>5 DEF SeekRoute, At
  <2>2. op = "seek" /\ ip = 21 /\ note[UI].at = "done" /\ got \in Read
    <3>1. got \in Read
      BY <2>1, HoldersRead
    <3> QED BY <2>1, <3>1 DEF NotesFollow
  <2>3. /\ note'[UI] = [at |-> "lock", to |-> 0, pkt |-> got]
        /\ \A k \in Caller \ {UI} : note'[k] = note[k]
        /\ \A k \in Caller : note'[k].at \in {"test", "push"} <=> notifyMux' = k
        /\ \A k \in Caller : note'[k].at = "done" => note'[k].pkt = NoPacket
        /\ \A k \in Caller : note'[k].at = "lock" => note'[k].to = 0
    BY <1>0, <1>3, <2>1, <2>2
  <2> QED BY <1>0, <2>1, <2>2, <2>3 DEF NotesFollow
<1>6. ASSUME SeekNotify PROVE NotesFollow'
  <2>1. NotifyStep(UI) /\ UNCHANGED <<op, ip, got, pc>>
    BY <1>6 DEF SeekNotify, playerVars
  <2> QED BY <1>0, <1>2, <2>1
<1> QED BY <1>1, <1>4, <1>5, <1>6, NoteWriters

-----------------------------------------------------------------------------
(* The demuxer while Seek() has it paused.                                 *)

SeekAt(first, last) == op = "seek" /\ ip \in first .. last

(* The demuxer has one thread, which takes another packet only when it has *)
(* acknowledged no pause.  While Seek() keeps it paused it reads nothing:  *)
(* at most it holds a packet, and waits for room in a queue.               *)
RestInv ==
  /\ OneThread("demux")
  /\ \A t \in DemuxThread : pc[t] \in {"read", "notify"} => ~isPausing["demux"]
  /\ SeekAt(5, 27) => isPause["demux"]
  /\ SeekAt(6, 27) =>
       \A t \in DemuxThread :
         pc[t] # "read" /\ (pc[t] = "notify" => note[t].at \in {"test", "push"})

(* A pause is acknowledged by the threads of the object and, for the       *)
(* player, by PlayOrPause().                                               *)
LEMMA PausingKept ==
  ASSUME PlayInv, [Next]_vars, NEW o \in {"demux", "vDecode", "aDecode"},
         o = "demux" => ~\E t \in DemuxThread : Demux(t),
         ~\E t \in DecodeThread : Obj(t) = o /\ Decode(t)
  PROVE  isPausing'[o] = isPausing[o]
<1>0. /\ isPausing \in [Object -> BOOLEAN] /\ o \in Object /\ o # "player" /\ o # "audioPlay"
      /\ Obj(Device) = "audioPlay"
  BY Names, Kinds4 DEF PlayInv, ThreadsOK, Decoder
<1>1. CASE UNCHANGED vars
  BY <1>1 DEF vars, flags
<1>2. CASE Call
  BY <1>0, <1>2 DEF Call, CallOpen, CallPlayOrPause, CallSeek, Acknowledge, flags
<1>3. CASE Control
  BY <1>3 DEF Control, Lock, Unlock, Request, RaiseExit, RequestPause, WithdrawExit, Join, Await,
     StartPart, Start, DecoderCall, AudioCall, DemuxCall, SeekRead, SeekRoute, SeekNotified,
     SeekRecv, SeekNotify, flags
<1>4. ASSUME NEW t \in DecodeThread, Decode(t) PROVE isPausing'[o] = isPausing[o]
  <2>0. Obj(t) # o
    BY <1>4
  <2>1. CASE DecodeLoop(t)
    BY <1>0, <2>0, <2>1 DEF DecodeLoop, EnterLoop, PausedLoop, Again, Leave
  <2>2. CASE DecodePacket(t)
    BY <1>0, <2>0, <2>2 DEF DecodePacket, Take, Send, Recv, DropPacket, Again, flags
  <2>3. CASE Show(t) \/ Output(t)
    BY <2>3 DEF Show, Output, TestOutput, PushFrame, flags
  <2> QED BY <1>4, <2>1, <2>2, <2>3 DEF Decode
<1>5. CASE Play
  BY <1>0, <1>5 DEF Play, Callback, Fire, PopFrame, Enqueue, EnterLoop, PausedLoop, Leave, Again, flags
<1>6. ASSUME NEW t \in SyncThread, Sync(t) PROVE isPausing'[o] = isPausing[o]
  BY <1>6 DEF Sync, SyncLoop, SyncCopy, Leave, flags
<1>7. ASSUME NEW t \in DemuxThread, Demux(t) PROVE isPausing'[o] = isPausing[o]
  <2>0. Obj(t) = "demux" /\ o # "demux"
    BY <1>7, Kinds4
  <2> QED BY <1>0, <1>7, <2>0 DEF Demux, DemuxLoop, DemuxRead, DemuxNotify, EnterLoop, PausedLoop,
             Again, Leave, flags
<1> QED BY <1>1, <1>2, <1>3, <1>4, <1>5, <1>6, <1>7 DEF Next

(* SetPause() waits until the demuxer thread is out of its body, or in it  *)
(* and waiting for a queue.                                                *)
LEMMA DemuxAwaited ==
  ASSUME PlayInv, NotesFollow, RestInv, SeekAt(5, 5), "demux" \notin Slow, Await, Part = "demux",
         NEW t \in DemuxThread
  PROVE  pc[t] # "read" /\ (pc[t] = "notify" => note[t].at \in {"test", "push"})
<1>0. /\ isPausing \in [Object -> BOOLEAN] /\ "demux" \in Object /\ isPause["demux"]
      /\ t[2] \in Slot /\ t = <<"demux", t[2]>>
      /\ \A k \in Slot : <<"demux", k>> \in DemuxThread /\ Obj(<<"demux", k>>) = "demux"
      /\ notifyMux \in {Free} \cup Caller /\ Caller = {UI} \cup DemuxThread
      /\ note[t].at \in NoteLabel /\ Free \notin Caller
  BY Names DEF PlayInv, ThreadsOK, NotesOK, RestInv, SeekAt, DemuxThread, Obj, Caller, UI, Free
<1>1. SUFFICES ASSUME pc[t] \in {"read", "notify"}
               PROVE  pc[t] = "notify" /\ note[t].at \in {"test", "push"}
  OBVIOUS
<1>2. \A k \in Slot : k # t[2] => pc[<<"demux", k>>] = "none"
  BY <1>0, <1>1 DEF RestInv, OneThread
<1>3. ~isPausing["demux"]
  BY <1>1 DEF RestInv
<1>4. ~Absent("demux")
  BY <1>0, <1>1 DEF Absent, Live
<1>5. Waiting("demux")
  BY <1>0, <1>3, <1>4 DEF Await
<1>6. PICK k \in Slot : Blocked(<<"demux", k>>)
  BY <1>5 DEF Waiting
<1>7. pc[<<"demux", k>>] = "notify" \/ pc[<<"demux", k>>] = "lock"
  BY <1>0, <1>6 DEF Blocked
<1>8. k = t[2] /\ pc[t] = "notify"
  BY <1>0, <1>1, <1>2, <1>7
<1>9. SUFFICES ASSUME note[t].at = "lock" PROVE FALSE
  BY <1>0, <1>8 DEF NoteLabel, NotesFollow
<1>10. notifyMux # Free
  BY <1>0, <1>6, <1>8, <1>9 DEF Blocked
<1>11. PICK c \in Caller : notifyMux = c
  BY <1>0, <1>10
<1>12. note[c].at \in {"test", "push"}
  BY <1>11 DEF NotesFollow
<1>13. CASE c = UI
  BY <1>12, <1>13 DEF NotesFollow, SeekAt
<1>14. CASE c \in DemuxThread
  <2>1. pc[c] = "notify" /\ c = <<"demux", c[2]>> /\ c[2] \in Slot
    BY <1>12, <1>14 DEF NotesFollow, DemuxThread
  <2>2. c = t
    BY <1>0, <1>2, <2>1
  <2> QED BY <1>9, <1>12, <2>2
<1> QED BY <1>0, <1>11, <1>13, <1>14

(* The script reaches the entries where the demuxer rests at the request   *)
(* and, one further, after the wait.                                       *)
LEMMA RestMoves ==
  ASSUME PlayInv, [Next]_vars
  PROVE  /\ SeekAt(5, 27)' =>
              \/ SeekAt(5, 27)
              \/ SeekAt(4, 4) /\ ~UNCHANGED <<op, ip>> /\ Entry.do = "pause" /\ Part = "demux"
         /\ SeekAt(6, 27)' =>
              \/ SeekAt(6, 27)
              \/ SeekAt(5, 5) /\ Await /\ Part = "demux"
         /\ op = "seek" /\ Part = "demux" /\ Entry.do \in {"resume", "start"} => ip = 27
<1>0. CallOK
  BY DEF PlayInv
<1>1. op = "seek" => /\ ip \in 1 .. 35 /\ SeekFacts(ip, Entry) /\ SeekPlaces(ip, Entry)
                     /\ Part = Entry.on
  BY <1>0, EntryOK, EntryPlaced DEF Size, Part
<1>2. ScriptStep
  BY ScriptMoves
<1>3. op = "seek" => Entry.do # "start"
  BY <1>1 DEF SeekFacts
<1>4. SeekAt(4, 4) => Entry.do = "pause" /\ Part = "demux"
  <2>1. SUFFICES ASSUME SeekAt(4, 4) PROVE PausePlaces("pause", ip, Entry) /\ ip = 4
    BY <1>1 DEF PausePlaces, SeekAt
  <2> QED BY <1>1, <2>1 DEF SeekAt, SeekPlaces
<1>5. SeekAt(5, 5) => Entry.do = "await" /\ Part = "demux"
  <2>1. SUFFICES ASSUME SeekAt(5, 5) PROVE PausePlaces("pause", ip, Entry) /\ ip = 5
    BY <1>1 DEF PausePlaces, SeekAt
  <2> QED BY <1>1, <2>1 DEF SeekAt, SeekPlaces
<1>6. op = "seek" /\ Entry.do = "resume" /\ Part = "demux" => ip = 27
  <2>1. SUFFICES ASSUME op = "seek", Entry.do = "resume", Part = "demux" PROVE ip = 27
    OBVIOUS
  <2>2. ip \in 24 .. 35 /\ PausePlaces("resume", ip - 23, Entry)
    BY <1>1, <2>1 DEF SeekPlaces
  <2>3. ip - 23 = 4
    BY <1>1, <2>1, <2>2 DEF PausePlaces
  <2> QED BY <2>2, <2>3
<1>7. SeekAt(5, 27)' => SeekAt(5, 27) \/ (SeekAt(4, 4) /\ ~UNCHANGED <<op, ip>>)
  BY <1>1, <1>2 DEF ScriptStep, GoesOn, SeekAt, Size
<1>8. SeekAt(6, 27)' => SeekAt(6, 27) \/ (SeekAt(5, 5) /\ ~UNCHANGED <<op, ip>>)
  BY <1>1, <1>2 DEF ScriptStep, GoesOn, SeekAt, Size
<1>9. SeekAt(5, 5) /\ ~UNCHANGED <<op, ip>> => Await
  BY <1>5, EntryDone DEF SeekAt
<1> QED BY <1>3, <1>4, <1>5, <1>6, <1>7, <1>8, <1>9

(* The demuxer stays requested to pause until Seek() resumes it.           *)
LEMMA StepRequested ==
  ASSUME PlayInv, [Next]_vars, SeekAt(5, 27) => isPause["demux"]
  PROVE  SeekAt(5, 27)' => isPause'["demux"]
<1>0. "demux" \in Object
  BY Names
<1>1. SUFFICES ASSUME SeekAt(5, 27)' PROVE isPause'["demux"]
  OBVIOUS
<1>2. CASE SeekAt(4, 4) /\ ~UNCHANGED <<op, ip>> /\ Entry.do = "pause" /\ Part = "demux"
  BY <1>0, <1>2, PauseAtEntry DEF SeekAt
<1>3. CASE SeekAt(5, 27)
  <2>1. GoesOn /\ Part = "demux" /\ Entry.do \in {"resume", "start"} => FALSE
    BY <1>1, <1>3, RestMoves DEF GoesOn, SeekAt
  <2> QED BY <1>0, <1>3, <2>1, PauseAtEntry
<1> QED BY <1>1, <1>2, <1>3, RestMoves

(* Every step of the player keeps the demuxer to it.                       *)
LEMMA StepRest ==
  ASSUME PlayInv, NotesFollow, RestInv, [Next]_vars, "demux" \notin Overlapping,
         op = "seek" => "demux" \notin Slow
  PROVE  RestInv'
<1>0. /\ "demux" \in Object /\ \A d \in Decoder : d # "demux"
      /\ \A t \in DecodeThread : Obj(t) \in Decoder
      /\ DemuxThread \subseteq Thread /\ pc \in [Thread -> Label] /\ DemuxThread \subseteq Caller
      /\ \A t \in DemuxThread : t[2] \in Slot /\ t = <<"demux", t[2]>>
  BY Names DEF PlayInv, ThreadsOK, DemuxThread, Decoder
<1>1. OneThread("demux")'
  BY StepOneThread DEF RestInv
<1>2. \A t \in DemuxThread : pc'[t] \in {"read", "notify"} => ~isPausing'["demux"]
  <2>1. SUFFICES ASSUME NEW t \in DemuxThread, pc'[t] \in {"read", "notify"}
                 PROVE  ~isPausing'["demux"]
    OBVIOUS
  <2>2. CASE ~\E u \in DemuxThread : Demux(u)
    <3>1. pc'[t] = pc[t]
      BY <2>1, <2>2, NotifyStays
    <3>2. isPausing'["demux"] = isPausing["demux"]
      BY <1>0, <2>2, PausingKept
    <3> QED BY <2>1, <3>1, <3>2 DEF RestInv
  <2>3. ASSUME NEW u \in DemuxThread, Demux(u) PROVE ~isPausing'["demux"]
    <3>1. /\ pc' = [pc EXCEPT ![u] = pc'[u]] /\ DemuxGoes(u)
          /\ pc'[u] = "read" => ~isPausing'["demux"]
          /\ pc'[u] = "notify" => UNCHANGED isPausing
      BY <2>3, DemuxSteps
    <3>2. pc[u] # "none"
      BY <3>1 DEF DemuxGoes
    <3>3. pc'[u] # "none" \/ t # u
      BY <2>1
    <3>4. t = u
      <4>1. SUFFICES ASSUME t # u PROVE FALSE
        OBVIOUS
      <4>2. pc[t] # "none"
        BY <1>0, <2>1, <3>1, <4>1
      <4>3. t[2] = u[2]
        BY <1>0, <3>2, <4>2 DEF RestInv, OneThread
      <4> QED BY <1>0, <4>1, <4>3
    <3>5. pc'[u] = "notify" => pc[u] \in {"read", "notify"}
      BY <3>1 DEF DemuxGoes, Next2
    <3> QED BY <2>1, <3>1, <3>4, <3>5 DEF RestInv
  <2> QED BY <2>2, <2>3
<1>3. SeekAt(5, 27)' => isPause'["demux"]
  BY StepRequested DEF RestInv
<1>4. ASSUME SeekAt(6, 27)', NEW t \in DemuxThread
      PROVE  pc'[t] # "read" /\ (pc'[t] = "notify" => note'[t].at \in {"test", "push"})
  <2>1. CASE SeekAt(5, 5) /\ Await /\ Part = "demux"
    <3>1. UNCHANGED <<pc, note>>
      BY <2>1 DEF Await, noteVars
    <3>2. "demux" \notin Slow
      BY <2>1 DEF SeekAt
    <3> QED BY <2>1, <3>1, <3>2, DemuxAwaited
  <2>2. CASE SeekAt(6, 27)
    <3>0. /\ isPause["demux"]
          /\ \A u \in DemuxThread :
               pc[u] # "read" /\ (pc[u] = "notify" => note[u].at \in {"test", "push"})
      BY <2>2 DEF RestInv, SeekAt
    <3>1. CASE ~\E u \in DemuxThread : Demux(u)
      <4>1. pc'[t] = pc[t] \/ pc'[t] = "spawned"
        BY <3>1, NotifyStays
      <4>2. pc[t] = "notify" => note'[t].at \in {"test", "push", "done"}
        <5>1. CASE UNCHANGED noteVars
          BY <3>0, <5>1 DEF noteVars
        <5>2. CASE SeekRoute
          <6>1. UNCHANGED note \/ BeginNotify(UI, got)
            BY <5>2 DEF SeekRoute, noteVars
          <6>2. t # UI /\ t \in Caller /\ note \in [Caller -> [at : NoteLabel, to : 0 .. Len(obss), pkt : Packet]]
            BY <1>0 DEF UI, DemuxThread, PlayInv, NotesOK
          <6>3. note'[t] = note[t]
            BY <6>1, <6>2 DEF BeginNotify, SetNote
          <6> QED BY <3>0, <6>3
        <5>3. CASE SeekNotify
          <6>1. NoteStep(UI)
            BY <1>0, <5>3, NotifyMoves, Names DEF SeekNotify
          <6>2. note'[t] = note[t]
            BY <1>0, <6>1 DEF NoteStep, UI, DemuxThread
          <6> QED BY <3>0, <6>2
        <5> QED BY <3>1, <5>1, <5>2, <5>3, NoteWriters
      <4>3. NotesFollow'
        BY StepNotes
      <4> QED BY <3>0, <4>1, <4>2, <4>3 DEF NotesFollow
    <3>2. ASSUME NEW u \in DemuxThread, Demux(u)
          PROVE  pc'[t] # "read" /\ (pc'[t] = "notify" => note'[t].at \in {"test", "push"})
      <4>1. pc' = [pc EXCEPT ![u] = pc'[u]] /\ DemuxGoes(u)
        BY <3>2, DemuxSteps
      <4>2. Next2("demux", "read") \in {"leave", "head"}
        BY <3>0 DEF Next2
      <4>3. CASE pc[u] = "notify" /\ NotifyStep(u)
        <5>1. NoteStep(u)
          BY <1>0, <4>3, NotifyMoves
        <5>2. pc'[u] # "read" /\ (pc'[u] = "notify" => note'[u].at # "done")
          BY <3>0, <4>1, <4>2, <4>3 DEF DemuxGoes
        <5>3. note'[u].at \in {"test", "push", "done"}
          BY <5>1 DEF NoteStep, NotNotifying
        <5>4. t # u => pc'[t] = pc[t] /\ note'[t] = note[t]
          BY <1>0, <4>1, <5>1 DEF NoteStep
        <5> QED BY <3>0, <5>2, <5>3, <5>4
      <4>4. CASE UNCHANGED noteVars /\ pc'[u] \notin {"read", "notify"}
        <5>1. t # u => pc'[t] = pc[t]
          BY <1>0, <4>1
        <5> QED BY <3>0, <4>4, <5>1 DEF noteVars
      <4> QED BY <3>0, <4>1, <4>2, <4>3, <4>4 DEF DemuxGoes
    <3> QED BY <3>1, <3>2
  <2> QED BY <1>4, <2>1, <2>2, RestMoves
<1> QED BY <1>1, <1>2, <1>3, <1>4 DEF RestInv, SeekAt

-----------------------------------------------------------------------------
(* How packets get from the file into the queues.                          *)

(* A queue keeps its packets, loses the first one or is cleared.           *)
Shrinks(d) ==
  \/ packs'[d] \in {packs[d], <<>>}
  \/ packs[d] # <<>> /\ packs'[d] = Tail(packs[d])

(* A call of Notify() begins with the packet that was just read.           *)
Delivers2(t) ==
  pc[t] = "read" /\ Advance /\ ReadResult # NoPacket /\ BeginNotify(t, ReadResult)

(* The steps that hand packets on.                                         *)
LEMMA Deliveries ==
  ASSUME PlayInv, [Next]_vars
  PROVE  \/ UNCHANGED <<note, got>> /\ \A d \in Decoder : Shrinks(d)
         \/ UNCHANGED <<got, pos, epoch>> /\ \E c \in Caller : NotifyStep(c)
         \/ UNCHANGED <<got, packs>> /\ \E t \in DemuxThread : Delivers2(t)
         \/ SeekRead
         \/ SeekRoute
<1>0. /\ packs \in [Decoder -> Seq(Read)] /\ DemuxThread \subseteq Caller /\ UI \in Caller
      /\ \A t \in DecodeThread : Obj(t) \in Decoder
  BY Names DEF PlayInv, DecodersOK
<1>1. UNCHANGED packs => \A d \in Decoder : Shrinks(d)
  BY DEF Shrinks
<1>2. CASE UNCHANGED vars \/ Call
  <2>1. UNCHANGED <<note, got, packs>>
    BY <1>2 DEF vars, Call, noteVars, decodeVars, playerVars
  <2> QED BY <1>1, <2>1
<1>3. CASE Control
  <2>1. CASE Lock \/ Unlock \/ Request \/ Join \/ Await \/ StartPart \/ AudioCall \/ DemuxCall
             \/ SeekNotified \/ SeekRecv
    <3>1. UNCHANGED <<note, got, packs>>
      BY <2>1 DEF Lock, Unlock, Request, Join, Await, StartPart, AudioCall, DemuxCall, SeekNotified,
         SeekRecv, noteVars, decodeVars
    <3> QED BY <1>1, <3>1
  <2>2. CASE DecoderCall
    <3>1. UNCHANGED <<note, got>>
      BY <2>2 DEF DecoderCall, noteVars
    <3>2. \/ UNCHANGED packs
          \/ \E e \in Decoder : packs' = [packs EXCEPT ![e] = <<>>]
      BY <2>2 DEF DecoderCall, ClearQueue, FlushCodec, FreeCodec, OpenCodec
    <3> QED BY <1>0, <1>1, <3>1, <3>2 DEF Shrinks
  <2>3. CASE SeekNotify
    BY <1>0, <2>3 DEF SeekNotify, demuxVars, playerVars
  <2> QED BY <1>3, <2>1, <2>2, <2>3 DEF Control
<1>4. ASSUME NEW t \in DemuxThread, Demux(t)
      PROVE  \/ UNCHANGED <<note, got, packs>>
             \/ UNCHANGED <<got, pos, epoch>> /\ NotifyStep(t)
             \/ UNCHANGED <<got, packs>> /\ Delivers2(t)
  <2>1. UNCHANGED <<got, epoch>>
    BY <1>4, ThreadSteps
  <2>2. DemuxGoes(t)
    BY <1>4, DemuxSteps
  <2> QED BY <2>1, <2>2 DEF DemuxGoes, Delivers2, noteVars
<1>5. ASSUME NEW t \in DecodeThread, Decode(t)
      PROVE  UNCHANGED <<note, got>> /\ \A d \in Decoder : Shrinks(d)
  <2>1. UNCHANGED <<note, got>>
    BY <1>5, ThreadSteps DEF Decode, DecodeLoop, DecodePacket, Show, Output, noteVars
  <2>2. \/ UNCHANGED packs
        \/ packs[Obj(t)] # <<>> /\ packs' = [packs EXCEPT ![Obj(t)] = Tail(@)]
    BY <1>5 DEF Decode, DecodeLoop, DecodePacket, Take, Send, Recv, DropPacket, Show, Output, decodeVars
  <2> QED BY <1>0, <1>1, <2>1, <2>2 DEF Shrinks
<1>6. CASE Play
  <2>1. UNCHANGED <<note, got, packs>>
    BY <1>6 DEF Play, noteVars, playerVars, decodeVars
  <2> QED BY <1>1, <2>1
<1>7. ASSUME NEW t \in SyncThread, Sync(t) PROVE UNCHANGED <<note, got, packs>>
  BY <1>7 DEF Sync, SyncLoop, SyncCopy, noteVars, playerVars, decodeVars
<1> QED BY <1>0, <1>1, <1>2, <1>3, <1>4, <1>5, <1>6, <1>7 DEF Next

-----------------------------------------------------------------------------
(* The order of packets.                                                   *)

InOrder(s) == \A i, j \in DOMAIN s : i < j => Later(s[i], s[j])

(* What Seek() or a demuxer thread reads next.                             *)
NextRead == [n |-> pos, e |-> epoch]

(* Packets of the file have numbers, so that Later() is an order.          *)
LEMMA LaterOrders ==
  ASSUME NEW p, NEW q, NEW r, p.e \in Nat, p.n \in Nat, q.e \in Nat, q.n \in Nat,
         r.e \in Nat, r.n \in Nat, Later(p, q), Later(q, r) \/ q = r
  PROVE  Later(p, r)
  BY DEF Later

(* The demuxer moves on.                                                   *)
LEMMA ReadsLater ==
  ASSUME PlayInv, [Next]_vars, NEW p, p.e \in Nat, p.n \in Nat, Later(p, NextRead)
  PROVE  Later(p, NextRead')
<1>1. epoch \in Nat /\ pos \in Nat
  BY FileLength DEF PlayInv, FileOK
<1> QED BY <1>1, MovesOn DEF Later, NextRead

(* A queue in order stays so when it loses a packet ...                    *)
LEMMA TailInOrder ==
  ASSUME NEW S, NEW s \in Seq(S), s # <<>>, InOrder(s)
  PROVE  InOrder(Tail(s)) /\ {Tail(s)[i] : i \in DOMAIN Tail(s)} \subseteq {s[i] : i \in DOMAIN s}
<1>1. /\ Len(s) \in Nat \ {0} /\ DOMAIN s = 1 .. Len(s) /\ DOMAIN Tail(s) = 1 .. Len(s) - 1
      /\ \A i \in 1 .. Len(s) - 1 : Tail(s)[i] = s[i + 1]
  OBVIOUS
<1>2. \A i \in 1 .. Len(s) - 1 : i \in Nat /\ i + 1 \in 1 .. Len(s)
  BY <1>1
<1>3. \A i, j \in 1 .. Len(s) - 1 : i < j => i + 1 < j + 1
  OBVIOUS
<1> QED BY <1>1, <1>2, <1>3 DEF InOrder

(* ... and when it gets one that is later than all of its own.             *)
LEMMA AppendInOrder ==
  ASSUME NEW S, NEW s \in Seq(S), NEW p \in S, InOrder(s),
         \A q \in {s[i] : i \in DOMAIN s} : Later(q, p)
  PROVE  InOrder(Append(s, p))
<1>1. /\ Len(s) \in Nat /\ DOMAIN s = 1 .. Len(s) /\ DOMAIN Append(s, p) = 1 .. Len(s) + 1
      /\ \A i \in 1 .. Len(s) : Append(s, p)[i] = s[i]
      /\ Append(s, p)[Len(s) + 1] = p
  OBVIOUS
<1>2. \A i, j \in 1 .. Len(s) + 1 : i < j => i \in 1 .. Len(s)
  BY <1>1
<1>3. \A j \in 1 .. Len(s) + 1 : j \in 1 .. Len(s) \/ j = Len(s) + 1
  BY <1>1
<1> QED BY <1>1, <1>2, <1>3 DEF InOrder

(* The queues hold packets of the file in the order of the file; a packet  *)
(* on its way to a queue is later than those in it; and everything was     *)
(* read before what is read next.  When Seek() has a packet of its own, a  *)
(* packet that a demuxer thread still holds is earlier: it goes first,     *)
(* since that thread has the mutex of the subject.                         *)
OrderInv ==
  /\ \A d \in Decoder : \A p \in In(d) : Later(p, NextRead)
  /\ \A c \in Caller : note[c].at # "done" => Later(note[c].pkt, NextRead)
  /\ got # NoPacket => Later(got, NextRead)
  /\ QueueOrder
  /\ \A c \in Caller, i \in {1, 2} :
       note[c].at # "done" /\ i >= note[c].to => \A p \in In(obss[i]) : Later(p, note[c].pkt)
  /\ got # NoPacket => \A d \in Decoder : \A p \in In(d) : Later(p, got)
  /\ \A t \in DemuxThread :
       note[t].at # "done" =>
         /\ note[UI].at # "done" => Later(note[t].pkt, note[UI].pkt)
         /\ got # NoPacket => Later(note[t].pkt, got)

(* What every holder has is a packet with numbers.                         *)
LEMMA Numbers ==
  ASSUME PlayInv
  PROVE  /\ \A p \in Read : p.e \in Nat /\ p.n \in Nat
         /\ NextRead.e \in Nat /\ NextRead.n \in Nat
         /\ obss[1] \in Decoder /\ obss[2] \in Decoder /\ obss[1] # obss[2]
         /\ \A c \in Caller : note[c].at # "done" => note[c].pkt \in Read
<1>1. \A p \in Read : p.e \in Nat /\ p.n \in Nat
  BY FileLength DEF Read
<1>2. NextRead.e \in Nat /\ NextRead.n \in Nat
  BY FileLength DEF NextRead, PlayInv, FileOK
<1> QED BY <1>1, <1>2 DEF obss, Decoder, PlayInv, NotesOK

(* The queues get nothing, or get shorter.                                 *)
LEMMA QueuesShrink ==
  ASSUME PlayInv, QueueOrder, \A d \in Decoder : Shrinks(d)
  PROVE  QueueOrder' /\ \A d \in Decoder : In(d)' \subseteq In(d)
<1>1. SUFFICES ASSUME NEW d \in Decoder
               PROVE  /\ \A i, j \in DOMAIN packs'[d] : i < j => Later(packs'[d][i], packs'[d][j])
                      /\ In(d)' \subseteq In(d)
  BY DEF QueueOrder, Later
<1>2. packs[d] \in Seq(Read) /\ InOrder(packs[d])
  BY DEF PlayInv, DecodersOK, QueueOrder, InOrder
<1>3. In(d) = {packs[d][i] : i \in DOMAIN packs[d]} /\ In(d)' = {packs'[d][i] : i \in DOMAIN packs'[d]}
  BY DEF In
<1>4. CASE packs'[d] = packs[d]
  BY <1>2, <1>3, <1>4 DEF InOrder
<1>5. CASE packs'[d] = <<>>
  BY <1>3, <1>5
<1>6. CASE packs[d] # <<>> /\ packs'[d] = Tail(packs[d])
  BY <1>2, <1>3, <1>6, TailInOrder DEF InOrder
<1> QED BY <1>4, <1>5, <1>6 DEF Shrinks

(* The order of what is on its way, when the queues get no packet and a    *)
(* caller at most goes on.                                                 *)
LEMMA OrderQuiet ==
  ASSUME PlayInv, NotesFollow, OrderInv, [Next]_vars, \A d \in Decoder : Shrinks(d), UNCHANGED got,
         \A c \in Caller :
           \/ note'[c] = note[c]
           \/ note'[c].at = "done"
           \/ note[c].at # "done" /\ note'[c].pkt = note[c].pkt /\ note'[c].to >= note[c].to
  PROVE  OrderInv'
<1>0. QueueOrder' /\ \A d \in Decoder : In(d)' \subseteq In(d)
  BY QueuesShrink DEF OrderInv
<1>1. /\ \A p \in Read : p.e \in Nat /\ p.n \in Nat
      /\ obss[1] \in Decoder /\ obss[2] \in Decoder
      /\ \A c \in Caller : note[c].at # "done" => note[c].pkt \in Read
      /\ \A d \in Decoder : \A p \in In(d) : p \in Read
      /\ got # NoPacket => got \in Read
      /\ UI \in Caller /\ DemuxThread \subseteq Caller
  BY Numbers, HoldersRead, Names
<1>2. \A c \in Caller : note'[c].at # "done" =>
        note[c].at # "done" /\ note'[c].pkt = note[c].pkt
  OBVIOUS
<1>3. \A p \in Read : Later(p, NextRead) => Later(p, NextRead')
  BY <1>1, ReadsLater
<1>4. \A d \in Decoder : \A p \in In(d)' : Later(p, NextRead')
  BY <1>0, <1>1, <1>3 DEF OrderInv
<1>5. \A c \in Caller : note'[c].at # "done" => Later(note'[c].pkt, NextRead')
  BY <1>1, <1>2, <1>3 DEF OrderInv
<1>6. got' # NoPacket => Later(got', NextRead')
  BY <1>1, <1>3 DEF OrderInv
<1>7. ASSUME NEW c \in Caller, NEW i \in {1, 2}, note'[c].at # "done", i >= note'[c].to,
             NEW p \in In(obss[i])'
      PROVE  Later(p, note'[c].pkt)
  <2>1. i >= note[c].to
    <3>1. note[c].to \in Nat
      BY DEF PlayInv, NotesOK, obss
    <3>2. note'[c].to \in Nat => note'[c].to >= note[c].to
      BY <1>7, <3>1
    <3>3. NotesOK'
      BY StepPlays DEF PlayInv
    <3>4. note'[c].to \in Nat
      BY <3>3, <1>7 DEF NotesOK, obss
    <3> QED BY <1>7, <3>1, <3>2, <3>4
  <2>2. p \in In(obss[i])
    BY <1>0, <1>1, <1>7 DEF obss
  <2> QED BY <1>2, <1>7, <2>1, <2>2 DEF OrderInv
<1>8. got' # NoPacket => \A d \in Decoder : \A p \in In(d)' : Later(p, got')
  BY <1>0 DEF OrderInv
<1>9. \A t \in DemuxThread : note'[t].at # "done" =>
        /\ note'[UI].at # "done" => Later(note'[t].pkt, note'[UI].pkt)
        /\ got' # NoPacket => Later(note'[t].pkt, got')
  BY <1>1, <1>2 DEF OrderInv
<1> QED BY <1>0, <1>4, <1>5, <1>6, <1>7, <1>8, <1>9 DEF OrderInv, Later

(* Only one caller at a time hands its packet on; while Seek() does, no    *)
(* demuxer thread is in a call, and of the demuxer only one thread ever is.*)
LEMMA OneCaller ==
  ASSUME PlayInv, NotesFollow, RestInv, NEW c \in Caller, NEW k \in Caller, c # k,
         note[c].at \in {"test", "push"}, note[k].at # "done"
  PROVE  k = UI /\ c \in DemuxThread
<1>0. Caller = {UI} \cup DemuxThread /\ \A t \in DemuxThread : t[2] \in Slot /\ t = <<"demux", t[2]>>
  BY DEF Caller, DemuxThread
<1>1. CASE c = UI
  <2>1. k \in DemuxThread /\ pc[k] = "notify"
    BY <1>0, <1>1 DEF NotesFollow
  <2>2. SeekAt(6, 27)
    BY <1>1 DEF NotesFollow, SeekAt
  <2>3. note[k].at \in {"test", "push"}
    BY <2>1, <2>2 DEF RestInv
  <2>4. notifyMux = k /\ notifyMux = c
    BY <2>3 DEF NotesFollow
  <2> QED BY <2>4
<1>2. CASE c \in DemuxThread /\ k \in DemuxThread
  <2>1. pc[c] = "notify" /\ pc[k] = "notify"
    BY <1>2 DEF NotesFollow
  <2>2. c[2] = k[2]
    BY <1>0, <1>2, <2>1 DEF RestInv, OneThread
  <2> QED BY <1>0, <1>2, <2>2
<1> QED BY <1>0, <1>1, <1>2

(* Update() appends the packet of the call.                                *)
LEMMA OrderPush ==
  ASSUME PlayInv, NotesFollow, RestInv, OrderInv, [Next]_vars, NEW c \in Caller, NoteStep(c),
         note[c].at = "push", note[c].to \in {1, 2},
         packs' = [packs EXCEPT ![obss[note[c].to]] = Append(@, note[c].pkt)],
         note'[c].at = "done" \/ note'[c].to > note[c].to,
         UNCHANGED <<got, pos, epoch>>
  PROVE  OrderInv'
<1> DEFINE p == note[c].pkt
           n == note[c].to
<1>d. PICK d \in Decoder : d = obss[n]
  BY Numbers
<1>0. /\ p \in Read /\ packs \in [Decoder -> Seq(Read)]
      /\ UI \in Caller /\ DemuxThread \subseteq Caller
      /\ note \in [Caller -> [at : NoteLabel, to : 0 .. 2, pkt : Packet]]
      /\ obss[1] \in Decoder /\ obss[2] \in Decoder /\ obss[1] # obss[2]
      /\ UNCHANGED NextRead
  BY Numbers, Names DEF PlayInv, DecodersOK, NotesOK, NoteStep, NextRead, obss
<1>1. Later(p, NextRead) /\ \A q \in In(d) : Later(q, p)
  BY <1>0, <1>d DEF OrderInv
<1>2. /\ packs[d] \in Seq(Read) /\ packs'[d] = Append(packs[d], p)
      /\ \A o \in Decoder \ {d} : packs'[o] = packs[o]
  BY <1>0, <1>d
<1>3. /\ In(d)' = In(d) \cup {p}
      /\ \A o \in Decoder \ {d} : In(o)' = In(o)
  <2>1. \A s \in Seq(Read), q \in Read :
          {Append(s, q)[i] : i \in DOMAIN Append(s, q)} = {s[i] : i \in DOMAIN s} \cup {q}
    BY Appended
  <2>2. packs'[d] = Append(packs[d], note[c].pkt) /\ note[c].pkt \in Read /\ packs[d] \in Seq(Read)
    BY <1>0, <1>2
  <2>4. In(d)' = In(d) \cup {note[c].pkt}
    <3> DEFINE r == Append(packs[d], note[c].pkt)
    <3>1. {r[i] : i \in DOMAIN r} = In(d) \cup {note[c].pkt}
      BY <2>1, <2>2 DEF In
    <3>2. packs'[d] = r
      BY <2>2
    <3> HIDE DEF r
    <3>3. \A q : q \in In(d)' <=> \E i \in DOMAIN r : q = r[i]
      BY <3>2 DEF In
    <3> QED BY <3>1, <3>3
  <2>3. \A o \in Decoder \ {d} : In(o)' = In(o)
    BY <1>2 DEF In
  <2> QED BY <2>4, <2>3
<1>4. \A k \in Caller : k # c => note'[k] = note[k]
  BY DEF NoteStep
<1>5. note'[c].at # "done" => note'[c].pkt = p /\ note'[c].to > n /\ note'[c].to \in n .. 2
  <2>1. CASE note'[c] = NotNotifying
    BY <2>1 DEF NotNotifying
  <2>2. CASE note'[c].pkt = note[c].pkt /\ note'[c].to \in note[c].to .. 2
    BY <2>2
  <2> QED BY <2>1, <2>2 DEF NoteStep
<1> HIDE DEF p, n
<1>6. \A o \in Decoder : \A q \in In(o)' : Later(q, NextRead')
  BY <1>0, <1>1, <1>3 DEF OrderInv
<1>7. \A k \in Caller : note'[k].at # "done" =>
        note[k].at # "done" /\ note'[k].pkt = note[k].pkt
  BY <1>4, <1>5 DEF p
<1>8. \A k \in Caller : note'[k].at # "done" => Later(note'[k].pkt, NextRead')
  BY <1>0, <1>7 DEF OrderInv
<1>9. QueueOrder'
  <2>1. SUFFICES ASSUME NEW o \in Decoder
                 PROVE  \A i, j \in DOMAIN packs'[o] : i < j => Later(packs'[o][i], packs'[o][j])
    BY DEF QueueOrder, Later
  <2>2. InOrder(packs[o])
    BY DEF OrderInv, QueueOrder, InOrder
  <2>3. CASE o # d
    BY <1>2, <2>2, <2>3 DEF InOrder
  <2>4. CASE o = d
    <3>1. \A q \in {packs[d][i] : i \in DOMAIN packs[d]} : Later(q, p)
      BY <1>1 DEF In
    <3>2. InOrder(Append(packs[d], p))
      BY <1>0, <1>2, <2>2, <2>4, <3>1, AppendInOrder
    <3> QED BY <1>2, <2>4, <3>2 DEF InOrder
  <2> QED BY <2>3, <2>4
<1>10. ASSUME NEW k \in Caller, k # c, note[k].at # "done" PROVE k = UI /\ c \in DemuxThread
  BY <1>10, OneCaller
<1>11. ASSUME NEW k \in Caller, NEW i \in {1, 2}, note'[k].at # "done", i >= note'[k].to,
              NEW q \in In(obss[i])'
       PROVE  Later(q, note'[k].pkt)
  <2>1. CASE k = c
    <3>1. note[c].at # "done" /\ n \in {1, 2} /\ i > n /\ i # n
      BY <1>0, <1>5, <1>7, <1>11, <2>1 DEF n
    <3>2. In(obss[i])' = In(obss[i])
      BY <1>0, <1>3, <1>d, <3>1 DEF obss
    <3>3. \A r \in In(obss[i]) : Later(r, note[c].pkt)
      BY <3>1 DEF OrderInv, n
    <3> QED BY <1>7, <1>11, <2>1, <3>2, <3>3
  <2>2. CASE k # c
    <3>1. note'[k] = note[k] /\ k = UI /\ c \in DemuxThread
      BY <1>4, <1>7, <1>10, <1>11, <2>2
    <3>2. Later(p, note[k].pkt)
      BY <1>11, <3>1 DEF OrderInv, p
    <3>3. \A r \in In(obss[i]) : Later(r, note[k].pkt)
      BY <1>11, <3>1 DEF OrderInv
    <3>4. q \in In(obss[i]) \/ q = p
      BY <1>0, <1>3, <1>11
    <3> QED BY <3>1, <3>2, <3>3, <3>4
  <2> QED BY <2>1, <2>2
<1>12. ASSUME got' # NoPacket, NEW o \in Decoder, NEW q \in In(o)' PROVE Later(q, got')
  <2>1. c # UI /\ c \in DemuxThread
    BY <1>12 DEF NotesFollow, Caller
  <2>2. Later(p, got)
    BY <1>12, <2>1 DEF OrderInv, p
  <2>3. q \in In(o) \/ q = p
    BY <1>3, <1>12
  <2> QED BY <1>12, <2>2, <2>3 DEF OrderInv
<1>13. \A t \in DemuxThread : note'[t].at # "done" =>
        /\ note'[UI].at # "done" => Later(note'[t].pkt, note'[UI].pkt)
        /\ got' # NoPacket => Later(note'[t].pkt, got')
  BY <1>0, <1>7 DEF OrderInv
<1>14. got' # NoPacket => Later(got', NextRead')
  BY <1>0 DEF OrderInv
<1> QED BY <1>6, <1>8, <1>9, <1>11, <1>12, <1>13, <1>14 DEF OrderInv, Later

(* Any step of a call.                                                     *)
LEMMA OrderNotify ==
  ASSUME PlayInv, NotesFollow, RestInv, OrderInv, [Next]_vars, NEW c \in Caller, NotifyStep(c),
         UNCHANGED <<got, pos, epoch>>
  PROVE  OrderInv'
<1>1. NoteStep(c)
  BY NotifyMoves
<1>2. CASE UNCHANGED packs
  <2>1. \A d \in Decoder : Shrinks(d)
    BY <1>2 DEF Shrinks
  <2>2. note[c].to \in Nat
    BY DEF PlayInv, NotesOK, obss
  <2>3. \A k \in Caller :
          \/ note'[k] = note[k]
          \/ note'[k].at = "done"
          \/ note[k].at # "done" /\ note'[k].pkt = note[k].pkt /\ note'[k].to >= note[k].to
    BY <1>1, <2>2 DEF NoteStep, NotNotifying
  <2> QED BY <2>1, <2>3, OrderQuiet
<1>3. CASE /\ note[c].at = "push" /\ note[c].to \in {1, 2}
           /\ packs' = [packs EXCEPT ![obss[note[c].to]] = Append(@, note[c].pkt)]
           /\ note'[c].at = "done" \/ note'[c].to > note[c].to
  BY <1>1, <1>3, OrderPush
<1> QED BY <1>1, <1>2, <1>3 DEF NoteStep

(* What is read is what comes next, and it is read before what comes then. *)
LEMMA JustRead ==
  ASSUME PlayInv, Advance, ReadResult # NoPacket
  PROVE  ReadResult = NextRead /\ Later(ReadResult, NextRead') /\ ReadResult \in Read
<1>1. ReadResult = NextRead /\ ~AtEnd
  BY DEF ReadResult, NextRead
<1>2. pos' = pos + 1 /\ epoch' = epoch /\ pos \in Nat
  BY <1>1, FileLength DEF Advance, PlayInv, FileOK
<1>3. ReadResult \in Read
  BY ReadOK DEF PlayInv
<1> QED BY <1>1, <1>2, <1>3 DEF NextRead, Later

(* A demuxer thread begins a call with what it read.                       *)
LEMMA OrderDeliver ==
  ASSUME PlayInv, NotesFollow, RestInv, OrderInv, [Next]_vars, UNCHANGED <<got, packs>>,
         NEW t \in DemuxThread, Delivers2(t)
  PROVE  OrderInv'
<1>0. /\ UI \in Caller /\ DemuxThread \subseteq Caller /\ UI \notin DemuxThread
      /\ note \in [Caller -> [at : NoteLabel, to : 0 .. Len(obss), pkt : Packet]]
      /\ obss[1] \in Decoder /\ obss[2] \in Decoder
      /\ \A d : In(d)' = In(d)
  BY Numbers, Names DEF UI, DemuxThread, PlayInv, NotesOK, In
<1>1. ReadResult = NextRead /\ Later(ReadResult, NextRead')
  BY JustRead DEF Delivers2
<1>2. note' = [note EXCEPT ![t] = [at |-> "lock", to |-> 0, pkt |-> ReadResult]]
  BY DEF Delivers2, BeginNotify, SetNote
<1>3. /\ note'[t].at = "lock" /\ note'[t].pkt = ReadResult
      /\ \A k \in Caller : k # t => note'[k] = note[k]
  BY <1>0, <1>2
<1>4. note[UI].at = "done" /\ got = NoPacket
  BY DEF Delivers2, RestInv, NotesFollow, SeekAt
<1>5. \A p \in Read : Later(p, NextRead) => Later(p, NextRead')
  BY Numbers, ReadsLater
<1>6. \A d \in Decoder : \A p \in In(d)' : Later(p, NextRead) /\ Later(p, NextRead')
  BY <1>0, <1>5, HoldersRead DEF OrderInv
<1>7. \A k \in Caller : note'[k].at # "done" => Later(note'[k].pkt, NextRead')
  <2>1. \A k \in Caller : k # t /\ note[k].at # "done" => Later(note[k].pkt, NextRead')
    BY <1>5, Numbers DEF OrderInv
  <2> QED BY <1>1, <1>3, <2>1
<1>8. QueueOrder'
  BY DEF OrderInv, QueueOrder, Later
<1>9. \A k \in Caller, i \in {1, 2} :
        note'[k].at # "done" /\ i >= note'[k].to => \A p \in In(obss[i])' : Later(p, note'[k].pkt)
  <2>1. \A i \in {1, 2} : \A p \in In(obss[i])' : Later(p, note'[t].pkt)
    BY <1>0, <1>1, <1>3, <1>6
  <2>2. \A k \in Caller, i \in {1, 2} :
          k # t /\ note[k].at # "done" /\ i >= note[k].to => \A p \in In(obss[i])' : Later(p, note[k].pkt)
    BY <1>0 DEF OrderInv
  <2> QED BY <1>3, <2>1, <2>2
<1> QED BY <1>0, <1>3, <1>4, <1>6, <1>7, <1>8, <1>9 DEF OrderInv, Later

(* Seek() reads a packet.                                                  *)
LEMMA OrderSeekRead ==
  ASSUME PlayInv, NotesFollow, OrderInv, [Next]_vars, SeekRead
  PROVE  OrderInv'
<1>0. UNCHANGED <<packs, note>>
  BY DEF SeekRead, decodeVars, noteVars
<1>1. \A d \in Decoder : Shrinks(d)
  BY <1>0 DEF Shrinks
<1>2. CASE UNCHANGED got
  BY <1>0, <1>1, <1>2, OrderQuiet
<1>3. CASE got' # NoPacket /\ ~UNCHANGED got
  <2>1. got' = ReadResult /\ Advance
    BY <1>3 DEF SeekRead
  <2>2. got' = NextRead /\ Later(got', NextRead')
    BY <1>3, <2>1, JustRead
  <2>3. op = "seek" /\ ip = 20
    <3>1. op # "idle" /\ Entry.do = "read" /\ CallOK
      BY DEF SeekRead, At, PlayInv
    <3> QED BY <3>1, OnlySeek
  <2>4. note[UI].at = "done"
    BY <2>3 DEF NotesFollow
  <2>5. \A p \in Read : Later(p, NextRead) => Later(p, NextRead')
    BY Numbers, ReadsLater
  <2>6. \A d \in Decoder : \A p \in In(d)' : p \in In(d) /\ p \in Read
    BY <1>0, HoldersRead DEF In
  <2>7. \A c \in Caller : note'[c].at # "done" => Later(note'[c].pkt, NextRead')
    BY <1>0, <2>5, Numbers DEF OrderInv
  <2>8. QueueOrder'
    BY <1>0 DEF OrderInv, QueueOrder, Later
  <2>9. \A c \in Caller, i \in {1, 2} :
        note'[c].at # "done" /\ i >= note'[c].to => \A p \in In(obss[i])' : Later(p, note'[c].pkt)
    BY <1>0, <2>6, Numbers DEF OrderInv
  <2>10. \A t \in DemuxThread : note'[t].at # "done" => Later(note'[t].pkt, got')
    BY <1>0, <2>2, Names DEF OrderInv
  <2> QED BY <1>0, <2>2, <2>4, <2>5, <2>6, <2>7, <2>8, <2>9, <2>10 DEF OrderInv, Later
<1>4. CASE got' = NoPacket /\ got # NoPacket
  <2>1. op = "seek" /\ ip = 20
    <3>1. op # "idle" /\ Entry.do = "read" /\ CallOK
      BY DEF SeekRead, At, PlayInv
    <3> QED BY <3>1, OnlySeek
  <2> QED BY <1>4, <2>1 DEF NotesFollow
<1> QED BY <1>2, <1>3, <1>4

(* Seek() hands its packet to the observers, to the codec or to nobody.    *)
LEMMA OrderSeekRoute ==
  ASSUME PlayInv, NotesFollow, OrderInv, SeekRoute
  PROVE  OrderInv'
<1>0. /\ UNCHANGED <<packs, pos, epoch>> /\ got # NoPacket /\ got' = NoPacket
      /\ UNCHANGED note \/ BeginNotify(UI, got)
  BY DEF SeekRoute, demuxVars, noteVars
<1>1. /\ UI \in Caller /\ DemuxThread \subseteq Caller /\ UI \notin DemuxThread
      /\ note \in [Caller -> [at : NoteLabel, to : 0 .. Len(obss), pkt : Packet]]
      /\ obss[1] \in Decoder /\ obss[2] \in Decoder
      /\ \A d : In(d)' = In(d) /\ UNCHANGED NextRead
  BY <1>0, Numbers, Names DEF UI, DemuxThread, PlayInv, NotesOK, In, NextRead
<1>2. note[UI].at = "done"
  BY <1>0 DEF NotesFollow
<1>3. /\ note'[UI].at # "done" => note'[UI].pkt = got
      /\ \A k \in Caller : k # UI => note'[k] = note[k]
  BY <1>0, <1>1, <1>2 DEF BeginNotify, SetNote
<1>4. QueueOrder'
  BY <1>0 DEF OrderInv, QueueOrder, Later
<1>5. \A d \in Decoder : \A p \in In(d)' : Later(p, NextRead')
  BY <1>1 DEF OrderInv
<1>6. \A c \in Caller : note'[c].at # "done" => Later(note'[c].pkt, NextRead')
  BY <1>0, <1>1, <1>3 DEF OrderInv
<1>7. \A c \in Caller, i \in {1, 2} :
        note'[c].at # "done" /\ i >= note'[c].to => \A p \in In(obss[i])' : Later(p, note'[c].pkt)
  <2>1. \A i \in {1, 2} : note'[UI].at # "done" => \A p \in In(obss[i])' : Later(p, note'[UI].pkt)
    BY <1>0, <1>1, <1>3 DEF OrderInv
  <2>2. \A c \in Caller, i \in {1, 2} :
          c # UI /\ note[c].at # "done" /\ i >= note[c].to => \A p \in In(obss[i])' : Later(p, note[c].pkt)
    BY <1>1 DEF OrderInv
  <2> QED BY <1>3, <2>1, <2>2
<1>8. \A t \in DemuxThread :
        note'[t].at # "done" => (note'[UI].at # "done" => Later(note'[t].pkt, note'[UI].pkt))
  BY <1>0, <1>1, <1>3 DEF OrderInv
<1> QED BY <1>0, <1>4, <1>5, <1>6, <1>7, <1>8 DEF OrderInv, Later

(* Every step of the player keeps the order.                               *)
LEMMA StepOrder ==
  ASSUME PlayInv, NotesFollow, RestInv, OrderInv, [Next]_vars
  PROVE  OrderInv'
<1>1. CASE UNCHANGED <<note, got>> /\ \A d \in Decoder : Shrinks(d)
  BY <1>1, OrderQuiet
<1>2. CASE UNCHANGED <<got, pos, epoch>> /\ \E c \in Caller : NotifyStep(c)
  BY <1>2, OrderNotify
<1>3. CASE UNCHANGED <<got, packs>> /\ \E t \in DemuxThread : Delivers2(t)
  BY <1>3, OrderDeliver
<1> QED BY <1>1, <1>2, <1>3, OrderSeekRead, OrderSeekRoute, Deliveries

(* At first there is no packet and no call.                                *)
LEMMA InitOrder == Init => NotesFollow /\ RestInv /\ OrderInv
<1> SUFFICES ASSUME Init PROVE NotesFollow /\ RestInv /\ OrderInv
  OBVIOUS
<1>0. /\ \A c \in Caller : note[c] = NotNotifying
      /\ NotNotifying.at = "done" /\ NotNotifying.pkt = NoPacket
      /\ notifyMux = Free /\ Free \notin Caller
      /\ op = "open" /\ got = NoPacket
      /\ \A t \in Thread : pc[t] = "none"
      /\ \A d \in Decoder : packs[d] = <<>>
  BY DEF Init, NoteInit, XThreadInit, DecodeInit, NotNotifying, Free, Caller, UI, DemuxThread
<1>1. /\ UI \in Caller /\ DemuxThread \subseteq Caller /\ DemuxThread \subseteq Thread
      /\ \A k \in Slot : <<"demux", k>> \in Thread
  BY Names DEF Thread
<1>2. NotesFollow
  BY <1>0, <1>1 DEF NotesFollow
<1>3. RestInv
  BY <1>0, <1>1 DEF RestInv, OneThread, SeekAt
<1>4. OrderInv
  <2>1. \A d \in Decoder : In(d) = {}
    BY <1>0 DEF In
  <2>2. QueueOrder
    BY <1>0 DEF QueueOrder
  <2>3. obss[1] \in Decoder /\ obss[2] \in Decoder
    BY DEF obss, Decoder
  <2> QED BY <1>0, <1>1, <2>1, <2>2, <2>3 DEF OrderInv
<1> QED BY <1>2, <1>3, <1>4

(* Packets are queued in the order of the file (IObserver::Notify() keeps  *)
(* its mutex while it waits for room): the demuxer thread and Seek() push  *)
(* into the same queues, and Seek() pushes only when the demuxer thread is *)
(* paused.  That thread may sit in a call of its own then, but it has read *)
(* its packet before Seek() read, and it has the mutex.  A second demuxer  *)
(* thread, or one that Seek() did not wait for, breaks the order.          *)
THEOREM QueuesInOrder ==
  ASSUME "demux" \notin Overlapping, "demux" \notin Slow \/ "seek" \notin Operations
  PROVE  Spec => []QueueOrder
<1> DEFINE Seeks == op = "seek" => "seek" \in Operations
           All == Seeks /\ NotesFollow /\ RestInv /\ OrderInv
<1>1. Init => All
  BY InitOrder DEF Init
<1>2. PlayInv /\ Seeks /\ [Next]_vars => Seeks'
  BY WhoseSeek DEF Call, CallOpen, CallPlayOrPause, CallSeek
<1>3. PlayInv /\ All /\ [Next]_vars => All'
  BY <1>2, StepNotes, StepRest, StepOrder
<1>4. All => QueueOrder
  BY DEF OrderInv
<1> QED BY AlwaysPlays, <1>1, <1>3, <1>4, PTL DEF Spec

-----------------------------------------------------------------------------
(* The audio decoder while Seek() has it paused.                           *)

SoundAt(S) == \E k \in Slot : pc[<<"aDecode", k>>] \in S

(* The audio decoder has one thread.  Once SetPause() has waited for it, it*)
(* takes no packet while Seek() keeps it paused; at most it waits for room *)
(* in the audio output, with the mutex that Clear() takes next.            *)
SoundRests ==
  /\ OneThread("aDecode")
  /\ SoundAt({"take"} \cup Working) => ~isPausing["aDecode"]
  /\ SeekAt(9, 31) => isPause["aDecode"]
  /\ SeekAt(10, 31) => ~SoundAt({"take"})
  /\ SeekAt(17, 31) => ~SoundAt(Working)

(* The thread acknowledges a pause on the way to a packet or out of one.   *)
LEMMA SoundAcknowledges ==
  ASSUME PlayInv, NEW t \in DecodeThread, Decode(t)
  PROVE  /\ pc'[t] = "take" => ~isPausing'[Obj(t)]
         /\ pc'[t] \in Working => UNCHANGED isPausing /\ pc[t] \in {"take"} \cup Working
<1>0. /\ pc \in [Thread -> Label] /\ t \in Thread /\ Obj(t) \in Object
      /\ isPausing \in [Object -> BOOLEAN] /\ "take" \notin Working
      /\ "leave" \notin Working /\ "head" \notin Working /\ "none" \notin Working
  BY Names DEF PlayInv, ThreadsOK, Working
<1>1. Again(t, "take") =>
        /\ pc'[t] = "take" => ~isPausing'[Obj(t)]
        /\ pc'[t] \notin Working
  BY <1>0 DEF Again, GoTo
<1>2. CASE DecodeLoop(t)
  BY <1>0, <1>1, <1>2 DEF DecodeLoop, EnterLoop, PausedLoop, Leave, GoTo
<1>3. CASE Take(t)
  BY <1>0, <1>1, <1>3 DEF Take, GoTo, Working
<1>4. CASE DropPacket(t)
  BY <1>1, <1>4 DEF DropPacket
<1>5. CASE Send(t) \/ Recv(t) \/ Show(t) \/ Output(t)
  BY <1>0, <1>5 DEF Send, Recv, Show, Output, TestOutput, PushFrame, GoTo, flags, Working
<1> QED BY <1>2, <1>3, <1>4, <1>5 DEF Decode, DecodePacket

(* SetPause() waits until the thread is out of its body, or in it and      *)
(* waiting for the audio output.                                           *)
LEMMA SoundAwaited ==
  ASSUME PlayInv, SoundRests, SeekAt(9, 9), "aDecode" \notin Slow, Await, Part = "aDecode"
  PROVE  ~SoundAt({"take"})
<1>0. /\ isPausing \in [Object -> BOOLEAN] /\ "aDecode" \in Object /\ isPause["aDecode"]
      /\ \A k \in Slot : <<"aDecode", k>> \in DecodeThread /\ Obj(<<"aDecode", k>>) = "aDecode"
      /\ \A k \in Slot : pc[<<"aDecode", k>>] \in InLoop \cup {"take"} \cup Working
  BY Names, DecodersAre DEF PlayInv, ThreadsOK, SoundRests, SeekAt
<1>1. SUFFICES ASSUME NEW k \in Slot, pc[<<"aDecode", k>>] = "take" PROVE FALSE
  BY DEF SoundAt
<1>2. \A l \in Slot : l # k => pc[<<"aDecode", l>>] = "none"
  BY <1>1 DEF SoundRests, OneThread
<1>3. ~isPausing["aDecode"]
  BY <1>1 DEF SoundRests, SoundAt
<1>4. ~Absent("aDecode")
  BY <1>1 DEF Absent, Live
<1>5. Waiting("aDecode")
  BY <1>0, <1>3, <1>4 DEF Await
<1>6. PICK l \in Slot : Blocked(<<"aDecode", l>>)
  BY <1>5 DEF Waiting
<1>7. pc[<<"aDecode", l>>] \in {"notify", "deliver", "push", "lock"}
  BY <1>6 DEF Blocked
<1> QED BY <1>1, <1>2, <1>7

(* The entries of Seek() that pause, await, clear and resume it.           *)
LEMMA SoundMoves ==
  ASSUME PlayInv, [Next]_vars
  PROVE  /\ SeekAt(9, 31)' =>
              \/ SeekAt(9, 31)
              \/ SeekAt(8, 8) /\ ~UNCHANGED <<op, ip>> /\ Entry.do = "pause" /\ Part = "aDecode"
         /\ SeekAt(10, 31)' =>
              \/ SeekAt(10, 31)
              \/ SeekAt(9, 9) /\ Await /\ Part = "aDecode"
         /\ SeekAt(17, 31)' =>
              \/ SeekAt(17, 31)
              \/ SeekAt(16, 16) /\ DecoderCall /\ ClearQueue(Part) /\ Part = "aDecode"
         /\ op = "seek" /\ Part = "aDecode" /\ Entry.do \in {"resume", "start"} => ip = 31
<1>0. CallOK
  BY DEF PlayInv
<1>1. op = "seek" => /\ ip \in 1 .. 35 /\ SeekFacts(ip, Entry) /\ SeekPlaces(ip, Entry)
                     /\ Part = Entry.on
  BY <1>0, EntryOK, EntryPlaced DEF Size, Part
<1>2. ScriptStep
  BY ScriptMoves
<1>3. op = "seek" => Entry.do # "start"
  BY <1>1 DEF SeekFacts
<1>4. /\ SeekAt(8, 8) => Entry.do = "pause" /\ Part = "aDecode"
      /\ SeekAt(9, 9) => Entry.do = "await" /\ Part = "aDecode"
  <2>1. SUFFICES ASSUME op = "seek", ip \in {8, 9} PROVE PausePlaces("pause", ip, Entry)
    BY <1>1 DEF PausePlaces, SeekAt
  <2> QED BY <1>1, <2>1 DEF SeekPlaces
<1>5. SeekAt(16, 16) => Entry.do = "clear" /\ Part = "aDecode" /\ Part \in Decoder
  BY <1>1, DecodersAre DEF SeekAt, SeekPlaces
<1>6. op = "seek" /\ Entry.do = "resume" /\ Part = "aDecode" => ip = 31
  <2>1. SUFFICES ASSUME op = "seek", Entry.do = "resume", Part = "aDecode" PROVE ip = 31
    OBVIOUS
  <2>2. ip \in 24 .. 35 /\ PausePlaces("resume", ip - 23, Entry)
    BY <1>1, <2>1 DEF SeekPlaces
  <2>3. ip - 23 = 8
    BY <1>1, <2>1, <2>2 DEF PausePlaces
  <2> QED BY <2>2, <2>3
<1>7. SeekAt(9, 31)' => SeekAt(9, 31) \/ (SeekAt(8, 8) /\ ~UNCHANGED <<op, ip>>)
  BY <1>1, <1>2 DEF ScriptStep, GoesOn, SeekAt, Size
<1>8. SeekAt(10, 31)' => SeekAt(10, 31) \/ (SeekAt(9, 9) /\ ~UNCHANGED <<op, ip>>)
  BY <1>1, <1>2 DEF ScriptStep, GoesOn, SeekAt, Size
<1>9. SeekAt(17, 31)' => SeekAt(17, 31) \/ (SeekAt(16, 16) /\ ~UNCHANGED <<op, ip>>)
  BY <1>1, <1>2 DEF ScriptStep, GoesOn, SeekAt, Size
<1>10. SeekAt(9, 9) /\ ~UNCHANGED <<op, ip>> => Await
  BY <1>4, EntryDone DEF SeekAt
<1>11. SeekAt(16, 16) /\ ~UNCHANGED <<op, ip>> => DecoderCall /\ ClearQueue(Part)
  BY <1>5, EntryDone DEF SeekAt
<1> QED BY <1>3, <1>4, <1>5, <1>6, <1>7, <1>8, <1>9, <1>10, <1>11

(* Every step of the player keeps the audio decoder to it.                 *)
LEMMA StepSound ==
  ASSUME PlayInv, SoundRests, [Next]_vars, "aDecode" \notin Slow \cup Overlapping
  PROVE  SoundRests'
<1>0. /\ "aDecode" \in Object /\ "aDecode" \in Decoder /\ "aDecode" # "demux"
      /\ pc \in [Thread -> Label] /\ DecodeThread \subseteq Thread
      /\ \A k \in Slot : <<"aDecode", k>> \in DecodeThread /\ Obj(<<"aDecode", k>>) = "aDecode"
      /\ \A t \in DecodeThread : Obj(t) = "aDecode" => t = <<"aDecode", t[2]>> /\ t[2] \in Slot
      /\ Working \cap InLoop = {} /\ "take" \notin Working
  BY Names, DecodersAre DEF PlayInv, ThreadsOK, DecodeThread, Obj, Working, InLoop
<1>1. OneThread("aDecode")'
  BY StepOneThread DEF SoundRests
<1>2. ASSUME ~\E t \in DecodeThread : Obj(t) = "aDecode" /\ Decode(t)
      PROVE  /\ SoundAt({"take"})' => SoundAt({"take"})
             /\ SoundAt(Working)' => SoundAt(Working)
             /\ SoundAt({"take"} \cup Working)' => SoundAt({"take"} \cup Working)
             /\ isPausing'["aDecode"] = isPausing["aDecode"]
  <2>1. \A k \in Slot : pc'[<<"aDecode", k>>] \in {pc[<<"aDecode", k>>], "spawned"}
    <3>1. CASE SameThreads("aDecode")
      BY <3>1 DEF SameThreads
    <3>2. CASE StartPart /\ Part = "aDecode"
      <4>1. Spawn("aDecode")
        BY <3>2 DEF StartPart, Start
      <4>2. PICK k \in Slot : pc' = [pc EXCEPT ![<<"aDecode", k>>] = "spawned"]
        BY <1>0, <4>1, SpawnOK
      <4> QED BY <1>0, <4>2
    <3> QED BY <1>0, <1>2, <3>1, <3>2, WhoMoves
  <2>2. isPausing'["aDecode"] = isPausing["aDecode"]
    BY <1>0, <1>2, PausingKept
  <2> QED BY <1>0, <2>1, <2>2 DEF SoundAt, InLoop, Working
<1>3. ASSUME NEW t \in DecodeThread, Obj(t) = "aDecode", Decode(t)
      PROVE  /\ \A k \in Slot : pc'[<<"aDecode", k>>] \in
                  IF k = t[2] THEN {pc'[t]} ELSE {"none"}
             /\ t[2] \in Slot /\ t = <<"aDecode", t[2]>>
             /\ OutsideCodec(t) \/ InsideCodec(t)
             /\ pc'[t] = "take" => ~isPausing'["aDecode"]
             /\ pc'[t] \in Working => UNCHANGED isPausing /\ pc[t] \in {"take"} \cup Working
  <2>1. t = <<"aDecode", t[2]>> /\ t[2] \in Slot
    BY <1>0, <1>3
  <2>2. pc' = [pc EXCEPT ![t] = pc'[t]] /\ (OutsideCodec(t) \/ InsideCodec(t))
    BY <1>3, WorkerSteps
  <2>3. pc[t] # "none"
    BY <2>2 DEF OutsideCodec, InsideCodec
  <2>4. \A k \in Slot : k # t[2] => pc[<<"aDecode", k>>] = "none"
    BY <2>1, <2>3 DEF SoundRests, OneThread
  <2>5. \A k \in Slot : k # t[2] => pc'[<<"aDecode", k>>] = "none"
    BY <1>0, <2>1, <2>2, <2>4
  <2> QED BY <1>3, <2>1, <2>2, <2>5, SoundAcknowledges
<1>4. SoundAt({"take"} \cup Working)' => ~isPausing'["aDecode"]
  <2>1. ASSUME NEW t \in DecodeThread, Obj(t) = "aDecode", Decode(t),
               SoundAt({"take"} \cup Working)'
        PROVE  ~isPausing'["aDecode"]
    <3>1. pc'[t] \in {"take"} \cup Working
      BY <1>0, <1>3, <2>1 DEF SoundAt, Working
    <3>2. CASE pc'[t] \in Working
      BY <1>3, <2>1, <3>2 DEF SoundRests, SoundAt
    <3> QED BY <1>3, <2>1, <3>1, <3>2
  <2> QED BY <1>2, <2>1 DEF SoundRests
<1>5. SeekAt(9, 31)' => isPause'["aDecode"]
  <2>1. SUFFICES ASSUME SeekAt(9, 31)' PROVE isPause'["aDecode"]
    OBVIOUS
  <2>2. CASE SeekAt(8, 8) /\ ~UNCHANGED <<op, ip>> /\ Entry.do = "pause" /\ Part = "aDecode"
    BY <1>0, <2>2, PauseAtEntry DEF SeekAt
  <2>3. CASE SeekAt(9, 31)
    <3>1. isPause["aDecode"]
      BY <2>3 DEF SoundRests
    <3>2. GoesOn /\ Part = "aDecode" /\ Entry.do \in {"resume", "start"} => FALSE
      BY <2>1, <2>3, SoundMoves DEF GoesOn, SeekAt
    <3> QED BY <1>0, <3>1, <3>2, PauseAtEntry
  <2> QED BY <2>1, <2>2, <2>3, SoundMoves
<1>6. SeekAt(10, 31)' => ~SoundAt({"take"})'
  <2>1. SUFFICES ASSUME SeekAt(10, 31)' PROVE ~SoundAt({"take"})'
    OBVIOUS
  <2>2. CASE SeekAt(9, 9) /\ Await /\ Part = "aDecode"
    <3>1. ~SoundAt({"take"}) /\ UNCHANGED pc
      BY <2>2, SoundAwaited DEF Await
    <3> QED BY <3>1 DEF SoundAt
  <2>3. CASE SeekAt(10, 31)
    <3>0. isPause["aDecode"] /\ ~SoundAt({"take"})
      BY <2>3 DEF SoundRests, SeekAt
    <3>1. ASSUME NEW t \in DecodeThread, Obj(t) = "aDecode", Decode(t) PROVE ~SoundAt({"take"})'
      <4>1. pc[t] # "take" /\ Next2("aDecode", "take") # "take"
        BY <1>3, <3>0, <3>1 DEF SoundAt, Next2
      <4>2. pc'[t] # "take"
        BY <1>3, <3>1, <4>1 DEF OutsideCodec, InsideCodec
      <4> QED BY <1>3, <3>1, <4>2 DEF SoundAt
    <3> QED BY <1>2, <3>0, <3>1
  <2> QED BY <2>1, <2>2, <2>3, SoundMoves
<1>7. SeekAt(17, 31)' => ~SoundAt(Working)'
  <2>1. SUFFICES ASSUME SeekAt(17, 31)' PROVE ~SoundAt(Working)'
    OBVIOUS
  <2>2. CASE SeekAt(16, 16) /\ DecoderCall /\ ClearQueue(Part) /\ Part = "aDecode"
    <3>1. packsMutex["aDecode"] = Free /\ UNCHANGED pc
      BY <2>2 DEF ClearQueue, DecoderCall
    <3>2. \A k \in Slot : <<"aDecode", k>> # Free
      BY DEF Free
    <3>3. ~SoundAt(Working)
      <4>1. SUFFICES ASSUME NEW k \in Slot, pc[<<"aDecode", k>>] \in Working PROVE FALSE
        BY DEF SoundAt
      <4>2. packsMutex["aDecode"] = <<"aDecode", k>>
        BY <1>0, <4>1 DEF PlayInv, WorkersOK
      <4> QED BY <3>1, <3>2, <4>2
    <3> QED BY <3>1, <3>3 DEF SoundAt
  <2>3. CASE SeekAt(17, 31)
    <3>0. ~SoundAt({"take"}) /\ ~SoundAt(Working)
      BY <2>3 DEF SoundRests, SeekAt
    <3>1. ASSUME NEW t \in DecodeThread, Obj(t) = "aDecode", Decode(t) PROVE ~SoundAt(Working)'
      <4>1. pc'[t] \notin Working
        BY <1>3, <3>0, <3>1 DEF SoundAt
      <4> QED BY <1>3, <3>1, <4>1 DEF SoundAt, Working
    <3> QED BY <1>2, <3>0, <3>1
  <2> QED BY <2>1, <2>2, <2>3, SoundMoves
<1> QED BY <1>1, <1>4, <1>5, <1>6, <1>7 DEF SoundRests, SeekAt

-----------------------------------------------------------------------------
(* Where packets are, and where they go from there.                        *)

Taken(d) == {pck[t] : t \in {u \in DecodeThread : Obj(u) = d}}
Inside(d) == {codec[d][i] : i \in DOMAIN codec[d]}
Pending == {note[c].pkt : c \in Caller}
Waits == {frames[i] : i \in DOMAIN frames}
Sounds == IF Delivers("aDecode") # {} THEN {frame["aDecode"]} ELSE {}

(* From the queue to the worker, from the worker to the codec, from the    *)
(* codec of the sound through the resampler to the audio output.           *)
FlowsOn ==
  /\ \A d \in Decoder : In(d)' \subseteq In(d) \cup Pending
  /\ \A d \in Decoder : Taken(d)' \subseteq Taken(d) \cup In(d) \cup {NoPacket}
  /\ \A d \in Decoder : Inside(d)' \subseteq Inside(d) \cup Taken(d) \cup {got}
  /\ Sounds' \subseteq Sounds \cup Inside("aDecode")
  /\ Waits' \subseteq Waits \cup Sounds

(* What a sequence has when one is appended or the first one is gone.      *)
LEMMA Elements ==
  ASSUME NEW S, NEW s \in Seq(S)
  PROVE  /\ \A p \in S : {Append(s, p)[i] : i \in DOMAIN Append(s, p)} = {s[i] : i \in DOMAIN s} \cup {p}
         /\ s # <<>> => /\ {Tail(s)[i] : i \in DOMAIN Tail(s)} \subseteq {s[i] : i \in DOMAIN s}
                        /\ Head(s) \in {s[i] : i \in DOMAIN s}
<1>1. \A p \in S : {Append(s, p)[i] : i \in DOMAIN Append(s, p)} = {s[i] : i \in DOMAIN s} \cup {p}
  BY Appended
<1>2. ASSUME s # <<>>
      PROVE  /\ {Tail(s)[i] : i \in DOMAIN Tail(s)} \subseteq {s[i] : i \in DOMAIN s}
             /\ Head(s) \in {s[i] : i \in DOMAIN s}
  <2>1. /\ Len(s) \in Nat \ {0} /\ DOMAIN s = 1 .. Len(s) /\ DOMAIN Tail(s) = 1 .. Len(s) - 1
        /\ \A i \in 1 .. Len(s) - 1 : Tail(s)[i] = s[i + 1]
        /\ Head(s) = s[1]
    BY <1>2
  <2>2. \A i \in 1 .. Len(s) - 1 : i + 1 \in 1 .. Len(s)
    BY <2>1
  <2> QED BY <2>1, <2>2
<1> QED BY <1>1, <1>2

(* The queues.                                                             *)
LEMMA QueuesFlow ==
  ASSUME PlayInv, NotesFollow, [Next]_vars
  PROVE  \A d \in Decoder : In(d)' \subseteq In(d) \cup Pending
<1>0. packs \in [Decoder -> Seq(Read)]
  BY DEF PlayInv, DecodersOK
<1>1. ASSUME NEW d \in Decoder, Shrinks(d) PROVE In(d)' \subseteq In(d)
  <2>1. CASE packs'[d] = packs[d]
    BY <2>1 DEF In
  <2>2. CASE packs'[d] = <<>>
    BY <2>2 DEF In
  <2>3. CASE packs[d] # <<>> /\ packs'[d] = Tail(packs[d])
    <3>1. \A s \in Seq(Read) : s # <<>> => {Tail(s)[i] : i \in DOMAIN Tail(s)} \subseteq {s[i] : i \in DOMAIN s}
      BY Elements
    <3>2. packs[d] \in Seq(Read)
      BY <1>0, <1>1
    <3> QED BY <2>3, <3>1, <3>2 DEF In
  <2> QED BY <1>1, <2>1, <2>2, <2>3 DEF Shrinks
<1>2. ASSUME NEW c \in Caller, NoteStep(c), NEW d \in Decoder
      PROVE  In(d)' \subseteq In(d) \cup Pending
  <2>1. CASE UNCHANGED packs
    BY <2>1 DEF In
  <2>2. CASE note[c].to \in {1, 2} /\ packs' = [packs EXCEPT ![obss[note[c].to]] = Append(@, note[c].pkt)]
    <3>1. note[c].pkt \in Read /\ note[c].pkt \in Pending
      BY <1>2 DEF NoteStep, Pending
    <3>2. packs'[d] = packs[d] \/ packs'[d] = Append(packs[d], note[c].pkt)
      BY <1>0, <1>2, <2>2
    <3>3. \A s \in Seq(Read), p \in Read :
            {Append(s, p)[i] : i \in DOMAIN Append(s, p)} = {s[i] : i \in DOMAIN s} \cup {p}
      BY Elements
    <3>4. packs[d] \in Seq(Read)
      BY <1>0, <1>2
    <3> QED BY <3>1, <3>2, <3>3, <3>4 DEF In
  <2> QED BY <1>2, <2>1, <2>2 DEF NoteStep
<1>3. CASE UNCHANGED packs
  BY <1>3 DEF In
<1>4. SeekRead \/ SeekRoute => UNCHANGED packs
  BY DEF SeekRead, SeekRoute, decodeVars
<1> QED BY <1>1, <1>2, <1>3, <1>4, Deliveries, NotifyMoves

(* The workers.                                                            *)
LEMMA WorkersFlow ==
  ASSUME PlayInv, [Next]_vars
  PROVE  \A d \in Decoder : Taken(d)' \subseteq Taken(d) \cup In(d) \cup {NoPacket}
<1>0. /\ packs \in [Decoder -> Seq(Read)] /\ pck \in [DecodeThread -> Packet]
      /\ \A t \in DecodeThread : Obj(t) \in Decoder
  BY Names DEF PlayInv, DecodersOK
<1>1. \A t \in DecodeThread : pck'[t] \in {pck[t], NoPacket} \cup In(Obj(t))
  <2>1. UNCHANGED vars \/ Call \/ Control \/ Play \/ (\E t \in DemuxThread : Demux(t))
          \/ (\E t \in SyncThread : Sync(t)) => UNCHANGED pck
    BY DEF vars, Call, Control, Lock, Unlock, Request, Join, Await, StartPart, DecoderCall, AudioCall,
       DemuxCall, SeekRead, SeekRoute, SeekNotified, SeekRecv, SeekNotify, NotifyStep, ClearQueue,
       FlushCodec, FreeCodec, OpenCodec, Play, Demux, DemuxLoop, DemuxRead, DemuxNotify,
       Sync, SyncLoop, SyncCopy, decodeVars
  <2>2. ASSUME NEW t \in DecodeThread, Decode(t)
        PROVE  \A u \in DecodeThread : pck'[u] \in {pck[u], NoPacket} \cup In(Obj(u))
    <3>1. CASE Take(t) /\ ~UNCHANGED pck
      <4>1. packs[Obj(t)] # <<>> /\ pck' = [pck EXCEPT ![t] = Head(packs[Obj(t)])]
        BY <3>1 DEF Take
      <4>2. packs[Obj(t)] \in Seq(Read)
        BY <1>0, <2>2
      <4>3. \A s \in Seq(Read) : s # <<>> => Head(s) \in {s[i] : i \in DOMAIN s}
        BY Elements
      <4>4. Head(packs[Obj(t)]) \in In(Obj(t))
        BY <4>1, <4>2, <4>3 DEF In
      <4> QED BY <1>0, <4>1, <4>4
    <3>2. CASE DropPacket(t)
      BY <1>0, <3>2 DEF DropPacket
    <3>3. CASE UNCHANGED pck
      BY <3>3
    <3>4. DecodeLoop(t) \/ Send(t) \/ Recv(t) \/ Show(t) \/ Output(t) => UNCHANGED pck
      BY DEF DecodeLoop, Send, Recv, Show, Output, decodeVars
    <3> QED BY <2>2, <3>1, <3>2, <3>3, <3>4 DEF Decode, DecodePacket
  <2> QED BY <2>1, <2>2 DEF Next
<1> QED BY <1>1 DEF Taken

(* The codecs.                                                             *)
LEMMA CodecsFlow ==
  ASSUME PlayInv, [Next]_vars
  PROVE  \A d \in Decoder : Inside(d)' \subseteq Inside(d) \cup Taken(d) \cup {got}
<1>0. /\ codec \in [Decoder -> Seq(Read)] /\ DecodersOK
      /\ \A t \in DecodeThread : Obj(t) \in Decoder
  BY Names DEF PlayInv, DecodersOK
<1>a. \A s \in Seq(Read), p \in Read :
        {Append(s, p)[i] : i \in DOMAIN Append(s, p)} = {s[i] : i \in DOMAIN s} \cup {p}
  BY Elements
<1>b. \A s \in Seq(Read) :
        s # <<>> => {Tail(s)[i] : i \in DOMAIN Tail(s)} \subseteq {s[i] : i \in DOMAIN s}
  BY Elements
<1>1. ASSUME NEW d \in Decoder,
             \/ codec'[d] \in {codec[d], <<>>}
             \/ codec'[d] = Tail(codec[d]) /\ codec[d] # <<>>
             \/ \E p \in (Taken(d) \cup {got}) \cap Read : codec'[d] = Append(codec[d], p)
      PROVE  Inside(d)' \subseteq Inside(d) \cup Taken(d) \cup {got}
  <2>1. codec[d] \in Seq(Read)
    BY <1>0, <1>1
  <2>2. CASE codec'[d] \in {codec[d], <<>>}
    BY <2>2 DEF Inside
  <2>3. CASE codec'[d] = Tail(codec[d]) /\ codec[d] # <<>>
    BY <1>b, <2>1, <2>3 DEF Inside
  <2>4. ASSUME NEW p \in (Taken(d) \cup {got}) \cap Read, codec'[d] = Append(codec[d], p)
        PROVE  Inside(d)' \subseteq Inside(d) \cup Taken(d) \cup {got}
    BY <1>a, <2>1, <2>4 DEF Inside
  <2> QED BY <1>1, <2>2, <2>3, <2>4
<1>2. ASSUME NEW t \in DecodeThread, Decode(t), NEW d \in Decoder
      PROVE  Inside(d)' \subseteq Inside(d) \cup Taken(d) \cup {got}
  <2>1. CASE d # Obj(t)
    BY <1>1, <1>2, <2>1, WorkerSteps
  <2>2. CASE d = Obj(t) /\ OutsideCodec(t)
    BY <1>1, <1>2, <2>2 DEF OutsideCodec
  <2>3. CASE d = Obj(t) /\ pc[t] = "send" /\ codec'[Obj(t)] = Append(codec[Obj(t)], pck[t])
    <3>1. pck[t] \in Read /\ pck[t] \in Taken(d)
      <4>1. pck[t] # NoPacket
        BY <1>2, <2>3 DEF PlayInv, WorkersOK, Working
      <4> QED BY <1>2, <2>3, <4>1, HoldersRead DEF Taken
    <3> QED BY <1>1, <1>2, <2>3, <3>1
  <2>4. CASE d = Obj(t) /\ HasFrame(Obj(t)) /\ codec'[Obj(t)] = Tail(codec[Obj(t)])
    <3>1. codec[d] # <<>>
      BY <1>0, <2>4, DecodeAssumption DEF HasFrame
    <3> QED BY <1>1, <1>2, <2>4, <3>1
  <2> QED BY <1>2, <2>1, <2>2, <2>3, <2>4, WorkerSteps DEF InsideCodec
<1>3. ASSUME UNCHANGED codec, NEW d \in Decoder
      PROVE  Inside(d)' \subseteq Inside(d) \cup Taken(d) \cup {got}
  BY <1>3 DEF Inside
<1>4. ASSUME SeekRoute, NEW d \in Decoder
      PROVE  Inside(d)' \subseteq Inside(d) \cup Taken(d) \cup {got}
  <2>1. got \in Read
    BY <1>4, HoldersRead DEF SeekRoute
  <2>2. UNCHANGED codec \/ SendPacket("vDecode", got)
    BY <1>4 DEF SeekRoute
  <2>3. codec'[d] = codec[d] \/ codec'[d] = Append(codec[d], got)
    BY <1>0, <2>2 DEF SendPacket
  <2> QED BY <1>1, <2>1, <2>3
<1>5. ASSUME SeekRecv, NEW d \in Decoder
      PROVE  Inside(d)' \subseteq Inside(d) \cup Taken(d) \cup {got}
  <2>1. UNCHANGED codec \/ (HasFrame("vDecode") /\ codec' = [codec EXCEPT !["vDecode"] = Tail(@)])
    BY <1>5 DEF SeekRecv, RecvFrame
  <2>2. HasFrame("vDecode") => codec["vDecode"] # <<>>
    BY <1>0, DecodersAre, DecodeAssumption DEF HasFrame
  <2>3. codec'[d] = codec[d] \/ (codec'[d] = Tail(codec[d]) /\ codec[d] # <<>>)
    BY <1>0, <2>1, <2>2
  <2> QED BY <1>1, <2>3
<1>6. ASSUME DecoderCall, NEW d \in Decoder
      PROVE  Inside(d)' \subseteq Inside(d) \cup Taken(d) \cup {got}
  <2>1. codec'[d] \in {codec[d], <<>>}
    BY <1>0, <1>6 DEF DecoderCall, ClearQueue, FlushCodec, FreeCodec, OpenCodec
  <2> QED BY <1>1, <2>1
<1>7. UNCHANGED vars \/ Call \/ Play \/ (\E t \in DemuxThread : Demux(t))
          \/ (\E t \in SyncThread : Sync(t)) => UNCHANGED codec
  BY DEF vars, Call, Play, Demux, DemuxLoop, DemuxRead, DemuxNotify, NotifyStep,
     Sync, SyncLoop, SyncCopy, decodeVars
<1>8. Control => SeekRoute \/ SeekRecv \/ DecoderCall \/ UNCHANGED codec
  BY DEF Control, Lock, Unlock, Request, Join, Await, StartPart, AudioCall, DemuxCall, SeekRead,
     SeekNotified, SeekNotify, NotifyStep, decodeVars
<1> QED BY <1>2, <1>3, <1>4, <1>5, <1>6, <1>7, <1>8 DEF Next

(* The frame of the sound and the audio output.                            *)
LEMMA SoundsFlow ==
  ASSUME PlayInv, [Next]_vars
  PROVE  /\ Sounds' \subseteq Sounds \cup Inside("aDecode")
         /\ Sounds' \subseteq Sounds \/ (SoundAt({"recv"}) /\ ~isExit["aDecode"])
<1>0. /\ "aDecode" \in Object /\ "aDecode" \in Decoder /\ "aDecode" # "vDecode"
      /\ pc \in [Thread -> Label] /\ DecodersOK /\ "aDecode" # "demux"
      /\ \A k \in Slot : <<"aDecode", k>> \in DecodeThread /\ <<"aDecode", k>> \in Thread
      /\ \A t \in DecodeThread : Obj(t) = "aDecode" => t = <<"aDecode", t[2]>> /\ t[2] \in Slot
  BY Names, DecodersAre DEF PlayInv, ThreadsOK, DecodeThread, Obj
<1>1. SUFFICES ASSUME NEW k \in Delivers("aDecode")'
               PROVE  \/ Delivers("aDecode") # {} /\ frame'["aDecode"] = frame["aDecode"]
                      \/ /\ frame'["aDecode"] \in Inside("aDecode")
                         /\ SoundAt({"recv"}) /\ ~isExit["aDecode"]
  BY DEF Sounds
<1>2. k \in Slot /\ pc'[<<"aDecode", k>>] \in {"deliver", "push"}
  BY DEF Delivers
<1>3. CASE k \in Delivers("aDecode")
  <2>1. CASE UNCHANGED frame
    BY <1>3, <2>1
  <2>2. CASE SeekRecv
    <3>1. frame'["aDecode"] = frame["aDecode"]
      BY <1>0, <2>2, DecodersAre, RecvOK DEF SeekRecv
    <3> QED BY <1>3, <3>1
  <2>3. CASE Entry.do = "free" /\ op = "open" /\ DecoderCall /\ FreeCodec(Part)
    <3>1. ip \in IF Part = "vDecode" THEN {20, 29} ELSE {22, 32}
      BY <2>3, EntryOK DEF PlayInv, OpenFacts, Part
    <3>2. Part # "aDecode"
      BY <1>3, <2>3, <3>1 DEF PlayInv, StoppedOK
    <3>3. frame'["aDecode"] = frame["aDecode"]
      BY <1>0, <2>3, <3>2 DEF FreeCodec, DecodersOK
    <3> QED BY <1>3, <3>3
  <2>4. ASSUME NEW t \in DecodeThread, Recv(t)
        PROVE  Delivers("aDecode") # {} /\ frame'["aDecode"] = frame["aDecode"]
    <3>1. Obj(t) # "aDecode"
      BY <1>3, <2>4, ReceivesAlone DEF Recv
    <3>2. frame'["aDecode"] = frame["aDecode"]
      BY <1>0, <2>4, <3>1, RecvOK, Names DEF Recv
    <3> QED BY <1>3, <3>2
  <2> QED BY <2>1, <2>2, <2>3, <2>4, FrameWriters
<1>4. CASE k \notin Delivers("aDecode")
  <2>0. pc'[<<"aDecode", k>>] # pc[<<"aDecode", k>>]
    BY <1>2, <1>4 DEF Delivers
  <2>1. CASE StartPart /\ Part = "aDecode"
    <3>1. Spawn("aDecode")
      BY <2>1 DEF StartPart, Start
    <3>2. PICK l \in Slot : pc' = [pc EXCEPT ![<<"aDecode", l>>] = "spawned"]
      BY <1>0, <3>1, SpawnOK
    <3> QED BY <1>0, <1>2, <2>0, <3>2
  <2>2. ASSUME NEW t \in DecodeThread, Obj(t) = "aDecode", Decode(t)
        PROVE  \/ Delivers("aDecode") # {} /\ frame'["aDecode"] = frame["aDecode"]
               \/ /\ frame'["aDecode"] \in Inside("aDecode")
                  /\ SoundAt({"recv"}) /\ ~isExit["aDecode"]
    <3>1. pc' = [pc EXCEPT ![t] = pc'[t]] /\ (OutsideCodec(t) \/ InsideCodec(t))
      BY <2>2, WorkerSteps
    <3>2. t = <<"aDecode", k>>
      BY <1>0, <1>2, <2>0, <2>2, <3>1
    <3>3. pc[t] \notin {"deliver", "push"}
      BY <1>2, <1>4, <3>2 DEF Delivers
    <3>4. ~OutsideCodec(t)
      BY <1>2, <3>2, <3>3 DEF OutsideCodec, Next2
    <3>5. /\ pc[t] = "recv" /\ HasFrame("aDecode") /\ ~isExit["aDecode"]
          /\ frame'["aDecode"] = Head(codec["aDecode"])
      BY <1>2, <2>2, <3>1, <3>2, <3>4 DEF InsideCodec
    <3>6. codec["aDecode"] \in Seq(Read) /\ codec["aDecode"] # <<>>
      BY <1>0, <3>5, DecodeAssumption DEF HasFrame, DecodersOK
    <3>7. \A s \in Seq(Read) : s # <<>> => Head(s) \in {s[i] : i \in DOMAIN s}
      BY Elements
    <3>8. frame'["aDecode"] \in Inside("aDecode")
      BY <3>5, <3>6, <3>7 DEF Inside
    <3> QED BY <1>2, <3>2, <3>5, <3>8 DEF SoundAt
  <2> QED BY <1>0, <1>2, <2>0, <2>1, <2>2, WhoMoves DEF SameThreads
<1> QED BY <1>3, <1>4

(* The audio output gets the frame that is being resampled.                *)
LEMMA WaitsFlow ==
  ASSUME PlayInv, [Next]_vars
  PROVE  Waits' \subseteq Waits \cup Sounds
<1>0. frames \in Seq(Read)
  BY DEF PlayInv, AudioOK
<1>a. \A s \in Seq(Read), p \in Read :
        {Append(s, p)[i] : i \in DOMAIN Append(s, p)} = {s[i] : i \in DOMAIN s} \cup {p}
  BY Elements
<1>b. \A s \in Seq(Read) :
        s # <<>> => {Tail(s)[i] : i \in DOMAIN Tail(s)} \subseteq {s[i] : i \in DOMAIN s}
  BY Elements
<1>1. CASE frames' \in {frames, <<>>}
  BY <1>1 DEF Waits
<1>2. CASE frames # <<>> /\ frames' = Tail(frames)
  BY <1>0, <1>b, <1>2 DEF Waits
<1>3. ASSUME NEW t \in DecodeThread, pc[t] = "push", frames' = Append(frames, frame[Obj(t)])
      PROVE  Waits' \subseteq Waits \cup Sounds
  <2>1. Obj(t) = "aDecode" /\ t = <<"aDecode", t[2]>> /\ t[2] \in Slot
    BY <1>3 DEF PlayInv, ThreadsOK, DecodeThread, Obj
  <2>2. Delivers("aDecode") # {}
    BY <1>3, <2>1 DEF Delivers
  <2>3. frame["aDecode"] \in Read /\ frame["aDecode"] \in Sounds
    BY <2>2 DEF PlayInv, SoundOK, Sounds
  <2> QED BY <1>0, <1>a, <1>3, <2>1, <2>3 DEF Waits
<1>4. UNCHANGED vars \/ Call \/ Control => frames' \in {frames, <<>>}
  BY DEF vars, Call, Control, Lock, Unlock, Request, Join, Await, StartPart, DecoderCall, AudioCall,
     DemuxCall, SeekRead, SeekRoute, SeekNotified, SeekRecv, SeekNotify, ClearFrames, DestroyDevice,
     CreateDevice, audioVars
<1>5. (\E t \in DemuxThread : Demux(t)) \/ (\E t \in SyncThread : Sync(t)) => frames' = frames
  BY DEF Demux, DemuxLoop, DemuxRead, DemuxNotify, Sync, SyncLoop, SyncCopy, audioVars
<1>6. Play => frames' = frames \/ (frames # <<>> /\ frames' = Tail(frames))
  BY DEF Play, Callback, Fire, PopFrame, Enqueue, audioVars
<1>7. ASSUME NEW t \in DecodeThread, Decode(t)
      PROVE  frames' = frames \/ (pc[t] = "push" /\ frames' = Append(frames, frame[Obj(t)]))
  BY <1>7 DEF Decode, DecodeLoop, DecodePacket, Show, Output, TestOutput, PushFrame, audioVars
<1> QED BY <1>1, <1>2, <1>3, <1>4, <1>5, <1>6, <1>7 DEF Next

(* All of them.                                                            *)
LEMMA StepFlows ==
  ASSUME PlayInv, NotesFollow, [Next]_vars
  PROVE  FlowsOn
  BY QueuesFlow, WorkersFlow, CodecsFlow, SoundsFlow, WaitsFlow DEF FlowsOn

(* The packets on their way to the queues.                                 *)
LEMMA NotesFlow ==
  ASSUME PlayInv, NotesFollow, [Next]_vars
  PROVE  /\ \A c \in Caller :
              \/ note'[c].pkt \in {note[c].pkt, NoPacket}
              \/ c = UI /\ SeekRoute /\ note'[c].pkt = got
              \/ c \in DemuxThread /\ Delivers2(c) /\ note'[c].pkt = ReadResult
         /\ got' \in {got, NoPacket} \/ (SeekRead /\ got' = ReadResult)
<1>0. /\ note \in [Caller -> [at : NoteLabel, to : 0 .. Len(obss), pkt : Packet]]
      /\ UI \in Caller /\ DemuxThread \subseteq Caller
  BY Names DEF PlayInv, NotesOK
<1>1. CASE UNCHANGED <<note, got>>
  BY <1>1
<1>2. ASSUME UNCHANGED got, NEW c \in Caller, NotifyStep(c)
      PROVE  \A k \in Caller : note'[k].pkt \in {note[k].pkt, NoPacket}
  <2>1. NoteStep(c)
    BY <1>2, NotifyMoves
  <2> QED BY <2>1 DEF NoteStep, NotNotifying
<1>3. ASSUME UNCHANGED got, NEW t \in DemuxThread, Delivers2(t)
      PROVE  /\ note'[t].pkt = ReadResult
             /\ \A k \in Caller : k # t => note'[k] = note[k]
  BY <1>0, <1>3 DEF Delivers2, BeginNotify, SetNote
<1>4. CASE SeekRead
  BY <1>4 DEF SeekRead, noteVars
<1>5. CASE SeekRoute
  <2>1. got' = NoPacket /\ (UNCHANGED note \/ BeginNotify(UI, got))
    BY <1>5 DEF SeekRoute, noteVars
  <2>2. CASE BeginNotify(UI, got)
    BY <1>0, <1>5, <2>1, <2>2 DEF BeginNotify, SetNote
  <2> QED BY <2>1, <2>2
<1> QED BY <1>1, <1>2, <1>3, <1>4, <1>5, Deliveries

-----------------------------------------------------------------------------
(* What is left when Open() or Seek() begins anew.                         *)

(* Where a packet may be.                                                  *)
Around ==
  In("vDecode") \cup In("aDecode") \cup Taken("vDecode") \cup Taken("aDecode")
  \cup Inside("vDecode") \cup Inside("aDecode") \cup Pending \cup Waits \cup Sounds \cup {got}

(* Close() and Seek() clear the queue of the video decoder, its codec, the *)
(* queue and the codec of the audio decoder and the audio output, in this  *)
(* order: the first n are cleared and not yet used for the next part.      *)
Cleared(n) == InOpen(12 + n, 27) \/ SeekAt(14 + n, 19)

(* The demuxer has been told to stop, or to pause and waited for.          *)
Stopping == InOpen(5, 27) \/ SeekAt(6, 19)

(* A packet that the demuxer read before and nothing will clear.           *)
LeftOver(p) ==
  /\ p # NoPacket
  /\ \/ p \in Pending
     \/ Cleared(1) /\ p \in In("vDecode") \cup Taken("vDecode")
     \/ Cleared(2) /\ p \in Inside("vDecode")
     \/ Cleared(3) /\ p \in In("aDecode") \cup Taken("aDecode") \cup Sounds
     \/ Cleared(4) /\ p \in Inside("aDecode")
     \/ Cleared(5) /\ p \in Waits

Old(p) == p.e # 0 /\ p.e < epoch

(* The demuxer has one thread, which begins no new round from the request  *)
(* on until it is started anew, or resumed.                                *)
HeldInv ==
  /\ OneThread("demux")
  /\ InOpen(5, 37) => isExit["demux"]
  /\ SeekAt(5, 27) => isPause["demux"]

(* There is one old packet at most; and while the player stops, one packet *)
(* at most that will be: the one the thread of the demuxer holds, or is    *)
(* still going to read, and wherever it goes from there.                   *)
StaleInv ==
  /\ \A p, q \in Around : Old(p) /\ Old(q) => p = q
  /\ Stopping => \A p, q \in Around : LeftOver(p) /\ LeftOver(q) => p = q
  /\ Stopping /\ (\E t \in DemuxThread : pc[t] = "read") => \A p \in Around : ~LeftOver(p)

(* A packet that is left over is around.                                   *)
LEMMA LeftIsAround == \A p : LeftOver(p) => p \in Around
  BY DEF LeftOver, Around

(* Nothing that is around appears from nowhere.                            *)
LEMMA AroundFlows ==
  ASSUME PlayInv, NotesFollow, [Next]_vars, NEW p \in Around'
  PROVE  p \in Around \/ p = NoPacket \/ p = ReadResult
<1>0. FlowsOn
  BY StepFlows
<1>1. \A d \in Decoder : p \in In(d)' => p \in In(d) \cup Pending
  BY <1>0 DEF FlowsOn
<1>2. \A d \in Decoder : p \in Taken(d)' => p \in Taken(d) \cup In(d) \cup {NoPacket}
  BY <1>0 DEF FlowsOn
<1>3. \A d \in Decoder : p \in Inside(d)' => p \in Inside(d) \cup Taken(d) \cup {got}
  BY <1>0 DEF FlowsOn
<1>4. /\ p \in Sounds' => p \in Sounds \cup Inside("aDecode")
      /\ p \in Waits' => p \in Waits \cup Sounds
  BY <1>0 DEF FlowsOn
<1>5. p \in Pending' => p \in Pending \cup {NoPacket, got, ReadResult}
  BY NotesFlow DEF Pending
<1>6. p = got' => p \in {got, NoPacket, ReadResult}
  BY NotesFlow
<1>7. \/ p \in In("vDecode")' \/ p \in Taken("vDecode")' \/ p \in Inside("vDecode")'
      \/ p \in In("aDecode")' \/ p \in Taken("aDecode")' \/ p \in Inside("aDecode")'
      \/ p \in Pending' \/ p \in Waits' \/ p \in Sounds' \/ p = got'
  BY DEF Around
<1> QED BY <1>1, <1>2, <1>3, <1>4, <1>5, <1>6, <1>7, DecodersAre DEF Around

(* No worker has a packet when its queue is cleared.                       *)
LEMMA ClearedQueue ==
  ASSUME PlayInv, NEW d \in Decoder, DecoderCall, ClearQueue(d)
  PROVE  In(d)' = {} /\ Taken(d)' \subseteq {NoPacket} /\ (d = "aDecode" => Sounds' = {})
<1>0. /\ packs \in [Decoder -> Seq(Read)] /\ packsMutex[d] = Free
      /\ \A t \in DecodeThread : t # Free
      /\ \A k \in Slot : <<d, k>> \in DecodeThread /\ Obj(<<d, k>>) = d
  BY Names DEF PlayInv, DecodersOK, ClearQueue, Free, DecodeThread, Decoder
<1>1. UNCHANGED <<pc, pck>> /\ packs'[d] = <<>>
  BY <1>0 DEF DecoderCall, ClearQueue
<1>2. \A t \in DecodeThread : Obj(t) = d => pck[t] = NoPacket
  BY <1>0 DEF PlayInv, WorkersOK
<1>3. Delivers(d)' = {}
  <2>1. Delivers(d) = {}
    BY <1>0, OneWorker DEF PlayInv
  <2> QED BY <1>1, <2>1 DEF Delivers
<1> QED BY <1>1, <1>2, <1>3 DEF In, Taken, Sounds

(* What the script has just cleared is empty.                              *)
LEMMA ClearMoves ==
  ASSUME PlayInv, [Next]_vars
  PROVE  /\ Cleared(1)' => Cleared(1) \/ (In("vDecode")' = {} /\ Taken("vDecode")' \subseteq {NoPacket})
         /\ Cleared(2)' => Cleared(2) \/ Inside("vDecode")' = {}
         /\ Cleared(3)' => \/ Cleared(3)
                           \/ /\ In("aDecode")' = {} /\ Taken("aDecode")' \subseteq {NoPacket}
                              /\ Sounds' = {}
         /\ Cleared(4)' => Cleared(4) \/ Inside("aDecode")' = {}
         /\ Cleared(5)' => Cleared(5) \/ Waits' = {}
<1>0. CallOK
  BY DEF PlayInv
<1> DEFINE Just(n) == InOpen(11 + n, 11 + n) \/ SeekAt(13 + n, 13 + n)
<1>1. /\ op = "open" => ip \in 1 .. 44 /\ OpenFacts(ip, Entry) /\ OpenPlaces(ip, Entry)
      /\ op = "seek" => ip \in 1 .. 35 /\ SeekPlaces(ip, Entry)
      /\ op # "idle" => Part = Entry.on
  BY <1>0, EntryOK, EntryPlaced DEF Size, Part
<1>2. \A n \in {1, 2, 3, 4, 5} : Cleared(n)' => Cleared(n) \/ (Just(n) /\ op # "idle" /\ ~UNCHANGED <<op, ip>>)
  <2>1. ScriptStep
    BY ScriptMoves
  <2>2. SUFFICES ASSUME NEW n \in {1, 2, 3, 4, 5}, Cleared(n)', ~Cleared(n)
                 PROVE  Just(n) /\ op # "idle" /\ ~UNCHANGED <<op, ip>>
    OBVIOUS
  <2>3. CASE op' = "open"
    BY <1>1, <2>1, <2>2, <2>3 DEF ScriptStep, GoesOn, Cleared, InOpen, SeekAt, Size
  <2>4. CASE op' = "seek"
    BY <1>1, <2>1, <2>2, <2>4 DEF ScriptStep, GoesOn, Cleared, InOpen, SeekAt, Size
  <2> QED BY <2>2, <2>3, <2>4 DEF Cleared, InOpen, SeekAt
<1>3. /\ Just(1) => Entry.do = "clear" /\ Part = "vDecode"
      /\ Just(2) => Entry.do = "flush" /\ Part = "vDecode"
      /\ Just(3) => Entry.do = "clear" /\ Part = "aDecode"
      /\ Just(4) => Entry.do = "flush" /\ Part = "aDecode"
      /\ Just(5) => Entry.do = "clear" /\ Part = "audioPlay"
  <2>1. /\ InOpen(12, 12) => Entry.do = "clear" /\ Part = "vDecode"
        /\ InOpen(13, 13) => Entry.do = "flush" /\ Part = "vDecode"
        /\ InOpen(14, 14) => Entry.do = "clear" /\ Part = "aDecode"
        /\ InOpen(15, 15) => Entry.do = "flush" /\ Part = "aDecode"
        /\ InOpen(16, 16) => Entry.do = "clear" /\ Part = "audioPlay"
    BY <1>1 DEF InOpen, OpenFacts, OpenPlaces, Do
  <2>2. /\ SeekAt(14, 14) => Entry.do = "clear" /\ Part = "vDecode"
        /\ SeekAt(15, 15) => Entry.do = "flush" /\ Part = "vDecode"
        /\ SeekAt(16, 16) => Entry.do = "clear" /\ Part = "aDecode"
        /\ SeekAt(17, 17) => Entry.do = "flush" /\ Part = "aDecode"
        /\ SeekAt(18, 18) => Entry.do = "clear" /\ Part = "audioPlay"
    BY <1>1 DEF SeekAt, SeekPlaces
  <2> QED BY <2>1, <2>2 DEF InOpen, SeekAt
<1> HIDE DEF Just
<1>4. Cleared(1)' => Cleared(1) \/ (In("vDecode")' = {} /\ Taken("vDecode")' \subseteq {NoPacket})
  <2>1. SUFFICES ASSUME Just(1), op # "idle", ~UNCHANGED <<op, ip>>
                 PROVE  In("vDecode")' = {} /\ Taken("vDecode")' \subseteq {NoPacket}
    BY <1>2
  <2> QED BY <1>3, <2>1, DecodersAre, EntryDone, ClearedQueue
<1>5. Cleared(3)' => Cleared(3) \/ (In("aDecode")' = {} /\ Taken("aDecode")' \subseteq {NoPacket} /\ Sounds' = {})
  <2>1. SUFFICES ASSUME Just(3), op # "idle", ~UNCHANGED <<op, ip>>
                 PROVE  In("aDecode")' = {} /\ Taken("aDecode")' \subseteq {NoPacket} /\ Sounds' = {}
    BY <1>2
  <2> QED BY <1>3, <2>1, DecodersAre, EntryDone, ClearedQueue
<1>6. ASSUME NEW d \in Decoder, FlushCodec(d) PROVE Inside(d)' = {}
  <2>1. codec'[d] = <<>>
    BY <1>6 DEF FlushCodec, PlayInv, DecodersOK
  <2> QED BY <2>1 DEF Inside
<1>7. Cleared(2)' => Cleared(2) \/ Inside("vDecode")' = {}
  <2>1. SUFFICES ASSUME Just(2), op # "idle", ~UNCHANGED <<op, ip>> PROVE Inside("vDecode")' = {}
    BY <1>2
  <2> QED BY <1>3, <1>6, <2>1, DecodersAre, EntryDone
<1>8. Cleared(4)' => Cleared(4) \/ Inside("aDecode")' = {}
  <2>1. SUFFICES ASSUME Just(4), op # "idle", ~UNCHANGED <<op, ip>> PROVE Inside("aDecode")' = {}
    BY <1>2
  <2> QED BY <1>3, <1>6, <2>1, DecodersAre, EntryDone
<1>9. Cleared(5)' => Cleared(5) \/ Waits' = {}
  <2>1. SUFFICES ASSUME Just(5), op # "idle", ~UNCHANGED <<op, ip>> PROVE Waits' = {}
    BY <1>2
  <2>2. "audioPlay" \notin Decoder
    BY DEF Decoder
  <2>3. ClearFrames
    BY <1>3, <2>1, <2>2, EntryDone
  <2> QED BY <2>3 DEF ClearFrames, Waits
<1> QED BY <1>4, <1>5, <1>7, <1>8, <1>9

(* Once the decoder of the sound is cleared no new frame comes from it.    *)
LEMMA SoundsQuiet ==
  ASSUME PlayInv, [Next]_vars, op = "seek" => SoundRests, Cleared(3)
  PROVE  Sounds' \subseteq Sounds
<1>1. CASE op = "open"
  <2>1. isExit["aDecode"]
    BY <1>1 DEF PlayInv, StoppedOK, Cleared, InOpen, SeekAt
  <2> QED BY <2>1, SoundsFlow
<1>2. CASE op = "seek"
  <2>1. SeekAt(17, 31)
    BY <1>2 DEF Cleared, InOpen, SeekAt
  <2>2. ~SoundAt({"recv"})
    BY <1>2, <2>1 DEF SoundRests, SoundAt, Working
  <2> QED BY <2>2, SoundsFlow
<1> QED BY <1>1, <1>2 DEF Cleared, InOpen, SeekAt

(* What is left over was left over, or has just been read.                 *)
LEMMA LeftStays ==
  ASSUME PlayInv, NotesFollow, [Next]_vars, op = "seek" => SoundRests, Stopping,
         NEW p, LeftOver(p)'
  PROVE  LeftOver(p) \/ \E t \in DemuxThread : Delivers2(t) /\ p = ReadResult
<1>0. got = NoPacket /\ p # NoPacket /\ "vDecode" \in Decoder /\ "aDecode" \in Decoder
  BY DecodersAre DEF NotesFollow, Stopping, InOpen, SeekAt, LeftOver
<1>1. FlowsOn
  BY StepFlows
<1>2. /\ Cleared(2) => Cleared(1)
      /\ Cleared(4) => Cleared(3)
      /\ Cleared(5) => Cleared(3)
  BY DEF Cleared, InOpen, SeekAt
<1>3. p \in Pending' => p \in Pending \/ \E t \in DemuxThread : Delivers2(t) /\ p = ReadResult
  <2>1. SUFFICES ASSUME NEW c \in Caller, p = note'[c].pkt
                 PROVE  p \in Pending \/ \E t \in DemuxThread : Delivers2(t) /\ p = ReadResult
    BY DEF Pending
  <2>2. ~SeekRoute
    BY <1>0 DEF SeekRoute
  <2> QED BY <1>0, <2>1, <2>2, NotesFlow DEF Pending
<1>4. Cleared(1)' /\ p \in In("vDecode")' \cup Taken("vDecode")' => LeftOver(p)
  <2>1. SUFFICES ASSUME Cleared(1), p \in In("vDecode")' \cup Taken("vDecode")' PROVE LeftOver(p)
    BY <1>0, ClearMoves
  <2>2. p \in In("vDecode") \cup Pending \cup Taken("vDecode")
    BY <1>0, <1>1, <2>1 DEF FlowsOn
  <2> QED BY <1>0, <2>1, <2>2 DEF LeftOver
<1>5. Cleared(2)' /\ p \in Inside("vDecode")' => LeftOver(p)
  <2>1. SUFFICES ASSUME Cleared(2), p \in Inside("vDecode")' PROVE LeftOver(p)
    BY ClearMoves
  <2>2. p \in Inside("vDecode") \cup Taken("vDecode")
    BY <1>0, <1>1, <2>1 DEF FlowsOn
  <2> QED BY <1>0, <1>2, <2>1, <2>2 DEF LeftOver
<1>6. Cleared(3)' /\ p \in In("aDecode")' \cup Taken("aDecode")' \cup Sounds' => LeftOver(p)
  <2>1. SUFFICES ASSUME Cleared(3), p \in In("aDecode")' \cup Taken("aDecode")' \cup Sounds' PROVE LeftOver(p)
    BY <1>0, ClearMoves
  <2>2. p \in In("aDecode") \cup Pending \cup Taken("aDecode") \cup Sounds
    BY <1>0, <1>1, <2>1, SoundsQuiet DEF FlowsOn
  <2> QED BY <1>0, <2>1, <2>2 DEF LeftOver
<1>7. Cleared(4)' /\ p \in Inside("aDecode")' => LeftOver(p)
  <2>1. SUFFICES ASSUME Cleared(4), p \in Inside("aDecode")' PROVE LeftOver(p)
    BY ClearMoves
  <2>2. p \in Inside("aDecode") \cup Taken("aDecode")
    BY <1>0, <1>1, <2>1 DEF FlowsOn
  <2> QED BY <1>0, <1>2, <2>1, <2>2 DEF LeftOver
<1>8. Cleared(5)' /\ p \in Waits' => LeftOver(p)
  <2>1. SUFFICES ASSUME Cleared(5), p \in Waits' PROVE LeftOver(p)
    BY ClearMoves
  <2>2. p \in Waits \cup Sounds
    BY <1>1, <2>1 DEF FlowsOn
  <2> QED BY <1>0, <1>2, <2>1, <2>2 DEF LeftOver
<1>9. p \in Pending => LeftOver(p)
  BY <1>0 DEF LeftOver
<1>10. \/ p \in Pending'
       \/ Cleared(1)' /\ p \in In("vDecode")' \cup Taken("vDecode")'
       \/ Cleared(2)' /\ p \in Inside("vDecode")'
       \/ Cleared(3)' /\ p \in In("aDecode")' \cup Taken("aDecode")' \cup Sounds'
       \/ Cleared(4)' /\ p \in Inside("aDecode")'
       \/ Cleared(5)' /\ p \in Waits'
  BY DEF LeftOver
<1> QED BY <1>3, <1>4, <1>5, <1>6, <1>7, <1>8, <1>9, <1>10

(* When the demuxer has just been stopped or paused, nothing is cleared.   *)
LEMMA StoppingBegins ==
  ASSUME PlayInv, [Next]_vars, Stopping', ~Stopping
  PROVE  /\ InOpen(5, 5)' \/ SeekAt(6, 6)'
         /\ \A p : LeftOver(p)' => p \in Pending'
<1>0. /\ op = "open" => ip \in 1 .. 44
      /\ op = "seek" => ip \in 1 .. 35
  BY EntryOK DEF PlayInv, Size
<1>1. ScriptStep
  BY ScriptMoves
<1>2. InOpen(5, 5)' \/ SeekAt(6, 6)'
  <2>1. CASE op' = "open"
    BY <1>0, <1>1, <2>1 DEF ScriptStep, GoesOn, Stopping, InOpen, SeekAt, Size
  <2>2. CASE op' = "seek"
    BY <1>0, <1>1, <2>2 DEF ScriptStep, GoesOn, Stopping, InOpen, SeekAt, Size
  <2> QED BY <2>1, <2>2 DEF Stopping, InOpen, SeekAt
<1>3. \A n \in {1, 2, 3, 4, 5} : ~Cleared(n)'
  BY <1>2 DEF Cleared, InOpen, SeekAt
<1> QED BY <1>2, <1>3 DEF LeftOver

(* One thread has one packet, or none when it is about to read.            *)
LEMMA OnePending ==
  ASSUME NotesFollow', OneThread("demux")', ~SeekAt(21, 21)'
  PROVE  /\ \A p, q \in Pending' : p # NoPacket /\ q # NoPacket => p = q
         /\ \A t \in DemuxThread : pc'[t] = "read" => \A p \in Pending' : p = NoPacket
<1>0. /\ \A t \in DemuxThread : t = <<"demux", t[2]>> /\ t[2] \in Slot
      /\ Caller = {UI} \cup DemuxThread
  BY DEF DemuxThread, Caller
<1>1. note'[UI].at = "done"
  BY DEF NotesFollow, SeekAt
<1>2. \A c \in Caller : note'[c].pkt # NoPacket => c \in DemuxThread /\ pc'[c] = "notify"
  BY <1>0, <1>1 DEF NotesFollow
<1>3. \A t, u \in DemuxThread : pc'[t] # "none" /\ pc'[u] # "none" => t = u
  <2>1. SUFFICES ASSUME NEW t \in DemuxThread, NEW u \in DemuxThread,
                        pc'[t] # "none", pc'[u] # "none"
                 PROVE  t = u
    OBVIOUS
  <2>2. t[2] = u[2]
    BY <1>0, <2>1 DEF OneThread
  <2> QED BY <1>0, <2>2
<1>4. \A p \in Pending' : \E c \in Caller : p = note'[c].pkt
  BY DEF Pending
<1> QED BY <1>2, <1>3, <1>4

(* The demuxer stays told to stop.                                         *)
LEMMA StepToldToStop ==
  ASSUME PlayInv, [Next]_vars, InOpen(5, 37) => isExit["demux"]
  PROVE  InOpen(5, 37)' => isExit'["demux"]
<1>0. /\ CallOK /\ "demux" \in Object /\ isExit \in [Object -> BOOLEAN]
      /\ "demux" # "audioPlay"
  BY Names DEF PlayInv, ThreadsOK
<1>1. op = "open" => /\ ip \in 1 .. 44 /\ OpenFacts(ip, Entry) /\ OpenPlaces(ip, Entry)
                     /\ Part = Entry.on
  BY <1>0, EntryOK, EntryPlaced DEF Size, Part
<1>2. SUFFICES ASSUME InOpen(5, 37)' PROVE isExit'["demux"]
  OBVIOUS
<1>3. InOpen(5, 37) \/ (InOpen(4, 4) /\ ~UNCHANGED <<op, ip>>)
  BY <1>1, <1>2, ScriptMoves DEF ScriptStep, GoesOn, InOpen, Size
<1>4. CASE InOpen(4, 4) /\ ~UNCHANGED <<op, ip>>
  <2>1. op # "idle" /\ Entry.do = "exit" /\ Part = "demux"
    BY <1>1, <1>4 DEF InOpen, OpenPlaces
  <2>2. RaiseExit("demux")
    BY <1>4, <2>1, EntryDone
  <2> QED BY <1>0, <2>2 DEF RaiseExit
<1>5. CASE InOpen(5, 37)
  <2>1. GoesOn => ip # 37
    BY <1>2, <1>5 DEF GoesOn, InOpen
  <2>2. GoesOn => ~(Entry.do = "start" /\ Part = "demux")
    BY <1>1, <1>5, <2>1 DEF InOpen, OpenFacts
  <2> QED BY <1>0, <1>5, <2>2, ExitWriters
<1> QED BY <1>3, <1>4, <1>5

(* A thread that was told to stop, or to pause, begins no new round.       *)
LEMMA StoppedReads ==
  ASSUME PlayInv, [Next]_vars, isExit["demux"] \/ isPause["demux"],
         NEW t \in DemuxThread, pc'[t] = "read"
  PROVE  pc[t] = "read" /\ ~Demux(t)
<1>0. pc \in [Thread -> Label] /\ DemuxThread \subseteq Thread
  BY Names DEF PlayInv, ThreadsOK
<1>1. ASSUME NEW u \in DemuxThread, Demux(u) PROVE pc[t] = "read" /\ u # t
  <2>1. pc' = [pc EXCEPT ![u] = pc'[u]] /\ DemuxGoes(u)
    BY <1>1, DemuxSteps
  <2>2. pc'[u] # "read"
    BY <2>1 DEF DemuxGoes, Next2
  <2>3. t # u
    BY <2>2
  <2>4. pc'[t] = pc[t]
    BY <1>0, <2>1, <2>3
  <2> QED BY <2>3, <2>4
<1>2. CASE ~\E u \in DemuxThread : Demux(u)
  BY <1>2, NotifyStays
<1> QED BY <1>1, <1>2

(* While the player stops, one packet at most will be left.                *)
LEMMA StepLeft ==
  ASSUME PlayInv, NotesFollow, HeldInv, StaleInv, [Next]_vars, NotesFollow', OneThread("demux")',
         op = "seek" => SoundRests
  PROVE  /\ Stopping' => \A p, q \in Around' : LeftOver(p)' /\ LeftOver(q)' => p = q
         /\ Stopping' /\ (\E t \in DemuxThread : pc'[t] = "read") =>
              \A p \in Around' : ~LeftOver(p)'
<1>0. /\ \A t \in DemuxThread : t = <<"demux", t[2]>> /\ t[2] \in Slot
      /\ DemuxThread \subseteq Caller
      /\ note \in [Caller -> [at : NoteLabel, to : 0 .. Len(obss), pkt : Packet]]
  BY Names DEF DemuxThread, PlayInv, NotesOK
<1>1. CASE Stopping' /\ ~Stopping
  <2>1. ~SeekAt(21, 21)'
    BY <1>1 DEF Stopping, InOpen, SeekAt
  <2>2. \A p : LeftOver(p)' => p \in Pending' /\ p # NoPacket
    BY <1>1, StoppingBegins DEF LeftOver
  <2> QED BY <2>1, <2>2, OnePending
<1>2. CASE Stopping' /\ Stopping
  <2>1. ASSUME NEW t \in DemuxThread, Delivers2(t)
        PROVE  \A p : ~LeftOver(p)
    <3>1. pc[t] = "read"
      BY <2>1 DEF Delivers2
    <3> QED BY <1>2, <3>1, LeftIsAround DEF StaleInv
  <2>2. \A p : LeftOver(p)' => LeftOver(p) \/ \E t \in DemuxThread : Delivers2(t) /\ p = ReadResult
    BY <1>2, LeftStays
  <2>3. \A p, q : LeftOver(p)' /\ LeftOver(q)' => p = q
    <3>1. SUFFICES ASSUME NEW p, NEW q, LeftOver(p)', LeftOver(q)' PROVE p = q
      OBVIOUS
    <3>2. CASE \E t \in DemuxThread : Delivers2(t)
      BY <2>1, <2>2, <3>1, <3>2
    <3>3. CASE ~\E t \in DemuxThread : Delivers2(t)
      BY <1>2, <2>2, <3>1, <3>3, LeftIsAround DEF StaleInv
    <3> QED BY <3>2, <3>3
  <2>4. ASSUME NEW t \in DemuxThread, pc'[t] = "read", NEW p, LeftOver(p)'
        PROVE  FALSE
    <3>1. isExit["demux"] \/ isPause["demux"]
      BY <1>2 DEF HeldInv, Stopping, InOpen, SeekAt
    <3>2. pc[t] = "read" /\ ~Demux(t)
      BY <2>4, <3>1, StoppedReads
    <3>3. ~LeftOver(p)
      BY <1>2, <3>2, LeftIsAround DEF StaleInv
    <3>4. PICK u \in DemuxThread : Delivers2(u)
      BY <2>2, <2>4, <3>3
    <3>5. u = t
      <4>1. pc[u] = "read"
        BY <3>4 DEF Delivers2
      <4>2. u[2] = t[2]
        BY <1>0, <3>2, <4>1 DEF HeldInv, OneThread
      <4> QED BY <1>0, <4>2
    <3>6. note'[t].at = "lock"
      BY <1>0, <3>4, <3>5 DEF Delivers2, BeginNotify, SetNote
    <3> QED BY <2>4, <3>6 DEF NotesFollow
  <2> QED BY <2>3, <2>4
<1> QED BY <1>1, <1>2

(* The epoch moves only when Open() or Seek() has cleared everything.      *)
LEMMA EpochMoves ==
  ASSUME PlayInv, [Next]_vars, epoch' # epoch
  PROVE  DemuxCall /\ Stopping /\ (\A n \in {1, 2, 3, 4, 5} : Cleared(n))
<1>1. DemuxCall
  BY Inputs DEF demuxVars, Advance
<1>2. CASE At("close") /\ CloseInput
  BY <1>2 DEF CloseInput
<1>3. CASE At("seek")
  <2>1. op # "idle" /\ CallOK /\ Entry.do = "seek"
    BY <1>3 DEF At, PlayInv
  <2>2. op = "seek" /\ ip = 19
    BY <2>1, OnlySeek, EntryPlaced DEF SeekPlaces
  <2> QED BY <1>1, <2>2 DEF Stopping, Cleared, SeekAt
<1>4. CASE At("open") /\ Part = "demux"
  <2>1. op = "open"
    BY <1>4, EntryOK, Scripts DEF SeekFacts, PauseFacts, PlayInv, At
  <2>2. ip = 27
    BY <1>4, <2>1, EntryOK DEF OpenFacts, Part, PlayInv, At
  <2> QED BY <1>1, <2>1, <2>2 DEF Stopping, Cleared, InOpen
<1> QED BY <1>1, <1>2, <1>3, <1>4 DEF DemuxCall

(* What is old was old, or is left over.                                   *)
LEMMA StepOld ==
  ASSUME PlayInv, NotesFollow, StaleInv, [Next]_vars
  PROVE  \A p, q \in Around' : Old(p)' /\ Old(q)' => p = q
<1>0. NoPacket.e = 0
  BY DEF NoPacket
<1>1. CASE epoch' = epoch
  <2>1. \A p \in Around' : Old(p)' => p \in Around /\ Old(p)
    <3>1. SUFFICES ASSUME NEW p \in Around', Old(p)' PROVE p \in Around /\ Old(p)
      OBVIOUS
    <3>2. Old(p) /\ p # NoPacket
      BY <1>0, <1>1, <3>1 DEF Old
    <3>3. ReadResult # p
      <4>1. ReadResult = NoPacket \/ ReadResult.e = epoch
        BY DEF ReadResult
      <4>2. epoch \in Nat
        BY DEF PlayInv, FileOK
      <4> QED BY <3>2, <4>1, <4>2 DEF Old
    <3> QED BY <3>1, <3>2, <3>3, AroundFlows
  <2> QED BY <2>1 DEF StaleInv
<1>2. CASE epoch' # epoch
  <2>1. DemuxCall /\ Stopping /\ \A n \in {1, 2, 3, 4, 5} : Cleared(n)
    BY <1>2, EpochMoves
  <2>2. UNCHANGED <<pc, packs, pck, codec, frame, note, frames, got>>
    BY <2>1 DEF DemuxCall, decodeVars, noteVars, audioVars
  <2>3. got = NoPacket
    BY <2>1 DEF NotesFollow, Stopping, InOpen, SeekAt
  <2>4. \A p : p \in Around' => p \in Around
    BY <2>2 DEF Around, In, Taken, Inside, Pending, Waits, Sounds, Delivers
  <2>5. \A p \in Around : p # NoPacket => LeftOver(p)
    BY <2>1, <2>3 DEF Around, LeftOver
  <2>6. \A p : Old(p)' => p # NoPacket
    BY <1>0 DEF Old
  <2> QED BY <2>1, <2>4, <2>5, <2>6 DEF StaleInv
<1> QED BY <1>1, <1>2

(* Every step keeps one old packet at most.                                *)
LEMMA StepStale ==
  ASSUME PlayInv, NotesFollow, HeldInv, StaleInv, [Next]_vars, "demux" \notin Overlapping,
         op = "seek" => SoundRests
  PROVE  HeldInv' /\ StaleInv'
<1>1. NotesFollow'
  BY StepNotes
<1>2. OneThread("demux")'
  BY StepOneThread DEF HeldInv
<1>3. HeldInv'
  BY <1>2, StepToldToStop, StepRequested DEF HeldInv
<1>4. /\ Stopping' => \A p, q \in Around' : LeftOver(p)' /\ LeftOver(q)' => p = q
      /\ Stopping' /\ (\E t \in DemuxThread : pc'[t] = "read") =>
           \A p \in Around' : ~LeftOver(p)'
  BY <1>1, <1>2, StepLeft
<1> QED BY <1>3, <1>4, StepOld DEF StaleInv

(* At first there is nothing.                                              *)
LEMMA InitStale == Init => HeldInv /\ StaleInv /\ SoundRests
<1> SUFFICES ASSUME Init PROVE HeldInv /\ StaleInv /\ SoundRests
  OBVIOUS
<1>0. /\ op = "open" /\ ip = 1 /\ epoch = 0
      /\ \A t \in Thread : pc[t] = "none"
  BY DEF Init, XThreadInit, DemuxInit
<1>a. \A k \in Slot : <<"aDecode", k>> \in Thread /\ <<"demux", k>> \in Thread
  BY Names DEF Thread, Decoder
<1>1. SoundRests
  BY <1>0, <1>a DEF SoundRests, OneThread, SoundAt, SeekAt, Working
<1>2. ~Stopping /\ ~InOpen(5, 37) /\ ~SeekAt(5, 27)
  BY <1>0 DEF Stopping, InOpen, SeekAt
<1>3. \A p \in Around : ~Old(p)
  <2>1. /\ \A d \in Decoder : In(d) = {} /\ Inside(d) = {} /\ Taken(d) \subseteq {NoPacket}
        /\ Pending \subseteq {NoPacket} /\ Waits = {} /\ got = NoPacket /\ Sounds \subseteq {NoPacket}
    BY DEF Init, DecodeInit, NoteInit, AudioInit, NotNotifying, In, Inside, Taken, Pending, Waits,
       Sounds, Decoder
  <2>2. \A p \in Around : p = NoPacket
    BY <2>1, DecodersAre DEF Around
  <2> QED BY <2>2 DEF Old, NoPacket
<1>4. HeldInv
  BY <1>0, <1>a, <1>2 DEF HeldInv, OneThread
<1> QED BY <1>1, <1>2, <1>3, <1>4 DEF StaleInv

(* The stale packets are the old ones, but for the frame of the sound.     *)
LEMMA OldIsStale ==
  ASSUME StaleInv
  PROVE  AtMostOneStale
<1>1. \A p \in InPipeline : p \in Around
  <2>1. SUFFICES ASSUME NEW p \in InPipeline PROVE p \in Around
    OBVIOUS
  <2>2. CASE \E d \in Decoder : p \in In(d) \cup Inside(d)
    BY <2>2 DEF Around, Decoder
  <2>3. CASE \E t \in DecodeThread : p = pck[t]
    <3>1. \A t \in DecodeThread : Obj(t) \in Decoder
      BY Names
    <3>2. \E d \in Decoder : p \in Taken(d)
      BY <2>3, <3>1 DEF Taken
    <3> QED BY <3>2 DEF Around, Decoder
  <2>4. CASE p \in Pending \cup Waits
    BY <2>4 DEF Around
  <2>5. \/ \E d \in Decoder : p \in In(d) \cup Inside(d)
        \/ \E t \in DecodeThread : p = pck[t]
        \/ p \in Pending \cup Waits
    BY <2>1 DEF InPipeline, In, Inside, Pending, Waits
  <2> QED BY <2>2, <2>3, <2>4, <2>5
<1>2. \A p \in Stale : p \in Around /\ Old(p)
  BY <1>1 DEF Stale, Old
<1>3. CASE Stale = {}
  BY <1>3, FS_EmptySet DEF AtMostOneStale
<1>4. ASSUME NEW p \in Stale PROVE AtMostOneStale
  <2>1. Stale = {p}
    BY <1>2, <1>4 DEF StaleInv
  <2>2. Cardinality(Stale) = 1
    BY <2>1, FS_Singleton
  <2> QED BY <2>2 DEF AtMostOneStale
<1> QED BY <1>3, <1>4

(* At most one packet of an earlier file or of before a seek is left in    *)
(* the pipeline (IPlayer::Open() and Seek()): the demuxer that was told to *)
(* stop or to pause still delivers the packet it holds, whether the wait   *)
(* for it ran out or not, and every queue and codec after it has been      *)
(* cleared.  A second demuxer thread holds a packet of its own, and a      *)
(* worker of the sound that Seek() did not wait for still has its frames.  *)
THEOREM OneStalePacket ==
  ASSUME "demux" \notin Overlapping,
         "seek" \in Operations => "aDecode" \notin Slow \cup Overlapping
  PROVE  Spec => []AtMostOneStale
<1> DEFINE Seeks == op = "seek" => "seek" \in Operations
           All == /\ Seeks
                  /\ NotesFollow
                  /\ HeldInv
                  /\ "seek" \in Operations => SoundRests
                  /\ StaleInv
<1>1. Init => All
  BY InitOrder, InitStale DEF Init
<1>2. PlayInv /\ Seeks /\ [Next]_vars => Seeks'
  BY WhoseSeek DEF Call, CallOpen, CallPlayOrPause, CallSeek
<1>3. PlayInv /\ ("seek" \in Operations => SoundRests) /\ [Next]_vars => ("seek" \in Operations => SoundRests')
  BY StepSound
<1>4. PlayInv /\ All /\ [Next]_vars => All'
  BY <1>2, <1>3, StepNotes, StepStale
<1>5. All => AtMostOneStale
  BY OldIsStale
<1> QED BY AlwaysPlays, <1>1, <1>4, <1>5, PTL DEF Spec
=============================================================================
