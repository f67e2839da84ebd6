--------------------------- MODULE PlaybackProofs ---------------------------
(***************************************************************************)
(* The player implements Playback: while one file is played, for every     *)
(* file, every bound of the queues and any pauses, the frames come out in  *)
(* the order of the file with none missing, and the video waits for the    *)
(* sound.                                                                  *)
(*                                                                         *)
(* LineInv says where the packets of each stream are, in one line from the *)
(* output back to the demuxer, and what the clocks show of it.  Begun says *)
(* what the entries of OpenScript promise of a stream that starts: it is   *)
(* what keeps the first video packets from being refused.  With PlayInv,   *)
(* OwnInv and NotesFollow both are inductive.                              *)
(***************************************************************************)
EXTENDS OwnerProofs

-----------------------------------------------------------------------------
(* The packets of one stream, in the order of the file.                    *)

(* The packets of one stream on their way, by their numbers: o came out    *)
(* last, F wait in front of the output, the worker has H in its hands, Q   *)
(* are queued, n is offered to the decoders (0: none), and the demuxer is  *)
(* at q.  They are in the order of the file, and from the first of them on *)
(* none is missing; of the video none is missing at all.                   *)
Line(kind, o, F, H, Q, n, q) ==
  /\ \A x \in F \cup H \cup Q : x \in 1 .. q - 1 /\ File[x].kind = kind /\ o < x
  /\ o # 0 => o \in 1 .. q - 1 /\ File[o].kind = kind
  /\ \A x \in F, y \in H \cup Q : x < y
  /\ \A x \in H, y \in Q : x < y
  /\ n # 0 => n = q - 1 /\ o < n /\ \A x \in F \cup H \cup Q : x < n
  /\ \A m \in {o} \cup F \cup H \cup Q, k \in 1 .. q - 1 :
       (m # 0 \/ kind = "video") /\ m < k /\ File[k].kind = kind => k \in F \cup H \cup Q \cup {n}

(* The demuxer reads on.                                                   *)
LEMMA LineReads ==
  ASSUME NEW kind, NEW o \in Nat, NEW F, NEW H, NEW Q, NEW q \in Nat \ {0}, NEW n \in {0, q},
         Line(kind, o, F, H, Q, 0, q), n = 0 => File[q].kind # kind
  PROVE  Line(kind, o, F, H, Q, n, q + 1)
<1>1. 1 .. q + 1 - 1 = (1 .. q - 1) \cup {q}
  OBVIOUS
<1> QED BY <1>1 DEF Line

(* The packet on offer is queued, or is not of this stream, or is refused  *)
(* before anything has been accepted.                                      *)
LEMMA LineOffers ==
  ASSUME NEW kind, NEW o \in Nat, NEW F, NEW H, NEW Q, NEW q \in Nat, NEW n \in Nat \ {0},
         Line(kind, o, F, H, Q, n, q)
  PROVE  /\ File[n].kind = kind => Line(kind, o, F, H, Q \cup {n}, 0, q)
         /\ File[n].kind # kind => Line(kind, o, F, H, Q, 0, q)
         /\ kind # "video" /\ o = 0 /\ F = {} /\ H = {} /\ Q = {} => Line(kind, o, F, H, Q, 0, q)
  BY DEF Line

(* The worker takes the first packet of the queue.                         *)
LEMMA LineTaken ==
  ASSUME NEW kind, NEW o \in Nat, NEW F, NEW Q, NEW h \in Nat, NEW q \in Nat, NEW n \in Nat,
         Line(kind, o, F, {}, Q \cup {h}, n, q), \A x \in Q : h < x
  PROVE  /\ Line(kind, o, F, {h}, Q, n, q)
         /\ kind = "video" /\ F = {} =>
              /\ h \in 1 .. q - 1 /\ File[h].kind = "video" /\ o < h
              /\ \A k \in 1 .. Len(File) : File[k].kind = "video" /\ o < k => h <= k
  BY FileLength DEF Line

(* It hands it on: to the view, to the frames in front of the output, or   *)
(* to nobody as long as nothing has come out.                              *)
LEMMA LineHanded ==
  ASSUME NEW kind, NEW o \in Nat, NEW F, NEW Q, NEW h \in Nat, NEW q \in Nat, NEW n \in Nat,
         Line(kind, o, F, {h}, Q, n, q)
  PROVE  /\ F = {} => Line(kind, h, F, {}, Q, n, q)
         /\ Line(kind, o, F \cup {h}, {}, Q, n, q)
         /\ kind # "video" /\ o = 0 /\ F = {} => Line(kind, o, F, {}, Q, n, q)
  BY DEF Line

(* The first frame in front of the output comes out.                       *)
LEMMA LineComes ==
  ASSUME NEW kind, NEW o \in Nat, NEW F, NEW H, NEW Q, NEW f \in Nat, NEW q \in Nat, NEW n \in Nat,
         Line(kind, o, F \cup {f}, H, Q, n, q), \A x \in F : f < x
  PROVE  /\ Line(kind, f, F, H, Q, n, q)
         /\ f \in 1 .. q - 1 /\ File[f].kind = kind
<1>1. f \in 1 .. q - 1 /\ File[f].kind = kind /\ o < f
  BY DEF Line
<1>2. Line(kind, f, F, H, Q, n, q)
  BY DEF Line
<1> QED BY <1>1, <1>2

(* It is the next one of its stream.                                       *)
LEMMA LineFirst ==
  ASSUME NEW kind, NEW o \in Nat, NEW F, NEW H, NEW Q, NEW f \in Nat, NEW q \in Nat, NEW n \in Nat,
         Line(kind, o, F \cup {f}, H, Q, n, q), \A x \in F : f < x,
         o # 0, NEW k \in 1 .. Len(File), File[k].kind = kind, o < k
  PROVE  f <= k
<1>1. f \in 1 .. q - 1 /\ k \in Nat
  BY FileLength DEF Line
<1>2. CASE k \in 1 .. q - 1
  <2>1. k \in (F \cup {f}) \cup H \cup Q \cup {n}
    BY <1>2 DEF Line
  <2> QED BY <1>1, <2>1 DEF Line
<1> QED BY <1>1, <1>2

-----------------------------------------------------------------------------
(* What holds while one file is played.                                    *)

(* One file is played from its Open() on: the player has one thread of each*)
(* part, the codecs open and hold back no frame, and the application makes *)
(* no further call but to pause and to resume.                             *)
OneFile ==
  /\ Slot = {1} /\ Delay = 0
  /\ OpenOutcome \subseteq {"ok", "no input"} /\ DecodeFails = {}
  /\ "open" \notin Operations /\ "seek" \notin Operations

(* The threads.                                                            *)
Worker(d) == <<d, 1>>
Reader == <<"demux", 1>>

(* The numbers of the packets of a queue.                                  *)
NumsOf(s) == {s[i].n : i \in DOMAIN s}

(* A queue in the order of the file.                                       *)
Sorted(s) == \A i, j \in DOMAIN s : i < j => s[i].n < s[j].n

(* The worker has a packet whose frame has not been handed on.             *)
InHand(d) ==
  \/ pc[Worker(d)] \in {"send", "deliver", "push"}
  \/ pc[Worker(d)] = "recv" /\ codec[d] # <<>>

(* Its number.                                                             *)
Hand(d) == IF InHand(d) THEN {pck[Worker(d)].n} ELSE {}

(* The frame handed to the device last, or about to be.                    *)
LastHeard == IF sound # NoPacket THEN sound.n ELSE heard.n

(* The packet the demuxer is offering to the decoders.                     *)
OnOffer == Offered(Reader).n

(* The two streams.                                                        *)
VideoLine ==
  Line("video", shown.n, {}, Hand("vDecode"), NumsOf(packs["vDecode"]), OnOffer, pos)

AudioLine ==
  Line("audio", LastHeard, NumsOf(frames), Hand("aDecode"), NumsOf(packs["aDecode"]), OnOffer, pos)

(* A codec holds no more than the packet of its worker, and gives its frame*)
(* back at once.                                                           *)
CodecOK(d) ==
  /\ codec[d] = <<>> \/ (pc[Worker(d)] = "recv" /\ codec[d] = <<pck[Worker(d)]>>)
  /\ pc[Worker(d)] \in {"deliver", "push"} => frame[d] = pck[Worker(d)]

(* And its queue is in order.                                              *)
QueueOK(d) == CodecOK(d) /\ Sorted(packs[d])

(* The time the clocks show for the frame of a packet.                     *)
TimeOf(n) == IF n = 0 THEN 0 ELSE File[n].pts

(* The video decoder is done with a packet when its frame has been shown,  *)
(* and knows the time of the frame shown last.                             *)
ShownOK ==
  /\ pc[Worker("vDecode")] \in {"recv", "drop"} /\ ~InHand("vDecode") =>
       pck[Worker("vDecode")].n = shown.n
  /\ framePts["vDecode"] = IF pc[Worker("vDecode")] = "deliver" THEN Pts(pck[Worker("vDecode")])
                           ELSE TimeOf(shown.n)

(* The audio output knows the time of the frame heard last.                *)
HeardOK ==
  /\ Sorted(frames)
  /\ audioPts = TimeOf(LastHeard)
  /\ sound # NoPacket <=> pc[Device] = "enqueue"

(* A packet is offered to the decoder of its stream.                       *)
NoteOK ==
  LET n == note[Reader] IN
  /\ n.at # "done" => Kind(n.pkt) # "other"
  /\ n.at \in {"test", "push"} => n.to = IF Kind(n.pkt) = "audio" THEN 2 ELSE 1
  /\ n.at = "push" => ~isExit[obss[n.to]]

(* All of it.                                                              *)
LineInv ==
  /\ VideoLine /\ AudioLine
  /\ QueueOK("vDecode") /\ QueueOK("aDecode")
  /\ ShownOK /\ HeardOK /\ NoteOK

(* Nothing happens before the native Open() calls Start(), entry 35.       *)
Quiet ==
  /\ \A t \in Thread : pc[t] = "none"
  /\ ~outstanding /\ frames = <<>> /\ audioPts = 0
  /\ \A d \in Decoder : packs[d] = <<>> /\ codec[d] = <<>>
  /\ synPts["vDecode"] = 0 /\ framePts["vDecode"] = 0
  /\ pos = 1
  /\ shown = NoPacket /\ heard = NoPacket /\ sound = NoPacket

(* By the places of OpenScript: the parts start at the entries 36 to 38,   *)
(* each decoder before it can be offered anything it must not lose; the    *)
(* exit request of the audio output is withdrawn at entry 42.              *)
Begun ==
  /\ op # "seek"
  /\ InOpen(1, 35) => Quiet
  /\ InOpen(1, 36) => pc[Worker("vDecode")] = "none"
  /\ InOpen(1, 37) => pc[Reader] = "none"
  /\ InOpen(1, 38) => pc[Worker("aDecode")] = "none" /\ packs["aDecode"] = <<>>
  /\ InOpen(1, 42) => frames = <<>> /\ LastHeard = 0 /\ pc[Worker("aDecode")] # "push"
  /\ isExit["vDecode"] => InOpen(7, 36)
  /\ isExit["aDecode"] => InOpen(9, 38)
  /\ InOpen(11, 42) => isExit["audioPlay"]
  /\ isExit["audioPlay"] => InOpen(11, 42)
  /\ InOpen(1, 27) => epoch = 0
  /\ epoch # 0 => /\ InOpen(1, 30) \/ opened["vDecode"]
                  /\ InOpen(1, 33) \/ opened["aDecode"]

(* The numbers of a queue that loses its first packet ...                  *)
LEMMA NumsTail ==
  ASSUME NEW s \in Seq(Read), s # <<>>, Sorted(s)
  PROVE  /\ Sorted(Tail(s)) /\ Head(s) \in Read
         /\ NumsOf(s) = NumsOf(Tail(s)) \cup {Head(s).n}
         /\ \A x \in NumsOf(Tail(s)) : Head(s).n < x
<1>1. /\ Len(s) \in Nat \ {0} /\ DOMAIN s = 1 .. Len(s) /\ DOMAIN Tail(s) = 1 .. Len(s) - 1
      /\ \A i \in 1 .. Len(s) - 1 : Tail(s)[i] = s[i + 1]
      /\ Head(s) = s[1] /\ s[1] \in Read
  OBVIOUS
<1>2. \A i \in 1 .. Len(s) - 1 : i + 1 \in 1 .. Len(s) /\ 1 < i + 1 /\ 1 \in 1 .. Len(s)
  BY <1>1
<1>3. \A i, j \in 1 .. Len(s) - 1 : i < j => i + 1 < j + 1
  OBVIOUS
<1>4. Sorted(Tail(s))
  BY <1>1, <1>2, <1>3 DEF Sorted
<1>5. \A x \in NumsOf(Tail(s)) : Head(s).n < x /\ x \in NumsOf(s)
  BY <1>1, <1>2 DEF Sorted, NumsOf
<1>6. \A i \in 1 .. Len(s) : i = 1 \/ (i - 1 \in 1 .. Len(s) - 1 /\ i - 1 + 1 = i)
  BY <1>1
<1>7. \A x \in NumsOf(s) : x \in NumsOf(Tail(s)) \/ x = Head(s).n
  <2>1. SUFFICES ASSUME NEW i \in 1 .. Len(s)
                 PROVE  s[i].n \in NumsOf(Tail(s)) \/ s[i].n = Head(s).n
    BY <1>1 DEF NumsOf
  <2>2. CASE i = 1
    BY <1>1, <2>2
  <2>3. CASE i - 1 \in 1 .. Len(s) - 1 /\ i - 1 + 1 = i
    <3>1. Tail(s)[i - 1] = s[i]
      BY <1>1, <2>3
    <3> QED BY <1>1, <2>3, <3>1 DEF NumsOf
  <2> QED BY <1>6, <2>2, <2>3
<1>8. Head(s).n \in NumsOf(s)
  BY <1>1 DEF NumsOf
<1> QED BY <1>1, <1>4, <1>5, <1>7, <1>8

(* ... and of one that gets a later one.                                   *)
LEMMA NumsAppend ==
  ASSUME NEW s \in Seq(Read), NEW p \in Read, Sorted(s), \A x \in NumsOf(s) : x < p.n
  PROVE  Sorted(Append(s, p)) /\ NumsOf(Append(s, p)) = NumsOf(s) \cup {p.n}
<1>1. /\ Len(s) \in Nat /\ DOMAIN s = 1 .. Len(s) /\ DOMAIN Append(s, p) = 1 .. Len(s) + 1
      /\ \A i \in 1 .. Len(s) : Append(s, p)[i] = s[i]
      /\ Append(s, p)[Len(s) + 1] = p
  OBVIOUS
<1>2. \A i, j \in 1 .. Len(s) + 1 : i < j => i \in 1 .. Len(s)
  BY <1>1
<1>3. \A j \in 1 .. Len(s) + 1 : j \in 1 .. Len(s) \/ j = Len(s) + 1
  BY <1>1
<1>4. \A i \in 1 .. Len(s) : i \in 1 .. Len(s) + 1
  BY <1>1
<1>5. Sorted(Append(s, p))
  BY <1>1, <1>2, <1>3 DEF Sorted, NumsOf
<1>6. \A x : x \in NumsOf(Append(s, p)) <=> x \in NumsOf(s) \/ x = p.n
  BY <1>1, <1>3, <1>4 DEF NumsOf
<1> QED BY <1>5, <1>6

(* What a worker at work can rely on.                                      *)
LEMMA WorkerReady ==
  ASSUME PlayInv, OwnInv, Begun, NEW d \in Decoder, pc[Worker(d)] # "none", 1 \in Slot
  PROVE  /\ ~isExit[d] /\ ~InOpen(1, 35)
         /\ pck[Worker(d)] # NoPacket => opened[d]
<1>0. d \in {"vDecode", "aDecode"} /\ Worker(d) \in DecodeThread /\ Worker(d) \in Thread
  BY Names DEF Decoder, Worker
<1>1. ~InOpen(1, 35)
  BY <1>0 DEF Begun, Quiet
<1>2. pck[Worker(d)] # NoPacket => epoch # 0
  BY <1>0 DEF OwnInv, AllBefore, Before, PlayInv, FileOK
<1>3. /\ InOpen(7, 36) => InOpen(1, 36)
      /\ InOpen(9, 38) => InOpen(1, 38)
      /\ InOpen(1, 30) \/ InOpen(1, 33) => InOpen(1, 35)
  BY DEF InOpen
<1>4. CASE d = "vDecode"
  BY <1>1, <1>2, <1>3, <1>4 DEF Begun
<1>5. CASE d = "aDecode"
  BY <1>1, <1>2, <1>3, <1>5 DEF Begun
<1> QED BY <1>0, <1>4, <1>5

-----------------------------------------------------------------------------
(* The workers of the decoders.                                            *)

(* What a step of a worker does to its stream: nothing, or it takes the    *)
(* first packet of the queue, or it hands a frame on.                      *)
Works(d) ==
  LET w == Worker(d)
      p == pck[w]
  IN  \/ /\ Hand(d)' = Hand(d) /\ UNCHANGED <<packs, frames, shown>>
         /\ pck'[w] = p \/ (pc[w] = "drop" /\ pck'[w] = NoPacket)
      \/ /\ Hand(d) = {} /\ p = NoPacket /\ packs[d] # <<>> /\ ~WaitsForAudio(d) /\ pc[w] = "take"
         /\ packs' = [packs EXCEPT ![d] = Tail(@)]
         /\ pck'[w] = Head(packs[d]) /\ Hand(d)' = {Head(packs[d]).n}
         /\ UNCHANGED <<frames, shown>>
      \/ /\ Hand(d) = {p.n} /\ p \in Read /\ Hand(d)' = {} /\ pck'[w] = p /\ UNCHANGED packs
         /\ \/ d = "vDecode" /\ shown' = p /\ UNCHANGED frames
            \/ /\ d = "aDecode" /\ UNCHANGED shown
               /\ \/ pc[w] = "push" /\ frames' = Append(frames, p)
                  \/ isExit["audioPlay"] /\ UNCHANGED frames

(* The rest of the streams.                                                *)
Aside(d) ==
  /\ \A e \in Decoder \ {d} :
       /\ pc'[Worker(e)] = pc[Worker(e)] /\ pck'[Worker(e)] = pck[Worker(e)]
       /\ packs'[e] = packs[e] /\ codec'[e] = codec[e] /\ frame'[e] = frame[e]
       /\ framePts'[e] = framePts[e]
  /\ pc'[Device] = pc[Device] /\ pc'[Reader] = pc[Reader]
  /\ UNCHANGED <<note, pos, sound, heard, audioPts, synPts, isExit>>
  /\ d = "vDecode" => UNCHANGED frames
  /\ d = "aDecode" => UNCHANGED shown

(* The worker and its codec, for the cases below.                          *)
LEMMA WorkTypes ==
  ASSUME PlayInv, NEW d \in Decoder, 1 \in Slot
  PROVE  LET w == Worker(d) IN
         /\ w \in DecodeThread /\ w \in Thread /\ Obj(w) = d /\ d \in Object
         /\ pc \in [Thread -> Label] /\ pck \in [DecodeThread -> Packet]
         /\ packs \in [Decoder -> Seq(Read)] /\ codec \in [Decoder -> Seq(Read)]
         /\ frame \in [Decoder -> Packet] /\ framePts \in [Decoder -> Nat]
         /\ pc[w] \in Working <=> pck[w] # NoPacket
         /\ pck[w] = NoPacket \/ pck[w] \in Read
         /\ Device \in Thread /\ Device # w /\ Reader \in Thread /\ Reader # w
         /\ \A e \in Decoder \ {d} : Worker(e) \in DecodeThread /\ Worker(e) \in Thread /\ Worker(e) # w
         /\ NoPacket \notin Read
  BY Names, HoldersRead DEF PlayInv, ThreadsOK, DecodersOK, WorkersOK, Worker, Reader, Device,
     Decoder, DemuxThread

(* Round its loop.                                                         *)
LEMMA WorkLoops ==
  ASSUME PlayInv, NEW d \in Decoder, 1 \in Slot, CodecOK(d), d = "vDecode" => ShownOK,
         LET w == Worker(d) IN
           /\ \E l \in InLoop \cup {"take"} : pc' = [pc EXCEPT ![w] = l]
           /\ pc[w] \in InLoop \cup {"take", "drop"}
           /\ pc[w] = "drop" => pck' = [pck EXCEPT ![w] = NoPacket]
           /\ pc[w] # "drop" => UNCHANGED pck
           /\ UNCHANGED <<packs, codec, frame, framePts, frames, shown, note, pos, sound, heard,
                          audioPts, synPts, isExit>>
  PROVE  Works(d) /\ Aside(d) /\ CodecOK(d)' /\ (d = "vDecode" => ShownOK')
<1> DEFINE w == Worker(d)
<1>0. /\ w \in DecodeThread /\ w \in Thread
      /\ pc \in [Thread -> Label] /\ pck \in [DecodeThread -> Packet]
      /\ Device \in Thread /\ Device # w /\ Reader \in Thread /\ Reader # w
      /\ \A e \in Decoder \ {d} : Worker(e) \in DecodeThread /\ Worker(e) \in Thread /\ Worker(e) # w
  BY WorkTypes
<1> HIDE DEF w
<1>1. PICK l \in InLoop \cup {"take"} : pc' = [pc EXCEPT ![w] = l]
  BY DEF w
<1>2. pc'[w] = l /\ \A u \in Thread : u # w => pc'[u] = pc[u]
  BY <1>0, <1>1
<1>3. pc[w] \in InLoop \cup {"take", "drop"} /\ codec[d] = <<>> /\ codec'[d] = <<>>
  BY DEF w, CodecOK, InLoop
<1>4. pck'[w] = pck[w] \/ (pc[w] = "drop" /\ pck'[w] = NoPacket)
  BY <1>0 DEF w
<1>5. Hand(d)' = {} /\ Hand(d) = {}
  BY <1>2, <1>3 DEF Hand, InHand, InLoop, w
<1>6. Works(d)
  BY <1>4, <1>5 DEF Works, w
<1>7. \A e \in Decoder \ {d} : pc'[Worker(e)] = pc[Worker(e)] /\ pck'[Worker(e)] = pck[Worker(e)]
  BY <1>0, <1>2 DEF w
<1>8. Aside(d)
  BY <1>0, <1>2, <1>7 DEF Aside, w
<1>9. CodecOK(d)'
  BY <1>2, <1>3 DEF CodecOK, InLoop, w
<1>10. d = "vDecode" => ShownOK'
  BY <1>2, <1>3 DEF ShownOK, InLoop, w, TimeOf
<1> QED BY <1>6, <1>8, <1>9, <1>10

(* With its packet, as far as it stays in hand.                            *)
LEMMA WorkHolds ==
  ASSUME PlayInv, NEW d \in Decoder, 1 \in Slot, NEW l,
         pc' = [pc EXCEPT ![Worker(d)] = l], Hand(d)' = Hand(d),
         UNCHANGED <<packs, pck, frames, shown, note, pos, sound, heard, audioPts, synPts, isExit>>,
         \A e \in Decoder \ {d} : /\ codec'[e] = codec[e] /\ frame'[e] = frame[e]
                                  /\ framePts'[e] = framePts[e]
  PROVE  Works(d) /\ Aside(d)
<1> DEFINE w == Worker(d)
<1>0. /\ w \in Thread /\ pc \in [Thread -> Label]
      /\ Device \in Thread /\ Device # w /\ Reader \in Thread /\ Reader # w
      /\ \A e \in Decoder \ {d} : Worker(e) \in Thread /\ Worker(e) # w
  BY WorkTypes
<1> HIDE DEF w
<1>1. \A u \in Thread : u # w => pc'[u] = pc[u]
  BY <1>0 DEF w
<1> QED BY <1>0, <1>1 DEF Works, Aside, w

(* The worker with its packet: it takes one, ...                           *)
LEMMA WorkTakes ==
  ASSUME PlayInv, NEW d \in Decoder, 1 \in Slot, CodecOK(d), d = "vDecode" => ShownOK,
         Take(Worker(d)), ~Again(Worker(d), "take"),
         UNCHANGED <<demuxVars, noteVars, audioVars, playerVars, history>>
  PROVE  Works(d) /\ Aside(d) /\ CodecOK(d)' /\ (d = "vDecode" => ShownOK') /\ pc'[Worker(d)] = "send"
<1> DEFINE w == Worker(d)
<1>0. /\ w \in DecodeThread /\ w \in Thread /\ Obj(w) = d
      /\ pc \in [Thread -> Label] /\ pck \in [DecodeThread -> Packet]
      /\ packs \in [Decoder -> Seq(Read)]
      /\ pc[w] \in Working <=> pck[w] # NoPacket
      /\ Device \in Thread /\ Device # w /\ Reader \in Thread /\ Reader # w
      /\ \A e \in Decoder \ {d} : Worker(e) \in DecodeThread /\ Worker(e) \in Thread /\ Worker(e) # w
  BY WorkTypes
<1>1. /\ pc[w] = "take" /\ ~WaitsForAudio(d) /\ packs[d] # <<>>
      /\ pc' = [pc EXCEPT ![w] = "send"] /\ pck' = [pck EXCEPT ![w] = Head(packs[d])]
      /\ packs' = [packs EXCEPT ![d] = Tail(@)]
      /\ UNCHANGED <<synPts, framePts, codec, frame, isExit>>
      /\ UNCHANGED <<note, pos, sound, heard, audioPts, shown, frames>>
  BY <1>0 DEF Take, GoTo, noteVars, demuxVars, audioVars, history
<1> HIDE DEF w
<1>2. /\ pc'[w] = "send" /\ pck'[w] = Head(packs[d])
      /\ \A u \in Thread : u # w => pc'[u] = pc[u]
      /\ \A u \in DecodeThread : u # w => pck'[u] = pck[u]
      /\ \A e \in Decoder : e # d => packs'[e] = packs[e]
  BY <1>0, <1>1
<1>3. pck[w] = NoPacket
  BY <1>0, <1>1 DEF Working
<1>4. codec[d] = <<>> /\ Hand(d) = {} /\ Hand(d)' = {Head(packs[d]).n}
  BY <1>1, <1>2 DEF CodecOK, Hand, InHand, w
<1>5. Works(d)
  BY <1>1, <1>2, <1>3, <1>4 DEF Works, w
<1>6. \A e \in Decoder \ {d} :
        /\ pc'[Worker(e)] = pc[Worker(e)] /\ pck'[Worker(e)] = pck[Worker(e)]
        /\ packs'[e] = packs[e]
  BY <1>0, <1>2
<1>7. Aside(d)
  BY <1>0, <1>1, <1>2, <1>6 DEF Aside
<1>8. CodecOK(d)'
  BY <1>1, <1>2, <1>4 DEF CodecOK, w
<1>9. d = "vDecode" => ShownOK'
  BY <1>1, <1>2 DEF ShownOK, w, TimeOf
<1> QED BY <1>2, <1>5, <1>7, <1>8, <1>9 DEF w

(* ... sends it, ...                                                       *)
LEMMA WorkSends ==
  ASSUME PlayInv, NEW d \in Decoder, 1 \in Slot, CodecOK(d), d = "vDecode" => ShownOK,
         opened[d], Send(Worker(d)),
         UNCHANGED <<demuxVars, noteVars, audioVars, playerVars, history>>
  PROVE  Works(d) /\ Aside(d) /\ CodecOK(d)' /\ (d = "vDecode" => ShownOK') /\ pc'[Worker(d)] = "recv"
<1> DEFINE w == Worker(d)
           p == pck[w]
<1>0. /\ w \in Thread /\ Obj(w) = d /\ pc \in [Thread -> Label]
      /\ codec \in [Decoder -> Seq(Read)] /\ p \in Packet
  BY WorkTypes
<1>1. pc[w] = "send" /\ codec[d] = <<>>
  BY DEF Send, CodecOK
<1>2. Accepts(d)
  BY <1>1, DecodeAssumption DEF Accepts
<1>3. /\ pc' = [pc EXCEPT ![w] = "recv"] /\ codec' = [codec EXCEPT ![d] = Append(@, p)]
      /\ UNCHANGED <<packs, pck, frame, framePts, synPts, isExit>>
      /\ UNCHANGED <<frames, shown, note, pos, sound, heard, audioPts>>
  BY <1>0, <1>2 DEF Send, SendPacket, GoTo, flags, noteVars, demuxVars, audioVars, history
<1> HIDE DEF w
<1>4. pc'[w] = "recv" /\ codec'[d] = <<p>> /\ \A e \in Decoder : e # d => codec'[e] = codec[e]
  BY <1>0, <1>1, <1>3
<1>5. Hand(d)' = Hand(d)
  BY <1>1, <1>3, <1>4 DEF Hand, InHand, w
<1>6. Works(d) /\ Aside(d)
  BY <1>3, <1>4, <1>5, WorkHolds DEF w
<1>7. CodecOK(d)'
  BY <1>3, <1>4 DEF CodecOK, w
<1>8. d = "vDecode" => ShownOK'
  <2>1. <<p>> # <<>>
    OBVIOUS
  <2>2. framePts'["vDecode"] = framePts["vDecode"] /\ shown' = shown
    BY <1>3
  <2> HIDE DEF p
  <2>3. ASSUME d = "vDecode" PROVE InHand("vDecode")' /\ framePts["vDecode"] = TimeOf(shown.n)
    BY <1>1, <1>4, <2>1, <2>3 DEF ShownOK, InHand, w
  <2> QED BY <1>4, <2>2, <2>3 DEF ShownOK, w, TimeOf
<1> QED BY <1>4, <1>6, <1>7, <1>8 DEF w

(* ... receives its frame, or no other, ...                                *)
LEMMA WorkReceives ==
  ASSUME PlayInv, NEW d \in Decoder, 1 \in Slot, Delay = 0, CodecOK(d), d = "vDecode" => ShownOK,
         opened[d], ~isExit[d], Recv(Worker(d)),
         UNCHANGED <<demuxVars, noteVars, audioVars, playerVars, history>>
  PROVE  /\ Works(d) /\ Aside(d) /\ CodecOK(d)' /\ (d = "vDecode" => ShownOK')
         /\ pc'[Worker(d)] \in {"deliver", "drop"}
<1> DEFINE w == Worker(d)
           p == pck[w]
<1>0. /\ w \in Thread /\ Obj(w) = d /\ pc \in [Thread -> Label]
      /\ codec \in [Decoder -> Seq(Read)] /\ frame \in [Decoder -> Packet]
      /\ framePts \in [Decoder -> Nat] /\ p \in Packet
  BY WorkTypes
<1>1. pc[w] = "recv" /\ codec[d] \in {<<>>, <<p>>}
  BY DEF Recv, CodecOK
<1>2. HasFrame(d) <=> codec[d] = <<p>>
  <2>1. Len(<<>>) = 0 /\ Len(<<p>>) = 1 /\ <<p>> # <<>>
    OBVIOUS
  <2> HIDE DEF p
  <2>2. CASE codec[d] = <<>>
    <3>1. Len(codec[d]) = 0
      BY <2>1, <2>2
    <3> QED BY <2>1, <2>2, <3>1 DEF HasFrame
  <2>3. CASE codec[d] = <<p>>
    <3>1. Len(codec[d]) = 1
      BY <2>1, <2>3
    <3> QED BY <2>3, <3>1 DEF HasFrame
  <2> QED BY <1>1, <2>2, <2>3
<1>3. /\ RecvFrame(d)
      /\ pc' = [pc EXCEPT ![w] = IF HasFrame(d) THEN "deliver" ELSE "drop"]
      /\ UNCHANGED <<packs, pck, synPts, isExit>>
      /\ UNCHANGED <<frames, shown, note, pos, sound, heard, audioPts>>
  BY <1>0 DEF Recv, GoTo, flags, noteVars, demuxVars, audioVars, history
<1> HIDE DEF w
<1>4. CASE codec[d] = <<p>>
  <2>1. /\ codec' = [codec EXCEPT ![d] = <<>>] /\ frame' = [frame EXCEPT ![d] = p]
        /\ framePts' = [framePts EXCEPT ![d] = Pts(p)] /\ pc' = [pc EXCEPT ![w] = "deliver"]
    BY <1>2, <1>3, <1>4 DEF RecvFrame
  <2>2. /\ codec'[d] = <<>> /\ frame'[d] = p /\ framePts'[d] = Pts(p) /\ pc'[w] = "deliver"
        /\ \A e \in Decoder : e # d => codec'[e] = codec[e] /\ frame'[e] = frame[e] /\ framePts'[e] = framePts[e]
    BY <1>0, <2>1
  <2>3. Hand(d)' = Hand(d)
    BY <1>1, <1>3, <1>4, <2>2 DEF Hand, InHand, w
  <2>4. Works(d) /\ Aside(d)
    BY <1>3, <2>1, <2>2, <2>3, WorkHolds DEF w
  <2>5. CodecOK(d)'
    BY <1>3, <2>2 DEF CodecOK, w
  <2>6. d = "vDecode" => ShownOK'
    BY <1>3, <2>2 DEF ShownOK, w, Pts
  <2> QED BY <2>2, <2>4, <2>5, <2>6 DEF w
<1>5. CASE codec[d] = <<>>
  <2>1. /\ UNCHANGED <<codec, framePts>> /\ frame' = [frame EXCEPT ![d] = NoPacket]
        /\ pc' = [pc EXCEPT ![w] = "drop"]
    BY <1>2, <1>3, <1>5 DEF RecvFrame
  <2>2. /\ codec'[d] = <<>> /\ pc'[w] = "drop"
        /\ \A e \in Decoder : e # d => codec'[e] = codec[e] /\ frame'[e] = frame[e] /\ framePts'[e] = framePts[e]
    BY <1>0, <1>5, <2>1
  <2>3. Hand(d)' = Hand(d)
    BY <1>1, <1>5, <2>2 DEF Hand, InHand, w
  <2>4. Works(d) /\ Aside(d)
    BY <1>3, <2>1, <2>2, <2>3, WorkHolds DEF w
  <2>5. CodecOK(d)'
    BY <2>2 DEF CodecOK, w
  <2>6. d = "vDecode" => ShownOK'
    BY <1>1, <1>3, <1>5, <2>1, <2>2 DEF ShownOK, InHand, w, TimeOf
  <2> QED BY <2>2, <2>4, <2>5, <2>6 DEF w
<1> QED BY <1>1, <1>4, <1>5

(* ... and hands it on: the video decoder to the view ...                  *)
LEMMA WorkShows ==
  ASSUME PlayInv, 1 \in Slot, CodecOK("vDecode"), ShownOK, Show(Worker("vDecode"))
  PROVE  Works("vDecode") /\ Aside("vDecode") /\ CodecOK("vDecode")' /\ ShownOK'
<1> DEFINE d == "vDecode"
           w == Worker(d)
           p == pck[w]
<1>0. /\ w \in Thread /\ pc \in [Thread -> Label] /\ d \in Decoder
      /\ pc[w] \in Working <=> p # NoPacket
      /\ p = NoPacket \/ p \in Read
      /\ Device \in Thread /\ Device # w /\ Reader \in Thread /\ Reader # w
      /\ \A e \in Decoder \ {d} : Worker(e) \in Thread /\ Worker(e) # w
  BY WorkTypes, DecodersAre
<1>1. /\ pc[w] = "deliver" /\ frame[d] = p /\ codec[d] = <<>> /\ shown' = p
      /\ pc' = [pc EXCEPT ![w] = "recv"]
      /\ UNCHANGED <<packs, pck, codec, frame, framePts, synPts, isExit>>
      /\ UNCHANGED <<frames, note, pos, sound, heard, audioPts>>
  BY DEF Show, GoTo, CodecOK, flags, noteVars, demuxVars, audioVars, decodeVars
<1>2. p \in Read
  BY <1>0, <1>1 DEF Working
<1> HIDE DEF w, d
<1>3. pc'[w] = "recv" /\ \A u \in Thread : u # w => pc'[u] = pc[u]
  BY <1>0, <1>1
<1>4. Hand(d) = {p.n} /\ Hand(d)' = {}
  BY <1>1, <1>3 DEF Hand, InHand, w
<1>5. Works(d)
  BY <1>1, <1>2, <1>4 DEF Works, w, d
<1>6. Aside(d)
  BY <1>0, <1>1, <1>3 DEF Aside, d
<1>7. CodecOK(d)'
  BY <1>1, <1>3 DEF CodecOK, w
<1>8. p.n # 0
  BY <1>2, FileLength DEF Read
<1>9. ShownOK'
  BY <1>1, <1>3, <1>8 DEF ShownOK, w, d, TimeOf, Pts
<1> QED BY <1>5, <1>6, <1>7, <1>9 DEF d

(* ... and the audio decoder to the output, unless that is stopped.        *)
LEMMA WorkOutputs ==
  ASSUME PlayInv, 1 \in Slot, CodecOK("aDecode"), Output(Worker("aDecode"))
  PROVE  /\ Works("aDecode") /\ Aside("aDecode") /\ CodecOK("aDecode")'
         /\ pc'[Worker("aDecode")] = "push" => pc[Worker("aDecode")] = "push" \/ ~isExit["audioPlay"]
<1> DEFINE d == "aDecode"
           w == Worker(d)
           p == pck[w]
<1>0. /\ w \in Thread /\ pc \in [Thread -> Label] /\ d \in Decoder /\ Obj(w) = d
      /\ pc[w] \in Working <=> p # NoPacket
      /\ p = NoPacket \/ p \in Read
      /\ Device \in Thread /\ Device # w /\ Reader \in Thread /\ Reader # w
      /\ \A e \in Decoder \ {d} : Worker(e) \in Thread /\ Worker(e) # w
  BY WorkTypes, DecodersAre
<1>1. /\ pc[w] \in {"deliver", "push"} /\ frame[d] = p /\ codec[d] = <<>>
      /\ UNCHANGED <<packs, pck, codec, frame, framePts, synPts, isExit>>
      /\ UNCHANGED <<shown, note, pos, sound, heard, audioPts>>
      /\ \/ pc[w] = "deliver" /\ isExit["audioPlay"] /\ pc' = [pc EXCEPT ![w] = "recv"] /\ UNCHANGED frames
         \/ pc[w] = "deliver" /\ ~isExit["audioPlay"] /\ pc' = [pc EXCEPT ![w] = "push"] /\ UNCHANGED frames
         \/ pc[w] = "push" /\ pc' = [pc EXCEPT ![w] = "deliver"] /\ UNCHANGED frames
         \/ pc[w] = "push" /\ pc' = [pc EXCEPT ![w] = "recv"] /\ frames' = Append(frames, p)
  BY <1>0 DEF Output, TestOutput, PushFrame, GoTo, CodecOK, flags, noteVars, demuxVars, decodeVars, history
<1>2. p \in Read
  BY <1>0, <1>1 DEF Working
<1> HIDE DEF w, d
<1>3. PICK l \in {"recv", "push", "deliver"} : pc' = [pc EXCEPT ![w] = l]
  BY <1>1
<1>4. pc'[w] = l /\ \A u \in Thread : u # w => pc'[u] = pc[u]
  BY <1>0, <1>3
<1>5. Hand(d) = {p.n} /\ Hand(d)' = IF l = "recv" THEN {} ELSE {p.n}
  BY <1>1, <1>4 DEF Hand, InHand, w
<1>6. /\ \/ l = "recv" /\ isExit["audioPlay"] /\ UNCHANGED frames
         \/ l = "recv" /\ pc[w] = "push" /\ frames' = Append(frames, p)
         \/ l = "push" /\ ~isExit["audioPlay"] /\ UNCHANGED frames
         \/ l = "deliver" /\ UNCHANGED frames
  BY <1>0, <1>1, <1>4
<1>7. Works(d)
  BY <1>1, <1>2, <1>5, <1>6 DEF Works, w, d
<1>8. Aside(d)
  BY <1>0, <1>1, <1>4 DEF Aside, d
<1>9. CodecOK(d)'
  BY <1>1 DEF CodecOK, w
<1> QED BY <1>4, <1>6, <1>7, <1>8, <1>9 DEF w, d

(* Every step of a worker is one of these.                                 *)
LEMMA StepWorks ==
  ASSUME PlayInv, OwnInv, Begun, 1 \in Slot, Delay = 0, NEW d \in Decoder, CodecOK(d),
         d = "vDecode" => ShownOK, Decode(Worker(d))
  PROVE  /\ Works(d) /\ Aside(d) /\ CodecOK(d)' /\ (d = "vDecode" => ShownOK')
         /\ pc'[Worker(d)] = "push" => pc[Worker(d)] = "push" \/ ~isExit["audioPlay"]
<1> DEFINE w == Worker(d)
<1>0. /\ w \in Thread /\ pc \in [Thread -> Label] /\ Obj(w) = d /\ d \in Object
      /\ pc[w] \in Working <=> pck[w] # NoPacket
  BY WorkTypes
<1>1. Again(w, "take") => \E l \in InLoop \cup {"take"} : pc' = [pc EXCEPT ![w] = l]
  BY <1>0 DEF Again, GoTo, InLoop
<1>2. pc'[w] = "push" => ~\E l \in InLoop \cup {"take"} : pc' = [pc EXCEPT ![w] = l]
  BY <1>0 DEF InLoop
<1>3. CASE DecodeLoop(w)
  <2>1. /\ pc[w] \in {"spawned", "head", "leave"} /\ UNCHANGED isExit
        /\ \E l \in InLoop \cup {"take"} : pc' = [pc EXCEPT ![w] = l]
    BY <1>1, <1>3 DEF DecodeLoop, EnterLoop, PausedLoop, Leave, Again, GoTo, InLoop
  <2>2. UNCHANGED <<packs, pck, codec, frame, framePts, frames, shown, note, pos, sound, heard,
                    audioPts, synPts>>
    BY <1>3 DEF DecodeLoop, demuxVars, decodeVars, noteVars, audioVars, history
  <2> QED BY <1>2, <2>1, <2>2, WorkLoops DEF InLoop
<1>4. CASE Take(w) /\ Again(w, "take") /\ UNCHANGED <<demuxVars, noteVars, audioVars, playerVars, history>>
  <2>1. UNCHANGED <<packs, pck>>
    <3>1. Again(w, "take") => pc' # [pc EXCEPT ![w] = "send"]
      BY <1>0 DEF Again, GoTo
    <3> QED BY <1>4, <3>1 DEF Take, GoTo
  <2>2. /\ pc[w] = "take" /\ UNCHANGED <<isExit, codec, frame, framePts, synPts>>
        /\ UNCHANGED <<frames, shown, note, pos, sound, heard, audioPts>>
    BY <1>4 DEF Take, Again, demuxVars, noteVars, audioVars, history
  <2> QED BY <1>1, <1>2, <1>4, <2>1, <2>2, WorkLoops
<1>5. CASE Take(w) /\ ~Again(w, "take") /\ UNCHANGED <<demuxVars, noteVars, audioVars, playerVars, history>>
  BY <1>5, WorkTakes
<1>6. CASE DropPacket(w) /\ UNCHANGED <<demuxVars, noteVars, audioVars, playerVars, history>>
  <2>1. /\ pc[w] = "drop" /\ Again(w, "take") /\ pck' = [pck EXCEPT ![w] = NoPacket]
        /\ UNCHANGED <<isExit, packs, codec, frame, framePts, synPts>>
        /\ UNCHANGED <<frames, shown, note, pos, sound, heard, audioPts>>
    BY <1>6 DEF DropPacket, Again, demuxVars, noteVars, audioVars, history
  <2> QED BY <1>1, <1>2, <2>1, WorkLoops
<1>7. CASE (Send(w) \/ Recv(w)) /\ UNCHANGED <<demuxVars, noteVars, audioVars, playerVars, history>>
  <2>1. pc[w] \in {"send", "recv"}
    BY <1>7 DEF Send, Recv
  <2>2. opened[d] /\ ~isExit[d]
    BY <1>0, <2>1, WorkerReady DEF Working
  <2> QED BY <1>7, <2>2, WorkSends, WorkReceives
<1>8. CASE Show(w)
  <2>1. d = "vDecode"
    BY <1>0, <1>8 DEF Show
  <2>2. pc'[w] # "push"
    BY <1>0, <1>8 DEF Show, GoTo
  <2> QED BY <1>8, <2>1, <2>2, WorkShows
<1>9. CASE Output(w)
  <2>1. d = "aDecode"
    BY <1>0, <1>9 DEF Output, TestOutput, PushFrame, PlayInv, ThreadsOK, Worker, DecodeThread
  <2> QED BY <1>9, <2>1, WorkOutputs
<1> QED BY <1>3, <1>4, <1>5, <1>6, <1>7, <1>8, <1>9 DEF Decode, DecodePacket

-----------------------------------------------------------------------------
(* The steps of the video decoder, as steps of Playback.                   *)

(* The steps as steps of module Playback.                                  *)
StreamStep == [Stream!Next]_(Stream!stream)

(* The video packet let go last.                                           *)
Released == IF pck[Worker("vDecode")] # NoPacket THEN pck[Worker("vDecode")].n ELSE shown.n

(* What the mapping shows.                                                 *)
StreamNow == <<LastHeard, synPts["vDecode"], Released, shown.n>>

(* Nothing of it changes.                                                  *)
LEMMA StreamStays ==
  ASSUME UNCHANGED StreamNow
  PROVE  StreamStep
  BY DEF StreamStep, StreamNow, Stream!stream, LastHeard, Released, Worker

(* A packet is let go.                                                     *)
LEMMA StreamReleases ==
  ASSUME NEW n \in 1 .. Len(File), File[n].kind = "video", Released' = n, Released = shown.n,
         synPts["vDecode"] = 0 \/ TimeOf(shown.n) <= synPts["vDecode"],
         shown.n < n, \A k \in 1 .. Len(File) : File[k].kind = "video" /\ shown.n < k => n <= k,
         shown.n \in Nat,
         UNCHANGED <<LastHeard, synPts["vDecode"], shown>>
  PROVE  StreamStep
<1>1. Stream!Follows(n, shown.n)
  BY FileLength DEF Stream!Follows, Stream!IndicesOf
<1>2. n \in Stream!IndicesOf("video")
  BY DEF Stream!IndicesOf
<1>3. Stream!Time(shown.n) = TimeOf(shown.n)
  BY DEF Stream!Time, TimeOf
<1>4. Stream!Release
  BY <1>1, <1>2, <1>3, Zenon DEF Stream!Release, LastHeard, Released, Worker
<1> QED BY <1>4 DEF StreamStep, Stream!Next

(* A frame is shown.                                                       *)
LEMMA StreamShows ==
  ASSUME Released # shown.n, shown'.n = Released, Released' = Released,
         UNCHANGED <<LastHeard, synPts["vDecode"]>>
  PROVE  StreamStep
<1>1. Stream!Show
  BY DEF Stream!Show, LastHeard, Released, Worker
<1> QED BY <1>1 DEF StreamStep, Stream!Next

(* A frame is heard.                                                       *)
LEMMA StreamHears ==
  ASSUME NEW n \in 1 .. Len(File), File[n].kind = "audio", LastHeard' = n, LastHeard \in Nat,
         LastHeard = 0 \/
           (LastHeard < n /\ \A k \in 1 .. Len(File) : File[k].kind = "audio" /\ LastHeard < k => n <= k),
         UNCHANGED <<synPts["vDecode"], Released, shown>>
  PROVE  StreamStep
<1>1. LastHeard = 0 \/ Stream!Follows(n, LastHeard)
  BY FileLength DEF Stream!Follows, Stream!IndicesOf
<1>2. n \in Stream!IndicesOf("audio")
  BY DEF Stream!IndicesOf
<1>3. Stream!Hear
  BY <1>1, <1>2, Zenon DEF Stream!Hear, LastHeard, Released, Worker
<1> QED BY <1>3 DEF StreamStep, Stream!Next

(* The video decoder learns the time of the sound.                         *)
LEMMA StreamCopies ==
  ASSUME synPts'["vDecode"] = TimeOf(LastHeard), UNCHANGED <<LastHeard, Released, shown>>
  PROVE  StreamStep
<1>1. Stream!Copy
  BY DEF Stream!Copy, Stream!Time, TimeOf, LastHeard, Released, Worker
<1> QED BY <1>1 DEF StreamStep, Stream!Next

(* The numbers of what has come out and is on offer.                       *)
LEMMA LineTypes ==
  ASSUME PlayInv, 1 \in Slot
  PROVE  /\ shown.n \in Nat /\ LastHeard \in Nat /\ OnOffer \in Nat /\ pos \in Nat \ {0}
         /\ \A p \in Read : p.n \in 1 .. Len(File) /\ p.n \in Nat \ {0}
         /\ \A d \in Decoder : pck[Worker(d)] = NoPacket \/ pck[Worker(d)] \in Read
<1>1. \A p \in Packet : p.n \in Nat
  BY FileLength DEF Packet, NoPacket
<1>2. shown \in Packet /\ heard \in Packet /\ sound \in Packet
  BY DEF PlayInv, HistoryOK, AudioOK
<1>3. Reader \in Caller
  BY DEF Reader, Caller, DemuxThread
<1>4. Offered(Reader) \in Packet
  BY <1>3, HoldersRead, Names
<1>5. pos \in Nat \ {0}
  BY FileLength DEF PlayInv, FileOK
<1>6. \A p \in Read : p.n \in 1 .. Len(File) /\ p.n \in Nat \ {0}
  BY FileLength DEF Read
<1> QED BY <1>1, <1>2, <1>4, <1>5, <1>6, WorkTypes DEF LastHeard, OnOffer

(* A decoder whose worker and whose queue stay as they are.                *)
Still(d) ==
  /\ pc'[Worker(d)] = pc[Worker(d)] /\ pck'[Worker(d)] = pck[Worker(d)]
  /\ packs'[d] = packs[d] /\ codec'[d] = codec[d] /\ frame'[d] = frame[d]

(* It keeps what is known of it.                                           *)
LEMMA StillKept ==
  ASSUME NEW d, QueueOK(d), Still(d)
  PROVE  QueueOK(d)' /\ Hand(d)' = Hand(d)
  BY DEF Still, QueueOK, CodecOK, Sorted, Hand, InHand

(* A step of the video decoder.                                            *)
LEMMA VideoSteps ==
  ASSUME PlayInv, LineInv, 1 \in Slot, ~isAudio["vDecode"],
         Works("vDecode"), Aside("vDecode"), CodecOK("vDecode")', ShownOK'
  PROVE  LineInv' /\ StreamStep
<1> DEFINE d == "vDecode"
           p == pck[Worker(d)]
           h == Head(packs[d])
           Q == NumsOf(packs[d])
           kindOf == "video"
           none == {}
<1>0. /\ d \in Decoder /\ packs \in [Decoder -> Seq(Read)] /\ p \in Packet
      /\ pc[Worker(d)] \in Working <=> p # NoPacket
      /\ p = NoPacket \/ p \in Read
  BY WorkTypes, DecodersAre DEF DecodeThread
<1>1. /\ shown.n \in Nat /\ LastHeard \in Nat /\ OnOffer \in Nat /\ pos \in Nat
      /\ \A r \in Read : r.n \in 1 .. Len(File) /\ r.n \in Nat /\ r # NoPacket
  BY LineTypes, Names
<1>2. /\ UNCHANGED <<note, pos, sound, heard, audioPts, synPts, isExit, frames>>
      /\ LastHeard' = LastHeard /\ OnOffer' = OnOffer /\ pc'[Device] = pc[Device]
  BY DEF Aside, LastHeard, OnOffer, Offered
<1>3. QueueOK("aDecode")' /\ Hand("aDecode")' = Hand("aDecode") /\ packs'["aDecode"] = packs["aDecode"]
  BY StillKept DEF Aside, Still, Decoder, LineInv
<1>4. AudioLine' /\ HeardOK' /\ NoteOK'
  BY <1>2, <1>3 DEF LineInv, AudioLine, HeardOK, NoteOK, Sorted, NumsOf
<1>5. VideoLine /\ Sorted(packs[d]) /\ packs[d] \in Seq(Read)
  BY <1>0 DEF LineInv, QueueOK
<1>6. /\ VideoLine <=> Line("video", shown.n, {}, Hand(d), Q, OnOffer, pos)
      /\ VideoLine' <=> Line("video", shown'.n, {}, Hand(d)', NumsOf(packs'[d]), OnOffer, pos)
  BY <1>2 DEF VideoLine, Line
<1> HIDE DEF d, p, h, Q
<1>7. CASE /\ Hand(d)' = Hand(d) /\ UNCHANGED <<packs, frames, shown>>
           /\ pck'[Worker(d)] = p \/ (pc[Worker(d)] = "drop" /\ pck'[Worker(d)] = NoPacket)
  <2>1. VideoLine' /\ Sorted(packs'[d])
    BY <1>5, <1>6, <1>7 DEF Q
  <2>2. Released' = Released
    <3>1. pc[Worker(d)] = "drop" => p.n = shown.n
      BY DEF LineInv, ShownOK, InHand, d, p
    <3> QED BY <1>7, <3>1 DEF Released, d, p
  <2> QED BY <1>2, <1>3, <1>4, <1>7, <2>1, <2>2, StreamStays DEF LineInv, QueueOK, StreamNow, d
<1>8. CASE /\ Hand(d) = {} /\ p = NoPacket /\ packs[d] # <<>> /\ ~WaitsForAudio(d) /\ pc[Worker(d)] = "take"
           /\ packs' = [packs EXCEPT ![d] = Tail(@)]
           /\ pck'[Worker(d)] = h /\ Hand(d)' = {h.n}
           /\ UNCHANGED <<frames, shown>>
  <2>1. /\ Sorted(Tail(packs[d])) /\ h \in Read
        /\ Q = NumsOf(Tail(packs[d])) \cup {h.n} /\ \A x \in NumsOf(Tail(packs[d])) : h.n < x
    BY <1>5, <1>8, NumsTail DEF h, Q
  <2>2. packs'[d] = Tail(packs[d])
    BY <1>0, <1>8
  <2>3. /\ VideoLine'
        /\ h.n \in 1 .. pos - 1 /\ File[h.n].kind = "video" /\ shown.n < h.n
        /\ \A k \in 1 .. Len(File) : File[k].kind = "video" /\ shown.n < k => h.n <= k
    <3>1. Line("video", shown.n, {}, {}, NumsOf(Tail(packs[d])) \cup {h.n}, OnOffer, pos)
      BY <1>5, <1>6, <1>8, <2>1
    <3>2. h.n \in Nat
      BY <1>1, <2>1
    <3>3. /\ Line("video", shown.n, {}, {h.n}, NumsOf(Tail(packs[d])), OnOffer, pos)
          /\ h.n \in 1 .. pos - 1 /\ File[h.n].kind = "video" /\ shown.n < h.n
          /\ \A k \in 1 .. Len(File) : File[k].kind = "video" /\ shown.n < k => h.n <= k
      <4>1. kindOf = "video" /\ none = {} /\ shown.n \in Nat /\ OnOffer \in Nat /\ pos \in Nat
        BY <1>1
      <4> HIDE DEF kindOf, none
      <4>2. Line(kindOf, shown.n, none, {}, NumsOf(Tail(packs[d])) \cup {h.n}, OnOffer, pos)
        BY <3>1, <4>1
      <4>3. /\ Line(kindOf, shown.n, none, {h.n}, NumsOf(Tail(packs[d])), OnOffer, pos)
            /\ kindOf = "video" /\ none = {} =>
                 /\ h.n \in 1 .. pos - 1 /\ File[h.n].kind = "video" /\ shown.n < h.n
                 /\ \A k \in 1 .. Len(File) : File[k].kind = "video" /\ shown.n < k => h.n <= k
        BY <2>1, <3>2, <4>1, <4>2, LineTaken, Zenon
      <4> QED BY <4>1, <4>3
    <3> QED BY <1>6, <1>8, <2>2, <3>3
  <2>4. synPts["vDecode"] = 0 \/ TimeOf(shown.n) <= synPts["vDecode"]
    <3>1. framePts["vDecode"] = TimeOf(shown.n)
      BY <1>8 DEF LineInv, ShownOK, d
    <3>2. synPts["vDecode"] \in Nat /\ framePts["vDecode"] \in Nat
      BY DecodersAre DEF PlayInv, DecodersOK
    <3> QED BY <1>8, <3>1, <3>2 DEF WaitsForAudio, d
  <2>5. Released' = h.n /\ Released = shown.n
    BY <1>1, <1>8, <2>1 DEF Released, d, p
  <2>6. StreamStep
    BY <1>1, <1>2, <1>8, <2>1, <2>3, <2>4, <2>5, StreamReleases
  <2> QED BY <1>3, <1>4, <2>1, <2>2, <2>3, <2>6 DEF LineInv, QueueOK, d
<1>9. CASE /\ Hand(d) = {p.n} /\ p \in Read /\ Hand(d)' = {} /\ pck'[Worker(d)] = p /\ UNCHANGED packs
           /\ shown' = p
  <2>1. Line("video", shown.n, {}, {p.n}, Q, OnOffer, pos)
    BY <1>5, <1>6, <1>9
  <2>2. p.n \in Nat
    BY <1>1, <1>9
  <2>3. VideoLine' /\ Sorted(packs'[d])
    <3>1. Line("video", p.n, {}, {}, Q, OnOffer, pos)
      BY <1>1, <2>1, <2>2, LineHanded, Zenon
    <3> QED BY <1>5, <1>6, <1>9, <3>1 DEF Q
  <2>4. shown.n # p.n
    BY <1>1, <2>1, <2>2 DEF Line
  <2>5. Released' = p.n /\ Released = p.n
    BY <1>1, <1>9 DEF Released, d, p
  <2>6. StreamStep
    BY <1>2, <1>9, <2>4, <2>5, StreamShows
  <2> QED BY <1>3, <1>4, <2>3, <2>6 DEF LineInv, QueueOK, d
<1> QED BY <1>7, <1>8, <1>9 DEF Works, d, p, h

-----------------------------------------------------------------------------
(* The audio decoder and the device.                                       *)

(* A step of the audio decoder.                                            *)
LEMMA AudioSteps ==
  ASSUME PlayInv, LineInv, Begun, 1 \in Slot,
         Works("aDecode"), Aside("aDecode"), CodecOK("aDecode")'
  PROVE  LineInv' /\ StreamStep
<1> DEFINE d == "aDecode"
           p == pck[Worker(d)]
           h == Head(packs[d])
           Q == NumsOf(packs[d])
           F == NumsOf(frames)
           kindOf == "audio"
<1>0. /\ d \in Decoder /\ packs \in [Decoder -> Seq(Read)]
      /\ frames \in Seq(Read) /\ (p = NoPacket \/ p \in Read)
  BY WorkTypes, DecodersAre DEF PlayInv, AudioOK
<1>1. /\ shown.n \in Nat /\ LastHeard \in Nat /\ OnOffer \in Nat /\ pos \in Nat
      /\ \A r \in Read : r.n \in 1 .. Len(File) /\ r.n \in Nat /\ r # NoPacket
  BY LineTypes, Names
<1>2. /\ UNCHANGED <<note, pos, sound, heard, audioPts, synPts, isExit, shown>>
      /\ LastHeard' = LastHeard /\ OnOffer' = OnOffer /\ pc'[Device] = pc[Device]
  BY DEF Aside, LastHeard, OnOffer, Offered
<1>3. /\ QueueOK("vDecode")' /\ Hand("vDecode")' = Hand("vDecode") /\ packs'["vDecode"] = packs["vDecode"]
      /\ pc'[Worker("vDecode")] = pc[Worker("vDecode")] /\ pck'[Worker("vDecode")] = pck[Worker("vDecode")]
      /\ framePts'["vDecode"] = framePts["vDecode"] /\ codec'["vDecode"] = codec["vDecode"]
  BY StillKept DEF Aside, Still, Decoder, LineInv
<1>4. VideoLine' /\ ShownOK' /\ NoteOK'
  BY <1>2, <1>3 DEF LineInv, VideoLine, ShownOK, NoteOK, InHand
<1>5. StreamStep
  BY <1>2, <1>3, StreamStays DEF StreamNow, Released
<1>6. AudioLine /\ Sorted(packs[d]) /\ packs[d] \in Seq(Read) /\ Sorted(frames) /\ CodecOK(d)'
  BY <1>0 DEF LineInv, QueueOK, HeardOK
<1>7. /\ AudioLine <=> Line(kindOf, LastHeard, F, Hand(d), Q, OnOffer, pos)
      /\ AudioLine' <=> Line(kindOf, LastHeard, NumsOf(frames'), Hand(d)', NumsOf(packs'[d]), OnOffer, pos)
  BY <1>2 DEF AudioLine, Line
<1>8. SUFFICES AudioLine' /\ Sorted(packs'[d]) /\ Sorted(frames')
  <2>1. Sorted(frames') => HeardOK'
    BY <1>2 DEF LineInv, HeardOK, Sorted
  <2>2. Sorted(packs'[d]) => QueueOK(d)'
    BY <1>6 DEF QueueOK, Sorted
  <2> QED BY <1>3, <1>4, <1>5, <2>1, <2>2 DEF LineInv
<1> HIDE DEF d, p, h, Q, F, kindOf
<1>9. CASE Hand(d)' = Hand(d) /\ UNCHANGED <<packs, frames, shown>>
  BY <1>6, <1>7, <1>9 DEF Q, F
<1>10. CASE /\ Hand(d) = {} /\ packs[d] # <<>> /\ packs' = [packs EXCEPT ![d] = Tail(@)]
            /\ Hand(d)' = {h.n} /\ UNCHANGED frames
  <2>1. /\ Sorted(Tail(packs[d])) /\ h \in Read
        /\ Q = NumsOf(Tail(packs[d])) \cup {h.n} /\ \A x \in NumsOf(Tail(packs[d])) : h.n < x
    BY <1>6, <1>10, NumsTail DEF h, Q
  <2>2. packs'[d] = Tail(packs[d]) /\ h.n \in Nat
    BY <1>0, <1>1, <1>10, <2>1
  <2>3. Line(kindOf, LastHeard, F, {}, NumsOf(Tail(packs[d])) \cup {h.n}, OnOffer, pos)
    BY <1>6, <1>7, <1>10, <2>1
  <2>4. Line(kindOf, LastHeard, F, {h.n}, NumsOf(Tail(packs[d])), OnOffer, pos)
    BY <1>1, <2>1, <2>2, <2>3, LineTaken, Zenon
  <2> QED BY <1>6, <1>7, <1>10, <2>1, <2>2, <2>4 DEF F
<1>11. CASE /\ Hand(d) = {p.n} /\ p \in Read /\ Hand(d)' = {} /\ UNCHANGED packs
            /\ frames' = Append(frames, p)
  <2>1. Line(kindOf, LastHeard, F, {p.n}, Q, OnOffer, pos) /\ p.n \in Nat
    BY <1>1, <1>6, <1>7, <1>11
  <2>2. \A x \in F : x < p.n
    BY <2>1 DEF Line
  <2>3. Sorted(frames') /\ NumsOf(frames') = F \cup {p.n}
    <3>0. \A x \in NumsOf(frames) : x < p.n
      BY <2>2 DEF F
    <3>1. p \in Read
      BY <1>11
    <3>3. Sorted(Append(frames, p)) /\ NumsOf(Append(frames, p)) = NumsOf(frames) \cup {p.n}
      BY <1>0, <1>6, <3>0, <3>1, NumsAppend, Zenon
    <3> QED BY <1>11, <3>3 DEF F
  <2>4. Line(kindOf, LastHeard, F \cup {p.n}, {}, Q, OnOffer, pos)
    BY <1>1, <2>1, LineHanded, Zenon
  <2> QED BY <1>6, <1>7, <1>11, <2>3, <2>4 DEF Q
<1>12. CASE /\ Hand(d) = {p.n} /\ p \in Read /\ Hand(d)' = {} /\ UNCHANGED packs
            /\ isExit["audioPlay"] /\ UNCHANGED frames
  <2>1. Line(kindOf, LastHeard, F, {p.n}, Q, OnOffer, pos) /\ p.n \in Nat
    BY <1>1, <1>6, <1>7, <1>12
  <2>2. LastHeard = 0 /\ F = {} /\ kindOf # "video"
    <3>1. InOpen(11, 42) => InOpen(1, 42)
      BY DEF InOpen
    <3> QED BY <1>12, <3>1 DEF Begun, NumsOf, F, kindOf
  <2>3. Line(kindOf, LastHeard, F, {}, Q, OnOffer, pos)
    BY <1>1, <2>1, <2>2, LineHanded, Zenon
  <2> QED BY <1>6, <1>7, <1>12, <2>3 DEF Q, F
<1> QED BY <1>9, <1>10, <1>11, <1>12 DEF Works, d, p, h

(* A step of the audio device.                                             *)
LEMMA DeviceSteps ==
  ASSUME PlayInv, LineInv, 1 \in Slot, Play
  PROVE  /\ LineInv' /\ StreamStep
         /\ frames = <<>> => frames' = <<>> /\ LastHeard' = LastHeard
<1> DEFINE F == NumsOf(frames)
           f == Head(frames)
           H == Hand("aDecode")
           Q == NumsOf(packs["aDecode"])
           kindOf == "audio"
<1>0. /\ frames \in Seq(Read) /\ pc \in [Thread -> Label] /\ Device \in Thread
      /\ sound \in Packet /\ sound # NoPacket <=> pc[Device] = "enqueue"
      /\ \A d \in Decoder : Worker(d) \in Thread /\ Worker(d) # Device
  BY WorkTypes, Names DEF PlayInv, AudioOK, ThreadsOK, LineInv, HeardOK
<1>1. /\ shown.n \in Nat /\ LastHeard \in Nat /\ OnOffer \in Nat /\ pos \in Nat
      /\ \A r \in Read : r.n \in 1 .. Len(File) /\ r.n \in Nat /\ r # NoPacket
  BY LineTypes, Names
<1>2. /\ UNCHANGED <<demuxVars, decodeVars, noteVars, playerVars, shown, isExit>>
      /\ \E l : pc' = [pc EXCEPT ![Device] = l]
  <2>1. \A body : Again(Device, body) => UNCHANGED isExit /\ \E l : pc' = [pc EXCEPT ![Device] = l]
    BY DEF Again, GoTo
  <2> QED BY <2>1 DEF Play, Callback, Fire, PopFrame, Enqueue, EnterLoop, PausedLoop, Leave, GoTo, flags
<1>3. \A d \in Decoder : Still(d)
  BY <1>0, <1>2 DEF Still, decodeVars
<1>4. /\ QueueOK("vDecode")' /\ Hand("vDecode")' = Hand("vDecode")
      /\ QueueOK("aDecode")' /\ Hand("aDecode")' = Hand("aDecode")
      /\ OnOffer' = OnOffer
  BY <1>2, <1>3, StillKept, DecodersAre DEF LineInv, OnOffer, Offered, noteVars
<1>5. VideoLine' /\ ShownOK' /\ NoteOK'
  <2>1. pc'[Worker("vDecode")] = pc[Worker("vDecode")]
    BY <1>3, DecodersAre DEF Still
  <2> QED BY <1>2, <1>4, <2>1
      DEF LineInv, VideoLine, ShownOK, NoteOK, InHand, decodeVars, demuxVars, noteVars
<1>6. UNCHANGED <<synPts, packs, pos, shown, Released>>
  BY <1>2 DEF Released, decodeVars, demuxVars
<1>7. /\ AudioLine
      /\ AudioLine <=> Line(kindOf, LastHeard, F, H, Q, OnOffer, pos)
      /\ AudioLine' <=> Line(kindOf, LastHeard', NumsOf(frames'), H, Q, OnOffer, pos)
  BY <1>4, <1>6 DEF AudioLine, Line, LineInv
<1> HIDE DEF F, f, H, Q, kindOf
<1>8. CASE pc[Device] = "pop" /\ frames # <<>> /\ PopFrame
  <2>1. /\ sound' = f /\ audioPts' = Pts(f) /\ frames' = Tail(frames)
        /\ pc' = [pc EXCEPT ![Device] = "enqueue"]
    BY <1>8 DEF PopFrame, GoTo, f
  <2>2. /\ Sorted(Tail(frames)) /\ f \in Read
        /\ F = NumsOf(Tail(frames)) \cup {f.n} /\ \A x \in NumsOf(Tail(frames)) : f.n < x
    BY <1>0, <1>8, NumsTail DEF LineInv, HeardOK, f, F
  <2>3. f.n \in Nat /\ f # NoPacket /\ LastHeard' = f.n /\ f.n # 0 /\ f.n \in 1 .. Len(File)
    BY <1>1, <2>1, <2>2, LineTypes DEF LastHeard
  <2>4. Line(kindOf, LastHeard, NumsOf(Tail(frames)) \cup {f.n}, H, Q, OnOffer, pos)
    BY <1>7, <2>2
  <2>5. /\ Line(kindOf, f.n, NumsOf(Tail(frames)), H, Q, OnOffer, pos)
        /\ File[f.n].kind = kindOf
        /\ LastHeard = 0 \/ \A k \in 1 .. Len(File) : File[k].kind = kindOf /\ LastHeard < k => f.n <= k
    <3>1. f.n \in Nat /\ LastHeard \in Nat /\ pos \in Nat /\ OnOffer \in Nat
      BY <1>1, <2>3
    <3>2. \A x \in NumsOf(Tail(frames)) : f.n < x
      BY <2>2
    <3> DEFINE R == NumsOf(Tail(frames))
               n == f.n
    <3>3. n \in Nat /\ Line(kindOf, LastHeard, R \cup {n}, H, Q, OnOffer, pos) /\ \A x \in R : n < x
      BY <2>4, <3>1, <3>2
    <3> HIDE DEF R, n
    <3>4. Line(kindOf, n, R, H, Q, OnOffer, pos)
      BY <3>1, <3>3, LineComes, Zenon
    <3>5. File[n].kind = kindOf
      BY <3>3 DEF Line
    <3>6. ASSUME LastHeard # 0, NEW k \in 1 .. Len(File), File[k].kind = kindOf, LastHeard < k
          PROVE  n <= k
      BY <3>1, <3>3, <3>6, LineFirst, Zenon
    <3> QED BY <3>4, <3>5, <3>6 DEF R, n
  <2>6. LastHeard < f.n
    BY <2>4 DEF Line
  <2>7. AudioLine'
    BY <1>7, <2>1, <2>3, <2>5
  <2>8. HeardOK'
    BY <1>0, <2>1, <2>2, <2>3 DEF HeardOK, TimeOf, Pts
  <2>9. StreamStep
    BY <1>1, <1>6, <2>3, <2>5, <2>6, StreamHears DEF kindOf
  <2> QED BY <1>4, <1>5, <1>8, <2>7, <2>8, <2>9 DEF LineInv
<1>9. CASE ~(pc[Device] = "pop" /\ frames # <<>> /\ PopFrame)
  <2>1. /\ UNCHANGED <<frames, audioPts>>
        /\ \/ pc[Device] # "enqueue" /\ pc'[Device] # "enqueue" /\ UNCHANGED <<sound, heard>>
           \/ pc[Device] = "enqueue" /\ pc'[Device] = "none" /\ sound' = NoPacket /\ heard' = sound
    <3>1. \A body \in {"pop"} : Again(Device, body) => pc'[Device] \in {"pop", "head", "leave"}
      BY <1>0 DEF Again, GoTo
    <3>2. CASE Fire
      BY <1>0, <3>2 DEF Play, Fire, GoTo
    <3>3. CASE PopFrame
      BY <1>0, <1>9, <3>1, <3>3 DEF Play, PopFrame
    <3>4. CASE Enqueue
      BY <1>0, <3>4 DEF Play, Enqueue, GoTo
    <3>5. CASE (EnterLoop(Device, "pop") \/ PausedLoop(Device, "pop") \/ Leave(Device)) /\ UNCHANGED audioVars
      BY <1>0, <3>1, <3>5 DEF Play, EnterLoop, PausedLoop, Leave, GoTo, audioVars
    <3> QED BY <3>2, <3>3, <3>4, <3>5 DEF Play, Callback
  <2>2. LastHeard' = LastHeard
    BY <1>0, <2>1 DEF LastHeard
  <2>3. AudioLine' /\ HeardOK'
    BY <1>0, <1>7, <2>1, <2>2 DEF LineInv, HeardOK, Sorted, F
  <2>4. StreamStep
    BY <1>6, <2>2, StreamStays DEF StreamNow
  <2> QED BY <1>4, <1>5, <2>1, <2>2, <2>3, <2>4 DEF LineInv
<1> QED BY <1>8, <1>9

-----------------------------------------------------------------------------
(* The synchronising thread.                                               *)

(* Nothing of the lines changes.                                           *)
LEMMA LineStays ==
  ASSUME LineInv, UNCHANGED <<pos, note, shown, frames, audioPts, sound, heard>>,
         Still("vDecode"), Still("aDecode"), framePts'["vDecode"] = framePts["vDecode"],
         pc'[Device] = pc[Device], NoteOK'
  PROVE  LineInv'
<1>1. /\ QueueOK("vDecode")' /\ Hand("vDecode")' = Hand("vDecode")
      /\ QueueOK("aDecode")' /\ Hand("aDecode")' = Hand("aDecode")
  BY StillKept DEF LineInv
<1>2. LastHeard' = LastHeard /\ OnOffer' = OnOffer
  BY DEF LastHeard, OnOffer, Offered
<1>3. VideoLine'
  BY <1>1, <1>2 DEF LineInv, VideoLine, Still
<1>4. AudioLine'
  BY <1>1, <1>2 DEF LineInv, AudioLine, Still
<1>5. ShownOK'
  BY DEF LineInv, ShownOK, Still, InHand
<1>6. HeardOK'
  BY <1>2 DEF LineInv, HeardOK
<1> QED BY <1>1, <1>3, <1>4, <1>5, <1>6 DEF LineInv

(* The sync thread.                                                        *)
LEMMA SyncSteps ==
  ASSUME PlayInv, LineInv, 1 \in Slot, NEW t \in SyncThread, Sync(t)
  PROVE  LineInv' /\ StreamStep /\ UNCHANGED frames /\ LastHeard' = LastHeard
<1>0. /\ t \in Thread /\ pc \in [Thread -> Label] /\ synPts \in [Decoder -> Nat]
      /\ Device \in Thread /\ Device # t
      /\ \A d \in Decoder : Worker(d) \in Thread /\ Worker(d) # t
      /\ "vDecode" \in Decoder /\ "aDecode" \in Decoder
  BY WorkTypes, Names, Kinds4, DecodersAre DEF PlayInv, DecodersOK
<1>1. /\ \E l : pc' = [pc EXCEPT ![t] = l]
      /\ UNCHANGED <<pos, note, shown, frames, audioPts, sound, heard, isExit>>
      /\ UNCHANGED <<packs, codec, frame, pck, framePts>>
      /\ UNCHANGED synPts \/ synPts' = [synPts EXCEPT !["vDecode"] = audioPts]
  <2>1. CASE SyncLoop(t)
    BY <2>1 DEF SyncLoop, SyncAgain, Leave, GoTo, demuxVars, noteVars, audioVars, decodeVars, history
  <2>2. CASE SyncCopy(t)
    BY <2>2 DEF SyncCopy, SyncAgain, GoTo, flags, demuxVars, noteVars, audioVars, history
  <2> QED BY <2>1, <2>2 DEF Sync
<1>2. pc'[Device] = pc[Device] /\ \A d \in Decoder : Still(d)
  BY <1>0, <1>1 DEF Still
<1>3. LineInv'
  <2>1. NoteOK'
    BY <1>1 DEF LineInv, NoteOK
  <2> QED BY <1>0, <1>1, <1>2, <2>1, LineStays
<1>4. LastHeard' = LastHeard /\ Released' = Released
  BY <1>1 DEF LastHeard, Released
<1>5. CASE UNCHANGED synPts
  BY <1>1, <1>3, <1>4, <1>5, StreamStays DEF StreamNow
<1>6. CASE synPts' = [synPts EXCEPT !["vDecode"] = audioPts]
  <2>1. synPts'["vDecode"] = TimeOf(LastHeard)
    BY <1>0, <1>6 DEF LineInv, HeardOK
  <2> QED BY <1>1, <1>3, <1>4, <2>1, StreamCopies
<1> QED BY <1>1, <1>3, <1>4, <1>5, <1>6

(* The observer of a packet.                                               *)
Receiver(p) == IF Kind(p) = "audio" THEN 2 ELSE 1

(* Where Notify() goes when both decoders know their stream.               *)
LEMMA OfferTo ==
  ASSUME PlayInv, ~isAudio["vDecode"], isAudio["aDecode"], NEW c \in Caller, NEW p \in Read,
         NEW i \in {1, 2, 3}, Offer(c, i, p)
  PROVE  IF i <= Receiver(p) THEN note'[c] = [at |-> "test", to |-> Receiver(p), pkt |-> p]
                       ELSE note'[c] = NotNotifying
<1> DEFINE next == {j \in i .. Len(obss) : Interested(j, p)}
<1>0. /\ note \in [Caller -> [at : NoteLabel, to : 0 .. Len(obss), pkt : Packet]]
      /\ isAudio \in [Decoder -> BOOLEAN]
  BY DEF PlayInv, NotesOK, DecodersOK
<1>1. Len(obss) = 2 /\ obss[1] = "vDecode" /\ obss[2] = "aDecode"
  BY DEF obss
<1>2. (Interested(1, p) <=> Kind(p) # "audio") /\ (Interested(2, p) <=> Kind(p) = "audio")
  BY <1>0, <1>1, DecodersAre DEF Interested
<1>3. \A j \in i .. 2 : j \in {1, 2} /\ j >= i
  OBVIOUS
<1>4. next = IF i <= Receiver(p) THEN {Receiver(p)} ELSE {}
  BY <1>1, <1>2, <1>3 DEF Receiver
<1>5. CASE i <= Receiver(p)
  <2>1. (CHOOSE j \in next : \A k \in next : j <= k) = Receiver(p)
    BY <1>4, <1>5 DEF Receiver
  <2> QED BY <1>0, <1>4, <1>5, <2>1 DEF Offer, SetNote
<1>6. CASE ~(i <= Receiver(p))
  BY <1>0, <1>4, <1>6 DEF Offer
<1> QED BY <1>5, <1>6

-----------------------------------------------------------------------------
(* The demuxer thread.                                                     *)

(* What the demuxer thread leaves alone.                                   *)
LEMMA ReaderKeeps ==
  ASSUME PlayInv, LineInv, 1 \in Slot, Demux(Reader)
  PROVE  /\ UNCHANGED <<isExit, shown, frames>> /\ LastHeard' = LastHeard
         /\ \A d \in Decoder : Hand(d)' = Hand(d)
         /\ StreamStep
         /\ VideoLine' /\ AudioLine' /\ NoteOK' /\ Sorted(packs'["vDecode"]) /\ Sorted(packs'["aDecode"])
              => LineInv'
<1>0. /\ Reader \in DemuxThread /\ Reader \in Thread /\ pc \in [Thread -> Label]
      /\ Device \in Thread /\ Device # Reader
      /\ \A d \in Decoder : Worker(d) \in Thread /\ Worker(d) # Reader
      /\ "vDecode" \in Decoder /\ "aDecode" \in Decoder
  BY WorkTypes, DecodersAre, Names, Kinds4 DEF Reader, DemuxThread
<1>1. pc' = [pc EXCEPT ![Reader] = pc'[Reader]]
  BY <1>0, DemuxSteps
<1>2. pc'[Device] = pc[Device] /\ \A d \in Decoder : pc'[Worker(d)] = pc[Worker(d)]
  BY <1>0, <1>1
<1>3. /\ UNCHANGED <<isExit, shown, frames, audioPts, sound, heard>>
      /\ UNCHANGED <<codec, frame, pck, framePts, synPts>>
  <2>1. CASE DemuxLoop(Reader)
    BY <2>1 DEF DemuxLoop, EnterLoop, PausedLoop, Leave, Again, audioVars, decodeVars, history
  <2>2. CASE DemuxRead(Reader)
    BY <2>2 DEF DemuxRead, Again, audioVars, decodeVars, history
  <2>3. CASE DemuxNotify(Reader)
    BY <2>3 DEF DemuxNotify, NotifyStep, Again, audioVars, history
  <2> QED BY <2>1, <2>2, <2>3 DEF Demux
<1>4. LastHeard' = LastHeard
  BY <1>3 DEF LastHeard
<1>5. \A d \in Decoder : Hand(d)' = Hand(d)
  BY <1>2, <1>3 DEF Hand, InHand
<1>6. StreamStep
  BY <1>3, <1>4, StreamStays DEF StreamNow, Released
<1>7. ASSUME Sorted(packs'["vDecode"]), Sorted(packs'["aDecode"])
      PROVE  QueueOK("vDecode")' /\ QueueOK("aDecode")'
  <2>1. CodecOK("vDecode")' /\ CodecOK("aDecode")'
    BY <1>0, <1>2, <1>3 DEF LineInv, QueueOK, CodecOK
  <2>2. \A d : Sorted(packs[d])' <=> Sorted(packs'[d])
    BY DEF Sorted
  <2> QED BY <1>7, <2>1, <2>2 DEF QueueOK
<1>8. ShownOK'
  BY <1>0, <1>2, <1>3 DEF LineInv, ShownOK, InHand
<1>9. HeardOK'
  BY <1>2, <1>3, <1>4 DEF LineInv, HeardOK, Sorted
<1> QED BY <1>3, <1>4, <1>5, <1>6, <1>7, <1>8, <1>9 DEF LineInv

(* It reads on in the file.                                                *)
LEMMA ReaderReads ==
  ASSUME PlayInv, LineInv, NotesFollow, 1 \in Slot, Demux(Reader), UNCHANGED packs,
         \/ UNCHANGED <<noteVars, pos>>
         \/ pc[Reader] = "read" /\ ReadResult = NoPacket /\ Advance /\ UNCHANGED noteVars
         \/ pc[Reader] = "read" /\ ReadResult # NoPacket /\ Advance /\ BeginNotify(Reader, ReadResult)
  PROVE  LineInv' /\ StreamStep
<1> DEFINE FV == {}
           HV == Hand("vDecode")
           QV == NumsOf(packs["vDecode"])
           FA == NumsOf(frames)
           HA == Hand("aDecode")
           QA == NumsOf(packs["aDecode"])
           video == "video"
           audio == "audio"
           next == IF note'[Reader].at = "done" THEN 0 ELSE pos
<1>0. /\ Reader \in DemuxThread /\ Reader \in Caller /\ "vDecode" \in Decoder /\ "aDecode" \in Decoder
      /\ note \in [Caller -> [at : NoteLabel, to : 0 .. Len(obss), pkt : Packet]]
  BY Names, DecodersAre DEF Reader, DemuxThread, PlayInv, NotesOK
<1>1. shown.n \in Nat /\ LastHeard \in Nat /\ pos \in Nat \ {0}
  BY LineTypes
<1>2. /\ Line(video, shown.n, FV, HV, QV, OnOffer, pos)
      /\ Line(audio, LastHeard, FA, HA, QA, OnOffer, pos)
      /\ Sorted(packs["vDecode"]) /\ Sorted(packs["aDecode"])
  BY DEF LineInv, VideoLine, AudioLine, QueueOK
<1>3. /\ StreamStep /\ UNCHANGED <<isExit, shown, frames>> /\ LastHeard' = LastHeard
      /\ Hand("vDecode")' = HV /\ Hand("aDecode")' = HA
      /\ VideoLine' /\ AudioLine' /\ NoteOK' => LineInv'
  BY <1>0, <1>2, ReaderKeeps
<1>4. /\ VideoLine' <=> Line(video, shown.n, FV, HV, QV, OnOffer', pos')
      /\ AudioLine' <=> Line(audio, LastHeard, FA, HA, QA, OnOffer', pos')
  BY <1>3 DEF VideoLine, AudioLine, Line
<1> HIDE DEF FV, HV, QV, FA, HA, QA, video, audio
<1>5. CASE UNCHANGED <<noteVars, pos>>
  <2>1. OnOffer' = OnOffer
    BY <1>5 DEF OnOffer, Offered, noteVars
  <2>2. NoteOK'
    BY <1>3, <1>5 DEF LineInv, NoteOK, noteVars
  <2> QED BY <1>2, <1>3, <1>4, <1>5, <2>1, <2>2
<1>6. CASE /\ pc[Reader] = "read" /\ Advance
           /\ \/ ReadResult = NoPacket /\ UNCHANGED noteVars
              \/ ReadResult # NoPacket /\ BeginNotify(Reader, ReadResult)
  <2>1. note[Reader].at = "done" /\ OnOffer = 0
    BY <1>0, <1>6 DEF NotesFollow, OnOffer, Offered, NoPacket
  <2>2. CASE ReadResult = NoPacket /\ UNCHANGED noteVars
    <3>1. OnOffer' = 0 /\ NoteOK'
      BY <1>3, <2>1, <2>2 DEF OnOffer, Offered, NoteOK, noteVars, NoPacket
    <3>2. pos' = pos \/ (pos' = pos + 1 /\ File[pos].kind = "other")
      BY <1>1, <1>6, <2>2, FileLength DEF Advance, ReadResult, NoPacket
    <3>3. pos' = pos + 1 =>
            /\ Line(video, shown.n, FV, HV, QV, 0, pos + 1)
            /\ Line(audio, LastHeard, FA, HA, QA, 0, pos + 1)
      <4>1. ASSUME pos' = pos + 1 PROVE File[pos].kind # video /\ File[pos].kind # audio
        BY <1>1, <3>2, <4>1 DEF video, audio
      <4>2. Line(video, shown.n, FV, HV, QV, 0, pos) /\ Line(audio, LastHeard, FA, HA, QA, 0, pos)
        BY <1>2, <2>1
      <4>3. 0 \in {0, pos}
        OBVIOUS
      <4> QED BY <1>1, <4>1, <4>2, <4>3, LineReads, Zenon
    <3> QED BY <1>2, <1>3, <1>4, <2>1, <3>1, <3>2, <3>3
  <2>3. CASE ReadResult # NoPacket /\ BeginNotify(Reader, ReadResult)
    <3>1. ReadResult.n = pos /\ pos' = pos + 1 /\ File[pos].kind # "other" /\ pos \in 1 .. Len(File)
      BY <1>1, <1>6, <2>3, FileLength DEF Advance, ReadResult, AtEnd
    <3>2. note'[Reader] = [at |-> "lock", to |-> 0, pkt |-> ReadResult]
      BY <1>0, <2>3 DEF BeginNotify, SetNote
    <3>3. OnOffer' = pos /\ NoteOK'
      BY <3>1, <3>2 DEF OnOffer, Offered, NoteOK, Kind
    <3>4. File[pos].kind = video \/ File[pos].kind = audio
      <4>1. \A S : \A s \in Seq(S) : \A i \in 1 .. Len(s) : s[i] \in S
        OBVIOUS
      <4>2. File[pos] \in [kind : Kinds, key : BOOLEAN, pts : Nat]
        BY <3>1, <4>1, FileAssumption, Zenon
      <4> QED BY <3>1, <4>2 DEF Kinds, video, audio
    <3>5. /\ Line(video, shown.n, FV, HV, QV, pos, pos + 1)
          /\ Line(audio, LastHeard, FA, HA, QA, pos, pos + 1)
      <4>1. Line(video, shown.n, FV, HV, QV, 0, pos) /\ Line(audio, LastHeard, FA, HA, QA, 0, pos)
        BY <1>2, <2>1
      <4>2. pos \in {0, pos} /\ pos # 0
        BY <1>1
      <4> QED BY <1>1, <4>1, <4>2, LineReads, Zenon
    <3> QED BY <1>3, <1>4, <3>1, <3>3, <3>5
  <2> QED BY <1>6, <2>2, <2>3
<1> QED BY <1>5, <1>6

(* What the demuxer thread can rely on in its Notify().                    *)
LEMMA ReaderReady ==
  ASSUME PlayInv, OwnInv, NotesFollow, LineInv, Begun, 1 \in Slot, pc[Reader] = "notify"
  PROVE  LET p == note[Reader].pkt IN
         /\ ~isAudio["vDecode"] /\ isAudio["aDecode"] /\ ~isExit["vDecode"]
         /\ note[Reader].at # "done" /\ p \in Read /\ p.n \in Nat \ {0} /\ OnOffer = p.n
         /\ Kind(p) \in {"video", "audio"}
         /\ note[Reader].at \in {"test", "push"} => note[Reader].to = Receiver(p)
         /\ note[Reader].at = "push" => ~isExit[obss[Receiver(p)]]
         /\ isExit["aDecode"] =>
              /\ LastHeard = 0 /\ NumsOf(frames) = {} /\ Hand("aDecode") = {}
              /\ NumsOf(packs["aDecode"]) = {}
<1> DEFINE p == note[Reader].pkt
<1>0. /\ Reader \in DemuxThread /\ Reader \in Caller /\ Reader \in Thread
      /\ "vDecode" \in Decoder /\ "aDecode" \in Decoder
  BY Names, DecodersAre DEF Reader, DemuxThread
<1>1. note[Reader].at # "done" /\ p \in Read /\ OnOffer = p.n
  BY <1>0 DEF NotesFollow, PlayInv, NotesOK, OnOffer, Offered
<1>2. p.n \in Nat \ {0} /\ p # NoPacket /\ p.n \in 1 .. Len(File)
  BY <1>1, LineTypes, Names
<1>3. ~InOpen(1, 37)
  BY DEF Begun
<1>4. epoch # 0
  <2>1. Before(p)
    BY <1>0, <1>1, <1>2 DEF OwnInv, AllBefore, Offered
  <2> QED BY <2>1 DEF Before, PlayInv, FileOK
<1>5. ~isAudio["vDecode"] /\ isAudio["aDecode"]
  <2>1. ~(op = "open" /\ ip \in 28 .. 33)
    BY <1>3 DEF InOpen
  <2> QED BY <1>4, <2>1 DEF OwnInv, StreamsOK
<1>6. ~isExit["vDecode"]
  <2>1. InOpen(7, 36) => InOpen(1, 37)
    BY DEF InOpen
  <2> QED BY <1>3, <2>1 DEF Begun
<1>7. ASSUME isExit["aDecode"]
      PROVE  /\ LastHeard = 0 /\ NumsOf(frames) = {} /\ Hand("aDecode") = {}
             /\ NumsOf(packs["aDecode"]) = {}
  <2>1. InOpen(9, 38)
    BY <1>7 DEF Begun
  <2>2. InOpen(1, 38) /\ InOpen(1, 42)
    BY <2>1 DEF InOpen
  <2>3. /\ pc[Worker("aDecode")] = "none" /\ packs["aDecode"] = <<>>
        /\ frames = <<>> /\ LastHeard = 0
    BY <2>2 DEF Begun
  <2> QED BY <2>3 DEF NumsOf, Hand, InHand
<1>8. Kind(p) \in {"video", "audio"}
  <2>1. \A S : \A s \in Seq(S) : \A i \in 1 .. Len(s) : s[i] \in S
    OBVIOUS
  <2>2. File[p.n] \in [kind : Kinds, key : BOOLEAN, pts : Nat]
    BY <1>2, <2>1, FileAssumption, Zenon
  <2> QED BY <1>1, <2>2 DEF LineInv, NoteOK, Kind, Kinds
<1>9. /\ note[Reader].at \in {"test", "push"} => note[Reader].to = Receiver(p)
      /\ note[Reader].at = "push" => ~isExit[obss[Receiver(p)]]
  BY DEF LineInv, NoteOK, Receiver
<1> QED BY <1>1, <1>2, <1>5, <1>6, <1>7, <1>8, <1>9

(* Each step of it: on to the observer, or the packet is his, or refused.  *)
LEMMA ReaderGoes ==
  ASSUME PlayInv, OwnInv, NotesFollow, LineInv, Begun, 1 \in Slot, pc[Reader] = "notify",
         NotifyStep(Reader)
  PROVE  LET p == note[Reader].pkt
             d == obss[Receiver(p)]
             n == note'[Reader]
         IN  \/ /\ UNCHANGED packs
                /\ n.at \in {"test", "push"} /\ n.to = Receiver(p) /\ n.pkt = p
                /\ n.at = "push" => ~isExit[d]
             \/ n = NotNotifying /\ UNCHANGED packs /\ d = "aDecode" /\ isExit["aDecode"]
             \/ n = NotNotifying /\ packs' = [packs EXCEPT ![d] = Append(@, p)]
<1> DEFINE p == note[Reader].pkt
           d == obss[Receiver(p)]
           n == note'[Reader]
<1>0. /\ Reader \in Caller /\ note \in [Caller -> [at : NoteLabel, to : 0 .. Len(obss), pkt : Packet]]
  BY Names DEF Reader, DemuxThread, PlayInv, NotesOK
<1>1. /\ ~isAudio["vDecode"] /\ isAudio["aDecode"] /\ ~isExit["vDecode"] /\ p \in Read
      /\ note[Reader].at \in {"test", "push"} => note[Reader].to = Receiver(p)
  BY ReaderReady
<1>2. Receiver(p) \in {1, 2} /\ obss[1] = "vDecode" /\ obss[2] = "aDecode" /\ ~(Receiver(p) + 1 <= Receiver(p))
  BY DEF Receiver, obss
<1>3. \A i \in {1, 2, 3} : Offer(Reader, i, p) =>
        IF i <= Receiver(p) THEN n = [at |-> "test", to |-> Receiver(p), pkt |-> p] ELSE n = NotNotifying
  BY <1>0, <1>1, OfferTo
<1>4. CASE LockNotify(Reader)
  <2>1. Offer(Reader, 1, p) /\ UNCHANGED packs
    BY <1>4 DEF LockNotify
  <2>2. n = [at |-> "test", to |-> Receiver(p), pkt |-> p]
    BY <1>2, <1>3, <2>1
  <2> QED BY <2>1, <2>2
<1>5. CASE TestObserver(Reader)
  <2>1. note[Reader].to = Receiver(p) /\ UNCHANGED packs
    BY <1>1, <1>5 DEF TestObserver
  <2>2. CASE isExit[d]
    <3>1. Offer(Reader, Receiver(p) + 1, p)
      BY <1>5, <2>1, <2>2 DEF TestObserver
    <3>2. n = NotNotifying
      BY <1>2, <1>3, <3>1
    <3> QED BY <1>1, <1>2, <2>1, <2>2, <3>2
  <2>3. CASE ~isExit[d]
    <3>1. n = [at |-> "push", to |-> Receiver(p), pkt |-> p]
      BY <1>0, <1>5, <2>1, <2>3 DEF TestObserver, SetNote
    <3> QED BY <2>1, <2>3, <3>1
  <2> QED BY <2>2, <2>3
<1>6. CASE PushObserver(Reader)
  <2>1. note[Reader].to = Receiver(p)
    BY <1>1, <1>6 DEF PushObserver
  <2>2. CASE HasRoom(d)
    <3>1. Offer(Reader, Receiver(p) + 1, p) /\ packs' = [packs EXCEPT ![d] = Append(@, p)]
      BY <1>6, <2>1, <2>2 DEF PushObserver, PushPacket
    <3>2. n = NotNotifying
      BY <1>2, <1>3, <3>1
    <3> QED BY <3>1, <3>2
  <2>3. CASE ~HasRoom(d)
    <3>1. n = [at |-> "test", to |-> Receiver(p), pkt |-> p] /\ UNCHANGED packs
      BY <1>0, <1>6, <2>1, <2>3 DEF PushObserver, SetNote
    <3> QED BY <3>1
  <2> QED BY <2>2, <2>3
<1> QED BY <1>4, <1>5, <1>6 DEF NotifyStep

(* It hands a packet to the queue of its stream.                           *)
LEMMA ReaderOffers ==
  ASSUME PlayInv, OwnInv, NotesFollow, LineInv, Begun, 1 \in Slot, Demux(Reader),
         pc[Reader] = "notify", NotifyStep(Reader), UNCHANGED pos
  PROVE  LineInv' /\ StreamStep
<1> DEFINE FV == {}
           HV == Hand("vDecode")
           QV == NumsOf(packs["vDecode"])
           FA == NumsOf(frames)
           HA == Hand("aDecode")
           QA == NumsOf(packs["aDecode"])
           video == "video"
           audio == "audio"
           p == note[Reader].pkt
           m == p.n
           d == obss[Receiver(p)]
           n == note'[Reader]
<1>0. /\ "vDecode" \in Decoder /\ "aDecode" \in Decoder /\ packs \in [Decoder -> Seq(Read)]
      /\ p \in Read /\ m \in Nat \ {0} /\ OnOffer = m /\ Kind(p) \in {"video", "audio"}
      /\ d = IF Kind(p) = "audio" THEN "aDecode" ELSE "vDecode"
  BY WorkTypes, DecodersAre, ReaderReady DEF Receiver, obss
<1>1. /\ shown.n \in Nat /\ LastHeard \in Nat /\ pos \in Nat
      /\ packs["vDecode"] \in Seq(Read) /\ packs["aDecode"] \in Seq(Read)
  BY <1>0, LineTypes
<1>2. /\ Line(video, shown.n, FV, HV, QV, m, pos)
      /\ Line(audio, LastHeard, FA, HA, QA, m, pos)
      /\ Sorted(packs["vDecode"]) /\ Sorted(packs["aDecode"])
  BY <1>0 DEF LineInv, VideoLine, AudioLine, QueueOK
<1>3. /\ StreamStep /\ UNCHANGED <<isExit, shown, frames>> /\ LastHeard' = LastHeard
      /\ Hand("vDecode")' = HV /\ Hand("aDecode")' = HA
      /\ VideoLine' /\ AudioLine' /\ NoteOK' /\ Sorted(packs'["vDecode"]) /\ Sorted(packs'["aDecode"])
           => LineInv'
  BY <1>0, ReaderKeeps
<1>4. /\ VideoLine' <=> Line(video, shown.n, FV, HV, NumsOf(packs'["vDecode"]), OnOffer', pos)
      /\ AudioLine' <=> Line(audio, LastHeard, FA, HA, NumsOf(packs'["aDecode"]), OnOffer', pos)
  BY <1>3 DEF VideoLine, AudioLine, Line
<1>5. CASE /\ UNCHANGED packs
           /\ n.at \in {"test", "push"} /\ n.to = Receiver(p) /\ n.pkt = p
           /\ n.at = "push" => ~isExit[d]
  <2>1. OnOffer' = m
    BY <1>5 DEF OnOffer, Offered
  <2>2. NoteOK'
    BY <1>0, <1>3, <1>5 DEF NoteOK, Receiver
  <2> QED BY <1>2, <1>3, <1>4, <1>5, <2>1, <2>2
<1>6. ASSUME n = NotNotifying PROVE OnOffer' = 0 /\ NoteOK'
  BY <1>6 DEF OnOffer, Offered, NoteOK, NotNotifying, NoPacket
<1>7. File[m].kind = Kind(p)
  BY DEF Kind
<1>8. isExit["aDecode"] => LastHeard = 0 /\ FA = {} /\ HA = {} /\ QA = {}
  BY ReaderReady
<1> HIDE DEF FV, HV, QV, FA, HA, QA, p, m, d, n
<1>9. /\ Kind(p) = "audio" /\ isExit["aDecode"] => Line(audio, LastHeard, FA, HA, QA, 0, pos)
      /\ Kind(p) = "audio" => /\ Line(video, shown.n, FV, HV, QV, 0, pos)
                              /\ Line(audio, LastHeard, FA, HA, QA \cup {m}, 0, pos)
      /\ Kind(p) = "video" => /\ Line(video, shown.n, FV, HV, QV \cup {m}, 0, pos)
                              /\ Line(audio, LastHeard, FA, HA, QA, 0, pos)
  <2>1. /\ (Kind(p) = "audio" => File[m].kind = audio /\ File[m].kind # video)
        /\ (Kind(p) = "video" => File[m].kind = video /\ File[m].kind # audio)
        /\ audio # "video"
    BY <1>7 DEF video, audio
  <2> HIDE DEF video, audio
  <2>2. /\ File[m].kind = video => Line(video, shown.n, FV, HV, QV \cup {m}, 0, pos)
        /\ File[m].kind # video => Line(video, shown.n, FV, HV, QV, 0, pos)
    BY <1>0, <1>1, <1>2, LineOffers, Zenon
  <2>3. /\ File[m].kind = audio => Line(audio, LastHeard, FA, HA, QA \cup {m}, 0, pos)
        /\ File[m].kind # audio => Line(audio, LastHeard, FA, HA, QA, 0, pos)
        /\ audio # "video" /\ LastHeard = 0 /\ FA = {} /\ HA = {} /\ QA = {} =>
             Line(audio, LastHeard, FA, HA, QA, 0, pos)
    BY <1>0, <1>1, <1>2, LineOffers, Zenon
  <2> QED BY <1>8, <2>1, <2>2, <2>3
<1>10. CASE n = NotNotifying /\ UNCHANGED packs /\ d = "aDecode" /\ isExit["aDecode"]
  <2>1. Kind(p) = "audio"
    BY <1>0, <1>10
  <2> QED BY <1>2, <1>3, <1>4, <1>6, <1>9, <1>10, <2>1 DEF QV, QA
<1>11. CASE n = NotNotifying /\ packs' = [packs EXCEPT ![d] = Append(@, p)]
  <2>1. \A x \in QV : x < m
    BY <1>0, <1>2 DEF Line
  <2>2. \A x \in QA : x < m
    BY <1>0, <1>2 DEF Line
  <2>3. CASE Kind(p) = "audio"
    <3>1. packs'["aDecode"] = Append(packs["aDecode"], p) /\ packs'["vDecode"] = packs["vDecode"]
      BY <1>0, <1>11, <2>3
    <3>2. /\ Sorted(Append(packs["aDecode"], p))
          /\ NumsOf(Append(packs["aDecode"], p)) = NumsOf(packs["aDecode"]) \cup {p.n}
      BY <1>0, <1>1, <1>2, <2>2, NumsAppend DEF QA, m
    <3>3. NumsOf(packs'["aDecode"]) = QA \cup {m} /\ NumsOf(packs'["vDecode"]) = QV
      BY <3>1, <3>2 DEF QA, QV, m
    <3> QED BY <1>2, <1>3, <1>4, <1>6, <1>9, <1>11, <2>3, <3>1, <3>2, <3>3
  <2>4. CASE Kind(p) = "video"
    <3>1. packs'["vDecode"] = Append(packs["vDecode"], p) /\ packs'["aDecode"] = packs["aDecode"]
      BY <1>0, <1>11, <2>4
    <3>2. /\ Sorted(Append(packs["vDecode"], p))
          /\ NumsOf(Append(packs["vDecode"], p)) = NumsOf(packs["vDecode"]) \cup {p.n}
      BY <1>0, <1>1, <1>2, <2>1, NumsAppend DEF QV, m
    <3>3. NumsOf(packs'["vDecode"]) = QV \cup {m} /\ NumsOf(packs'["aDecode"]) = QA
      BY <3>1, <3>2 DEF QA, QV, m
    <3> QED BY <1>2, <1>3, <1>4, <1>6, <1>9, <1>11, <2>4, <3>1, <3>2, <3>3
  <2> QED BY <1>0, <2>3, <2>4
<1> QED BY <1>5, <1>10, <1>11, ReaderGoes DEF p, d, n

(* Every step of the demuxer thread.                                       *)
LEMMA ReaderSteps ==
  ASSUME PlayInv, OwnInv, NotesFollow, LineInv, Begun, 1 \in Slot, Demux(Reader)
  PROVE  LineInv' /\ StreamStep
<1>1. Reader \in DemuxThread
  BY DEF Reader, DemuxThread
<1>2. DemuxGoes(Reader)
  BY <1>1, DemuxSteps
<1>3. CASE pc[Reader] = "notify" /\ NotifyStep(Reader) /\ UNCHANGED pos
  BY <1>3, ReaderOffers
<1>4. CASE ~(pc[Reader] = "notify" /\ NotifyStep(Reader) /\ UNCHANGED pos)
  <2>1. /\ UNCHANGED packs
        /\ \/ UNCHANGED <<noteVars, pos>>
           \/ pc[Reader] = "read" /\ ReadResult = NoPacket /\ Advance /\ UNCHANGED noteVars
           \/ pc[Reader] = "read" /\ ReadResult # NoPacket /\ Advance /\ BeginNotify(Reader, ReadResult)
    BY <1>2, <1>4 DEF DemuxGoes
  <2> QED BY <2>1, ReaderReads
<1> QED BY <1>3, <1>4

-----------------------------------------------------------------------------
(* The control thread.                                                     *)

(* Where Open() touches what is played.                                    *)
OpenTouches(i, e) ==
  /\ e.do \in {"flush", "free", "open", "close"} => i <= 35
  /\ e.do = "clear" => i <= 35 \/ (i = 39 /\ e.on = "audioPlay")
  /\ e.do = "exit" => i <= 10
  /\ e.do = "start" => i >= 36 /\ e.on # "audioPlay"
  /\ e.do = "create" => i = 41
  /\ e.do = "withdraw" => i = 42
  /\ i = 8 => e.do = "exit" /\ e.on = "aDecode"
  /\ i = 10 => e.do = "exit" /\ e.on = "audioPlay"
  /\ i = 30 => e.do = "open" /\ e.on = "vDecode"
  /\ i = 33 => e.do = "open" /\ e.on = "aDecode"
  /\ i = 38 => e.do = "start" /\ e.on = "aDecode"
  /\ i = 42 => e.do = "withdraw"

(* By its entries.                                                         *)
LEMMA OpenTouched == \A i \in 1 .. 44 : OpenTouches(i, OpenScript[i])
<1> SUFFICES ASSUME NEW i \in 1 .. 44 PROVE OpenTouches(i, OpenScript[i])
  OBVIOUS
<1>1. CASE i <= 24
  <2>1. OpenScript[i] = CloseScript[i]
    BY <1>1, OpenAt
  <2> QED BY <1>1, <2>1 DEF OpenTouches, CloseScript, Do
<1>2. CASE i \in 25 .. 34
  <2>1. OpenScript[i] = OpenParts[i - 24]
    BY <1>2, OpenAt
  <2> QED BY <1>2, <2>1 DEF OpenTouches, OpenParts, Do
<1>3. CASE i \in 35 .. 44
  <2>1. OpenScript[i] = StartScript[i - 34]
    BY <1>3, OpenAt
  <2> QED BY <1>3, <2>1 DEF OpenTouches, StartScript, Do
<1> QED BY <1>1, <1>2, <1>3

(* The other scripts touch nothing.                                        *)
LEMMA Touched ==
  ASSUME PlayInv, op # "seek", op # "idle"
  PROVE  /\ op = "open" => ip \in 1 .. 44 /\ OpenTouches(ip, Entry)
         /\ op # "open" => Entry.do \in {"lock", "unlock", "await", "pause", "resume"}
<1>1. op \in DOMAIN Script /\ ip \in 1 .. Size(op) /\ (op \in {"pause", "resume"} => PauseFacts(op, ip, Entry))
  BY EntryOK DEF PlayInv
<1>2. op = "open" => ip \in 1 .. 44 /\ OpenTouches(ip, Entry)
  BY <1>1, Scripts, OpenTouched DEF Entry, Size
<1>3. op # "open" => op \in {"pause", "resume"}
  BY <1>1, Scripts
<1> QED BY <1>1, <1>2, <1>3 DEF PauseFacts

(* What the control thread does to the streams: nothing once they flow.    *)
LeavesStreams ==
  /\ UNCHANGED <<pos, note, shown, frames, audioPts, sound, heard, packs, codec, pck>>
  /\ framePts'["vDecode"] = framePts["vDecode"] /\ synPts'["vDecode"] = synPts["vDecode"]
  /\ outstanding' => outstanding \/ InOpen(41, 41)
  /\ \A t \in Thread :
       pc'[t] = pc[t] \/ (pc[t] = "none" /\ pc'[t] = "spawned" /\ t # Device /\ ~InOpen(1, 35))
  /\ \A d \in Decoder : frame'[d] = frame[d] \/ pc[Worker(d)] = "none"
  /\ \A o \in Object : isExit'[o] => isExit[o] \/ InOpen(1, 10)

(* It only waits, locks, or sets a flag.                                   *)
LEMMA ApartFlags ==
  ASSUME PlayInv, op # "seek", Call \/ Lock \/ Unlock \/ Request \/ Join \/ Await
  PROVE  LeavesStreams
<1>1. /\ UNCHANGED <<pos, note, shown, frames, audioPts, sound, heard, packs, codec, pck>>
      /\ UNCHANGED <<framePts, synPts, outstanding, pc, frame>>
  BY DEF Call, Lock, Unlock, Request, Join, Await, demuxVars, noteVars, audioVars, decodeVars, history
<1>2. \A o \in Object : isExit'[o] => isExit[o] \/ InOpen(1, 10)
  <2>1. CASE Call
    BY <2>1 DEF Call, CallOpen, CallPlayOrPause, CallSeek, Acknowledge, flags
  <2>2. CASE Lock \/ Unlock \/ Join \/ Await
    BY <2>2 DEF Lock, Unlock, Join, Await, flags
  <2>3. CASE Request
    <3>1. op # "idle" /\ isExit \in [Object -> BOOLEAN]
      BY <2>3 DEF Request, At, PlayInv, ThreadsOK
    <3>2. CASE Entry.do = "exit" /\ isExit' = [isExit EXCEPT ![Part] = TRUE]
      <4>1. InOpen(1, 10)
        BY <3>1, <3>2, Touched DEF OpenTouches, InOpen
      <4> QED BY <4>1
    <3>3. CASE UNCHANGED isExit \/ isExit' = [isExit EXCEPT !["audioPlay"] = FALSE]
      BY <3>1, <3>3
    <3> QED BY <2>3, <3>2, <3>3 DEF Request, At, RaiseExit, RequestPause, WithdrawExit
  <2> QED BY <2>1, <2>2, <2>3
<1> QED BY <1>1, <1>2 DEF LeavesStreams

(* It starts a thread.                                                     *)
LEMMA ApartStart ==
  ASSUME PlayInv, op # "seek", StartPart
  PROVE  LeavesStreams
<1>1. op # "idle" /\ Entry.do = "start" /\ Start(Part) /\ isExit \in [Object -> BOOLEAN]
      /\ pc \in [Thread -> Label]
  BY DEF StartPart, At, PlayInv, ThreadsOK
<1>2. op = "open" /\ ip \in 36 .. 44 /\ Part # "audioPlay"
  BY <1>1, Touched DEF OpenTouches, Part
<1>3. Part \in Object
  BY <1>1, EntryOK, Names DEF PlayInv, GoodEntry, Part
<1>4. PICK k \in Slot : pc[<<Part, k>>] = "none" /\ pc' = [pc EXCEPT ![<<Part, k>>] = "spawned"]
  BY <1>1, <1>3, SpawnOK DEF Start
<1>5. ~InOpen(1, 35) /\ <<Part, k>> # Device /\ <<Part, k>> \in Thread
  BY <1>2, <1>3 DEF InOpen, Device, Thread
<1>6. \A t \in Thread :
        pc'[t] = pc[t] \/ (pc[t] = "none" /\ pc'[t] = "spawned" /\ t # Device /\ ~InOpen(1, 35))
  BY <1>1, <1>4, <1>5
<1>7. \A o \in Object : isExit'[o] => isExit[o]
  BY <1>1 DEF Start
<1>8. UNCHANGED <<pos, note, shown, frames, audioPts, sound, heard, packs, codec, pck, framePts, synPts,
                  outstanding, frame>>
  BY DEF StartPart, demuxVars, noteVars, audioVars, decodeVars
<1> QED BY <1>6, <1>7, <1>8 DEF LeavesStreams

(* It calls a part.                                                        *)
LEMMA ApartCalls ==
  ASSUME PlayInv, Begun, 1 \in Slot, DecoderCall \/ AudioCall \/ DemuxCall
  PROVE  LeavesStreams
<1>0. /\ "vDecode" \in Decoder /\ "aDecode" \in Decoder
      /\ packs \in [Decoder -> Seq(Read)] /\ codec \in [Decoder -> Seq(Read)]
      /\ synPts \in [Decoder -> Nat] /\ framePts \in [Decoder -> Nat] /\ frame \in [Decoder -> Packet]
      /\ \A d \in Decoder : Worker(d) \in Thread
  BY DecodersAre, WorkTypes DEF PlayInv, DecodersOK
<1>1. op # "idle" /\ op # "seek" /\ Entry.do \notin {"lock", "unlock", "await", "pause", "resume"}
  BY DEF DecoderCall, AudioCall, DemuxCall, At, Begun
<1>2. op = "open" /\ ip \in 1 .. 44 /\ OpenTouches(ip, Entry)
  BY <1>1, Touched
<1>3. CASE DecoderCall
  <2>1. InOpen(1, 35)
    <3>1. \/ Entry.do \in {"flush", "free", "open"}
          \/ Entry.do = "clear" /\ Entry.on # "audioPlay"
      BY <1>3 DEF DecoderCall, At, Decoder, Part
    <3> QED BY <1>2, <3>1 DEF OpenTouches, InOpen
  <2>2. Quiet
    BY <2>1 DEF Begun
  <2>3. /\ UNCHANGED <<pos, note, shown, frames, audioPts, sound, heard, pck, outstanding, pc, isExit>>
        /\ \/ /\ UNCHANGED frame /\ UNCHANGED codec
              /\ packs' = [packs EXCEPT ![Part] = <<>>]
              /\ framePts' = [framePts EXCEPT ![Part] = 0] /\ synPts' = [synPts EXCEPT ![Part] = 0]
           \/ UNCHANGED <<packs, framePts, synPts, frame>> /\ codec' = [codec EXCEPT ![Part] = <<>>]
           \/ /\ UNCHANGED <<packs, synPts>> /\ codec' = [codec EXCEPT ![Part] = <<>>]
              /\ framePts' = [framePts EXCEPT ![Part] = 0]
           \/ UNCHANGED <<packs, framePts, synPts, codec, frame>>
    BY <1>3 DEF DecoderCall, ClearQueue, FlushCodec, FreeCodec, OpenCodec, flags, demuxVars, noteVars,
       audioVars, history
  <2>4. /\ [packs EXCEPT ![Part] = <<>>] = packs /\ [codec EXCEPT ![Part] = <<>>] = codec
        /\ [framePts EXCEPT ![Part] = 0]["vDecode"] = framePts["vDecode"]
        /\ [synPts EXCEPT ![Part] = 0]["vDecode"] = synPts["vDecode"]
    BY <1>0, <2>2 DEF Quiet
  <2>5. /\ UNCHANGED <<packs, codec>> /\ framePts'["vDecode"] = framePts["vDecode"]
        /\ synPts'["vDecode"] = synPts["vDecode"]
    BY <2>3, <2>4
  <2>6. \A d \in Decoder : pc[Worker(d)] = "none"
    BY <1>0, <2>2 DEF Quiet
  <2> QED BY <2>3, <2>5, <2>6 DEF LeavesStreams
<1>4. CASE AudioCall
  <2>1. /\ UNCHANGED <<pos, note, shown, audioPts, sound, heard, packs, codec, pck, pc, isExit>>
        /\ UNCHANGED <<framePts, synPts, frame>>
        /\ \/ Entry.do = "clear" /\ frames' = <<>> /\ UNCHANGED outstanding
           \/ Entry.do = "destroy" /\ UNCHANGED frames /\ ~outstanding'
           \/ Entry.do = "create" /\ UNCHANGED frames
    BY <1>4 DEF AudioCall, At, ClearFrames, DestroyDevice, CreateDevice, flags, demuxVars, noteVars,
       decodeVars, history
  <2>2. Entry.do = "clear" => frames = <<>>
    <3>1. Entry.do = "clear" => InOpen(1, 42)
      BY <1>2 DEF OpenTouches, InOpen
    <3> QED BY <3>1 DEF Begun
  <2>3. Entry.do = "create" => InOpen(41, 41)
    BY <1>2 DEF OpenTouches, InOpen
  <2> QED BY <2>1, <2>2, <2>3 DEF LeavesStreams
<1>5. CASE DemuxCall
  <2>1. InOpen(1, 35) /\ Entry.do # "seek"
    <3>1. Entry.do # "seek"
      BY <1>2, EntryOK DEF PlayInv, OpenFacts
    <3>2. Entry.do \in {"close", "open"}
      BY <1>5, <3>1 DEF DemuxCall, At
    <3> QED BY <1>2, <3>1, <3>2 DEF OpenTouches, InOpen
  <2>2. pos = 1
    BY <2>1 DEF Begun, Quiet
  <2>3. UNCHANGED <<pos, note, shown, frames, audioPts, sound, heard, packs, codec, pck, pc, isExit,
                    framePts, synPts, frame, outstanding>>
    BY <1>5, <2>1, <2>2 DEF DemuxCall, At, CloseInput, OpenInput, flags, noteVars, audioVars, decodeVars,
       history
  <2> QED BY <2>3 DEF LeavesStreams
<1> QED BY <1>3, <1>4, <1>5

(* All of it.                                                              *)
LEMMA ControlApart ==
  ASSUME PlayInv, NotesFollow, Begun, 1 \in Slot, Call \/ Control
  PROVE  LeavesStreams
<1>1. op # "seek"
  BY DEF Begun
<1>2. ~SeekRead /\ ~SeekRoute /\ ~SeekNotified /\ ~SeekRecv
  BY <1>1, OnlySeek DEF SeekRead, SeekRoute, SeekNotified, SeekRecv, At, PlayInv
<1>3. ~SeekNotify
  BY <1>1, NotifyMoves, Names DEF SeekNotify, NoteStep, NotesFollow
<1> QED BY <1>1, <1>2, <1>3, ApartFlags, ApartStart, ApartCalls DEF Control

(* So the lines stay as they are.                                          *)
LEMMA ControlSteps ==
  ASSUME PlayInv, NotesFollow, LineInv, Begun, 1 \in Slot, Call \/ Control
  PROVE  LineInv' /\ StreamStep
<1>0. /\ Device \in Thread /\ Reader \in DemuxThread /\ Reader \in Thread
      /\ \A d \in Decoder : Worker(d) \in Thread
      /\ "vDecode" \in Decoder /\ "aDecode" \in Decoder
  BY WorkTypes, Names, DecodersAre DEF Reader, DemuxThread
<1>1. LeavesStreams
  BY ControlApart
<1>2. /\ UNCHANGED <<pos, note, shown, frames, audioPts, sound, heard, packs, codec, pck>>
      /\ framePts'["vDecode"] = framePts["vDecode"] /\ synPts'["vDecode"] = synPts["vDecode"]
      /\ pc'[Device] = pc[Device]
      /\ \A d \in Decoder : pc'[Worker(d)] = pc[Worker(d)] \/ (pc[Worker(d)] = "none" /\ pc'[Worker(d)] = "spawned")
      /\ \A d \in Decoder : frame'[d] = frame[d] \/ pc[Worker(d)] = "none"
  BY <1>0, <1>1 DEF LeavesStreams
<1>3. LastHeard' = LastHeard /\ OnOffer' = OnOffer /\ Released' = Released
  BY <1>2 DEF LastHeard, OnOffer, Offered, Released
<1>4. StreamStep
  BY <1>2, <1>3, StreamStays DEF StreamNow
<1>5. ASSUME NEW d \in Decoder, QueueOK(d)
      PROVE  QueueOK(d)' /\ Hand(d)' = Hand(d)
  <2>1. pc'[Worker(d)] = pc[Worker(d)] /\ frame'[d] = frame[d] =>
          CodecOK(d)' /\ Hand(d)' = Hand(d)
    BY <1>2, <1>5 DEF QueueOK, CodecOK, Hand, InHand
  <2>2. pc[Worker(d)] = "none" /\ pc'[Worker(d)] \in {"none", "spawned"} =>
          CodecOK(d)' /\ Hand(d)' = Hand(d)
    BY <1>2, <1>5 DEF QueueOK, CodecOK, Hand, InHand
  <2>3. Sorted(packs[d])'
    BY <1>2, <1>5 DEF QueueOK, Sorted
  <2> QED BY <1>2, <2>1, <2>2, <2>3 DEF QueueOK
<1>6. /\ QueueOK("vDecode")' /\ Hand("vDecode")' = Hand("vDecode")
      /\ QueueOK("aDecode")' /\ Hand("aDecode")' = Hand("aDecode")
  BY <1>0, <1>5 DEF LineInv
<1>7. VideoLine' /\ AudioLine'
  BY <1>2, <1>3, <1>6 DEF LineInv, VideoLine, AudioLine
<1>8. ShownOK'
  <2>1. pc'[Worker("vDecode")] = pc[Worker("vDecode")]
          \/ (pc[Worker("vDecode")] = "none" /\ pc'[Worker("vDecode")] = "spawned")
    BY <1>0, <1>2
  <2> QED BY <1>2, <2>1 DEF LineInv, ShownOK, InHand
<1>9. HeardOK'
  BY <1>2, <1>3 DEF LineInv, HeardOK, Sorted
<1>10. NoteOK'
  <2>1. ASSUME note[Reader].at = "push" PROVE ~isExit'[obss[note[Reader].to]]
    <3>1. pc[Reader] = "notify"
      BY <1>0, <2>1 DEF NotesFollow
    <3>2. ~InOpen(1, 10)
      <4>1. InOpen(1, 10) => InOpen(1, 37)
        BY DEF InOpen
      <4> QED BY <3>1, <4>1 DEF Begun
    <3>3. obss[note[Reader].to] \in Object
      <4>1. note[Reader].to \in DOMAIN obss
        BY <1>0, <2>1, Names DEF PlayInv, NotesOK
      <4>2. obss[1] = "vDecode" /\ obss[2] = "aDecode" /\ DOMAIN obss = {1, 2}
        BY DEF obss
      <4> QED BY <1>0, <4>1, <4>2, Names
    <3> QED BY <1>1, <2>1, <3>2, <3>3 DEF LeavesStreams, LineInv, NoteOK
  <2> QED BY <1>2, <2>1 DEF LineInv, NoteOK
<1> QED BY <1>4, <1>6, <1>7, <1>8, <1>9, <1>10 DEF LineInv

-----------------------------------------------------------------------------
(* All threads.                                                            *)

(* The file is opened once, and its Open() goes on entry by entry.         *)
LEMMA BegunPlaces ==
  ASSUME PlayInv, Begun, [Next]_vars, OneFile
  PROVE  /\ op' # "seek"
         /\ op' = "open" => /\ op = "open" /\ ip \in 1 .. 44
                            /\ ip' = ip \/ ip' = ip + 1 \/ (ip = 27 /\ ip' = 34)
<1>1. ScriptStep /\ op # "seek" /\ (op = "open" => ip \in 1 .. 44)
  BY ScriptMoves, EntryOK DEF Begun, PlayInv, Size
<1>2. CASE Call
  BY <1>2 DEF Call, CallOpen, CallPlayOrPause, CallSeek, OneFile
<1>3. CASE ~Call
  BY <1>1, <1>3 DEF ScriptStep, GoesOn
<1> QED BY <1>2, <1>3

(* No thread begins but by Start().                                        *)
LEMMA Sleeps ==
  ASSUME PlayInv, [Next]_vars, OneFile, NEW o \in {"vDecode", "aDecode", "demux"},
         pc[<<o, 1>>] = "none", pc'[<<o, 1>>] # "none"
  PROVE  StartPart /\ Part = o
<1>1. Slot = {1} /\ o \in Object
  BY Names DEF OneFile, Decoder
<1>2. ~SameThreads(o)
  BY <1>1 DEF SameThreads
<1>3. ~(o = "demux" /\ \E t \in DemuxThread : Demux(t))
  <2>1. SUFFICES ASSUME NEW t \in DemuxThread, o = "demux", Demux(t) PROVE FALSE
    OBVIOUS
  <2>2. t = <<o, 1>>
    BY <1>1, <2>1 DEF DemuxThread
  <2> QED BY <2>1, <2>2, DemuxSteps DEF DemuxGoes
<1>4. ~\E t \in DecodeThread : Obj(t) = o /\ Decode(t)
  <2>1. SUFFICES ASSUME NEW t \in DecodeThread, Obj(t) = o, Decode(t) PROVE FALSE
    OBVIOUS
  <2>2. t = <<o, 1>>
    BY <1>1, <2>1 DEF DecodeThread, Obj
  <2> QED BY <2>1, <2>2, WorkerSteps DEF OutsideCodec, InsideCodec
<1> QED BY <1>1, <1>2, <1>3, <1>4, WhoMoves

(* The threads of the player.                                              *)
LEMMA StepIs ==
  ASSUME OneFile, Next
  PROVE  \/ Call \/ Control \/ Demux(Reader)
         \/ Decode(Worker("vDecode")) \/ Decode(Worker("aDecode"))
         \/ Play
         \/ \E t \in SyncThread : Sync(t)
<1>0. Slot = {1}
  BY DEF OneFile
<1>1. \A t \in DemuxThread : t = Reader
  BY <1>0 DEF DemuxThread, Reader
<1>2. \A t \in DecodeThread : t = Worker("vDecode") \/ t = Worker("aDecode")
  BY <1>0 DEF DecodeThread, Decoder, Worker
<1> QED BY <1>1, <1>2 DEF Next

(* Every step keeps the lines and is one of the abstract player.           *)
LEMMA StepLine ==
  ASSUME PlayInv, OwnInv, NotesFollow, LineInv, Begun, OneFile, [Next]_vars
  PROVE  LineInv' /\ StreamStep
<1>0. 1 \in Slot /\ Delay = 0 /\ ~isAudio["vDecode"] /\ "vDecode" \in Decoder /\ "aDecode" \in Decoder
  BY DecodersAre DEF OneFile, OwnInv, StreamsOK
<1>1. CASE Call \/ Control
  BY <1>0, <1>1, ControlSteps
<1>2. CASE Demux(Reader)
  BY <1>0, <1>2, ReaderSteps
<1>3. CASE Decode(Worker("vDecode"))
  <2>1. CodecOK("vDecode") /\ ShownOK
    BY DEF LineInv, QueueOK
  <2>2. Works("vDecode") /\ Aside("vDecode") /\ CodecOK("vDecode")' /\ ShownOK'
    BY <1>0, <1>3, <2>1, StepWorks
  <2> QED BY <1>0, <2>2, VideoSteps
<1>4. CASE Decode(Worker("aDecode"))
  <2>1. CodecOK("aDecode")
    BY DEF LineInv, QueueOK
  <2>2. Works("aDecode") /\ Aside("aDecode") /\ CodecOK("aDecode")'
    BY <1>0, <1>4, <2>1, StepWorks
  <2> QED BY <1>0, <2>2, AudioSteps
<1>5. CASE Play
  BY <1>0, <1>5, DeviceSteps
<1>6. CASE \E t \in SyncThread : Sync(t)
  BY <1>0, <1>6, SyncSteps
<1>7. CASE UNCHANGED vars
  <2>1. UNCHANGED <<pos, note, shown, frames, audioPts, sound, heard, packs, codec, frame, pck, framePts,
                    synPts, pc, isExit>>
    BY <1>7 DEF vars, flags, demuxVars, decodeVars, noteVars, audioVars, history
  <2>2. Still("vDecode") /\ Still("aDecode") /\ NoteOK'
    BY <2>1 DEF Still, LineInv, NoteOK
  <2>3. LastHeard' = LastHeard /\ Released' = Released
    BY <2>1 DEF LastHeard, Released
  <2> QED BY <2>1, <2>2, <2>3, LineStays, StreamStays DEF StreamNow
<1> QED BY <1>1, <1>2, <1>3, <1>4, <1>5, <1>6, <1>7, StepIs

(* Until Start() nothing moves.                                            *)
LEMMA StepQuietly ==
  ASSUME PlayInv, NotesFollow, Begun, OneFile, [Next]_vars, InOpen(1, 35)
  PROVE  Quiet'
<1>0. /\ 1 \in Slot /\ Quiet /\ Device \in Thread /\ Reader \in DemuxThread /\ Reader \in Thread
      /\ \A d \in Decoder : Worker(d) \in DecodeThread /\ Worker(d) \in Thread
      /\ "vDecode" \in Decoder /\ "aDecode" \in Decoder
  BY WorkTypes, Names, DecodersAre DEF Begun, OneFile, Reader, DemuxThread
<1>1. \A t \in Thread : pc[t] = "none"
  BY <1>0 DEF Quiet
<1>2. CASE Call \/ Control
  <2>1. LeavesStreams
    BY <1>0, <1>2, ControlApart
  <2>2. \A t \in Thread : pc'[t] = "none"
    BY <1>1, <2>1 DEF LeavesStreams
  <2>3. ~outstanding'
    <3>1. ~InOpen(41, 41)
      BY DEF InOpen
    <3> QED BY <1>0, <2>1, <3>1 DEF LeavesStreams, Quiet
  <2> QED BY <1>0, <2>1, <2>2, <2>3 DEF LeavesStreams, Quiet
<1>3. ~Demux(Reader)
  BY <1>0, <1>1, DemuxSteps DEF DemuxGoes
<1>4. \A d \in Decoder : ~Decode(Worker(d))
  BY <1>0, <1>1, WorkerSteps DEF OutsideCodec, InsideCodec
<1>5. ~Play
  BY <1>0, <1>1 DEF Play, Callback, Fire, PopFrame, Enqueue, EnterLoop, PausedLoop, Leave, Quiet
<1>6. \A t \in SyncThread : ~Sync(t)
  BY <1>1, Names DEF Sync, SyncLoop, SyncCopy, Leave
<1>7. CASE UNCHANGED vars
  BY <1>0, <1>7 DEF Quiet, vars, demuxVars, decodeVars, audioVars, history
<1> QED BY <1>0, <1>2, <1>3, <1>4, <1>5, <1>6, <1>7, StepIs

-----------------------------------------------------------------------------
(* What Open() promises of the streams it starts.                          *)

(* A stopped audio decoder gets no packet.                                 *)
LEMMA RefusedSound ==
  ASSUME PlayInv, NotesFollow, LineInv, Begun, OneFile, [Next]_vars,
         packs["aDecode"] = <<>>, isExit["aDecode"] \/ pc[Reader] = "none"
  PROVE  packs'["aDecode"] = <<>>
<1>0. /\ Reader \in DemuxThread /\ Reader \in Caller /\ UI \in Caller /\ op # "seek" /\ "aDecode" \in Decoder
      /\ \A c \in Caller : c = UI \/ c = Reader
      /\ packs \in [Decoder -> Seq(Read)]
  <2>1. Slot = {1} /\ op # "seek"
    BY DEF OneFile, Begun
  <2>2. \A t : t = <<"demux", 1>> => t \in DemuxThread
    BY <2>1 DEF DemuxThread
  <2>3. \A t \in DemuxThread : t = <<"demux", 1>>
    BY <2>1 DEF DemuxThread
  <2>4. packs \in [Decoder -> Seq(Read)]
    BY DEF PlayInv, DecodersOK
  <2> QED BY <2>1, <2>2, <2>3, <2>4, DecodersAre DEF Reader, Caller
<1>1. CASE \A d \in Decoder : Shrinks(d)
  BY <1>0, <1>1 DEF Shrinks
<1>2. CASE \E c \in Caller : NotifyStep(c)
  <2>1. PICK c \in Caller : NotifyStep(c)
    BY <1>2
  <2>2. NoteStep(c)
    BY <2>1, NotifyMoves
  <2>3. c = Reader
    BY <1>0, <2>2 DEF NoteStep, NotesFollow
  <2>4. isExit["aDecode"]
    BY <1>0, <2>2, <2>3 DEF NoteStep, NotesFollow
  <2>5. note[c].at = "push" => obss[note[c].to] # "aDecode"
    BY <2>3, <2>4 DEF LineInv, NoteOK
  <2> QED BY <1>0, <2>2, <2>5 DEF NoteStep
<1>3. CASE UNCHANGED packs
  BY <1>3
<1>4. ~SeekRead /\ ~SeekRoute
  BY <1>0, OnlySeek DEF SeekRead, SeekRoute, At, PlayInv
<1> QED BY <1>1, <1>2, <1>3, <1>4, Deliveries

(* Nothing comes to the output before the exit request is withdrawn.       *)
LEMMA NoSound ==
  ASSUME PlayInv, OwnInv, NotesFollow, LineInv, Begun, OneFile, [Next]_vars, InOpen(1, 42)
  PROVE  frames' = <<>> /\ LastHeard' = 0 /\ pc'[Worker("aDecode")] # "push"
<1>0. /\ 1 \in Slot /\ Delay = 0 /\ "vDecode" \in Decoder /\ "aDecode" \in Decoder
      /\ Worker("aDecode") \in Thread /\ Worker("aDecode") \in DecodeThread /\ "aDecode" \in Object
      /\ Worker("aDecode") = <<"aDecode", 1>>
      /\ frames = <<>> /\ LastHeard = 0 /\ pc[Worker("aDecode")] # "push"
  BY DecodersAre, WorkTypes, Names DEF OneFile, Begun, Worker
<1>1. pc[Worker("aDecode")] = "none" \/ isExit["audioPlay"]
  <2>1. InOpen(1, 38) \/ InOpen(11, 42)
    BY DEF InOpen
  <2> QED BY <2>1 DEF Begun
<1>2. CASE Call \/ Control
  <2>1. LeavesStreams
    BY <1>0, <1>2, ControlApart
  <2>2. LastHeard' = LastHeard
    BY <2>1 DEF LeavesStreams, LastHeard
  <2> QED BY <1>0, <2>1, <2>2 DEF LeavesStreams
<1>3. CASE Demux(Reader)
  <2>1. frames' = <<>> /\ LastHeard' = 0
    BY <1>0, <1>3, ReaderKeeps
  <2>2. Reader \in DemuxThread /\ Reader \in Thread /\ Reader # Worker("aDecode")
    BY <1>0, WorkTypes, Names DEF Reader, DemuxThread
  <2>3. pc' = [pc EXCEPT ![Reader] = pc'[Reader]]
    BY <1>3, <2>2, DemuxSteps
  <2>4. pc'[Worker("aDecode")] = pc[Worker("aDecode")]
    BY <1>0, <2>2, <2>3 DEF PlayInv, ThreadsOK
  <2> QED BY <1>0, <2>1, <2>4
<1>4. CASE Decode(Worker("vDecode"))
  <2>1. CodecOK("vDecode") /\ ShownOK
    BY DEF LineInv, QueueOK
  <2>2. Aside("vDecode")
    BY <1>0, <1>4, <2>1, StepWorks
  <2>3. LastHeard' = LastHeard
    BY <2>2 DEF Aside, LastHeard
  <2> QED BY <1>0, <2>2, <2>3 DEF Aside
<1>5. CASE Decode(Worker("aDecode"))
  <2>1. CodecOK("aDecode")
    BY DEF LineInv, QueueOK
  <2>2. /\ Works("aDecode") /\ Aside("aDecode")
        /\ pc'[Worker("aDecode")] = "push" => pc[Worker("aDecode")] = "push" \/ ~isExit["audioPlay"]
    BY <1>0, <1>5, <2>1, StepWorks
  <2>3. LastHeard' = LastHeard
    BY <2>2 DEF Aside, LastHeard
  <2>4. UNCHANGED frames
    BY <1>0, <2>2 DEF Works
  <2>5. pc[Worker("aDecode")] # "none"
    BY <1>0, <1>5, WorkerSteps DEF OutsideCodec, InsideCodec
  <2> QED BY <1>0, <1>1, <2>2, <2>3, <2>4, <2>5
<1>6. CASE Play
  <2>1. frames' = <<>> /\ LastHeard' = 0
    BY <1>0, <1>6, DeviceSteps
  <2>2. OwnMoves(Device)
    BY <1>6, OwnSteps
  <2>3. pc'[Worker("aDecode")] = pc[Worker("aDecode")]
    BY <1>0, <2>2, Kinds4, Names DEF OwnMoves, PlayInv, ThreadsOK
  <2> QED BY <1>0, <2>1, <2>3
<1>7. CASE \E t \in SyncThread : Sync(t)
  <2>1. PICK t \in SyncThread : Sync(t)
    BY <1>7
  <2>2. frames' = <<>> /\ LastHeard' = 0
    BY <1>0, <2>1, SyncSteps
  <2>3. OwnMoves(t) /\ t # Worker("aDecode")
    BY <1>0, <2>1, OwnSteps, Kinds4
  <2>4. pc'[Worker("aDecode")] = pc[Worker("aDecode")]
    BY <1>0, <2>3, Names DEF OwnMoves, PlayInv, ThreadsOK
  <2> QED BY <1>0, <2>2, <2>4
<1>8. CASE UNCHANGED vars
  <2>1. UNCHANGED <<frames, sound, heard, pc>>
    BY <1>8 DEF vars, audioVars, history
  <2>2. LastHeard' = LastHeard
    BY <2>1 DEF LastHeard
  <2> QED BY <1>0, <2>1, <2>2
<1> QED BY <1>2, <1>3, <1>4, <1>5, <1>6, <1>7, <1>8, StepIs

(* The exit requests of Close() stand until the entry that takes them back.*)
LEMMA StepExits ==
  ASSUME PlayInv, Begun, OneFile, [Next]_vars
  PROVE  /\ isExit'["aDecode"] => InOpen(9, 38)'
         /\ InOpen(11, 42)' => isExit'["audioPlay"]
         /\ isExit'["audioPlay"] => InOpen(11, 42)'
<1>0. /\ CallOK /\ ScriptStep /\ isExit \in [Object -> BOOLEAN]
      /\ "aDecode" \in Object /\ "audioPlay" \in Object /\ op # "seek"
      /\ op = "open" => ip \in 1 .. 44
      /\ op # "idle" => /\ op = "open" => OpenTouches(ip, Entry) /\ OpenPlaces(ip, Entry)
                        /\ op # "open" => Entry.do \in {"lock", "unlock", "await", "pause", "resume"}
  BY ScriptMoves, Names, Touched, EntryPlaced, DecodersAre DEF PlayInv, ThreadsOK, Begun, Decoder
<1>1. /\ op' = "open" => op = "open" /\ (ip' = ip \/ ip' = ip + 1 \/ (ip = 27 /\ ip' = 34))
      /\ op = "open" /\ GoesOn /\ ip # 44 => op' = "open" /\ ip' = ip + 1
      /\ op = "open" /\ ip # 44 => op' = "open" /\ (ip' = ip \/ ip' = ip + 1 \/ (ip = 27 /\ ip' = 34))
  BY <1>0, BegunPlaces DEF ScriptStep, GoesOn, Size
<1>2. ASSUME NEW o \in {"aDecode", "audioPlay"}
      PROVE  /\ isExit'[o] /\ ~isExit[o] =>
                  op = "open" /\ GoesOn /\ ip = (IF o = "aDecode" THEN 8 ELSE 10)
             /\ isExit[o] /\ ~isExit'[o] =>
                  op = "open" /\ GoesOn /\ ip = (IF o = "aDecode" THEN 38 ELSE 42)
  <2>1. CASE UNCHANGED isExit
    BY <2>1
  <2>2. CASE /\ op # "idle" /\ GoesOn /\ Part \in Object
             /\ Entry.do = "exit" /\ isExit' = [isExit EXCEPT ![Part] = TRUE]
    <3>1. op = "open" /\ (Part = o => ip = (IF o = "aDecode" THEN 8 ELSE 10))
      BY <1>0, <2>2 DEF OpenPlaces, Part
    <3> QED BY <1>0, <2>2, <3>1
  <2>3. CASE /\ op # "idle" /\ GoesOn /\ Part \in Object
             /\ Entry.do = "withdraw" /\ isExit' = [isExit EXCEPT !["audioPlay"] = FALSE]
    <3>1. op = "open" /\ ip = 42
      BY <1>0, <2>3 DEF OpenTouches
    <3> QED BY <1>0, <2>3, <3>1
  <2>4. CASE /\ op # "idle" /\ GoesOn /\ Part \in Object
             /\ Entry.do = "start" /\ isExit' = [isExit EXCEPT ![Part] = FALSE]
    <3>1. op = "open" /\ Part # "audioPlay" /\ (Part = "aDecode" => ip = 38)
      <4>1. op = "open" => OpenFacts(ip, Entry)
        BY <1>0, <2>4, EntryOK
      <4> QED BY <1>0, <2>4, <4>1 DEF OpenTouches, OpenFacts, Part
    <3> QED BY <1>0, <2>4, <3>1
  <2> QED BY <2>1, <2>2, <2>3, <2>4, ExitWriters
<1>3. ip = 10 /\ op = "open" /\ ~UNCHANGED <<op, ip>> => isExit'["audioPlay"]
  <2>1. SUFFICES ASSUME ip = 10, op = "open", ~UNCHANGED <<op, ip>> PROVE isExit'["audioPlay"]
    OBVIOUS
  <2>2. Entry.do = "exit" /\ Part = "audioPlay"
    BY <1>0, <2>1 DEF OpenTouches, Part
  <2>3. RaiseExit(Part)
    BY <2>1, <2>2, EntryDone
  <2> QED BY <1>0, <2>2, <2>3 DEF RaiseExit
<1>4. ip = 38 /\ op = "open" /\ ~UNCHANGED <<op, ip>> => ~isExit'["aDecode"]
  <2>1. SUFFICES ASSUME ip = 38, op = "open", ~UNCHANGED <<op, ip>> PROVE ~isExit'["aDecode"]
    OBVIOUS
  <2>2. Entry.do = "start" /\ Part = "aDecode"
    BY <1>0, <2>1 DEF OpenTouches, Part
  <2>3. StartPart
    BY <2>1, <2>2, EntryDone
  <2> QED BY <1>0, <2>2, <2>3 DEF StartPart, Start
<1>5. ip = 42 /\ op = "open" /\ ~UNCHANGED <<op, ip>> => ~isExit'["audioPlay"]
  <2>1. SUFFICES ASSUME ip = 42, op = "open", ~UNCHANGED <<op, ip>> PROVE ~isExit'["audioPlay"]
    OBVIOUS
  <2>2. Entry.do = "withdraw"
    BY <1>0, <2>1 DEF OpenTouches
  <2>3. Request /\ WithdrawExit
    <3>1. Control
      BY <2>1, ThreadSteps DEF Next, Call, vars, playerVars
    <3>2. ~SeekNotify
      BY <2>1 DEF SeekNotify, playerVars
    <3>3. Request
      BY <2>2, <3>1, <3>2 DEF Control, Lock, Unlock, Join, Await, StartPart, DecoderCall, AudioCall,
         DemuxCall, SeekRead, SeekRoute, SeekNotified, SeekRecv, At
    <3> QED BY <2>2, <3>3 DEF Request, At
  <2> QED BY <1>0, <2>3 DEF WithdrawExit
<1>6. /\ isExit["aDecode"] => op = "open" /\ ip \in 9 .. 38
      /\ isExit["audioPlay"] => op = "open" /\ ip \in 11 .. 42
      /\ op = "open" /\ ip \in 11 .. 42 => isExit["audioPlay"]
  <2>1. /\ isExit["aDecode"] => InOpen(9, 38)
        /\ isExit["audioPlay"] <=> InOpen(11, 42)
    BY DEF Begun
  <2> QED BY <2>1 DEF InOpen
<1>7. /\ InOpen(9, 38)' <=> op' = "open" /\ ip' \in 9 .. 38
      /\ InOpen(11, 42)' <=> op' = "open" /\ ip' \in 11 .. 42
  BY DEF InOpen
<1>8. isExit'["aDecode"] => op' = "open" /\ ip' \in 9 .. 38
  <2>1. CASE isExit["aDecode"]
    BY <1>0, <1>1, <1>2, <1>4, <1>6, <2>1
  <2>2. CASE ~isExit["aDecode"]
    BY <1>1, <1>2, <2>2
  <2> QED BY <2>1, <2>2
<1>9. isExit'["audioPlay"] => op' = "open" /\ ip' \in 11 .. 42
  <2>1. CASE isExit["audioPlay"]
    BY <1>0, <1>1, <1>2, <1>5, <1>6, <2>1
  <2>2. CASE ~isExit["audioPlay"]
    BY <1>1, <1>2, <2>2
  <2> QED BY <2>1, <2>2
<1>10. op' = "open" /\ ip' \in 11 .. 42 => isExit'["audioPlay"]
  <2>1. SUFFICES ASSUME op' = "open", ip' \in 11 .. 42 PROVE isExit'["audioPlay"]
    OBVIOUS
  <2>2. op = "open" /\ (ip \in 11 .. 42 \/ (ip = 10 /\ ip' # ip) \/ ip = 10)
    BY <1>0, <1>1, <2>1
  <2>3. CASE ip = 10
    BY <1>3, <2>1, <2>2, <2>3
  <2>4. CASE ip \in 11 .. 42
    <3>1. isExit["audioPlay"]
      BY <1>6, <2>2, <2>4
    <3>2. ip = 42 => ip' = 42
      BY <1>1, <2>1, <2>2
    <3> QED BY <1>0, <1>1, <1>2, <2>1, <2>2, <3>1, <3>2
  <2> QED BY <2>2, <2>3, <2>4
<1> QED BY <1>7, <1>8, <1>9, <1>10

(* The file is opened at entry 27.                                         *)
LEMMA EpochBegins ==
  ASSUME PlayInv, Begun, OneFile, [Next]_vars, epoch' # epoch
  PROVE  op = "open" /\ ip = 27 /\ op' = "open" /\ ip' = 28
<1>0. /\ CallOK /\ op # "seek" /\ (op = "open" => Size(op) = 44)
      /\ OpenOutcome \subseteq {"ok", "no input"}
  BY EntryOK DEF PlayInv, Begun, OneFile, Size
<1>1. DemuxCall
  BY EpochMoves
<1>2. ~At("seek") /\ ~(At("close") /\ CloseInput)
  BY <1>0, OnlySeek DEF At, CloseInput
<1>3. /\ At("open") /\ Part = "demux"
      /\ \E outcome \in OpenOutcome :
           OpenInput(outcome) /\ IF outcome = "ok" THEN Continue ELSE Goto(UnlockEntry)
  BY <1>1, <1>2 DEF DemuxCall
<1>4. PICK outcome \in OpenOutcome :
           OpenInput(outcome) /\ IF outcome = "ok" THEN Continue ELSE Goto(UnlockEntry)
  BY <1>3
<1>5. outcome = "ok"
  BY <1>0, <1>4 DEF OpenInput
<1>6. op # "idle" /\ Entry.do = "open" /\ GoesOn
  BY <1>0, <1>3, <1>4, <1>5, ContinueMoves DEF At
<1>7. op = "open"
  BY <1>0, <1>6, EntryOK, Scripts DEF SeekFacts, PauseFacts
<1>8. ip = 27
  BY <1>0, <1>3, <1>6, <1>7, EntryOK DEF OpenFacts, Part
<1>9. ip # Size(op) /\ ip + 1 = 28
  <2>1. Size(op) = 44
    BY <1>7 DEF Size
  <2> QED BY <1>8, <2>1
<1>10. op' = op /\ ip' = ip + 1
  BY <1>6, <1>9 DEF GoesOn
<1> QED BY <1>7, <1>8, <1>9, <1>10

(* A codec is freed by Open(), or opened.                                  *)
LEMMA OpenedMoves ==
  ASSUME PlayInv, Begun, OneFile, [Next]_vars, NEW d \in Decoder
  PROVE  LET at == IF d = "vDecode" THEN 30 ELSE 33 IN
         /\ opened[d] => opened'[d] \/ InOpen(1, at - 1)
         /\ op = "open" /\ ip = at /\ ~UNCHANGED <<op, ip>> => opened'[d]
<1> DEFINE at == IF d = "vDecode" THEN 30 ELSE 33
<1>0. /\ CallOK /\ op # "seek" /\ DecodeFails = {} /\ opened \in [Decoder -> BOOLEAN]
      /\ op = "open" => ip \in 1 .. 44 /\ OpenFacts(ip, Entry) /\ OpenTouches(ip, Entry)
      /\ op # "open" /\ op # "idle" => Entry.do \in {"lock", "unlock", "await", "pause", "resume"}
      /\ Decoder = {"vDecode", "aDecode"}
  <2>1. CallOK /\ op # "seek" /\ DecodeFails = {} /\ opened \in [Decoder -> BOOLEAN]
    BY DEF PlayInv, Begun, OneFile, DecodersOK
  <2> QED BY <2>1, Touched, EntryOK DEF Decoder
<1>1. UNCHANGED opened \/ DecoderCall
  <2>1. UNCHANGED vars \/ Call => UNCHANGED opened
    BY DEF vars, Call, decodeVars
  <2>2. Control => UNCHANGED opened \/ DecoderCall
    <3>1. ~SeekRoute /\ ~SeekRecv
      BY <1>0, OnlySeek DEF SeekRoute, SeekRecv, At
    <3> QED BY <3>1 DEF Control, Lock, Unlock, Request, Join, Await, StartPart, AudioCall, DemuxCall,
              SeekRead, SeekNotified, SeekNotify, NotifyStep, decodeVars
  <2>3. (\E t \in DemuxThread : Demux(t)) \/ Play \/ (\E t \in SyncThread : Sync(t)) => UNCHANGED opened
    BY DEF Demux, DemuxLoop, DemuxRead, DemuxNotify, NotifyStep, Play, Sync, SyncLoop, SyncCopy,
       decodeVars
  <2>4. \A t \in DecodeThread : Decode(t) => UNCHANGED opened
    BY WorkerSteps
  <2> QED BY <2>1, <2>2, <2>3, <2>4 DEF Next
<1>2. ASSUME DecoderCall
      PROVE  \/ UNCHANGED opened /\ Entry.do # "open"
             \/ op = "open" /\ Entry.do = "free" /\ opened' = [opened EXCEPT ![Part] = FALSE]
             \/ op = "open" /\ Entry.do = "open" /\ opened' = [opened EXCEPT ![Part] = TRUE]
  <2>1. op # "idle"
    BY <1>2 DEF DecoderCall, At
  <2>2. Entry.do \in {"free", "open"} => op = "open"
    BY <1>0, <2>1
  <2> QED BY <1>0, <1>2, <2>2 DEF DecoderCall, At, ClearQueue, FlushCodec, FreeCodec, OpenCodec
<1>3. opened[d] => opened'[d] \/ InOpen(1, at - 1)
  <2>1. SUFFICES ASSUME opened[d], opened'[d] # opened[d] PROVE InOpen(1, at - 1)
    BY <1>0
  <2>2. DecoderCall
    BY <1>1, <2>1
  <2>3. op = "open" /\ Entry.do = "free" /\ Part = d
    BY <1>0, <1>2, <2>1, <2>2
  <2>4. ip \in IF d = "vDecode" THEN {20, 29} ELSE {22, 32}
    BY <1>0, <2>3 DEF OpenFacts, Part
  <2> QED BY <1>0, <2>3, <2>4 DEF InOpen
<1>4. ASSUME op = "open", ip = at, ~UNCHANGED <<op, ip>>
      PROVE  opened'[d]
  <2>1. Entry.do = "open" /\ Part = d
    BY <1>0, <1>4 DEF OpenTouches, Part
  <2>2. Control
    BY <1>4, ThreadSteps DEF Next, Call, vars, playerVars
  <2>3. ~SeekNotify
    BY <1>4 DEF SeekNotify, playerVars
  <2>4. Part \in Object /\ Part # "demux"
    BY <1>0, <2>1, Names
  <2>5. DecoderCall
    BY <2>1, <2>2, <2>3, <2>4 DEF Control, Lock, Unlock, Join, Await, StartPart, Request, AudioCall,
       DemuxCall, SeekRead, SeekRoute, SeekNotified, SeekRecv, At
  <2> QED BY <1>0, <1>2, <2>1, <2>5
<1> QED BY <1>3, <1>4

(* Who has read a file has its codecs.                                     *)
LEMMA OpenedKept ==
  ASSUME PlayInv, Begun, OneFile, [Next]_vars
  PROVE  /\ InOpen(1, 27)' => epoch' = 0
         /\ epoch' # 0 => /\ InOpen(1, 30)' \/ opened'["vDecode"]
                          /\ InOpen(1, 33)' \/ opened'["aDecode"]
<1>0. /\ CallOK /\ ScriptStep /\ op # "seek"
      /\ op' = "open" => op = "open" /\ ip \in 1 .. 44 /\ (ip' = ip \/ ip' = ip + 1 \/ (ip = 27 /\ ip' = 34))
  BY ScriptMoves, BegunPlaces DEF PlayInv, Begun
<1>1. /\ op = "open" /\ ip \in 1 .. 27 => epoch = 0
      /\ epoch # 0 => /\ (op = "open" /\ ip \in 1 .. 30) \/ opened["vDecode"]
                      /\ (op = "open" /\ ip \in 1 .. 33) \/ opened["aDecode"]
  <2>1. /\ InOpen(1, 27) => epoch = 0
        /\ epoch # 0 => /\ InOpen(1, 30) \/ opened["vDecode"]
                        /\ InOpen(1, 33) \/ opened["aDecode"]
    BY DEF Begun
  <2> QED BY <2>1 DEF InOpen
<1>2. \A n : InOpen(1, n)' <=> op' = "open" /\ ip' \in 1 .. n
  BY DEF InOpen
<1>3. CASE epoch' # epoch
  <2>1. op = "open" /\ ip = 27 /\ op' = "open" /\ ip' = 28
    BY <1>3, EpochBegins
  <2> QED BY <1>2, <2>1
<1>4. CASE epoch' = epoch
  <2>1. InOpen(1, 27)' => epoch' = 0
    BY <1>0, <1>1, <1>2, <1>4
  <2>2. ASSUME epoch # 0, NEW d \in {"vDecode", "aDecode"},
               NEW at \in {30, 33}, at = IF d = "vDecode" THEN 30 ELSE 33
        PROVE  InOpen(1, at)' \/ opened'[d]
    <3>1. d \in Decoder
      BY DecodersAre
    <3>2. /\ opened[d] => opened'[d] \/ InOpen(1, at - 1)
          /\ op = "open" /\ ip = at /\ ~UNCHANGED <<op, ip>> => opened'[d]
      BY <2>2, <3>1, OpenedMoves
    <3>3. opened[d] => opened'[d] \/ (op = "open" /\ ip \in 1 .. at - 1)
      BY <3>2 DEF InOpen
    <3>4. SUFFICES ASSUME ~opened'[d] PROVE op' = "open" /\ ip' \in 1 .. at
      BY <1>2
    <3>5. op = "open" /\ ip \in 1 .. at
      BY <1>1, <2>2, <3>3, <3>4
    <3>6. ip # 27
      BY <1>1, <2>2, <3>5
    <3>7. op' = "open" /\ (ip' = ip \/ ip' = ip + 1)
      <4>1. op' = "idle" => ip = 44
        BY <1>0, <3>5 DEF ScriptStep, GoesOn, Size
      <4> QED BY <1>0, <3>5, <3>6, <4>1 DEF ScriptStep, GoesOn
    <3>8. ip = at => ip' = at
      BY <3>2, <3>4, <3>5, <3>7
    <3> QED BY <3>5, <3>7, <3>8
  <2> QED BY <1>4, <2>1, <2>2
<1> QED BY <1>3, <1>4

(* The places of Open() where nothing has begun yet.                       *)
LEMMA StepBegun ==
  ASSUME PlayInv, OwnInv, NotesFollow, LineInv, Begun, OneFile, [Next]_vars
  PROVE  Begun'
<1>0. /\ CallOK /\ op' # "seek" /\ (op = "open" => ip \in 1 .. 44 /\ OpenFacts(ip, Entry))
      /\ op' = "open" => op = "open" /\ ip \in 1 .. 44 /\ (ip' = ip \/ ip' = ip + 1 \/ (ip = 27 /\ ip' = 34))
  BY BegunPlaces, EntryOK DEF PlayInv, Size
<1>1. \A n \in {35, 36, 37, 38, 42} : InOpen(1, n)' => InOpen(1, n)
  BY <1>0 DEF InOpen
<1>2. InOpen(1, 35)' => Quiet'
  BY <1>1, StepQuietly
<1>3. ASSUME NEW o \in {"vDecode", "demux", "aDecode"}, NEW n \in {36, 37, 38},
             n = IF o = "vDecode" THEN 36 ELSE IF o = "demux" THEN 37 ELSE 38, InOpen(1, n)'
      PROVE  pc'[<<o, 1>>] = "none"
  <2>1. op = "open" /\ op' = "open" /\ ip' \in 1 .. n
    BY <1>0, <1>3 DEF InOpen
  <2>2. pc[<<o, 1>>] = "none"
    <3>1. InOpen(1, n)
      BY <1>1, <1>3
    <3> QED BY <1>3, <3>1 DEF Begun, Worker, Reader
  <2>3. SUFFICES ASSUME pc'[<<o, 1>>] # "none" PROVE FALSE
    OBVIOUS
  <2>4. StartPart /\ Part = o
    BY <2>2, <2>3, Sleeps
  <2>5. ip = n /\ GoesOn
    BY <1>0, <1>3, <2>1, <2>4, ContinueMoves DEF StartPart, At, OpenFacts, Part
  <2> QED BY <2>1, <2>5 DEF GoesOn
<1>4. InOpen(1, 36)' => pc'[Worker("vDecode")] = "none"
  BY <1>3 DEF Worker
<1>5. InOpen(1, 37)' => pc'[Reader] = "none"
  BY <1>3 DEF Reader
<1>6. InOpen(1, 38)' => pc'[Worker("aDecode")] = "none" /\ packs'["aDecode"] = <<>>
  <2>1. SUFFICES ASSUME InOpen(1, 38)' PROVE pc'[Worker("aDecode")] = "none" /\ packs'["aDecode"] = <<>>
    OBVIOUS
  <2>2. InOpen(1, 38) /\ packs["aDecode"] = <<>>
    BY <1>1, <2>1 DEF Begun
  <2>3. isExit["aDecode"] \/ InOpen(1, 37)
    BY <2>2 DEF PlayInv, StoppedOK, InOpen
  <2>4. isExit["aDecode"] \/ pc[Reader] = "none"
    BY <2>3 DEF Begun
  <2>5. packs'["aDecode"] = <<>>
    BY <2>2, <2>4, RefusedSound
  <2> QED BY <1>3, <2>1, <2>5 DEF Worker
<1>7. InOpen(1, 42)' => frames' = <<>> /\ LastHeard' = 0 /\ pc'[Worker("aDecode")] # "push"
  BY <1>1, NoSound
<1>8. isExit'["vDecode"] => InOpen(7, 36)'
  BY StepExit DEF Begun
<1>9. /\ isExit'["aDecode"] => InOpen(9, 38)'
      /\ InOpen(11, 42)' => isExit'["audioPlay"]
      /\ isExit'["audioPlay"] => InOpen(11, 42)'
  BY StepExits
<1>10. /\ InOpen(1, 27)' => epoch' = 0
       /\ epoch' # 0 => /\ InOpen(1, 30)' \/ opened'["vDecode"]
                        /\ InOpen(1, 33)' \/ opened'["aDecode"]
  BY OpenedKept
<1> QED BY <1>0, <1>2, <1>4, <1>5, <1>6, <1>7, <1>8, <1>9, <1>10 DEF Begun, Worker, Reader

-----------------------------------------------------------------------------
(* The theorem.                                                            *)

(* Before the first Open() nothing is on its way.                          *)
LEMMA InitLine ==
  ASSUME Init, OneFile
  PROVE  LineInv /\ Begun /\ Stream!Init
<1>0. /\ 1 \in Slot /\ "vDecode" \in Decoder /\ "aDecode" \in Decoder /\ Device \in Thread
      /\ \A d \in Decoder : Worker(d) \in DecodeThread /\ Worker(d) \in Thread
      /\ Reader \in Thread /\ Reader \in Caller /\ NoPacket.n = 0
      /\ "aDecode" \in Object /\ "audioPlay" \in Object /\ "vDecode" \in Object
  <2>1. Slot = {1}
    BY DEF OneFile
  <2>2. \A t : t = <<"demux", 1>> => t \in DemuxThread
    BY <2>1 DEF DemuxThread
  <2>3. Reader \in DemuxThread
    BY <2>2 DEF Reader
  <2>4. Reader \in Thread /\ Device \in Thread /\ \A o \in Decoder : o \in Object
    BY <2>3, Names
  <2>5. \A d \in Decoder : Worker(d) \in DecodeThread /\ Worker(d) \in Thread
    BY <2>1, Names DEF Worker
  <2> QED BY <2>1, <2>3, <2>4, <2>5, Names, DecodersAre DEF NoPacket, Caller
<1>1. /\ \A t \in Thread : pc[t] = "none"
      /\ \A d \in Decoder : packs[d] = <<>> /\ codec[d] = <<>> /\ pck[Worker(d)] = NoPacket
      /\ synPts["vDecode"] = 0 /\ framePts["vDecode"] = 0
      /\ pos = 1 /\ epoch = 0 /\ note[Reader] = NotNotifying
      /\ \A o \in Object : ~isExit[o]
      /\ frames = <<>> /\ audioPts = 0 /\ ~outstanding
      /\ sound = NoPacket /\ heard = NoPacket /\ shown = NoPacket
      /\ op = "open" /\ ip = 1
  BY <1>0 DEF Init, XThreadInit, DemuxInit, DecodeInit, NoteInit, AudioInit
<1>2. /\ LastHeard = 0 /\ shown.n = 0 /\ NumsOf(<<>>) = {} /\ Sorted(<<>>) /\ TimeOf(0) = 0
      /\ \A d \in Decoder : Hand(d) = {} /\ ~InHand(d)
      /\ OnOffer = 0
  <2>1. NumsOf(<<>>) = {} /\ Sorted(<<>>) /\ TimeOf(0) = 0
    BY DEF NumsOf, Sorted, TimeOf
  <2>2. \A d \in Decoder : ~InHand(d)
    BY <1>0, <1>1 DEF InHand
  <2>3. OnOffer = 0
    BY <1>0, <1>1 DEF OnOffer, Offered, NotNotifying
  <2> QED BY <1>0, <1>1, <2>1, <2>2, <2>3 DEF LastHeard, Hand
<1>3. VideoLine /\ AudioLine
  <2>1. \A kind : Line(kind, 0, {}, {}, {}, 0, 1)
    BY DEF Line
  <2> QED BY <1>0, <1>1, <1>2, <2>1 DEF VideoLine, AudioLine
<1>4. \A d \in Decoder : QueueOK(d)
  BY <1>0, <1>1, <1>2 DEF QueueOK, CodecOK
<1>5. ShownOK
  BY <1>0, <1>1, <1>2 DEF ShownOK
<1>6. HeardOK
  BY <1>0, <1>1, <1>2 DEF HeardOK
<1>7. NoteOK
  BY <1>1 DEF NoteOK, NotNotifying
<1>8. Begun
  BY <1>0, <1>1, <1>2 DEF Begun, Quiet, InOpen
<1>9. Stream!Init
  BY <1>0, <1>1 DEF Stream!Init, Worker
<1> QED BY <1>0, <1>3, <1>4, <1>5, <1>6, <1>7, <1>8, <1>9 DEF LineInv

(* Whatever is played comes out in the order of the file: the player        *)
(* implements Playback.                                                     *)
THEOREM PlaybackImplemented ==
  ASSUME OneFile
  PROVE  Spec => PlaysInOrder
<1> DEFINE All == OwnInv /\ NotesFollow /\ LineInv /\ Begun
<1>1. Init => All /\ Stream!Init
  BY InitOwns, InitOrder, InitLine
<1>2. PlayInv /\ All /\ [Next]_vars => All'
  <2>1. Healthy
    BY DEF OneFile, Healthy
  <2> QED BY <2>1, StepOwns, StepNotes, StepLine, StepBegun
<1>3. PlayInv /\ All /\ [Next]_vars => [Stream!Next]_(Stream!stream)
  BY StepLine DEF StreamStep
<1> QED BY <1>1, <1>2, <1>3, AlwaysPlays, PTL DEF Spec, PlaysInOrder, Stream!Spec

=============================================================================
