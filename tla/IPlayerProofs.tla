---------------------------- MODULE IPlayerProofs ----------------------------
(***************************************************************************)
(* Proofs about IPlayer, for every file, every bound, any number of slots  *)
(* and every choice of objects that are slow or may find a thread.         *)
(*                                                                         *)
(* First the inductive invariants: the types of the parts, who works on a  *)
(* packet, what Open() has stopped at each place of its script, what Seek()*)
(* has paused at each place of its own, and where a packet is.  Then the   *)
(* scripts, entry by entry, PlayInv by the steps of each thread, the frame *)
(* of a decoder, and what a pause that has returned lets through.          *)
(***************************************************************************)
EXTENDS IPlayer, WellFoundedInduction, TLAPS

(* A packet that was read.                                                 *)
Read == [n : 1 .. Len(File), e : Nat]

-----------------------------------------------------------------------------
(* Every part of the player has its types, and every thread a place of its *)
(* own loop.                                                               *)

InLoop == {"none", "spawned", "head", "leave"}

(* The places of a worker that has taken a packet.                         *)
Working == {"send", "recv", "deliver", "push", "drop"}

(* The flags and the threads.                                              *)
ThreadsOK ==
  /\ isExit \in [Object -> BOOLEAN] /\ isRunning \in [Object -> BOOLEAN]
  /\ isPause \in [Object -> BOOLEAN] /\ isPausing \in [Object -> BOOLEAN]
  /\ pc \in [Thread -> Label]
  /\ \A t \in DemuxThread : pc[t] \in InLoop \cup {"read", "notify"}
  /\ \A t \in DecodeThread : pc[t] \in InLoop \cup {"take"} \cup Working
  /\ \A t \in DecodeThread : pc[t] = "push" => Obj(t) = "aDecode"
  /\ \A t \in SyncThread : pc[t] \in {"none", "spawned", "leave", "lock"}
  /\ pc[Device] \in InLoop \cup {"pop", "enqueue"}

(* The demuxer.                                                            *)
FileOK ==
  /\ ic \in BOOLEAN
  /\ pos \in 1 .. Len(File) + 1
  /\ epoch \in Nat

(* The decoders.                                                           *)
DecodersOK ==
  /\ packs \in [Decoder -> Seq(Read)]
  /\ \A d \in Decoder : Len(packs[d]) <= maxList
  /\ codec \in [Decoder -> Seq(Read)]
  /\ packsMutex \in [Decoder -> {Free} \cup DecodeThread]
  /\ pck \in [DecodeThread -> Packet]
  /\ frame \in [Decoder -> Packet]
  /\ isAudio \in [Decoder -> BOOLEAN] /\ opened \in [Decoder -> BOOLEAN]
  /\ synPts \in [Decoder -> Nat] /\ framePts \in [Decoder -> Nat]

(* The calls of Notify().                                                  *)
NotesOK ==
  /\ notifyMux \in {Free} \cup Caller
  /\ note \in [Caller -> [at : NoteLabel, to : 0 .. Len(obss), pkt : Packet]]
  /\ \A c \in Caller :
       /\ note[c].at # "done" => note[c].pkt \in Read
       /\ note[c].at \in {"test", "push"} => note[c].to \in DOMAIN obss

(* The audio output.                                                       *)
AudioOK ==
  /\ frames \in Seq(Read)
  /\ Len(frames) <= maxFrame + 1
  /\ audioPts \in Nat
  /\ outstanding \in BOOLEAN /\ bufQueue \in BOOLEAN
  /\ sound \in Packet

(* The call of the application.                                            *)
CallOK ==
  /\ mux \in BOOLEAN
  /\ op \in {"idle"} \cup DOMAIN Script
  /\ ip \in IF op = "idle" THEN {1} ELSE DOMAIN Script[op]
  /\ ops \in 0 .. MaxOps
  /\ target \in Nat
  /\ got \in Packet

(* What the properties remember.                                           *)
HistoryOK ==
  /\ shown \in Packet /\ heard \in Packet
  /\ overlap \subseteq Object
  /\ leaked \in [video : Nat, audio : Nat]

(* A worker has a packet in its hands exactly while it has packsMutex.     *)
WorkersOK ==
  \A t \in DecodeThread :
    /\ pc[t] \in Working <=> packsMutex[Obj(t)] = t
    /\ pc[t] \in Working <=> pck[t] # NoPacket

(* What the audio output is offered is a frame.                            *)
SoundOK == Delivers("aDecode") # {} => frame["aDecode"] \in Read

(* By the places of OpenScript: the exit requests of the decoders are the  *)
(* entries 6 and 8, the first Clear() of each 12 and 14, the Start() 36    *)
(* and 38.  A worker that missed its Stop() meets Clear() at packsMutex,   *)
(* and decodes nothing after it.                                           *)
StoppedOK ==
  op = "open" =>
    /\ ip \in 7 .. 36 => isExit["vDecode"]
    /\ ip \in 9 .. 38 => isExit["aDecode"]
    /\ ip \in 13 .. 36 => Delivers("vDecode") = {}
    /\ ip \in 15 .. 38 => Delivers("aDecode") = {}

(* All of it.                                                              *)
PlayInv ==
  /\ ThreadsOK
  /\ FileOK
  /\ DecodersOK
  /\ NotesOK
  /\ AudioOK
  /\ CallOK
  /\ HistoryOK
  /\ WorkersOK
  /\ SoundOK
  /\ StoppedOK


-----------------------------------------------------------------------------
(* Seek() decodes on the control thread.  While it does, the video decoder *)
(* is paused, or has no thread, if that decoder answers a pause before     *)
(* SetPause() gives up waiting and Start() finds no thread of it.          *)

Alone(d) == d \notin Slow \cup Overlapping

(* One thread at a time, whatever its slot.                                *)
OneThread(d) ==
  \A k, l \in Slot : pc[<<d, k>>] # "none" /\ pc[<<d, l>>] # "none" => k = l

(* A worker past the test of isPause has acknowledged that it is not set.  *)
WorksUnpaused(d) ==
  \A k \in Slot : pc[<<d, k>>] \in {"take"} \cup Working => ~isPausing[d]

(* By the places of SeekScript: the pause of the video decoder is entry 6, *)
(* the wait for it 7, and its resumption 29.                               *)
PausedByNow ==
  op = "seek" =>
    /\ ip \in 7 .. 29 => isPause["vDecode"]
    /\ ip \in 8 .. 29 => isPausing["vDecode"] \/ Live("vDecode") = {}

(* The pause of the video decoder.                                         *)
PauseInv ==
  Alone("vDecode") =>
    OneThread("vDecode") /\ WorksUnpaused("vDecode") /\ PausedByNow

-----------------------------------------------------------------------------
(* A packet has one owner: a queue, the worker that took it, the caller of *)
(* Notify() that offers it, or Seek().  This needs the two decoders to     *)
(* know their streams: Open() must not fail between the demuxer and the    *)
(* audio decoder once it has an input.                                     *)

(* Read before now.                                                        *)
Before(p) == p.e \in 1 .. epoch /\ (p.e = epoch => p.n < pos)

(* The packets of a queue.                                                 *)
In(d) == {packs[d][i] : i \in DOMAIN packs[d]}

(* The packet a call of Notify() has.                                      *)
Offered(c) == IF note[c].at = "done" THEN NoPacket ELSE note[c].pkt

(* Two owners have different packets, if any.                              *)
Apart(p, q) == p # q \/ p = NoPacket

(* Every packet somebody owns was read.                                    *)
AllBefore ==
  /\ \A d \in Decoder : \A p \in In(d) : Before(p)
  /\ \A t \in DecodeThread : pck[t] = NoPacket \/ Before(pck[t])
  /\ \A c \in Caller : Offered(c) = NoPacket \/ Before(Offered(c))
  /\ got = NoPacket \/ Before(got)

(* A packet is once in one queue.                                          *)
QueuedOnce ==
  /\ \A d \in Decoder : \A i, j \in DOMAIN packs[d] : packs[d][i] = packs[d][j] => i = j
  /\ \A d, e \in Decoder : d # e => In(d) \cap In(e) = {}

(* Nobody has a packet that is queued.                                     *)
NotQueued ==
  \A d \in Decoder :
    /\ \A t \in DecodeThread : pck[t] \notin In(d)
    /\ \A c \in Caller : Offered(c) \notin In(d)
    /\ got \notin In(d)

(* No two have the same packet.                                            *)
HeldOnce ==
  /\ \A t, u \in DecodeThread : t # u => Apart(pck[t], pck[u])
  /\ \A c, k \in Caller : c # k => Apart(Offered(c), Offered(k))
  /\ \A t \in DecodeThread, c \in Caller : Apart(pck[t], Offered(c))
  /\ \A t \in DecodeThread : Apart(pck[t], got)
  /\ \A c \in Caller : Apart(Offered(c), got)

(* The audio decoder knows its stream from its first Open() on, entry 33;  *)
(* the demuxer has an input from entry 27 on.                              *)
StreamsOK ==
  /\ ~isAudio["vDecode"]
  /\ ic => epoch # 0
  /\ isAudio["aDecode"] \/ (op = "open" /\ ip \in 28 .. 33) \/ (~ic /\ epoch = 0)

(* The video decoder is offered no audio, and nobody is at a queue before  *)
(* the audio decoder knows its stream.                                     *)
OffersOK ==
  \A c \in Caller :
    /\ note[c].at \in {"test", "push"} /\ note[c].to = 1 => Kind(note[c].pkt) # "audio"
    /\ note[c].at = "push" => isAudio["aDecode"]

(* The owners are apart.                                                   *)
OwnInv ==
  /\ AllBefore
  /\ QueuedOnce
  /\ NotQueued
  /\ HeldOnce
  /\ StreamsOK
  /\ OffersOK

-----------------------------------------------------------------------------
(* The scripts.                                                            *)

(* What an entry of a script may ask, and of which part.                   *)
Verb == {"lock", "unlock", "exit", "join", "pause", "resume", "await", "withdraw",
         "start", "clear", "flush", "free", "open", "close", "destroy", "create",
         "seek", "read", "route", "recv"}

(* A call is made on a part that has it.                                   *)
GoodEntry(e) ==
  /\ e.do \in Verb
  /\ e.on \in Decoder \cup {"demux", "player", "audioPlay"}
  /\ e.do \in {"flush", "free"} => e.on \in Decoder
  /\ e.do = "open" => e.on \in Decoder \cup {"demux"}
  /\ e.do = "clear" => e.on \in Decoder \cup {"audioPlay"}
  /\ e.do = "start" => e.on \in Decoder \cup {"demux", "player"}

(* The entries a script may be made of.                                    *)
Entries == [do : Verb, on : Decoder \cup {"demux", "player", "audioPlay"}]

(* Two scripts one after the other.                                        *)
Glued(s, t, both, m, n) ==
  /\ \A i \in 1 .. m : both[i] = s[i]
  /\ \A i \in m + 1 .. m + n : both[i] = t[i - m]

(* Each half keeps its entries.                                            *)
LEMMA Glue ==
  ASSUME NEW S, NEW s \in Seq(S), NEW t \in Seq(S), NEW m \in Nat, NEW n \in Nat,
         Len(s) = m, Len(t) = n
  PROVE  s \o t \in Seq(S) /\ Len(s \o t) = m + n /\ Glued(s, t, s \o t, m, n)
  BY DEF Glued

(* And each of three parts.                                                *)
LEMMA GlueTwo ==
  ASSUME NEW S, NEW s \in Seq(S), NEW t \in Seq(S), NEW u \in Seq(S),
         NEW k \in Nat, NEW m \in Nat, NEW n \in Nat, Len(s) = k, Len(t) = m, Len(u) = n
  PROVE  /\ s \o t \o u \in Seq(S) /\ Len(s \o t \o u) = k + m + n
         /\ Glued(s, t, s \o t, k, m) /\ Glued(s \o t, u, s \o t \o u, k + m, n)
<1>1. s \o t \in Seq(S) /\ Len(s \o t) = k + m /\ Glued(s, t, s \o t, k, m)
  BY Glue
<1> DEFINE f == s \o t
<1>2. k + m \in Nat /\ f \in Seq(S) /\ Len(f) = k + m
  BY <1>1
<1> HIDE DEF f
<1>3. PICK j \in Nat : j = k + m /\ Len(f) = j
  BY <1>2
<1>4. f \o u \in Seq(S) /\ Len(f \o u) = j + n /\ Glued(f, u, f \o u, j, n)
  <2>1. f \in Seq(S)
    BY <1>2
  <2>2. Len(f) = j
    BY <1>3
  <2> QED BY <2>1, <2>2, Glue
<1> QED BY <1>1, <1>3, <1>4, Zenon DEF f

(* Do() makes entries.                                                     *)
LEMMA DoIsEntry ==
  \A v \in Verb, o \in Decoder \cup {"demux", "player", "audioPlay"} : Do(v, o) \in Entries
  BY DEF Do, Entries

(* The length of Close().                                                  *)
LEMMA CloseEntries == CloseScript \in Seq(Entries) /\ Len(CloseScript) = 24
  BY DoIsEntry DEF CloseScript, Verb, Decoder

(* The length of the rest of Open().                                       *)
LEMMA OpenEntries == OpenParts \in Seq(Entries) /\ Len(OpenParts) = 10
  BY DoIsEntry DEF OpenParts, Verb, Decoder

(* The length of Start().                                                  *)
LEMMA StartEntries == StartScript \in Seq(Entries) /\ Len(StartScript) = 10
  BY DoIsEntry DEF StartScript, Verb, Decoder

(* The length of SetPause().                                               *)
LEMMA PauseEntries ==
  ASSUME NEW r \in {"pause", "resume"}
  PROVE  SetPauseScript(r) \in Seq(Entries) /\ Len(SetPauseScript(r)) = 12
  BY DoIsEntry DEF SetPauseScript, Verb, Decoder

(* The length of the part of Seek() between its two pauses.                *)
LEMMA SeekEntries == SeekParts \in Seq(Entries) /\ Len(SeekParts) = 11
  BY DoIsEntry DEF SeekParts, Verb, Decoder

(* The native Open() is Close(), Open() and Start().                       *)
LEMMA OpenIsGlued ==
  /\ OpenScript \in Seq(Entries) /\ Len(OpenScript) = 44
  /\ Glued(CloseScript, OpenParts, CloseScript \o OpenParts, 24, 10)
  /\ Glued(CloseScript \o OpenParts, StartScript, OpenScript, 34, 10)
<1>1. /\ OpenScript \in Seq(Entries) /\ Len(OpenScript) = 24 + 10 + 10
      /\ Glued(CloseScript, OpenParts, CloseScript \o OpenParts, 24, 10)
      /\ Glued(CloseScript \o OpenParts, StartScript, OpenScript, 24 + 10, 10)
  BY GlueTwo, CloseEntries, OpenEntries, StartEntries, 24 \in Nat, 10 \in Nat, Zenon
     DEF OpenScript
<1>2. Len(OpenScript) = 44 /\ 24 + 10 = 34
  BY <1>1
<1> QED BY <1>1, <1>2, Zenon

(* Which of them an entry is from.                                         *)
LEMMA OpenAt ==
  \A i \in 1 .. 44 : OpenScript[i] = IF i <= 24 THEN CloseScript[i]
                                     ELSE IF i <= 34 THEN OpenParts[i - 24]
                                     ELSE StartScript[i - 34]
<1>1. /\ Glued(CloseScript, OpenParts, CloseScript \o OpenParts, 24, 10)
      /\ Glued(CloseScript \o OpenParts, StartScript, OpenScript, 34, 10)
  BY OpenIsGlued
<1> SUFFICES ASSUME NEW i \in 1 .. 44
             PROVE  OpenScript[i] = IF i <= 24 THEN CloseScript[i]
                                    ELSE IF i <= 34 THEN OpenParts[i - 24]
                                    ELSE StartScript[i - 34]
  OBVIOUS
<1> DEFINE front == CloseScript \o OpenParts
<1> HIDE DEF front
<1>2. CASE i <= 24
  <2>1. i \in 1 .. 24 /\ i \in 1 .. 34
    BY <1>2
  <2>2. OpenScript[i] = front[i]
    BY <1>1, <2>1 DEF Glued, front
  <2>3. front[i] = CloseScript[i]
    BY <1>1, <2>1 DEF Glued, front
  <2> QED BY <1>2, <2>2, <2>3
<1>3. CASE i > 24 /\ i <= 34
  <2>1. i \in 24 + 1 .. 24 + 10 /\ i \in 1 .. 34
    BY <1>3
  <2>2. OpenScript[i] = front[i]
    BY <1>1, <2>1 DEF Glued, front
  <2>3. front[i] = OpenParts[i - 24]
    BY <1>1, <2>1, Zenon DEF Glued, front
  <2> QED BY <1>3, <2>2, <2>3
<1>4. CASE i > 34
  <2>1. i \in 34 + 1 .. 34 + 10
    BY <1>4
  <2>2. OpenScript[i] = StartScript[i - 34]
    BY <1>1, <2>1, Zenon DEF Glued, front
  <2> QED BY <1>4, <2>2
<1> QED BY <1>2, <1>3, <1>4

(* What stands where in OpenScript.                                        *)
OpenFacts(i, e) ==
  /\ e \in Entries /\ GoodEntry(e)
  /\ e.do \notin {"pause", "resume", "await", "seek", "read", "route", "recv"}
  /\ e.do = "unlock" <=> i \in {24, 34, 44}
  /\ i = 6 => e = Do("exit", "vDecode")
  /\ i = 8 => e = Do("exit", "aDecode")
  /\ i = 12 => e = Do("clear", "vDecode")
  /\ i = 14 => e = Do("clear", "aDecode")
  /\ i = 33 => e = Do("open", "aDecode")
  /\ e.do = "free" => i \in IF e.on = "vDecode" THEN {20, 29} ELSE {22, 32}
  /\ e.do = "open" => i = IF e.on = "demux" THEN 27 ELSE IF e.on = "vDecode" THEN 30 ELSE 33
  /\ e.do = "start" => CASE e.on = "vDecode" -> i = 36 [] e.on = "demux" -> i = 37
                         [] e.on = "aDecode" -> i = 38 [] OTHER -> i = 43

(* What the invariants need to know of each entry of Open().               *)
LEMMA OpenTable == \A i \in 1 .. 44 : OpenFacts(i, OpenScript[i])
<1> SUFFICES ASSUME NEW i \in 1 .. 44 PROVE OpenFacts(i, OpenScript[i])
  OBVIOUS
<1>1. CASE i <= 24
  <2>1. OpenScript[i] = CloseScript[i]
    BY <1>1, OpenAt
  <2> QED BY <1>1, <2>1 DEF OpenFacts, CloseScript, Do, Entries, Verb, Decoder, GoodEntry
<1>2. CASE i \in 25 .. 34
  <2>1. OpenScript[i] = OpenParts[i - 24]
    BY <1>2, OpenAt
  <2> QED BY <1>2, <2>1 DEF OpenFacts, OpenParts, Do, Entries, Verb, Decoder, GoodEntry
<1>3. CASE i \in 35 .. 44
  <2>1. OpenScript[i] = StartScript[i - 34]
    BY <1>3, OpenAt
  <2> QED BY <1>3, <2>1 DEF OpenFacts, StartScript, Do, Entries, Verb, Decoder, GoodEntry
<1> QED BY <1>1, <1>2, <1>3

(* Seek() is a pause, its own part and a resumption.                       *)
LEMMA SeekIsGlued ==
  /\ SeekScript \in Seq(Entries) /\ Len(SeekScript) = 35
  /\ Glued(SetPauseScript("pause"), SeekParts, SetPauseScript("pause") \o SeekParts, 12, 11)
  /\ Glued(SetPauseScript("pause") \o SeekParts, SetPauseScript("resume"), SeekScript, 23, 12)
<1>1. /\ SetPauseScript("pause") \in Seq(Entries) /\ Len(SetPauseScript("pause")) = 12
      /\ SetPauseScript("resume") \in Seq(Entries) /\ Len(SetPauseScript("resume")) = 12
  BY PauseEntries
<1>2. /\ SeekScript \in Seq(Entries) /\ Len(SeekScript) = 12 + 11 + 12
      /\ Glued(SetPauseScript("pause"), SeekParts, SetPauseScript("pause") \o SeekParts, 12, 11)
      /\ Glued(SetPauseScript("pause") \o SeekParts, SetPauseScript("resume"), SeekScript, 12 + 11, 12)
  BY <1>1, GlueTwo, SeekEntries, 12 \in Nat, 11 \in Nat, Zenon DEF SeekScript
<1>3. Len(SeekScript) = 35 /\ 12 + 11 = 23
  BY <1>2
<1> QED BY <1>2, <1>3, Zenon

(* What stands where in SetPauseScript and in SeekScript.                  *)
PauseFacts(r, i, e) ==
  /\ e \in Entries /\ GoodEntry(e)
  /\ e.do \in {"lock", "unlock", "await", r}
  /\ e.do = "unlock" <=> i = 12
  /\ i = 6 => e = Do(r, "vDecode")
  /\ i = 7 => e = Do("await", "vDecode")
  /\ e.do \in {"pause", "resume"} /\ e.on = "vDecode" => i = 6

(* What the invariants need to know of SetPause().                         *)
LEMMA PauseTable ==
  \A r \in {"pause", "resume"}, i \in 1 .. 12 : PauseFacts(r, i, SetPauseScript(r)[i])
  BY DEF PauseFacts, SetPauseScript, Do, Entries, Verb, Decoder, GoodEntry

(* The entries of Seek() by their places.                                  *)
SeekFacts(i, e) ==
  /\ e \in Entries /\ GoodEntry(e)
  /\ e.do \in {"lock", "unlock", "await", "pause", "resume", "clear", "flush", "seek", "read",
               "route", "recv"}
  /\ e.do = "unlock" <=> i \in {12, 23, 35}
  /\ e.do = "read" <=> i = 20
  /\ e.do = "route" <=> i = 21
  /\ e.do = "recv" <=> i = 22
  /\ i = 6 => e = Do("pause", "vDecode")
  /\ i = 7 => e = Do("await", "vDecode")
  /\ e.do = "resume" /\ e.on = "vDecode" => i = 29

(* What the invariants need to know of each entry of Seek().               *)
LEMMA SeekTable == \A i \in 1 .. 35 : SeekFacts(i, SeekScript[i])
<1> SUFFICES ASSUME NEW i \in 1 .. 35 PROVE SeekFacts(i, SeekScript[i])
  OBVIOUS
<1> DEFINE front == SetPauseScript("pause") \o SeekParts
<1>0. /\ Glued(SetPauseScript("pause"), SeekParts, front, 12, 11)
      /\ Glued(front, SetPauseScript("resume"), SeekScript, 23, 12)
  BY SeekIsGlued
<1> HIDE DEF front
<1>1. CASE i <= 12
  <2>1. i \in 1 .. 12 /\ i \in 1 .. 23
    BY <1>1
  <2>2. SeekScript[i] = SetPauseScript("pause")[i]
    BY <1>0, <2>1 DEF Glued
  <2>3. PauseFacts("pause", i, SetPauseScript("pause")[i])
    BY <2>1, PauseTable
  <2> QED BY <1>1, <2>2, <2>3 DEF SeekFacts, PauseFacts
<1>2. CASE i > 12 /\ i <= 23
  <2>1. i \in 12 + 1 .. 12 + 11 /\ i \in 1 .. 23
    BY <1>2
  <2>2. SeekScript[i] = front[i]
    BY <1>0, <2>1 DEF Glued
  <2>3. front[i] = SeekParts[i - 12]
    BY <1>0, <2>1, Zenon DEF Glued
  <2>4. SeekFacts(i, SeekParts[i - 12])
    BY <1>2 DEF SeekFacts, SeekParts, Do, Entries, Verb, Decoder, GoodEntry
  <2> QED BY <2>2, <2>3, <2>4
<1>3. CASE i > 23
  <2>1. i \in 23 + 1 .. 23 + 12 /\ i - 23 \in 1 .. 12
    BY <1>3
  <2>2. SeekScript[i] = SetPauseScript("resume")[i - 23]
    BY <1>0, <2>1, Zenon DEF Glued
  <2>3. PauseFacts("resume", i - 23, SetPauseScript("resume")[i - 23])
    BY <2>1, PauseTable
  <2> QED BY <1>3, <2>1, <2>2, <2>3 DEF SeekFacts, PauseFacts
<1> QED BY <1>1, <1>2, <1>3

(* The place Seek() goes back to.                                          *)
LEMMA ReadIsThere == ReadEntry = 20
<1>1. \A i \in 1 .. 35 : SeekScript[i].do = "read" <=> i = 20
  BY SeekTable DEF SeekFacts
<1>2. DOMAIN SeekScript = 1 .. 35
  BY SeekIsGlued
<1> QED BY <1>1, <1>2 DEF ReadEntry

(* The length of each script.                                              *)
Size(s) == CASE s = "open" -> 44 [] s = "seek" -> 35 [] OTHER -> 12

(* All of it about the four scripts.                                       *)
LEMMA Scripts ==
  /\ DOMAIN Script = {"open", "pause", "resume", "seek"}
  /\ Script["open"] = OpenScript /\ Script["seek"] = SeekScript
  /\ \A r \in {"pause", "resume"} : Script[r] = SetPauseScript(r)
  /\ \A s \in DOMAIN Script :
       /\ DOMAIN Script[s] = 1 .. Size(s) /\ Len(Script[s]) = Size(s)
       /\ Size(s) \in Nat \ {0}
       /\ \A i \in 1 .. Size(s) : Script[s][i] \in Entries /\ GoodEntry(Script[s][i])
       /\ Script[s][Size(s)].do = "unlock"
<1>1. /\ DOMAIN Script = {"open", "pause", "resume", "seek"}
      /\ Script["open"] = OpenScript /\ Script["seek"] = SeekScript
      /\ \A r \in {"pause", "resume"} : Script[r] = SetPauseScript(r)
  BY DEF Script
<1>2. DOMAIN OpenScript = 1 .. 44 /\ Len(OpenScript) = 44
  BY OpenIsGlued
<1>3. DOMAIN SeekScript = 1 .. 35 /\ Len(SeekScript) = 35
  BY SeekIsGlued
<1>4. \A r \in {"pause", "resume"} :
        DOMAIN SetPauseScript(r) = 1 .. 12 /\ Len(SetPauseScript(r)) = 12
  BY PauseEntries
<1>5. \A i \in 1 .. 44 :
        /\ OpenScript[i] \in Entries /\ GoodEntry(OpenScript[i])
        /\ i = 44 => OpenScript[i].do = "unlock"
  BY OpenTable DEF OpenFacts
<1>6. \A i \in 1 .. 35 :
        /\ SeekScript[i] \in Entries /\ GoodEntry(SeekScript[i])
        /\ i = 35 => SeekScript[i].do = "unlock"
  BY SeekTable DEF SeekFacts
<1>7. \A r \in {"pause", "resume"}, i \in 1 .. 12 :
        /\ SetPauseScript(r)[i] \in Entries /\ GoodEntry(SetPauseScript(r)[i])
        /\ i = 12 => SetPauseScript(r)[i].do = "unlock"
  BY PauseTable DEF PauseFacts
<1> QED BY <1>1, <1>2, <1>3, <1>4, <1>5, <1>6, <1>7 DEF Size

-----------------------------------------------------------------------------
(* The control thread: where it goes in its script.                        *)

LEMMA EntryOK ==
  ASSUME CallOK, op # "idle"
  PROVE  /\ op \in DOMAIN Script /\ ip \in 1 .. Size(op) /\ Size(op) \in Nat
         /\ Entry \in Entries /\ GoodEntry(Entry)
         /\ op = "open" => OpenFacts(ip, Entry)
         /\ op = "seek" => SeekFacts(ip, Entry)
         /\ op \in {"pause", "resume"} => PauseFacts(op, ip, Entry)
<1>1. op \in DOMAIN Script /\ ip \in 1 .. Size(op) /\ Size(op) \in Nat
  BY Scripts DEF CallOK
<1>2. Entry \in Entries /\ GoodEntry(Entry)
  BY <1>1, Scripts DEF Entry
<1>3. op = "open" => OpenFacts(ip, Entry)
  BY <1>1, Scripts, OpenTable DEF Entry, Size
<1>4. op = "seek" => SeekFacts(ip, Entry)
  BY <1>1, Scripts, SeekTable DEF Entry, Size
<1>5. op \in {"pause", "resume"} => PauseFacts(op, ip, Entry)
  BY <1>1, Scripts, PauseTable DEF Entry, Size
<1> QED BY <1>1, <1>2, <1>3, <1>4, <1>5

(* The next entry is one of the script.                                    *)
PlaceOK == op \in {"idle"} \cup DOMAIN Script /\ ip \in IF op = "idle" THEN {1} ELSE DOMAIN Script[op]

(* A jump within a script.                                                 *)
LEMMA MoveOK ==
  ASSUME CallOK, op # "idle", NEW i \in Nat \ {0}, i <= Size(op) + 1, Goto(i)
  PROVE  PlaceOK' /\ (op' # "idle" => op' = op /\ ip' = i)
<1>1. /\ op \in DOMAIN Script /\ Len(Script[op]) = Size(op) /\ Size(op) \in Nat
      /\ DOMAIN Script[op] = 1 .. Size(op)
  BY Scripts DEF CallOK
<1>2. CASE i > Len(Script[op])
  BY <1>1, <1>2 DEF Goto, PlaceOK
<1>3. CASE i <= Len(Script[op])
  <2>1. op' = op /\ ip' = i /\ i \in 1 .. Size(op)
    BY <1>1, <1>3 DEF Goto
  <2> QED BY <1>1, <2>1 DEF PlaceOK
<1> QED BY <1>1, <1>2, <1>3

(* The next entry of a script.                                             *)
LEMMA ContinueOK ==
  ASSUME CallOK, op # "idle", Continue
  PROVE  PlaceOK' /\ (op' # "idle" => op' = op /\ ip' = ip + 1)
<1>1. ip \in 1 .. Size(op) /\ Size(op) \in Nat
  BY EntryOK
<1>2. ip + 1 \in Nat \ {0} /\ ip + 1 <= Size(op) + 1
  BY <1>1
<1> QED BY <1>2, MoveOK DEF Continue

(* Where Open() goes when the demuxer fails.                               *)
LEMMA UnlockOpen ==
  ASSUME op = "open", ip = 27
  PROVE  UnlockEntry = 34
<1>1. Script[op] = OpenScript /\ Len(Script[op]) = 44
  BY Scripts DEF Size
<1>2. \A i \in 27 .. 44 : OpenScript[i].do = "unlock" <=> i \in {34, 44}
  BY OpenTable DEF OpenFacts
<1> QED BY <1>1, <1>2 DEF UnlockEntry

(* Where Seek() goes when it stops reading.                                *)
LEMMA UnlockSeek ==
  ASSUME op = "seek", ip \in {20, 22}
  PROVE  UnlockEntry = 23
<1>1. Script[op] = SeekScript /\ Len(Script[op]) = 35
  BY Scripts DEF Size
<1>2. \A i \in 20 .. 35 : SeekScript[i].do = "unlock" <=> i \in {23, 35}
  BY SeekTable DEF SeekFacts
<1> QED BY <1>1, <1>2 DEF UnlockEntry

-----------------------------------------------------------------------------
(* What a step leaves alone.                                               *)

LEMMA Kept ==
  /\ ThreadsOK /\ UNCHANGED <<flags, pc>> => ThreadsOK'
  /\ FileOK /\ UNCHANGED demuxVars => FileOK'
  /\ DecodersOK /\ UNCHANGED decodeVars => DecodersOK'
  /\ NotesOK /\ UNCHANGED noteVars => NotesOK'
  /\ AudioOK /\ UNCHANGED audioVars => AudioOK'
  /\ CallOK /\ UNCHANGED playerVars => CallOK'
  /\ HistoryOK /\ UNCHANGED history => HistoryOK'
  /\ WorkersOK /\ UNCHANGED <<pc, packsMutex, pck>> => WorkersOK'
  /\ SoundOK /\ UNCHANGED <<pc, frame>> => SoundOK'
  /\ StoppedOK /\ UNCHANGED <<op, ip, isExit, pc>> => StoppedOK'
<1>1. ThreadsOK /\ UNCHANGED <<flags, pc>> => ThreadsOK'
  BY DEF ThreadsOK, flags
<1>2. FileOK /\ UNCHANGED demuxVars => FileOK'
  BY DEF FileOK, demuxVars
<1>3. DecodersOK /\ UNCHANGED decodeVars => DecodersOK'
  BY DEF DecodersOK, decodeVars
<1>4. NotesOK /\ UNCHANGED noteVars => NotesOK'
  BY DEF NotesOK, noteVars
<1>5. AudioOK /\ UNCHANGED audioVars => AudioOK'
  BY DEF AudioOK, audioVars
<1>6. CallOK /\ UNCHANGED playerVars => CallOK'
  BY DEF CallOK, playerVars
<1>7. HistoryOK /\ UNCHANGED history => HistoryOK'
  BY DEF HistoryOK, history
<1>8. WorkersOK /\ UNCHANGED <<pc, packsMutex, pck>> => WorkersOK'
  BY DEF WorkersOK
<1>9. SoundOK /\ UNCHANGED <<pc, frame>> => SoundOK'
  BY DEF SoundOK, Delivers
<1>10. StoppedOK /\ UNCHANGED <<op, ip, isExit, pc>> => StoppedOK'
  BY DEF StoppedOK, Delivers
<1> QED BY <1>1, <1>2, <1>3, <1>4, <1>5, <1>6, <1>7, <1>8, <1>9, <1>10

-----------------------------------------------------------------------------
(* The calls of the control thread.                                        *)

LEMMA StoppedMoves ==
  ASSUME CallOK, StoppedOK, op # "idle", Continue, UNCHANGED <<isExit, pc>>,
         Entry.do \notin {"exit", "clear"}
  PROVE  StoppedOK'
<1>1. op' = "open" => op = "open" /\ ip' = ip + 1
  BY ContinueOK, Scripts DEF PlaceOK, CallOK
<1>2. op = "open" => OpenFacts(ip, Entry) /\ ip \in 1 .. 44
  BY EntryOK DEF Size
<1>3. op = "open" => ip \notin {6, 8, 12, 14}
  BY <1>2 DEF OpenFacts, Do
<1> QED BY <1>1, <1>2, <1>3 DEF StoppedOK, Delivers

(* Locking and waiting change no part.                                     *)
LEMMA StepQuiet ==
  ASSUME PlayInv, Lock \/ Unlock \/ Join \/ Await
  PROVE  PlayInv'
<1>1. /\ op # "idle" /\ Entry.do \in {"lock", "unlock", "join", "await"} /\ Continue
      /\ UNCHANGED <<flags, pc, demuxVars, decodeVars, noteVars, audioVars, ops, target, got,
                     history>>
      /\ mux' \in BOOLEAN
  BY DEF Lock, Unlock, Join, Await, At, PlayInv, CallOK
<1>2. CallOK'
  BY <1>1, ContinueOK DEF PlayInv, CallOK, PlaceOK
<1>3. StoppedOK'
  BY <1>1, StoppedMoves DEF PlayInv, flags
<1> QED BY <1>1, <1>2, <1>3, Kept DEF PlayInv, decodeVars

(* Setting a flag of a part.                                               *)
LEMMA StepRequest ==
  ASSUME PlayInv, Request
  PROVE  PlayInv'
<1>1. /\ op # "idle" /\ Continue
      /\ UNCHANGED <<pc, demuxVars, decodeVars, noteVars, audioVars, mux, ops, target, got,
                     history>>
  BY DEF Request, At
<1>2. Part \in Object
  BY <1>1, EntryOK, PlayerAssumption, DecodeAssumption, AudioAssumption
     DEF PlayInv, GoodEntry, Part
<1>3. CallOK'
  BY <1>1, ContinueOK DEF PlayInv, CallOK, PlaceOK
<1>4. ThreadsOK'
  <2>1. /\ isExit' \in [Object -> BOOLEAN] /\ isRunning' \in [Object -> BOOLEAN]
        /\ isPause' \in [Object -> BOOLEAN] /\ isPausing' \in [Object -> BOOLEAN]
    BY <1>2, AudioAssumption
       DEF Request, RaiseExit, RequestPause, WithdrawExit, PlayInv, ThreadsOK
  <2> QED BY <1>1, <2>1 DEF PlayInv, ThreadsOK
<1>5. StoppedOK'
  <2>1. CASE Entry.do # "exit"
    <3>1. Entry.do \in {"pause", "resume", "withdraw"}
      BY <2>1 DEF Request, At
    <3>2. \A d \in Decoder : isExit'[d] = isExit[d]
      <4>1. isExit' = isExit \/ isExit' = [isExit EXCEPT !["audioPlay"] = FALSE]
        BY <3>1 DEF Request, At, RequestPause, WithdrawExit
      <4>2. isExit \in [Object -> BOOLEAN] /\ Decoder \subseteq Object /\ "audioPlay" \notin Decoder
        BY DecodeAssumption DEF PlayInv, ThreadsOK, Decoder
      <4> QED BY <4>1, <4>2
    <3>3. op' = "open" => op = "open" /\ ip' = ip + 1
      BY <1>1, ContinueOK, Scripts DEF PlaceOK, CallOK, PlayInv
    <3>4. op = "open" => ip \notin {6, 8, 12, 14} /\ ip \in 1 .. 44
      BY <1>1, <3>1, EntryOK DEF OpenFacts, Do, PlayInv, Size
    <3> QED BY <1>1, <3>2, <3>3, <3>4 DEF StoppedOK, Delivers, PlayInv, Decoder
  <2>2. CASE Entry.do = "exit"
    <3>1. isExit' = [isExit EXCEPT ![Part] = TRUE]
      BY <2>2 DEF Request, At, RaiseExit
    <3>2. op' = "open" => op = "open" /\ ip' = ip + 1
      BY <1>1, ContinueOK, Scripts DEF PlaceOK, CallOK, PlayInv
    <3>3. /\ op = "open" => ip \notin {12, 14} /\ ip \in 1 .. 44
          /\ op = "open" /\ ip = 6 => Part = "vDecode"
          /\ op = "open" /\ ip = 8 => Part = "aDecode"
      BY <1>1, <2>2, EntryOK DEF OpenFacts, Do, PlayInv, Part, Size
    <3>4. \A d \in Decoder : d \in Object
      BY DecodeAssumption
    <3> QED BY <1>1, <3>1, <3>2, <3>3, <3>4 DEF StoppedOK, Delivers, PlayInv, Decoder, ThreadsOK
  <2> QED BY <2>1, <2>2
<1> QED BY <1>1, <1>3, <1>4, <1>5, Kept DEF PlayInv, decodeVars

(* The parts, their threads, and the packets.                              *)
LEMMA Names ==
  /\ Decoder \subseteq Object /\ "player" \in Object /\ "demux" \in Object
  /\ "audioPlay" \in Object /\ Device \in Thread
  /\ DemuxThread \subseteq Thread /\ DecodeThread \subseteq Thread /\ SyncThread \subseteq Thread
  /\ \A t \in DecodeThread : Obj(t) \in Decoder
  /\ \A d \in Decoder, k \in Slot : <<d, k>> \in DecodeThread /\ Obj(<<d, k>>) = d
  /\ NoPacket \in Packet /\ NoPacket \notin Read /\ Read \subseteq Packet
  /\ UI \in Caller /\ DemuxThread \subseteq Caller
<1>1. Decoder \subseteq Object /\ "player" \in Object /\ "demux" \in Object /\ "audioPlay" \in Object
  BY DecodeAssumption, AudioAssumption, PlayerAssumption
<1>2. /\ DemuxThread \subseteq Thread /\ DecodeThread \subseteq Thread /\ SyncThread \subseteq Thread
      /\ Device \in Thread
  BY <1>1, AudioAssumption DEF DemuxThread, DecodeThread, SyncThread, Thread, Device
<1>3. \A t \in DecodeThread : Obj(t) \in Decoder
  BY DEF DecodeThread, Obj
<1>4. \A d \in Decoder, k \in Slot : <<d, k>> \in DecodeThread /\ Obj(<<d, k>>) = d
  BY DEF DecodeThread, Obj
<1>5. NoPacket \in Packet /\ NoPacket \notin Read /\ Read \subseteq Packet
  BY DEF NoPacket, Read, Packet
<1>6. UI \in Caller /\ DemuxThread \subseteq Caller
  BY DEF UI, Caller
<1> QED BY <1>1, <1>2, <1>3, <1>4, <1>5, <1>6

(* The application calls.                                                  *)
LEMMA StepCall ==
  ASSUME PlayInv, Call
  PROVE  PlayInv'
<1>1. /\ op = "idle" /\ ip = 1 /\ ip' = ip /\ ops < MaxOps /\ ops' = ops + 1
      /\ leaked' = [video |-> 0, audio |-> 0]
      /\ UNCHANGED <<pc, demuxVars, decodeVars, noteVars, audioVars, mux, got, shown, heard,
                     overlap>>
      /\ op' \in DOMAIN Script /\ target' \in Nat
      /\ UNCHANGED <<isExit, isRunning, isPause>> /\ isPausing' \in [Object -> BOOLEAN]
  <2>1. op' \in DOMAIN Script
    BY Scripts DEF Call, CallOpen, CallPlayOrPause, CallSeek
  <2>2. target' \in Nat
    BY PlayerAssumption DEF Call, CallOpen, CallPlayOrPause, CallSeek, PlayInv, CallOK
  <2>3. UNCHANGED <<isExit, isRunning, isPause>> /\ isPausing' \in [Object -> BOOLEAN]
    BY Names DEF Call, CallOpen, CallPlayOrPause, CallSeek, Acknowledge, flags, PlayInv, ThreadsOK
  <2> QED BY <2>1, <2>2, <2>3 DEF Call, PlayInv, CallOK
<1>2. ThreadsOK'
  BY <1>1 DEF PlayInv, ThreadsOK
<1>3. CallOK'
  <2>1. ip' \in DOMAIN Script[op'] /\ op' # "idle"
    BY <1>1, Scripts DEF Size
  <2>2. ops' \in 0 .. MaxOps
    BY <1>1, PlayerAssumption DEF PlayInv, CallOK
  <2> QED BY <1>1, <2>1, <2>2 DEF PlayInv, CallOK
<1>4. HistoryOK'
  BY <1>1 DEF PlayInv, HistoryOK
<1>5. StoppedOK'
  BY <1>1 DEF StoppedOK
<1> QED BY <1>1, <1>2, <1>3, <1>4, <1>5, Kept DEF PlayInv, decodeVars

(* The thread that Start() detaches.                                       *)
LEMMA SpawnOK ==
  ASSUME NEW o \in Object, Spawn(o)
  PROVE  \E k \in Slot : pc[<<o, k>>] = "none" /\ pc' = [pc EXCEPT ![<<o, k>>] = "spawned"]
<1> DEFINE k == CHOOSE k \in Slot : k \notin Live(o)
<1>1. \E j \in Slot : j \notin Live(o)
  BY DEF Spawn, Live
<1>2. k \in Slot /\ k \notin Live(o)
  BY <1>1
<1>3. pc' = [pc EXCEPT ![<<o, k>>] = "spawned"]
  BY DEF Spawn, GoTo
<1> HIDE DEF k
<1> QED BY <1>2, <1>3 DEF Live

(* Start() of a part.                                                      *)
LEMMA StepStart ==
  ASSUME PlayInv, StartPart
  PROVE  PlayInv'
<1>1. /\ op # "idle" /\ Entry.do = "start" /\ Continue /\ Start(Part)
      /\ overlap' \in {overlap, overlap \cup {Part}}
      /\ UNCHANGED <<demuxVars, decodeVars, noteVars, audioVars, mux, ops, target, got, shown,
                     heard, leaked>>
  BY DEF StartPart, At
<1>2. Part \in Decoder \cup {"demux", "player"} /\ Part \in Object
  BY <1>1, EntryOK, Names DEF PlayInv, GoodEntry, Part
<1>3. PICK k \in Slot : pc[<<Part, k>>] = "none" /\ pc' = [pc EXCEPT ![<<Part, k>>] = "spawned"]
  BY <1>1, <1>2, SpawnOK DEF Start
<1>4. CallOK'
  BY <1>1, ContinueOK DEF PlayInv, CallOK, PlaceOK
<1>5. /\ isExit' = [isExit EXCEPT ![Part] = FALSE]
      /\ isPause' = [isPause EXCEPT ![Part] = FALSE]
      /\ UNCHANGED <<isRunning, isPausing>>
  BY <1>1 DEF Start
<1>6. \A t \in Thread : pc'[t] = pc[t] \/ (pc[t] = "none" /\ pc'[t] = "spawned")
  BY <1>3 DEF PlayInv, ThreadsOK
<1>7. ThreadsOK'
  <2>1. /\ isExit' \in [Object -> BOOLEAN] /\ isRunning' \in [Object -> BOOLEAN]
        /\ isPause' \in [Object -> BOOLEAN] /\ isPausing' \in [Object -> BOOLEAN]
    BY <1>2, <1>5 DEF PlayInv, ThreadsOK
  <2>2. pc' \in [Thread -> Label]
    BY <1>3 DEF PlayInv, ThreadsOK, Label
  <2> QED BY <1>6, <2>1, <2>2, Names DEF PlayInv, ThreadsOK, InLoop
<1>8. WorkersOK'
  BY <1>1, <1>6, Names DEF PlayInv, WorkersOK, Working, decodeVars
<1>9. \A d \in Decoder : Delivers(d)' = Delivers(d)
  BY <1>6, Names DEF Delivers
<1>10. SoundOK'
  BY <1>1, <1>9, Names DEF PlayInv, SoundOK, Decoder, decodeVars
<1>11. StoppedOK'
  <2>1. op' = "open" => op = "open" /\ ip' = ip + 1
    BY <1>1, ContinueOK, Scripts DEF PlaceOK, CallOK, PlayInv
  <2>2. /\ op = "open" => ip \in {36, 37, 38, 43}
        /\ op = "open" /\ Part = "vDecode" => ip = 36
        /\ op = "open" /\ Part = "aDecode" => ip = 38
    BY <1>1, EntryOK DEF OpenFacts, PlayInv, Part, Size
  <2> QED BY <1>2, <1>5, <1>9, <2>1, <2>2, Names DEF StoppedOK, PlayInv, Decoder, ThreadsOK
<1>12. HistoryOK'
  BY <1>1, <1>2 DEF PlayInv, HistoryOK
<1> QED BY <1>1, <1>4, <1>7, <1>8, <1>10, <1>11, <1>12, Kept DEF PlayInv, decodeVars

(* Nobody works on a decoder whose mutex is free, and never two do.        *)
LEMMA OneWorker ==
  ASSUME ThreadsOK, WorkersOK, NEW d \in Decoder
  PROVE  /\ packsMutex[d] = Free => Delivers(d) = {}
         /\ \A k, l \in Slot : pc[<<d, k>>] \in Working /\ pc[<<d, l>>] \in Working => k = l
         /\ \A k \in Delivers(d) : packsMutex[d] = <<d, k>>
<1>1. \A k \in Slot : pc[<<d, k>>] \in Working => packsMutex[d] = <<d, k>>
  BY Names DEF WorkersOK
<1>2. \A k \in Slot : <<d, k>> # Free
  BY DEF Free, Decoder
<1>3. \A k \in Delivers(d) : k \in Slot /\ pc[<<d, k>>] \in Working
  BY DEF Delivers, Working
<1>4. packsMutex[d] = Free => Delivers(d) = {}
  <2>1. SUFFICES ASSUME packsMutex[d] = Free, NEW k \in Delivers(d) PROVE FALSE
    OBVIOUS
  <2>2. k \in Slot /\ packsMutex[d] = <<d, k>>
    BY <1>1, <1>3
  <2> QED BY <1>2, <2>1, <2>2
<1>5. \A k, l \in Slot : pc[<<d, k>>] \in Working /\ pc[<<d, l>>] \in Working => k = l
  BY <1>1
<1>6. \A k \in Delivers(d) : packsMutex[d] = <<d, k>>
  BY <1>1, <1>3
<1> QED BY <1>4, <1>5, <1>6

(* The four decoder calls change nothing but the decoder.                  *)
LEMMA StepClear ==
  ASSUME PlayInv, DecoderCall, At("clear"), Part \in Decoder, ClearQueue(Part)
  PROVE  DecodersOK' /\ StoppedOK' /\ UNCHANGED <<pc, packsMutex, pck, frame>>
<1>1. /\ op # "idle" /\ Entry.do = "clear" /\ Continue /\ UNCHANGED <<flags, pc>>
      /\ packsMutex[Part] = Free
  BY DEF DecoderCall, At, ClearQueue
<1>2. DecodersOK'
  <2>1. packs' = [packs EXCEPT ![Part] = <<>>] /\ packs' \in [Decoder -> Seq(Read)]
    BY DEF ClearQueue, PlayInv, DecodersOK
  <2>2. \A d \in Decoder : packs'[d] = packs[d] \/ packs'[d] = <<>>
    BY <2>1 DEF PlayInv, DecodersOK
  <2>3. \A d \in Decoder : Len(packs'[d]) <= maxList
    BY <2>2, DecodeAssumption DEF PlayInv, DecodersOK
  <2>4. synPts' \in [Decoder -> Nat] /\ framePts' \in [Decoder -> Nat]
    BY DEF ClearQueue, PlayInv, DecodersOK
  <2> QED BY <2>1, <2>3, <2>4 DEF ClearQueue, PlayInv, DecodersOK
<1>3. StoppedOK'
  <2>1. op' = "open" => op = "open" /\ ip' = ip + 1
    BY <1>1, ContinueOK, Scripts DEF PlaceOK, CallOK, PlayInv
  <2>2. Delivers(Part) = {}
    BY <1>1, OneWorker DEF PlayInv
  <2>3. /\ op = "open" => ip \in 1 .. 44 /\ ip \notin {6, 8}
        /\ op = "open" /\ ip = 12 => Part = "vDecode"
        /\ op = "open" /\ ip = 14 => Part = "aDecode"
    BY <1>1, EntryOK DEF OpenFacts, Do, PlayInv, Part, Size
  <2> QED BY <1>1, <2>1, <2>2, <2>3 DEF StoppedOK, Delivers, PlayInv, flags
<1> QED BY <1>1, <1>2, <1>3 DEF ClearQueue

(* A call of the control thread on a decoder.                              *)
LEMMA StepDecoderCall ==
  ASSUME PlayInv, DecoderCall
  PROVE  PlayInv'
<1>1. /\ op # "idle" /\ Continue
      /\ UNCHANGED <<flags, pc, demuxVars, noteVars, audioVars, mux, ops, target, got, history>>
  BY DEF DecoderCall, At
<1>2. CallOK'
  BY <1>1, ContinueOK DEF PlayInv, CallOK, PlaceOK
<1>3. DecodersOK' /\ StoppedOK' /\ SoundOK' /\ UNCHANGED <<packsMutex, pck>>
  <2>1. CASE At("clear") /\ Part \in Decoder /\ ClearQueue(Part)
    BY <2>1, StepClear, Kept DEF PlayInv
  <2>2. CASE At("flush") /\ FlushCodec(Part)
    <3>1. StoppedOK'
      BY <1>1, <2>2, StoppedMoves DEF PlayInv, At, flags
    <3>2. codec' \in [Decoder -> Seq(Read)]
      <4>1. <<>> \in Seq(Read) /\ codec' = [codec EXCEPT ![Part] = <<>>]
        BY <2>2 DEF FlushCodec
      <4> QED BY <4>1 DEF PlayInv, DecodersOK
    <3>3. DecodersOK'
      BY <2>2, <3>2 DEF FlushCodec, PlayInv, DecodersOK
    <3> QED BY <1>1, <2>2, <3>1, <3>3, Kept DEF FlushCodec, PlayInv
  <2>3. CASE At("free") /\ FreeCodec(Part)
    <3>1. StoppedOK'
      BY <1>1, <2>3, StoppedMoves DEF PlayInv, At, flags
    <3>2. /\ codec' \in [Decoder -> Seq(Read)] /\ framePts' \in [Decoder -> Nat]
          /\ opened' \in [Decoder -> BOOLEAN]
      <4>1. <<>> \in Seq(Read) /\ codec' = [codec EXCEPT ![Part] = <<>>]
        BY <2>3 DEF FreeCodec
      <4>2. codec' \in [Decoder -> Seq(Read)]
        BY <4>1 DEF PlayInv, DecodersOK
      <4> QED BY <2>3, <4>2 DEF FreeCodec, PlayInv, DecodersOK
    <3>3. frame' \in [Decoder -> Packet]
      BY <2>3, Names DEF FreeCodec, PlayInv, DecodersOK
    <3>4. DecodersOK'
      BY <2>3, <3>2, <3>3 DEF FreeCodec, PlayInv, DecodersOK
    <3>5. Part = "aDecode" => Delivers("aDecode") = {}
      <4>1. Entry.do = "free"
        BY <2>3 DEF At
      <4>2. op = "open"
        BY <1>1, <4>1, EntryOK, Scripts DEF SeekFacts, PauseFacts, PlayInv
      <4>3. Part = "aDecode" => ip \in {22, 32}
        BY <1>1, <4>1, <4>2, EntryOK DEF OpenFacts, Part, PlayInv
      <4> QED BY <4>2, <4>3 DEF StoppedOK, PlayInv
    <3>6. Delivers("aDecode")' = Delivers("aDecode")
      BY <1>1 DEF Delivers
    <3>7. Part # "aDecode" => frame'["aDecode"] = frame["aDecode"]
      BY <2>3 DEF FreeCodec, PlayInv, DecodersOK, Decoder
    <3>8. SoundOK'
      BY <3>5, <3>6, <3>7 DEF SoundOK, PlayInv
    <3> QED BY <2>3, <3>1, <3>4, <3>8 DEF FreeCodec
  <2>4. CASE At("open") /\ Part \in Decoder /\ \E ok \in BOOLEAN : OpenCodec(Part, ok)
    <3>1. StoppedOK'
      BY <1>1, <2>4, StoppedMoves DEF PlayInv, At, flags
    <3>2. isAudio' \in [Decoder -> BOOLEAN] /\ opened' \in [Decoder -> BOOLEAN]
      BY <2>4 DEF OpenCodec, PlayInv, DecodersOK
    <3>3. DecodersOK'
      BY <2>4, <3>2 DEF OpenCodec, PlayInv, DecodersOK
    <3> QED BY <1>1, <2>4, <3>1, <3>3, Kept DEF OpenCodec, PlayInv
  <2> QED BY <2>1, <2>2, <2>3, <2>4 DEF DecoderCall
<1> QED BY <1>1, <1>2, <1>3, Kept DEF PlayInv

(* A call of the control thread on the audio output.                       *)
LEMMA StepAudioCall ==
  ASSUME PlayInv, AudioCall
  PROVE  PlayInv'
<1>1. /\ op # "idle" /\ Continue
      /\ UNCHANGED <<flags, pc, demuxVars, decodeVars, noteVars, mux, ops, target, got, history>>
      /\ Entry.do \in {"clear", "destroy", "create"} /\ (Entry.do = "clear" => Part = "audioPlay")
  BY DEF AudioCall, At
<1>2. CallOK'
  BY <1>1, ContinueOK DEF PlayInv, CallOK, PlaceOK
<1>3. AudioOK'
  <2>1. Len(<<>>) <= maxFrame + 1 /\ <<>> \in Seq(Read)
    BY AudioAssumption
  <2> QED BY <2>1 DEF AudioCall, ClearFrames, DestroyDevice, CreateDevice, PlayInv, AudioOK
<1>4. StoppedOK'
  <2>1. op' = "open" => op = "open" /\ ip' = ip + 1
    BY <1>1, ContinueOK, Scripts DEF PlaceOK, CallOK, PlayInv
  <2>2. op = "open" => ip \in 1 .. 44 /\ ip \notin {6, 8, 12, 14}
    BY <1>1, EntryOK DEF OpenFacts, Do, PlayInv, Part, Size
  <2> QED BY <1>1, <2>1, <2>2 DEF StoppedOK, Delivers, PlayInv, flags
<1> QED BY <1>1, <1>2, <1>3, <1>4, Kept DEF PlayInv, decodeVars

-----------------------------------------------------------------------------
(* The control thread: the demuxer and the loop of Seek().                 *)

(* A bounded set of numbers that is not empty has a largest one.           *)
LEMMA LargestExists ==
  ASSUME NEW b \in Nat, NEW T \in SUBSET (1 .. b), T # {}
  PROVE  \E n \in T : \A k \in T : k <= n
<1>1. PICK m \in T : TRUE
  OBVIOUS
<1>2. \A n \in T : n \in Nat /\ n <= b /\ b - n \in Nat
  OBVIOUS
<1> DEFINE away == {b - n : n \in T}
<1>3. away \subseteq Nat /\ b - m \in away
  BY <1>2
<1>4. PICK x \in away : \A y \in away : ~(<<y, x>> \in OpToRel(<, Nat))
  BY <1>3, NatLessThanWellFounded, WFMin
<1>5. \A y \in away : ~(y < x)
  BY <1>3, <1>4 DEF OpToRel
<1>6. PICK n \in T : x = b - n
  OBVIOUS
<1>7. \A k \in T : ~(b - k < b - n)
  BY <1>5, <1>6
<1> QED BY <1>2, <1>7

(* The length of the file is a number.                                     *)
LEMMA FileLength == Len(File) \in Nat
<1>1. \A S : \A s \in Seq(S) : Len(s) \in Nat
  OBVIOUS
<1>2. File \in Seq([kind : Kinds, key : BOOLEAN, pts : Nat])
  BY FileAssumption
<1> QED BY <1>1, <1>2, Zenon

(* Whatever a seek finds, the next packet is one of the file or its end.   *)
LEMMA SeekInputOK ==
  ASSUME FileOK, NEW when \in Nat, SeekInput(when)
  PROVE  FileOK'
<1>1. CASE ic /\ KeysBefore(when) # {}
  <2> DEFINE keys == KeysBefore(when)
  <2>1. keys \in SUBSET (1 .. Len(File)) /\ keys # {}
    BY <1>1 DEF KeysBefore
  <2>2. pos' = CHOOSE n \in keys : \A k \in keys : k <= n
    BY <1>1 DEF SeekInput
  <2> HIDE DEF keys
  <2>3. \E n \in keys : \A k \in keys : k <= n
    BY <2>1, FileLength, LargestExists
  <2>4. pos' \in 1 .. Len(File)
    BY <2>1, <2>2, <2>3
  <2> QED BY <1>1, <2>4, FileLength DEF SeekInput, FileOK
<1>2. CASE ~(ic /\ KeysBefore(when) # {})
  BY <1>2 DEF SeekInput, FileOK
<1> QED BY <1>1, <1>2

(* A call of the control thread on the demuxer.                            *)
LEMMA StepDemuxCall ==
  ASSUME PlayInv, DemuxCall
  PROVE  PlayInv'
<1>1. /\ op # "idle"
      /\ UNCHANGED <<flags, pc, decodeVars, noteVars, audioVars, mux, ops, target, got, history>>
      /\ Entry.do \in {"close", "seek", "open"}
  BY DEF DemuxCall, At
<1>2. \/ Continue
      \/ Entry.do = "open" /\ Part = "demux" /\ Goto(UnlockEntry)
  BY DEF DemuxCall, At
<1>3. /\ PlaceOK'
      /\ op' = "open" => op = "open" /\ ip' \in {ip + 1} \cup (IF ip = 27 THEN {34} ELSE {})
  <2>1. CASE Continue
    BY <1>1, <2>1, ContinueOK, Scripts DEF PlaceOK, CallOK, PlayInv
  <2>2. CASE Entry.do = "open" /\ Part = "demux" /\ Goto(UnlockEntry)
    <3>1. op = "open"
      BY <1>1, <2>2, EntryOK, Scripts DEF SeekFacts, PauseFacts, PlayInv
    <3>2. ip = 27
      BY <1>1, <2>2, <3>1, EntryOK DEF OpenFacts, Part, PlayInv
    <3>3. Goto(34)
      BY <2>2, <3>1, <3>2, UnlockOpen
    <3>4. PlaceOK' /\ (op' # "idle" => op' = op /\ ip' = 34)
      BY <1>1, <3>1, <3>3, MoveOK DEF Size, PlayInv
    <3> QED BY <3>1, <3>2, <3>4
  <2> QED BY <1>2, <2>1, <2>2
<1>4. CallOK'
  BY <1>1, <1>3 DEF PlayInv, CallOK, PlaceOK
<1>5. FileOK'
  <2>1. CASE CloseInput
    BY <2>1 DEF CloseInput, FileOK, PlayInv
  <2>2. CASE SeekInput(target)
    BY <2>2, SeekInputOK DEF PlayInv, CallOK
  <2>3. CASE \E outcome \in OpenOutcome : OpenInput(outcome)
    <3>1. PICK outcome \in OpenOutcome : OpenInput(outcome)
      BY <2>3
    <3>2. ic' \in BOOLEAN
      BY <3>1 DEF OpenInput
    <3>3. pos' \in {pos, 1} /\ epoch' \in {epoch, epoch + 1}
      BY <3>1 DEF OpenInput
    <3> QED BY <3>2, <3>3, FileLength DEF FileOK, PlayInv
  <2> QED BY <2>1, <2>2, <2>3 DEF DemuxCall
<1>6. StoppedOK'
  <2>1. op = "open" => ip \in 1 .. 44 /\ ip \notin {6, 8, 12, 14}
    BY <1>1, EntryOK DEF OpenFacts, Do, PlayInv, Part, Size
  <2> QED BY <1>1, <1>3, <2>1 DEF StoppedOK, Delivers, PlayInv, flags
<1> QED BY <1>1, <1>4, <1>5, <1>6, Kept DEF PlayInv, decodeVars

(* The entries of the loop of Seek() are in the script of Seek() only.     *)
LEMMA OnlySeek ==
  ASSUME CallOK, op # "idle", Entry.do \in {"read", "route", "recv", "seek"}
  PROVE  /\ op = "seek" /\ Size(op) = 35
         /\ Entry.do = "read" => ip = 20
         /\ Entry.do = "route" => ip = 21
         /\ Entry.do = "recv" => ip = 22
<1>1. op = "seek"
  BY EntryOK, Scripts DEF OpenFacts, PauseFacts
<1>2. SeekFacts(ip, Entry)
  BY <1>1, EntryOK
<1> QED BY <1>1, <1>2 DEF SeekFacts, Size

(* Wherever the loop of Seek() goes, it stays in its script.               *)
LEMMA SeekMoves ==
  ASSUME CallOK, op = "seek", ip \in {20, 21, 22},
         \/ Continue
         \/ Goto(ReadEntry)
         \/ ip # 21 /\ Goto(UnlockEntry)
         \/ UNCHANGED <<op, ip>>
  PROVE  PlaceOK' /\ op' \in {"seek", "idle"}
<1>1. Size(op) = 35
  BY DEF Size
<1>2. CASE Continue
  BY <1>2, ContinueOK
<1>3. CASE Goto(ReadEntry)
  <2>1. Goto(20)
    BY <1>3, ReadIsThere
  <2> QED BY <1>1, <2>1, MoveOK
<1>4. CASE ip # 21 /\ Goto(UnlockEntry)
  <2>1. Goto(23)
    BY <1>4, UnlockSeek
  <2> QED BY <1>1, <2>1, MoveOK
<1>5. CASE UNCHANGED <<op, ip>>
  BY <1>5 DEF PlaceOK, CallOK
<1> QED BY <1>2, <1>3, <1>4, <1>5

(* Read() stays within the file.                                           *)
LEMMA ReadOK ==
  ASSUME FileOK, Advance
  PROVE  FileOK' /\ ReadResult \in Packet /\ (ReadResult # NoPacket => ReadResult \in Read)
<1>1. AtEnd \/ pos \in 1 .. Len(File)
  BY FileLength DEF FileOK, AtEnd
<1>2. ReadResult = NoPacket \/ ReadResult \in Read
  BY <1>1 DEF ReadResult, AtEnd, FileOK, Read
<1>3. FileOK'
  BY <1>1, FileLength DEF Advance, AtEnd, FileOK
<1> QED BY <1>2, <1>3, Names

(* Seek() reads a packet.                                                  *)
LEMMA StepSeekRead ==
  ASSUME PlayInv, SeekRead
  PROVE  PlayInv'
<1>1. /\ op # "idle" /\ Entry.do = "read"
      /\ UNCHANGED <<flags, pc, decodeVars, noteVars, audioVars, mux, ops, target, history>>
      /\ Continue \/ Goto(UnlockEntry)
  BY DEF SeekRead, At
<1>2. op = "seek" /\ ip = 20
  BY <1>1, OnlySeek DEF PlayInv
<1>3. PlaceOK' /\ op' \in {"seek", "idle"}
  BY <1>1, <1>2, SeekMoves DEF PlayInv
<1>4. FileOK' /\ got' \in Packet
  BY ReadOK, Kept DEF SeekRead, PlayInv, CallOK
<1>5. CallOK'
  BY <1>1, <1>3, <1>4 DEF PlayInv, CallOK, PlaceOK
<1>6. StoppedOK'
  BY <1>3 DEF StoppedOK
<1> QED BY <1>1, <1>4, <1>5, <1>6, Kept DEF PlayInv, decodeVars

(* Seek() after its Notify().                                              *)
LEMMA StepSeekNotified ==
  ASSUME PlayInv, SeekNotified
  PROVE  PlayInv'
<1>1. /\ op # "idle" /\ Entry.do = "route" /\ Goto(ReadEntry)
      /\ UNCHANGED <<flags, pc, demuxVars, decodeVars, noteVars, audioVars, mux, ops, target,
                     got, history>>
  BY DEF SeekNotified, At
<1>2. op = "seek" /\ ip = 21
  BY <1>1, OnlySeek DEF PlayInv
<1>3. PlaceOK' /\ op' \in {"seek", "idle"}
  BY <1>1, <1>2, SeekMoves DEF PlayInv
<1>4. CallOK'
  BY <1>1, <1>3 DEF PlayInv, CallOK, PlaceOK
<1>5. StoppedOK'
  BY <1>3 DEF StoppedOK
<1> QED BY <1>1, <1>4, <1>5, Kept DEF PlayInv, decodeVars

(* Every packet has a time.                                                *)
LEMMA PtsIsTime ==
  ASSUME NEW p \in Read
  PROVE  Pts(p) \in Nat
<1>1. \A S : \A s \in Seq(S) : \A i \in 1 .. Len(s) : s[i] \in S
  OBVIOUS
<1>2. File[p.n] \in [kind : Kinds, key : BOOLEAN, pts : Nat]
  BY <1>1, FileAssumption, Zenon DEF Read
<1> QED BY <1>2 DEF Pts

(* The frames that come out of a codec are packets that went in.           *)
LEMMA RecvOK ==
  ASSUME DecodersOK, NEW d \in Decoder, RecvFrame(d)
  PROVE  /\ codec' \in [Decoder -> Seq(Read)]
         /\ frame' \in [Decoder -> Packet]
         /\ framePts' \in [Decoder -> Nat]
         /\ \A o \in Decoder \ {d} : frame'[o] = frame[o] /\ codec'[o] = codec[o]
         /\ HasFrame(d) => frame'[d] \in Read
<1>1. CASE HasFrame(d)
  <2> DEFINE s == codec[d]
  <2>1. s \in Seq(Read) /\ Len(s) > Delay
    BY <1>1 DEF HasFrame, DecodersOK
  <2>2. /\ codec' = [codec EXCEPT ![d] = Tail(s)]
        /\ frame' = [frame EXCEPT ![d] = Head(s)]
        /\ framePts' = [framePts EXCEPT ![d] = Pts(Head(s))]
    BY <1>1 DEF RecvFrame
  <2> HIDE DEF s
  <2>3. Tail(s) \in Seq(Read) /\ Head(s) \in Read
    <3>1. s # <<>>
      BY <2>1, DecodeAssumption
    <3> QED BY <2>1, <3>1
  <2>4. Pts(Head(s)) \in Nat
    BY <2>3, PtsIsTime
  <2> DEFINE a == Tail(s)
             b == Head(s)
             c == Pts(Head(s))
  <2>5. /\ a \in Seq(Read) /\ b \in Read /\ c \in Nat
        /\ codec' = [codec EXCEPT ![d] = a] /\ frame' = [frame EXCEPT ![d] = b]
        /\ framePts' = [framePts EXCEPT ![d] = c]
    BY <2>2, <2>3, <2>4
  <2> HIDE DEF a, b, c
  <2> QED BY <2>5, Names DEF DecodersOK
<1>2. CASE ~HasFrame(d)
  BY <1>2, Names DEF RecvFrame, DecodersOK
<1> QED BY <1>1, <1>2

(* A packet goes into the codec of one decoder.                            *)
LEMMA SendOK ==
  ASSUME DecodersOK, NEW d \in Decoder, NEW p \in Read, SendPacket(d, p)
  PROVE  codec' \in [Decoder -> Seq(Read)] /\ \A o \in Decoder \ {d} : codec'[o] = codec[o]
<1>1. PICK s \in Seq(Read) : codec' = [codec EXCEPT ![d] = s]
  <2>1. codec[d] \in Seq(Read)
    BY DEF DecodersOK
  <2>2. Append(codec[d], p) \in Seq(Read)
    BY <2>1
  <2> QED BY <2>1, <2>2 DEF SendPacket
<1> QED BY <1>1 DEF DecodersOK

(* A call of Notify() begins.                                              *)
LEMMA BeginOK ==
  ASSUME NotesOK, NEW c \in Caller, NEW p \in Read, BeginNotify(c, p)
  PROVE  NotesOK'
<1>1. /\ note' = [note EXCEPT ![c] = [at |-> "lock", to |-> 0, pkt |-> p]]
      /\ notifyMux' = notifyMux
  BY DEF BeginNotify, SetNote
<1>2. [at |-> "lock", to |-> 0, pkt |-> p] \in [at : NoteLabel, to : 0 .. Len(obss), pkt : Packet]
  BY Names DEF NoteLabel, obss
<1>3. note' \in [Caller -> [at : NoteLabel, to : 0 .. Len(obss), pkt : Packet]]
  BY <1>1, <1>2 DEF NotesOK
<1> QED BY <1>1, <1>3 DEF NotesOK

(* Seek() drops, queues or decodes the packet.                             *)
LEMMA StepSeekRoute ==
  ASSUME PlayInv, SeekRoute
  PROVE  PlayInv'
<1>1. /\ op # "idle" /\ Entry.do = "route" /\ got \in Read /\ got' = NoPacket
      /\ UNCHANGED <<flags, pc, demuxVars, packs, packsMutex, pck, isAudio, synPts, framePts,
                     opened, frame, audioVars, mux, ops, target, history>>
      /\ Continue \/ Goto(ReadEntry) \/ UNCHANGED <<op, ip>>
  BY DEF SeekRoute, At, PlayInv, CallOK, Packet, Read
<1>2. op = "seek" /\ ip = 21
  BY <1>1, OnlySeek DEF PlayInv
<1>3. PlaceOK' /\ op' \in {"seek", "idle"}
  BY <1>1, <1>2, SeekMoves DEF PlayInv
<1>4. CallOK'
  BY <1>1, <1>3, Names DEF PlayInv, CallOK, PlaceOK
<1>5. StoppedOK'
  BY <1>3 DEF StoppedOK
<1>6. codec' \in [Decoder -> Seq(Read)]
  <2>1. UNCHANGED codec \/ SendPacket("vDecode", got)
    BY DEF SeekRoute
  <2> QED BY <1>1, <2>1, SendOK DEF PlayInv, DecodersOK, Decoder
<1>7. DecodersOK'
  BY <1>1, <1>6 DEF PlayInv, DecodersOK
<1>8. NotesOK'
  <2>1. UNCHANGED noteVars \/ BeginNotify(UI, got)
    BY DEF SeekRoute
  <2> QED BY <1>1, <2>1, BeginOK, Kept, Names DEF PlayInv
<1> QED BY <1>1, <1>4, <1>5, <1>7, <1>8, Kept DEF PlayInv

(* Seek() receives a frame.                                                *)
LEMMA StepSeekRecv ==
  ASSUME PlayInv, SeekRecv
  PROVE  PlayInv'
<1>1. /\ op # "idle" /\ Entry.do = "recv" /\ RecvFrame("vDecode")
      /\ UNCHANGED <<flags, pc, demuxVars, packs, packsMutex, pck, isAudio, synPts, opened,
                     noteVars, audioVars, mux, ops, target, got, history>>
      /\ Goto(UnlockEntry) \/ Goto(ReadEntry)
  BY DEF SeekRecv, At
<1>2. op = "seek" /\ ip = 22
  BY <1>1, OnlySeek DEF PlayInv
<1>3. PlaceOK' /\ op' \in {"seek", "idle"}
  BY <1>1, <1>2, SeekMoves DEF PlayInv
<1>4. CallOK'
  BY <1>1, <1>3 DEF PlayInv, CallOK, PlaceOK
<1>5. StoppedOK'
  BY <1>3 DEF StoppedOK
<1>6. /\ codec' \in [Decoder -> Seq(Read)] /\ frame' \in [Decoder -> Packet]
      /\ framePts' \in [Decoder -> Nat] /\ frame'["aDecode"] = frame["aDecode"]
  BY <1>1, RecvOK DEF PlayInv, Decoder
<1>7. DecodersOK'
  BY <1>1, <1>6 DEF PlayInv, DecodersOK
<1>8. SoundOK'
  BY <1>1, <1>6 DEF PlayInv, SoundOK, Delivers
<1> QED BY <1>1, <1>4, <1>5, <1>7, <1>8, Kept DEF PlayInv

-----------------------------------------------------------------------------
(* Notify().                                                               *)

(* The next observer exists, or the call ends.                             *)
LEMMA OfferOK ==
  ASSUME NotesOK, NEW c \in Caller, NEW p \in Read, NEW i \in {1, 2, 3}, Offer(c, i, p)
  PROVE  NotesOK'
<1> DEFINE next == {j \in i .. Len(obss) : Interested(j, p)}
<1>1. next \in SUBSET {1, 2}
  BY DEF obss
<1>2. CASE next = {}
  <2>1. note' = [note EXCEPT ![c] = NotNotifying] /\ notifyMux' = Free
    BY <1>2 DEF Offer
  <2>2. /\ NotNotifying \in [at : NoteLabel, to : 0 .. Len(obss), pkt : Packet]
        /\ NotNotifying.at = "done"
    BY Names DEF NotNotifying, NoteLabel, obss
  <2> QED BY <2>1, <2>2 DEF NotesOK
<1>3. CASE next # {}
  <2> DEFINE j == CHOOSE j \in next : \A k \in next : j <= k
             n == [at |-> "test", to |-> j, pkt |-> p]
  <2>1. note' = [note EXCEPT ![c] = n] /\ notifyMux' = c
    BY <1>3 DEF Offer, SetNote
  <2> HIDE DEF next
  <2>2. \E k \in next : \A l \in next : k <= l
    <3>1. \A l \in next : l \in {1, 2}
      BY <1>1
    <3>2. CASE 1 \in next
      BY <3>1, <3>2
    <3>3. CASE 1 \notin next
      <4>1. 2 \in next
        BY <1>3, <3>1, <3>3
      <4> QED BY <3>1, <3>3, <4>1
    <3> QED BY <3>2, <3>3
  <2>3. j \in {1, 2}
    BY <1>1, <2>2
  <2> HIDE DEF j
  <2>4. /\ n \in [at : NoteLabel, to : 0 .. Len(obss), pkt : Packet]
        /\ n.pkt \in Read /\ n.to \in DOMAIN obss
    BY <2>3, Names DEF NoteLabel, obss
  <2> HIDE DEF n
  <2> QED BY <2>1, <2>4 DEF NotesOK
<1> QED BY <1>2, <1>3

(* A step of Notify(), whoever called it.                                  *)
LEMMA StepNotify ==
  ASSUME PlayInv, NEW c \in Caller, NotifyStep(c)
  PROVE  NotesOK' /\ DecodersOK' /\ UNCHANGED <<packsMutex, pck, frame>>
<1>1. CASE LockNotify(c)
  <2>1. note[c].pkt \in Read
    BY <1>1 DEF LockNotify, PlayInv, NotesOK
  <2>2. NotesOK'
    BY <1>1, <2>1, OfferOK DEF LockNotify, PlayInv
  <2> QED BY <1>1, <2>2, Kept DEF LockNotify, NotifyStep, PlayInv, decodeVars
<1> DEFINE n == note[c]
<1>2. /\ n.at \in {"test", "push"} => n.pkt \in Read /\ n.to \in {1, 2}
      /\ n.at \in NoteLabel
  BY DEF PlayInv, NotesOK, obss
<1> DEFINE Stay(at) == SetNote(c, at, n.to, n.pkt) /\ UNCHANGED notifyMux
<1>3. ASSUME NEW at \in {"test", "push"}, n.at \in {"test", "push"}, Stay(at)
      PROVE  NotesOK'
  <2> DEFINE m == [at |-> at, to |-> n.to, pkt |-> n.pkt]
  <2>1. note' = [note EXCEPT ![c] = m] /\ notifyMux' = notifyMux
    BY <1>3 DEF SetNote
  <2>2. /\ m \in [at : NoteLabel, to : 0 .. Len(obss), pkt : Packet]
        /\ m.pkt \in Read /\ m.to \in DOMAIN obss
    BY <1>2, <1>3, Names DEF NoteLabel, obss
  <2> HIDE DEF m
  <2> QED BY <2>1, <2>2 DEF PlayInv, NotesOK
<1>4. CASE TestObserver(c)
  <2>1. n.at = "test"
    BY <1>4 DEF TestObserver
  <2>2. Offer(c, n.to + 1, n.pkt) \/ Stay("push")
    BY <1>4 DEF TestObserver
  <2>3. n.to + 1 \in {1, 2, 3} /\ n.pkt \in Read
    BY <1>2, <2>1
  <2>4. NotesOK'
    BY <1>3, <2>1, <2>2, <2>3, OfferOK DEF PlayInv
  <2> QED BY <1>4, <2>4, Kept DEF TestObserver, NotifyStep, PlayInv, decodeVars
<1>5. CASE PushObserver(c)
  <2> DEFINE d == obss[n.to]
  <2>1. n.at = "push"
    BY <1>5 DEF PushObserver
  <2>2. n.to + 1 \in {1, 2, 3} /\ n.pkt \in Read /\ d \in Decoder
    BY <1>2, <2>1 DEF obss, Decoder
  <2>3. \/ HasRoom(d) /\ PushPacket(d, n.pkt) /\ Offer(c, n.to + 1, n.pkt)
        \/ Stay("test") /\ UNCHANGED packs
    BY <1>5 DEF PushObserver
  <2>4. NotesOK'
    BY <1>3, <2>1, <2>2, <2>3, OfferOK DEF PlayInv
  <2>5. packs' \in [Decoder -> Seq(Read)] /\ \A o \in Decoder : Len(packs'[o]) <= maxList
    <3>1. CASE HasRoom(d) /\ PushPacket(d, n.pkt)
      <4> DEFINE s == Append(packs[d], n.pkt)
      <4>1. packs[d] \in Seq(Read) /\ Len(packs[d]) < maxList
        BY <2>2, <3>1 DEF PlayInv, DecodersOK, HasRoom
      <4>2. s \in Seq(Read) /\ Len(s) <= maxList
        BY <2>2, <4>1, DecodeAssumption
      <4>3. packs' = [packs EXCEPT ![d] = s]
        BY <3>1 DEF PushPacket
      <4> HIDE DEF s, d
      <4> QED BY <2>2, <4>2, <4>3 DEF PlayInv, DecodersOK
    <3>2. CASE UNCHANGED packs
      BY <3>2 DEF PlayInv, DecodersOK
    <3> QED BY <2>3, <3>1, <3>2
  <2>6. DecodersOK'
    BY <2>5 DEF NotifyStep, PlayInv, DecodersOK
  <2> QED BY <2>4, <2>6 DEF NotifyStep
<1> QED BY <1>1, <1>4, <1>5 DEF NotifyStep

(* A step of the Notify() of Seek().                                       *)
LEMMA StepSeekNotify ==
  ASSUME PlayInv, SeekNotify
  PROVE  PlayInv'
<1>1. /\ UNCHANGED <<flags, pc, demuxVars, audioVars, playerVars, history>>
      /\ NotesOK' /\ DecodersOK' /\ UNCHANGED <<packsMutex, pck, frame>>
  BY StepNotify, Names DEF SeekNotify
<1>2. UNCHANGED <<op, ip, isExit, pc>>
  BY <1>1 DEF playerVars, flags
<1> QED BY <1>1, <1>2, Kept DEF PlayInv

-----------------------------------------------------------------------------
(* The threads.                                                            *)

(* The places of the loop of each thread.                                  *)
PcOK(t, l) ==
  /\ l \in Label
  /\ t \in DemuxThread => l \in InLoop \cup {"read", "notify"}
  /\ t \in DecodeThread => l \in InLoop \cup {"take"} \cup Working
  /\ t \in DecodeThread /\ l = "push" => Obj(t) = "aDecode"
  /\ t \in SyncThread => l \in {"none", "spawned", "leave", "lock"}
  /\ t = Device => l \in InLoop \cup {"pop", "enqueue"}

(* The four flags of XThread.                                              *)
FlagsOK ==
  /\ isExit \in [Object -> BOOLEAN] /\ isRunning \in [Object -> BOOLEAN]
  /\ isPause \in [Object -> BOOLEAN] /\ isPausing \in [Object -> BOOLEAN]

(* No thread is of two kinds.                                              *)
LEMMA Kinds4 ==
  /\ \A t \in DemuxThread : t \notin DecodeThread /\ t \notin SyncThread /\ t # Device
                            /\ Obj(t) = "demux"
  /\ \A t \in DecodeThread : t \notin DemuxThread /\ t \notin SyncThread /\ t # Device
  /\ \A t \in SyncThread : t \notin DemuxThread /\ t \notin DecodeThread /\ t # Device
                           /\ Obj(t) = "player"
  /\ Device \notin DecodeThread /\ Device \notin DemuxThread /\ Device \notin SyncThread
  /\ Obj(Device) = "audioPlay"
  BY DEF DemuxThread, DecodeThread, SyncThread, Device, Decoder, Obj

(* One thread moves to a place of its own loop.                            *)
LEMMA ThreadMoves ==
  ASSUME ThreadsOK, NEW t \in Thread, NEW l, PcOK(t, l), pc' = [pc EXCEPT ![t] = l], FlagsOK'
  PROVE  ThreadsOK'
<1>1. pc' \in [Thread -> Label]
  BY DEF ThreadsOK, PcOK
<1>2. \A u \in Thread : pc'[u] = IF u = t THEN l ELSE pc[u]
  BY DEF ThreadsOK
<1>3. \A u \in DemuxThread : pc'[u] \in InLoop \cup {"read", "notify"}
  BY <1>2, Names DEF PcOK, ThreadsOK
<1>4. \A u \in DecodeThread : pc'[u] \in InLoop \cup {"take"} \cup Working
  BY <1>2, Names DEF PcOK, ThreadsOK
<1>5. \A u \in DecodeThread : pc'[u] = "push" => Obj(u) = "aDecode"
  BY <1>2, Names DEF PcOK, ThreadsOK
<1>6. \A u \in SyncThread : pc'[u] \in {"none", "spawned", "leave", "lock"}
  BY <1>2, Names DEF PcOK, ThreadsOK
<1>7. pc'[Device] \in InLoop \cup {"pop", "enqueue"}
  BY <1>2, Names DEF PcOK, ThreadsOK
<1> QED BY <1>1, <1>3, <1>4, <1>5, <1>6, <1>7 DEF ThreadsOK, FlagsOK

(* The next round of a loop.                                               *)
LEMMA AgainOK ==
  ASSUME ThreadsOK, NEW t \in Thread, NEW body, Obj(t) \in Object, Again(t, body)
  PROVE  /\ \E l \in {"leave", "head", body} : pc' = [pc EXCEPT ![t] = l]
         /\ UNCHANGED <<isExit, isPause>> /\ isPausing' \in [Object -> BOOLEAN]
         /\ \A o \in Object \ {Obj(t)} : isPausing'[o] = isPausing[o]
  BY DEF Again, GoTo, ThreadsOK

(* A move that touches no packet of a decoder.                             *)
LEMMA OtherMoves ==
  ASSUME PlayInv, NEW t \in Thread, NEW l, pc' = [pc EXCEPT ![t] = l],
         t \in DecodeThread => pc[t] \notin Working /\ l \notin Working,
         UNCHANGED <<packsMutex, pck, frame, isExit, op, ip>>
  PROVE  WorkersOK' /\ SoundOK' /\ StoppedOK'
<1>1. \A u \in DecodeThread : pc'[u] = pc[u] \/ (pc[u] \notin Working /\ pc'[u] \notin Working)
  <2>1. \A u \in Thread : pc'[u] = IF u = t THEN l ELSE pc[u]
    BY DEF PlayInv, ThreadsOK
  <2>2. SUFFICES ASSUME NEW u \in DecodeThread
                 PROVE  pc'[u] = pc[u] \/ (pc[u] \notin Working /\ pc'[u] \notin Working)
    OBVIOUS
  <2>3. CASE u = t
    BY <2>1, <2>3
  <2>4. CASE u # t
    BY <2>1, <2>4, Names
  <2> QED BY <2>3, <2>4
<1>2. WorkersOK'
  BY <1>1 DEF PlayInv, WorkersOK
<1>3. \A d \in Decoder : Delivers(d)' = Delivers(d)
  BY <1>1, Names DEF Delivers, Working
<1>4. SoundOK'
  BY <1>3 DEF PlayInv, SoundOK, Decoder
<1>5. StoppedOK'
  BY <1>3 DEF PlayInv, StoppedOK, Decoder
<1> QED BY <1>2, <1>4, <1>5

(* Entering the loop, going round it while it is paused, and leaving it.   *)
LEMMA LoopMoves ==
  ASSUME PlayInv, NEW t \in Thread, Obj(t) \in Object, NEW body,
         \A l \in {"leave", "head", "none", body} : PcOK(t, l),
         t \in DecodeThread => body \notin Working,
         EnterLoop(t, body) \/ PausedLoop(t, body) \/ Leave(t),
         UNCHANGED <<packsMutex, pck, frame, op, ip>>
  PROVE  ThreadsOK' /\ WorkersOK' /\ SoundOK' /\ StoppedOK'
<1>1. /\ \E l \in {"leave", "head", "none", body} : pc' = [pc EXCEPT ![t] = l]
      /\ FlagsOK' /\ isExit' = isExit
  <2>1. CASE Again(t, body)
    <3>1. isRunning' \in [Object -> BOOLEAN]
      BY DEF EnterLoop, PausedLoop, Leave, PlayInv, ThreadsOK
    <3> QED BY <2>1, <3>1, AgainOK DEF FlagsOK, PlayInv, ThreadsOK
  <2>2. CASE Leave(t)
    BY <2>2 DEF Leave, GoTo, FlagsOK, PlayInv, ThreadsOK
  <2> QED BY <2>1, <2>2 DEF EnterLoop, PausedLoop
<1>2. pc[t] \in {"spawned", "head", "leave"}
  BY DEF EnterLoop, PausedLoop, Leave
<1>3. PICK l \in {"leave", "head", "none", body} : pc' = [pc EXCEPT ![t] = l]
  BY <1>1
<1>4. ThreadsOK'
  BY <1>1, <1>3, ThreadMoves DEF PlayInv
<1>5. t \in DecodeThread => pc[t] \notin Working /\ l \notin Working
  BY <1>2, <1>3 DEF Working
<1> QED BY <1>1, <1>3, <1>4, <1>5, OtherMoves

(* The demuxer thread.                                                     *)
LEMMA StepDemux ==
  ASSUME PlayInv, NEW t \in DemuxThread, Demux(t)
  PROVE  PlayInv'
<1>0. /\ t \in Thread /\ t \in Caller /\ Obj(t) \in Object
      /\ t \notin DecodeThread /\ t \notin SyncThread /\ t # Device
  BY Names, Kinds4
<1>1. \A l \in InLoop \cup {"read", "notify"} : PcOK(t, l)
  BY <1>0 DEF PcOK, InLoop, Label
<1>2. CASE DemuxLoop(t)
  <2>1. /\ EnterLoop(t, "read") \/ PausedLoop(t, "read") \/ Leave(t)
        /\ UNCHANGED <<demuxVars, decodeVars, noteVars, audioVars, playerVars, history>>
    BY <1>2 DEF DemuxLoop
  <2>2. ThreadsOK' /\ WorkersOK' /\ SoundOK' /\ StoppedOK'
    BY <1>0, <1>1, <2>1, LoopMoves DEF InLoop, decodeVars, playerVars
  <2> QED BY <2>1, <2>2, Kept DEF PlayInv
<1>3. CASE DemuxRead(t)
  <2>1. /\ Advance
        /\ UNCHANGED <<isRunning, decodeVars, audioVars, playerVars, history>>
    BY <1>3 DEF DemuxRead
  <2>2. /\ FileOK' /\ (ReadResult # NoPacket => ReadResult \in Read)
    BY <2>1, ReadOK DEF PlayInv
  <2>3. CASE ReadResult = NoPacket
    <3>1. Again(t, "read") /\ UNCHANGED noteVars
      BY <1>3, <2>3 DEF DemuxRead
    <3>2. PICK l \in {"leave", "head", "read"} : pc' = [pc EXCEPT ![t] = l]
      BY <1>0, <3>1, AgainOK DEF PlayInv
    <3>3. FlagsOK' /\ isExit' = isExit
      BY <1>0, <2>1, <3>1, AgainOK DEF PlayInv, ThreadsOK, FlagsOK
    <3>4. ThreadsOK'
      BY <1>0, <1>1, <3>2, <3>3, ThreadMoves DEF PlayInv, InLoop
    <3>5. WorkersOK' /\ SoundOK' /\ StoppedOK'
      BY <1>0, <2>1, <3>2, <3>3, OtherMoves DEF decodeVars, playerVars
    <3> QED BY <2>1, <2>2, <3>1, <3>4, <3>5, Kept DEF PlayInv
  <2>4. CASE ReadResult # NoPacket
    <3>1. /\ pc' = [pc EXCEPT ![t] = "notify"] /\ BeginNotify(t, ReadResult)
          /\ UNCHANGED <<isExit, isPause, isPausing>>
      BY <1>3, <2>4 DEF DemuxRead, GoTo
    <3>2. FlagsOK'
      BY <2>1, <3>1 DEF PlayInv, ThreadsOK, FlagsOK
    <3>3. ThreadsOK'
      BY <1>0, <1>1, <3>1, <3>2, ThreadMoves DEF PlayInv
    <3>4. WorkersOK' /\ SoundOK' /\ StoppedOK'
      BY <1>0, <2>1, <3>1, OtherMoves DEF decodeVars, playerVars
    <3>5. NotesOK'
      BY <1>0, <2>2, <2>4, <3>1, BeginOK DEF PlayInv
    <3> QED BY <2>1, <2>2, <3>3, <3>4, <3>5, Kept DEF PlayInv
  <2> QED BY <2>3, <2>4
<1>4. CASE DemuxNotify(t)
  <2>1. /\ NotifyStep(t)
        /\ Again(t, "read") \/ UNCHANGED <<pc, isExit, isPause, isPausing>>
        /\ UNCHANGED <<isRunning, demuxVars, audioVars, playerVars, history>>
    BY <1>4 DEF DemuxNotify
  <2>2. NotesOK' /\ DecodersOK' /\ UNCHANGED <<packsMutex, pck, frame>>
    BY <1>0, <2>1, StepNotify
  <2>3. ThreadsOK' /\ WorkersOK' /\ SoundOK' /\ StoppedOK'
    <3>1. CASE Again(t, "read")
      <4>1. PICK l \in {"leave", "head", "read"} : pc' = [pc EXCEPT ![t] = l]
        BY <1>0, <3>1, AgainOK DEF PlayInv
      <4>2. FlagsOK' /\ isExit' = isExit
        BY <1>0, <2>1, <3>1, AgainOK DEF PlayInv, ThreadsOK, FlagsOK
      <4>3. ThreadsOK'
        BY <1>0, <1>1, <4>1, <4>2, ThreadMoves DEF PlayInv, InLoop
      <4> QED BY <1>0, <2>1, <2>2, <4>1, <4>2, <4>3, OtherMoves DEF playerVars
    <3>2. CASE UNCHANGED <<pc, isExit, isPause, isPausing>>
      BY <2>1, <2>2, <3>2, Kept DEF PlayInv, playerVars, flags
    <3> QED BY <2>1, <3>1, <3>2
  <2> QED BY <2>1, <2>2, <2>3, Kept DEF PlayInv
<1> QED BY <1>2, <1>3, <1>4 DEF Demux

(* A move of a worker that has a packet before and after.                  *)
LEMMA WorkerMoves ==
  ASSUME PlayInv, NEW t \in DecodeThread, NEW l \in Working, PcOK(t, l),
         pc[t] \in Working, pc' = [pc EXCEPT ![t] = l], UNCHANGED <<packsMutex, pck>>
  PROVE  WorkersOK' /\ \A d \in Decoder \ {Obj(t)} : Delivers(d)' = Delivers(d)
<1>1. \A u \in DecodeThread : pc'[u] = IF u = t THEN l ELSE pc[u]
  BY Names DEF PlayInv, ThreadsOK
<1>2. WorkersOK'
  BY <1>1 DEF PlayInv, WorkersOK
<1>3. \A d \in Decoder \ {Obj(t)}, k \in Slot : pc'[<<d, k>>] = pc[<<d, k>>]
  BY <1>1, Names
<1> QED BY <1>2, <1>3 DEF Delivers

(* A worker takes a packet, or finds none.                                 *)
LEMMA StepTake ==
  ASSUME PlayInv, NEW t \in DecodeThread, Take(t), UNCHANGED playerVars
  PROVE  ThreadsOK' /\ DecodersOK' /\ WorkersOK' /\ SoundOK' /\ StoppedOK'
<1> DEFINE d == Obj(t)
<1>0. /\ t \in Thread /\ t \notin DemuxThread /\ t \notin SyncThread /\ t # Device
      /\ d \in Decoder /\ d \in Object
  BY Names, Kinds4
<1>1. \A l \in {"leave", "head", "take", "send"} : PcOK(t, l)
  BY <1>0 DEF PcOK, InLoop, Label, Working
<1>2. /\ pc[t] = "take" /\ packsMutex[d] = Free /\ UNCHANGED <<op, ip>>
      /\ UNCHANGED <<isRunning, isAudio, synPts, framePts, opened, codec, frame>>
  BY DEF Take, playerVars
<1> HIDE DEF d
<1>3. CASE Again(t, "take") /\ UNCHANGED <<packs, packsMutex, pck>>
  <2>1. PICK l \in {"leave", "head", "take"} : pc' = [pc EXCEPT ![t] = l]
    BY <1>0, <1>3, AgainOK DEF PlayInv, d
  <2>2. FlagsOK' /\ isExit' = isExit
    BY <1>0, <1>2, <1>3, AgainOK DEF PlayInv, ThreadsOK, FlagsOK, d
  <2>3. ThreadsOK'
    BY <1>0, <1>1, <2>1, <2>2, ThreadMoves DEF PlayInv
  <2>4. pc[t] \notin Working /\ l \notin Working
    BY <1>2, <2>1 DEF Working
  <2>5. WorkersOK' /\ SoundOK' /\ StoppedOK'
    BY <1>0, <1>2, <1>3, <2>1, <2>2, <2>4, OtherMoves
  <2> QED BY <1>2, <1>3, <2>3, <2>5, Kept DEF PlayInv, decodeVars
<1>4. CASE /\ packs[d] # <<>> /\ pc' = [pc EXCEPT ![t] = "send"]
           /\ UNCHANGED <<isExit, isPause, isPausing>>
           /\ packsMutex' = [packsMutex EXCEPT ![d] = t]
           /\ pck' = [pck EXCEPT ![t] = Head(packs[d])]
           /\ packs' = [packs EXCEPT ![d] = Tail(@)]
  <2>1. FlagsOK'
    BY <1>2, <1>4 DEF PlayInv, ThreadsOK, FlagsOK
  <2>2. ThreadsOK'
    BY <1>0, <1>1, <1>4, <2>1, ThreadMoves DEF PlayInv
  <2> DEFINE s == packs[d]
             h == Head(packs[d])
             r == Tail(packs[d])
  <2>3. h \in Read /\ r \in Seq(Read) /\ Len(r) <= maxList
    <3>1. s \in Seq(Read) /\ s # <<>> /\ Len(s) <= maxList
      BY <1>0, <1>4 DEF PlayInv, DecodersOK
    <3> HIDE DEF s
    <3>2. Head(s) \in Read /\ Tail(s) \in Seq(Read) /\ Len(Tail(s)) = Len(s) - 1 /\ Len(s) \in Nat
      BY <3>1
    <3>3. Len(Tail(s)) <= maxList
      BY <3>1, <3>2, DecodeAssumption
    <3> QED BY <3>2, <3>3 DEF s
  <2>4. pck' = [pck EXCEPT ![t] = h] /\ packs' = [packs EXCEPT ![d] = r]
    BY <1>4
  <2> HIDE DEF h, r
  <2>5. /\ packs' \in [Decoder -> Seq(Read)]
        /\ \A o \in Decoder : Len(packs'[o]) <= maxList
        /\ pck' \in [DecodeThread -> Packet]
        /\ packsMutex' \in [Decoder -> {Free} \cup DecodeThread]
    <3>1. /\ packs' \in [Decoder -> Seq(Read)]
          /\ \A o \in Decoder : Len(packs'[o]) <= maxList
      BY <1>0, <2>3, <2>4 DEF PlayInv, DecodersOK
    <3>2. pck' \in [DecodeThread -> Packet]
      BY <2>3, <2>4, Names DEF PlayInv, DecodersOK
    <3>3. packsMutex' \in [Decoder -> {Free} \cup DecodeThread]
      BY <1>0, <1>4 DEF PlayInv, DecodersOK
    <3> QED BY <3>1, <3>2, <3>3
  <2>6. DecodersOK'
    BY <1>2, <2>5 DEF PlayInv, DecodersOK
  <2>7. \A u \in DecodeThread : Obj(u) = d => pc[u] \notin Working
    <3>1. \A u \in DecodeThread : Free # u
      BY DEF Free, DecodeThread, Decoder
    <3> QED BY <1>2, <3>1 DEF PlayInv, WorkersOK
  <2>8. \A u \in DecodeThread : pc'[u] = IF u = t THEN "send" ELSE pc[u]
    BY <1>4, Names DEF PlayInv, ThreadsOK
  <2>9. WorkersOK'
    <3>1. SUFFICES ASSUME NEW u \in DecodeThread
                   PROVE  /\ pc'[u] \in Working <=> packsMutex'[Obj(u)] = u
                          /\ pc'[u] \in Working <=> pck'[u] # NoPacket
      BY DEF WorkersOK
    <3>2. CASE u = t
      <4>1. pc'[u] \in Working /\ packsMutex'[Obj(u)] = u /\ pck'[u] = h
        BY <1>0, <1>4, <2>4, <2>8, <3>2 DEF Working, d, PlayInv, DecodersOK
      <4> QED BY <2>3, <4>1, Names
    <3>3. CASE u # t
      <4>1. pc'[u] = pc[u] /\ pck'[u] = pck[u]
        BY <2>4, <2>8, <3>3 DEF PlayInv, DecodersOK
      <4>2. Obj(u) # d => packsMutex'[Obj(u)] = packsMutex[Obj(u)]
        BY <1>4, Names DEF PlayInv, DecodersOK
      <4>3. Obj(u) = d => packsMutex'[Obj(u)] = t
        BY <1>0, <1>4 DEF PlayInv, DecodersOK
      <4> QED BY <2>7, <3>3, <4>1, <4>2, <4>3 DEF PlayInv, WorkersOK
    <3> QED BY <3>2, <3>3
  <2>10. \A o \in Decoder : Delivers(o)' = Delivers(o)
    BY <1>2, <2>8, Names DEF Delivers
  <2>11. SoundOK' /\ StoppedOK'
    BY <1>2, <1>4, <2>10 DEF PlayInv, SoundOK, StoppedOK, Decoder
  <2> QED BY <2>2, <2>6, <2>9, <2>11
<1>5. \/ Again(t, "take") /\ UNCHANGED <<packs, packsMutex, pck>>
      \/ /\ packs[d] # <<>> /\ pc' = [pc EXCEPT ![t] = "send"]
         /\ UNCHANGED <<isExit, isPause, isPausing>>
         /\ packsMutex' = [packsMutex EXCEPT ![d] = t]
         /\ pck' = [pck EXCEPT ![t] = Head(packs[d])]
         /\ packs' = [packs EXCEPT ![d] = Tail(@)]
  BY DEF Take, GoTo, d
<1> QED BY <1>3, <1>4, <1>5

(* A worker sends its packet.                                              *)
LEMMA StepSend ==
  ASSUME PlayInv, NEW t \in DecodeThread, Send(t), UNCHANGED playerVars
  PROVE  ThreadsOK' /\ DecodersOK' /\ WorkersOK' /\ SoundOK' /\ StoppedOK'
<1>0. t \in Thread /\ t \notin DemuxThread /\ t \notin SyncThread /\ t # Device /\ Obj(t) \in Decoder
  BY Names, Kinds4
<1>1. \A l \in {"recv", "drop"} : PcOK(t, l) /\ l \in Working
  BY <1>0 DEF PcOK, InLoop, Label, Working
<1>2. /\ pc[t] = "send" /\ SendPacket(Obj(t), pck[t]) /\ UNCHANGED <<op, ip>>
      /\ UNCHANGED <<flags, packs, packsMutex, pck, isAudio, synPts, framePts, opened, frame>>
  BY DEF Send, playerVars
<1>3. PICK l \in {"recv", "drop"} : pc' = [pc EXCEPT ![t] = l]
  BY DEF Send, GoTo
<1>4. pck[t] \in Read
  <2>1. pck[t] # NoPacket /\ pck[t] \in Packet
    BY <1>2 DEF PlayInv, WorkersOK, DecodersOK, Working
  <2> QED BY <2>1 DEF Packet, Read
<1>5. DecodersOK'
  BY <1>0, <1>2, <1>4, SendOK DEF PlayInv, DecodersOK
<1>6. FlagsOK'
  BY <1>2 DEF PlayInv, ThreadsOK, FlagsOK, flags
<1>7. ThreadsOK'
  BY <1>0, <1>1, <1>3, <1>6, ThreadMoves DEF PlayInv
<1>8. WorkersOK' /\ \A d \in Decoder \ {Obj(t)} : Delivers(d)' = Delivers(d)
  BY <1>1, <1>2, <1>3, WorkerMoves DEF Working
<1>9. \A u \in DecodeThread : pc'[u] \in {"deliver", "push"} => pc[u] \in {"deliver", "push"}
  BY <1>3, Names DEF PlayInv, ThreadsOK
<1>10. \A d \in Decoder : Delivers(d)' \subseteq Delivers(d)
  BY <1>9, Names DEF Delivers
<1>11. SoundOK' /\ StoppedOK'
  BY <1>2, <1>10 DEF PlayInv, SoundOK, StoppedOK, Decoder, flags
<1> QED BY <1>5, <1>7, <1>8, <1>11

(* A worker that finds isExit decodes no more.                             *)
LEMMA StepRecv ==
  ASSUME PlayInv, NEW t \in DecodeThread, Recv(t), UNCHANGED playerVars
  PROVE  ThreadsOK' /\ DecodersOK' /\ WorkersOK' /\ SoundOK' /\ StoppedOK'
<1>0. t \in Thread /\ t \notin DemuxThread /\ t \notin SyncThread /\ t # Device /\ Obj(t) \in Decoder
  BY Names, Kinds4
<1>1. \A l \in {"deliver", "drop"} : PcOK(t, l) /\ l \in Working
  BY <1>0 DEF PcOK, InLoop, Label, Working
<1>2. /\ pc[t] = "recv" /\ UNCHANGED <<op, ip>>
      /\ UNCHANGED <<flags, packs, packsMutex, pck, isAudio, synPts, opened>>
  BY DEF Recv, playerVars
<1>3. PICK l \in {"deliver", "drop"} :
        /\ pc' = [pc EXCEPT ![t] = l]
        /\ \/ l = "drop" /\ UNCHANGED <<codec, frame, framePts>>
           \/ ~isExit[Obj(t)] /\ RecvFrame(Obj(t)) /\ (l = "deliver" <=> HasFrame(Obj(t)))
  BY DEF Recv, GoTo
<1>4. /\ codec' \in [Decoder -> Seq(Read)] /\ frame' \in [Decoder -> Packet]
      /\ framePts' \in [Decoder -> Nat]
      /\ \A o \in Decoder \ {Obj(t)} : frame'[o] = frame[o]
      /\ l = "deliver" => frame'[Obj(t)] \in Read
  BY <1>0, <1>3, RecvOK DEF PlayInv, DecodersOK
<1>5. DecodersOK'
  BY <1>2, <1>4 DEF PlayInv, DecodersOK
<1>6. FlagsOK'
  BY <1>2 DEF PlayInv, ThreadsOK, FlagsOK, flags
<1>7. ThreadsOK'
  BY <1>0, <1>1, <1>3, <1>6, ThreadMoves DEF PlayInv
<1>8. WorkersOK' /\ \A d \in Decoder \ {Obj(t)} : Delivers(d)' = Delivers(d)
  BY <1>1, <1>2, <1>3, WorkerMoves DEF Working
<1>9. \A u \in DecodeThread : pc'[u] = IF u = t THEN l ELSE pc[u]
  BY <1>3, Names DEF PlayInv, ThreadsOK
<1>10. \A d \in Decoder : l = "drop" => Delivers(d)' \subseteq Delivers(d)
  BY <1>9, Names DEF Delivers
<1>11. Delivers(Obj(t)) = {}
  <2>1. t = <<Obj(t), t[2]>> /\ t[2] \in Slot
    BY DEF DecodeThread, Obj
  <2>2. pc[t] \in Working
    BY <1>2 DEF Working
  <2>3. \A k \in Delivers(Obj(t)) : k \in Slot /\ pc[<<Obj(t), k>>] \in {"deliver", "push"}
    BY DEF Delivers
  <2>4. \A k \in Delivers(Obj(t)) : k = t[2]
    BY <1>0, <2>1, <2>2, <2>3, OneWorker DEF PlayInv, Working
  <2> QED BY <1>2, <2>1, <2>3, <2>4
<1>12. SoundOK'
  <2>1. CASE Obj(t) = "aDecode" /\ l = "deliver"
    BY <1>4, <2>1 DEF SoundOK
  <2>2. CASE Obj(t) = "aDecode" /\ l = "drop"
    BY <1>0, <1>10, <1>11, <2>2 DEF SoundOK, Decoder
  <2>3. CASE Obj(t) # "aDecode"
    BY <1>4, <1>8, <2>3 DEF PlayInv, SoundOK, Decoder
  <2> QED BY <2>1, <2>2, <2>3
<1>13. \A d \in Decoder : Delivers(d) = {} /\ isExit[d] => Delivers(d)' = {}
  <2>1. SUFFICES ASSUME NEW d \in Decoder, Delivers(d) = {}, isExit[d]
                 PROVE  Delivers(d)' = {}
    OBVIOUS
  <2>2. CASE d = Obj(t)
    BY <1>3, <1>10, <2>1, <2>2
  <2>3. CASE d # Obj(t)
    BY <1>8, <2>1, <2>3
  <2> QED BY <2>2, <2>3
<1>14. StoppedOK'
  BY <1>2, <1>13 DEF PlayInv, StoppedOK, Decoder, flags
<1> QED BY <1>5, <1>7, <1>8, <1>12, <1>14

(* A worker frees its packet.                                              *)
LEMMA StepDrop ==
  ASSUME PlayInv, NEW t \in DecodeThread, DropPacket(t), UNCHANGED playerVars
  PROVE  ThreadsOK' /\ DecodersOK' /\ WorkersOK' /\ SoundOK' /\ StoppedOK'
<1>0. /\ t \in Thread /\ t \notin DemuxThread /\ t \notin SyncThread /\ t # Device
      /\ Obj(t) \in Decoder /\ Obj(t) \in Object
  BY Names, Kinds4
<1>1. \A l \in {"leave", "head", "take"} : PcOK(t, l) /\ l \notin Working
                                            /\ l \notin {"deliver", "push"}
  BY <1>0 DEF PcOK, InLoop, Label, Working
<1>2. /\ pc[t] = "drop" /\ UNCHANGED <<op, ip>> /\ Again(t, "take")
      /\ packsMutex' = [packsMutex EXCEPT ![Obj(t)] = Free]
      /\ pck' = [pck EXCEPT ![t] = NoPacket]
      /\ UNCHANGED <<isRunning, packs, isAudio, synPts, framePts, opened, codec, frame>>
  BY DEF DropPacket, playerVars
<1>3. PICK l \in {"leave", "head", "take"} : pc' = [pc EXCEPT ![t] = l]
  BY <1>0, <1>2, AgainOK DEF PlayInv
<1>4. FlagsOK' /\ isExit' = isExit
  BY <1>0, <1>2, AgainOK DEF PlayInv, ThreadsOK, FlagsOK
<1>5. ThreadsOK'
  BY <1>0, <1>1, <1>3, <1>4, ThreadMoves DEF PlayInv
<1>6. DecodersOK'
  <2>1. pck' \in [DecodeThread -> Packet]
    BY <1>2, Names DEF PlayInv, DecodersOK
  <2>2. packsMutex' \in [Decoder -> {Free} \cup DecodeThread]
    BY <1>2 DEF PlayInv, DecodersOK
  <2> QED BY <1>2, <2>1, <2>2 DEF PlayInv, DecodersOK
<1>7. \A u \in DecodeThread : pc'[u] = IF u = t THEN l ELSE pc[u]
  BY <1>3, Names DEF PlayInv, ThreadsOK
<1>8. WorkersOK'
  <2>1. SUFFICES ASSUME NEW u \in DecodeThread
                 PROVE  /\ pc'[u] \in Working <=> packsMutex'[Obj(u)] = u
                        /\ pc'[u] \in Working <=> pck'[u] # NoPacket
    BY DEF WorkersOK
  <2>2. \A v \in DecodeThread : Free # v
    BY DEF Free, DecodeThread, Decoder
  <2>3. Obj(u) = Obj(t) => packsMutex'[Obj(u)] = Free
    BY <1>0, <1>2 DEF PlayInv, DecodersOK
  <2>4. CASE u = t
    <3>1. pc'[u] \notin Working /\ pck'[u] = NoPacket
      BY <1>1, <1>2, <1>7, <2>4 DEF PlayInv, DecodersOK
    <3> QED BY <2>2, <2>3, <2>4, <3>1
  <2>5. CASE u # t
    <3>1. pc'[u] = pc[u] /\ pck'[u] = pck[u]
      BY <1>2, <1>7, <2>5 DEF PlayInv, DecodersOK
    <3>2. Obj(u) # Obj(t) => packsMutex'[Obj(u)] = packsMutex[Obj(u)]
      BY <1>2, Names DEF PlayInv, DecodersOK
    <3>3. Obj(u) = Obj(t) => packsMutex[Obj(u)] = t
      BY <1>0, <1>2 DEF PlayInv, WorkersOK, Working
    <3> QED BY <2>2, <2>3, <2>5, <3>1, <3>2, <3>3 DEF PlayInv, WorkersOK
  <2> QED BY <2>4, <2>5
<1>9. \A d \in Decoder : Delivers(d)' = Delivers(d)
  <2>1. \A u \in DecodeThread : pc'[u] \in {"deliver", "push"} <=> pc[u] \in {"deliver", "push"}
    BY <1>1, <1>2, <1>7
  <2> QED BY <2>1, Names DEF Delivers
<1>10. SoundOK' /\ StoppedOK'
  BY <1>2, <1>4, <1>9 DEF PlayInv, SoundOK, StoppedOK, Decoder
<1> QED BY <1>5, <1>6, <1>8, <1>10

(* A worker that has its frame and moves on with it or past it.            *)
LEMMA DeliverMoves ==
  ASSUME PlayInv, NEW t \in DecodeThread, NEW l \in {"recv", "push", "deliver"}, PcOK(t, l),
         pc[t] \in {"deliver", "push"}, pc' = [pc EXCEPT ![t] = l],
         UNCHANGED <<flags, packsMutex, pck, frame, op, ip>>
  PROVE  ThreadsOK' /\ WorkersOK' /\ SoundOK' /\ StoppedOK'
<1>0. t \in Thread /\ l \in Working /\ pc[t] \in Working
  BY Names DEF Working
<1>1. FlagsOK'
  BY DEF PlayInv, ThreadsOK, FlagsOK, flags
<1>2. ThreadsOK'
  BY <1>0, <1>1, ThreadMoves DEF PlayInv
<1>3. WorkersOK'
  BY <1>0, WorkerMoves
<1>4. \A u \in DecodeThread : pc'[u] = IF u = t THEN l ELSE pc[u]
  BY Names DEF PlayInv, ThreadsOK
<1>5. \A u \in DecodeThread : pc'[u] \in {"deliver", "push"} => pc[u] \in {"deliver", "push"}
  BY <1>4
<1>6. \A d \in Decoder : Delivers(d)' \subseteq Delivers(d)
  BY <1>5, Names DEF Delivers
<1>7. SoundOK' /\ StoppedOK'
  BY <1>6 DEF PlayInv, SoundOK, StoppedOK, Decoder, flags
<1> QED BY <1>2, <1>3, <1>7

(* The count of late frames is a number.                                   *)
LEMMA LeakOfOK == \A f \in BOOLEAN : LeakOf(f) \in Nat
  BY DEF LeakOf

(* The video view shows a frame.                                           *)
LEMMA StepShow ==
  ASSUME PlayInv, NEW t \in DecodeThread, Show(t)
  PROVE  PlayInv'
<1>1. /\ pc[t] = "deliver" /\ pc' = [pc EXCEPT ![t] = "recv"]
      /\ UNCHANGED <<flags, demuxVars, decodeVars, noteVars, audioVars, playerVars, heard, overlap>>
      /\ shown' = frame["vDecode"]
      /\ leaked' = [leaked EXCEPT !.video = @ + LeakOf(TRUE)]
  BY DEF Show, GoTo
<1>2. PcOK(t, "recv")
  BY Kinds4 DEF PcOK, InLoop, Label, Working
<1>3. ThreadsOK' /\ WorkersOK' /\ SoundOK' /\ StoppedOK'
  BY <1>1, <1>2, DeliverMoves DEF decodeVars, playerVars
<1>4. HistoryOK'
  <2>1. shown' \in Packet
    BY <1>1 DEF PlayInv, DecodersOK, Decoder
  <2>2. leaked' \in [video : Nat, audio : Nat]
    <3> DEFINE a == LeakOf(TRUE)
    <3>1. a \in Nat
      BY LeakOfOK
    <3>2. leaked' = [leaked EXCEPT !.video = @ + a]
      BY <1>1
    <3> HIDE DEF a
    <3> QED BY <3>1, <3>2 DEF PlayInv, HistoryOK
  <2> QED BY <1>1, <2>1, <2>2 DEF PlayInv, HistoryOK
<1> QED BY <1>1, <1>3, <1>4, Kept DEF PlayInv

(* The audio output takes one frame more than maxFrame and no other.       *)
LEMMA StepOutput ==
  ASSUME PlayInv, NEW t \in DecodeThread, Output(t)
  PROVE  PlayInv'
<1>1. UNCHANGED <<flags, demuxVars, decodeVars, noteVars, audioPts, outstanding, bufQueue, sound,
                  playerVars, history>>
  BY DEF Output, TestOutput, PushFrame
<1>2. pc[t] \in {"deliver", "push"} /\ Obj(t) = "aDecode"
  BY DEF Output, TestOutput, PushFrame, PlayInv, ThreadsOK
<1>3. \A l \in {"recv", "push", "deliver"} : PcOK(t, l)
  BY <1>2, Kinds4 DEF PcOK, InLoop, Label, Working
<1>4. PICK l \in {"recv", "push", "deliver"} : pc' = [pc EXCEPT ![t] = l]
  BY DEF Output, TestOutput, PushFrame, GoTo
<1>5. ThreadsOK' /\ WorkersOK' /\ SoundOK' /\ StoppedOK'
  BY <1>1, <1>2, <1>3, <1>4, DeliverMoves DEF decodeVars, playerVars
<1>6. AudioOK'
  <2>1. frames' \in Seq(Read) /\ Len(frames') <= maxFrame + 1
    <3>1. CASE UNCHANGED frames
      BY <3>1 DEF PlayInv, AudioOK
    <3>2. CASE pc[t] = "push" /\ ~(Len(frames) > maxFrame) /\ frames' = Append(frames, frame[Obj(t)])
      <4>1. frame["aDecode"] \in Read
        <5>1. t[2] \in Slot /\ t = <<"aDecode", t[2]>>
          BY <1>2 DEF DecodeThread, Obj
        <5>2. t[2] \in Delivers("aDecode")
          BY <1>2, <5>1 DEF Delivers
        <5> QED BY <5>2 DEF PlayInv, SoundOK
      <4> DEFINE f == frame["aDecode"]
      <4>2. f \in Read /\ frames' = Append(frames, f) /\ ~(Len(frames) > maxFrame)
        BY <1>2, <3>2, <4>1
      <4> HIDE DEF f
      <4>3. frames \in Seq(Read) /\ Len(frames) \in Nat
        BY DEF PlayInv, AudioOK
      <4> QED BY <4>2, <4>3, AudioAssumption
    <3> QED BY <3>1, <3>2 DEF Output, TestOutput, PushFrame
  <2> QED BY <1>1, <2>1 DEF PlayInv, AudioOK
<1> QED BY <1>1, <1>5, <1>6, Kept DEF PlayInv

(* A decoder thread.                                                       *)
LEMMA StepDecode ==
  ASSUME PlayInv, NEW t \in DecodeThread, Decode(t)
  PROVE  PlayInv'
<1>1. CASE DecodeLoop(t)
  <2>0. t \in Thread /\ Obj(t) \in Object
    BY Names
  <2>1. /\ EnterLoop(t, "take") \/ PausedLoop(t, "take") \/ Leave(t)
        /\ UNCHANGED <<demuxVars, decodeVars, noteVars, audioVars, playerVars, history>>
    BY <1>1 DEF DecodeLoop
  <2>2. \A l \in {"leave", "head", "none", "take"} : PcOK(t, l)
    BY Kinds4 DEF PcOK, InLoop, Label, Working
  <2>3. ThreadsOK' /\ WorkersOK' /\ SoundOK' /\ StoppedOK'
    BY <2>0, <2>1, <2>2, LoopMoves DEF Working, decodeVars, playerVars
  <2> QED BY <2>1, <2>3, Kept DEF PlayInv
<1>2. CASE DecodePacket(t)
  <2>1. /\ Take(t) \/ Send(t) \/ Recv(t) \/ DropPacket(t)
        /\ UNCHANGED <<demuxVars, noteVars, audioVars, playerVars, history>>
    BY <1>2 DEF DecodePacket
  <2>2. ThreadsOK' /\ DecodersOK' /\ WorkersOK' /\ SoundOK' /\ StoppedOK'
    BY <2>1, StepTake, StepSend, StepRecv, StepDrop
  <2> QED BY <2>1, <2>2, Kept DEF PlayInv
<1> QED BY <1>1, <1>2, StepShow, StepOutput DEF Decode

-----------------------------------------------------------------------------
(* The audio device and the sync thread.                                   *)

(* Taking the first frame from the queue.                                  *)
LEMMA PopOK ==
  ASSUME AudioOK, frames # <<>>
  PROVE  /\ Head(frames) \in Read /\ Pts(Head(frames)) \in Nat
         /\ Tail(frames) \in Seq(Read) /\ Len(Tail(frames)) <= maxFrame + 1
<1>1. frames \in Seq(Read) /\ Len(frames) <= maxFrame + 1
  BY DEF AudioOK
<1>2. /\ Head(frames) \in Read /\ Tail(frames) \in Seq(Read)
      /\ Len(Tail(frames)) = Len(frames) - 1 /\ Len(frames) \in Nat
  BY <1>1
<1>3. Len(Tail(frames)) <= maxFrame + 1
  BY <1>1, <1>2, AudioAssumption
<1> QED BY <1>2, <1>3, PtsIsTime

(* The callback of the audio device.                                       *)
LEMMA StepPlay ==
  ASSUME PlayInv, Play
  PROVE  PlayInv'
<1>0. /\ Device \in Thread /\ Obj(Device) \in Object
      /\ Device \notin DecodeThread /\ Device \notin DemuxThread /\ Device \notin SyncThread
      /\ UNCHANGED <<demuxVars, decodeVars, noteVars, playerVars, shown, overlap>>
  BY Names, Kinds4 DEF Play
<1>1. \A l \in InLoop \cup {"pop", "enqueue"} : PcOK(Device, l)
  BY <1>0 DEF PcOK, InLoop, Label
<1>2. HistoryOK'
  <2>1. heard' \in Packet
    BY DEF Play, PlayInv, HistoryOK, AudioOK
  <2>2. leaked' \in [video : Nat, audio : Nat]
    <3>1. (pc[Device] = "enqueue") \in BOOLEAN
      OBVIOUS
    <3>2. LeakOf(pc[Device] = "enqueue") \in Nat
      BY <3>1, LeakOfOK
    <3> QED BY <3>2 DEF Play, PlayInv, HistoryOK
  <2> QED BY <1>0, <2>1, <2>2 DEF PlayInv, HistoryOK
<1>3. ASSUME NEW l \in InLoop \cup {"pop", "enqueue"}, pc' = [pc EXCEPT ![Device] = l],
             FlagsOK', UNCHANGED isExit
      PROVE  ThreadsOK' /\ WorkersOK' /\ SoundOK' /\ StoppedOK'
  <2>1. ThreadsOK'
    BY <1>0, <1>1, <1>3, ThreadMoves DEF PlayInv
  <2> QED BY <1>0, <1>3, <2>1, OtherMoves DEF decodeVars, playerVars
<1>4. UNCHANGED flags => FlagsOK'
  BY DEF flags, FlagsOK, PlayInv, ThreadsOK
<1>5. /\ ThreadsOK' /\ WorkersOK' /\ SoundOK' /\ StoppedOK'
      /\ AudioOK'
  <2>1. CASE Fire
    <3>1. ThreadsOK' /\ WorkersOK' /\ SoundOK' /\ StoppedOK'
      BY <1>3, <1>4, <2>1 DEF Fire, GoTo, InLoop, flags
    <3> QED BY <2>1, <3>1 DEF Fire, PlayInv, AudioOK
  <2>2. CASE PopFrame
    <3>1. CASE Again(Device, "pop") /\ UNCHANGED <<frames, audioPts, sound>>
      <4>1. PICK l \in {"leave", "head", "pop"} : pc' = [pc EXCEPT ![Device] = l]
        BY <1>0, <3>1, AgainOK DEF PlayInv
      <4>2. FlagsOK' /\ isExit' = isExit
        BY <1>0, <2>2, <3>1, AgainOK DEF PlayInv, ThreadsOK, FlagsOK, PopFrame
      <4>3. ThreadsOK' /\ WorkersOK' /\ SoundOK' /\ StoppedOK'
        BY <1>3, <4>1, <4>2 DEF InLoop
      <4> QED BY <2>2, <3>1, <4>3 DEF PopFrame, PlayInv, AudioOK
    <3>2. CASE /\ frames # <<>> /\ pc' = [pc EXCEPT ![Device] = "enqueue"]
               /\ UNCHANGED <<isExit, isPause, isPausing>>
               /\ sound' = Head(frames) /\ audioPts' = Pts(Head(frames)) /\ frames' = Tail(frames)
      <4>1. FlagsOK'
        BY <2>2, <3>2 DEF PopFrame, FlagsOK, PlayInv, ThreadsOK
      <4>2. ThreadsOK' /\ WorkersOK' /\ SoundOK' /\ StoppedOK'
        BY <1>3, <3>2, <4>1
      <4>3. /\ sound' \in Packet /\ audioPts' \in Nat
            /\ frames' \in Seq(Read) /\ Len(frames') <= maxFrame + 1
        BY <3>2, PopOK, Names DEF PlayInv
      <4> QED BY <2>2, <4>2, <4>3 DEF PopFrame, PlayInv, AudioOK
    <3> QED BY <2>2, <3>1, <3>2 DEF PopFrame, GoTo
  <2>3. CASE Enqueue
    <3>1. ThreadsOK' /\ WorkersOK' /\ SoundOK' /\ StoppedOK'
      BY <1>3, <1>4, <2>3 DEF Enqueue, GoTo, InLoop, flags
    <3> QED BY <2>3, <3>1, Names DEF Enqueue, PlayInv, AudioOK
  <2>4. CASE /\ \/ EnterLoop(Device, "pop")
                \/ PausedLoop(Device, "pop")
                \/ Leave(Device)
             /\ UNCHANGED audioVars
    <3>1. ThreadsOK' /\ WorkersOK' /\ SoundOK' /\ StoppedOK'
      BY <1>0, <1>1, <2>4, LoopMoves DEF InLoop, decodeVars, playerVars
    <3> QED BY <2>4, <3>1, Kept DEF PlayInv
  <2> QED BY <2>1, <2>2, <2>3, <2>4 DEF Play, Callback
<1> QED BY <1>0, <1>2, <1>5, Kept DEF PlayInv

(* The sync thread.                                                        *)
LEMMA StepSync ==
  ASSUME PlayInv, NEW t \in SyncThread, Sync(t)
  PROVE  PlayInv'
<1>0. /\ t \in Thread /\ Obj(t) = "player" /\ "player" \in Object
      /\ t \notin DecodeThread /\ t \notin DemuxThread /\ t # Device
  BY Names, Kinds4
<1>1. \A l \in {"none", "leave", "lock"} : PcOK(t, l)
  BY <1>0 DEF PcOK, Label
<1>2. /\ pc' = [pc EXCEPT ![t] = "none"] \/ SyncAgain(t)
      /\ FlagsOK' /\ UNCHANGED isExit
      /\ UNCHANGED <<demuxVars, packs, packsMutex, pck, isAudio, framePts, opened, codec, frame,
                     noteVars, audioVars, playerVars, history>>
      /\ synPts' \in [Decoder -> Nat]
  <2>1. CASE SyncLoop(t)
    BY <1>0, <2>1 DEF SyncLoop, Leave, GoTo, FlagsOK, decodeVars, PlayInv, ThreadsOK, DecodersOK
  <2>2. CASE SyncCopy(t)
    BY <2>2 DEF SyncCopy, FlagsOK, flags, PlayInv, ThreadsOK, DecodersOK, AudioOK
  <2> QED BY <2>1, <2>2 DEF Sync
<1>3. PICK l \in {"none", "leave", "lock"} : pc' = [pc EXCEPT ![t] = l]
  BY <1>2 DEF SyncAgain, GoTo
<1>4. ThreadsOK'
  BY <1>0, <1>1, <1>2, <1>3, ThreadMoves DEF PlayInv
<1>5. WorkersOK' /\ SoundOK' /\ StoppedOK'
  BY <1>0, <1>2, <1>3, OtherMoves DEF playerVars
<1>6. DecodersOK'
  BY <1>2 DEF PlayInv, DecodersOK
<1> QED BY <1>2, <1>4, <1>5, <1>6, Kept DEF PlayInv

-----------------------------------------------------------------------------
(* The invariant.                                                          *)

LEMMA InitPlays == Init => PlayInv
<1> SUFFICES ASSUME Init PROVE PlayInv
  OBVIOUS
<1> USE DEF Init, XThreadInit, DemuxInit, DecodeInit, NoteInit, AudioInit
<1>1. ThreadsOK
  BY Names DEF ThreadsOK, InLoop, Label
<1>2. FileOK
  <2>1. ic \in BOOLEAN
    OBVIOUS
  <2>2. pos \in 1 .. Len(File) + 1 /\ epoch \in Nat
    BY FileLength
  <2> QED BY <2>1, <2>2 DEF FileOK
<1>3. DecodersOK
  <2>1. <<>> \in Seq(Read) /\ Len(<<>>) = 0
    OBVIOUS
  <2>2. \A d \in Decoder : Len(packs[d]) <= maxList
    BY DecodeAssumption
  <2> QED BY <2>1, <2>2, Names DEF DecodersOK
<1>4. NotesOK
  <2>1. NotNotifying \in [at : NoteLabel, to : 0 .. Len(obss), pkt : Packet] /\ NotNotifying.at = "done"
    BY Names DEF NotNotifying, NoteLabel, obss
  <2> QED BY <2>1 DEF NotesOK
<1>5. AudioOK
  <2>1. frames \in Seq(Read) /\ Len(frames) <= maxFrame + 1 /\ audioPts \in Nat
    BY AudioAssumption
  <2>2. outstanding \in BOOLEAN /\ bufQueue \in BOOLEAN
    OBVIOUS
  <2>3. sound \in Packet
    BY Names
  <2> QED BY <2>1, <2>2, <2>3 DEF AudioOK
<1>6. CallOK
  <2>1. "open" \in DOMAIN Script /\ 1 \in DOMAIN Script["open"]
    BY Scripts DEF Size
  <2>2. mux \in BOOLEAN
    OBVIOUS
  <2>3. ops \in 0 .. MaxOps /\ target \in Nat
    BY PlayerAssumption
  <2>4. got \in Packet
    BY Names
  <2>5. op \in {"idle"} \cup DOMAIN Script /\ ip \in IF op = "idle" THEN {1} ELSE DOMAIN Script[op]
    BY <2>1
  <2> QED BY <2>2, <2>3, <2>4, <2>5 DEF CallOK
<1>7. HistoryOK
  BY Names DEF HistoryOK
<1>8. WorkersOK
  <2>1. \A t \in DecodeThread : Free # t
    BY DEF Free, DecodeThread, Decoder
  <2> QED BY <2>1, Names DEF WorkersOK, Working
<1>9. SoundOK
  BY Names DEF SoundOK, Delivers, Decoder
<1>10. StoppedOK
  BY DEF StoppedOK
<1> QED BY <1>1, <1>2, <1>3, <1>4, <1>5, <1>6, <1>7, <1>8, <1>9, <1>10 DEF PlayInv

(* Every step keeps the invariant.                                         *)
LEMMA StepPlays ==
  ASSUME PlayInv, [Next]_vars
  PROVE  PlayInv'
<1>1. CASE Control
  BY <1>1, StepQuiet, StepRequest, StepStart, StepDecoderCall, StepAudioCall, StepDemuxCall,
     StepSeekRead, StepSeekRoute, StepSeekNotified, StepSeekRecv, StepSeekNotify DEF Control
<1>2. CASE UNCHANGED vars
  BY <1>2, Kept DEF vars, PlayInv, decodeVars, playerVars, flags
<1> QED BY <1>1, <1>2, StepCall, StepDemux, StepDecode, StepPlay, StepSync DEF Next

(* So it always holds.                                                     *)
LEMMA AlwaysPlays == Spec => []PlayInv
<1>1. PlayInv /\ [Next]_vars => PlayInv'
  BY StepPlays
<1> QED BY InitPlays, <1>1, PTL DEF Spec

(* It has the types in it.                                                 *)
LEMMA PlayTypes == PlayInv => TypeOK
<1> SUFFICES ASSUME PlayInv PROVE TypeOK
  OBVIOUS
<1>1. {isExit, isRunning, isPause, isPausing} \subseteq [Object -> BOOLEAN]
  BY DEF PlayInv, ThreadsOK
<1>2. pc \in [Thread -> Label]
  BY DEF PlayInv, ThreadsOK
<1>3. ic \in BOOLEAN /\ pos \in 1 .. Len(File) + 1 /\ epoch \in Nat
  BY DEF PlayInv, FileOK
<1>4. \A s \in Seq(Read) : s \in Seq(Packet)
  BY Names
<1>5. packs \in [Decoder -> Seq(Packet)] /\ codec \in [Decoder -> Seq(Packet)]
  BY <1>4 DEF PlayInv, DecodersOK
<1>6. /\ packsMutex \in [Decoder -> {Free} \cup DecodeThread]
      /\ pck \in [DecodeThread -> Packet] /\ frame \in [Decoder -> Packet]
  BY DEF PlayInv, DecodersOK
<1>7. {isAudio, opened} \subseteq [Decoder -> BOOLEAN] /\ {synPts, framePts} \subseteq [Decoder -> Nat]
  BY DEF PlayInv, DecodersOK
<1>8. /\ notifyMux \in {Free} \cup Caller
      /\ note \in [Caller -> [at : NoteLabel, to : 0 .. Len(obss), pkt : Packet]]
  BY DEF PlayInv, NotesOK
<1>9. frames \in Seq(Packet) /\ audioPts \in Nat
  BY <1>4 DEF PlayInv, AudioOK
<1>10. {outstanding, bufQueue, mux} \subseteq BOOLEAN
  BY Zenon DEF PlayInv, AudioOK, CallOK
<1>11. /\ op \in {"idle"} \cup DOMAIN Script
       /\ ip \in IF op = "idle" THEN {1} ELSE DOMAIN Script[op]
       /\ ops \in 0 .. MaxOps /\ target \in Nat
  BY DEF PlayInv, CallOK
<1>12. {got, sound, shown, heard} \subseteq Packet
  BY DEF PlayInv, CallOK, AudioOK, HistoryOK
<1>13. overlap \subseteq Object /\ leaked \in [video : Nat, audio : Nat]
  BY DEF PlayInv, HistoryOK
<1> QED BY <1>1, <1>2, <1>3, <1>5, <1>6, <1>7, <1>8, <1>9, <1>10, <1>11, <1>12, <1>13, Zenon DEF TypeOK

(* Every variable of the player and its parts keeps its type, for every    *)
(* file, every bound and every schedule (IPlayer.cpp, IDemux.cpp,          *)
(* IDecode.cpp, IAudioPlay.cpp).                                           *)
THEOREM TypeCorrect == Spec => []TypeOK
BY AlwaysPlays, PlayTypes, PTL

(* The test of Update() and the append below it, however many threads push *)
(* into a queue, never exceed the bound (IDecode.cpp, IAudioPlay.cpp).     *)
THEOREM QueuesBounded == Spec => []QueueBounds
<1>1. PlayInv => QueueBounds
  BY DEF PlayInv, DecodersOK, AudioOK, QueueBounds
<1> QED BY AlwaysPlays, <1>1, PTL

-----------------------------------------------------------------------------
(* The frame of a decoder.                                                 *)

(* What every step but those of the video decoder, its start and its pause *)
(* leaves alone.                                                           *)
VideoKept ==
  /\ \A k \in Slot : pc'[<<"vDecode", k>>] = pc[<<"vDecode", k>>]
  /\ isPausing'["vDecode"] = isPausing["vDecode"]

(* The video decoder keeps its one thread then.                            *)
LEMMA KeepsAlone ==
  ASSUME VideoKept, OneThread("vDecode"), WorksUnpaused("vDecode")
  PROVE  OneThread("vDecode")' /\ WorksUnpaused("vDecode")' /\ Live("vDecode")' = Live("vDecode")
  BY DEF VideoKept, OneThread, WorksUnpaused, Live

(* And stays paused.                                                       *)
LEMMA KeepsPause ==
  ASSUME PauseInv, VideoKept, UNCHANGED <<op, ip, isPause>>
  PROVE  PauseInv'
<1> SUFFICES ASSUME Alone("vDecode") PROVE PauseInv'
  BY DEF PauseInv, Alone
<1>1. OneThread("vDecode")' /\ WorksUnpaused("vDecode")' /\ Live("vDecode")' = Live("vDecode")
  BY KeepsAlone DEF PauseInv
<1>2. PausedByNow'
  BY <1>1 DEF PauseInv, PausedByNow, VideoKept
<1> QED BY <1>1, <1>2 DEF PauseInv

(* A step of another thread.                                               *)
LEMMA OtherKeepsVideo ==
  ASSUME PlayInv, NEW t \in Thread, Obj(t) # "vDecode",
         \/ UNCHANGED pc
         \/ \E l : pc' = [pc EXCEPT ![t] = l],
         \/ UNCHANGED isPausing
         \/ \E b : isPausing' = [isPausing EXCEPT ![Obj(t)] = b]
  PROVE  VideoKept
<1>1. \A k \in Slot : <<"vDecode", k>> \in Thread /\ <<"vDecode", k>> # t
  BY Names DEF Decoder, Thread, Obj
<1>2. \A k \in Slot : pc'[<<"vDecode", k>>] = pc[<<"vDecode", k>>]
  BY <1>1 DEF PlayInv, ThreadsOK
<1>3. isPausing'["vDecode"] = isPausing["vDecode"]
  BY Names DEF PlayInv, ThreadsOK, Decoder
<1> QED BY <1>2, <1>3 DEF VideoKept

(* The other threads do not resume the video decoder.                      *)
LEMMA PauseThreads ==
  ASSUME PlayInv, PauseInv,
         \/ \E t \in DemuxThread : Demux(t)
         \/ \E t \in DecodeThread : Obj(t) = "aDecode" /\ Decode(t)
         \/ Play
         \/ \E t \in SyncThread : Sync(t)
  PROVE  PauseInv'
<1>1. UNCHANGED <<op, ip, isPause>>
  BY DEF Demux, DemuxLoop, DemuxRead, DemuxNotify, Decode, DecodeLoop, DecodePacket, Show, Output,
         Take, Send, Recv, DropPacket, TestOutput, PushFrame, Play, Callback, Fire, PopFrame,
         Enqueue, Sync, SyncLoop, SyncCopy, EnterLoop, PausedLoop, Leave, Again, playerVars, flags
<1> DEFINE Moves(t) ==
      /\ UNCHANGED pc \/ \E l : pc' = [pc EXCEPT ![t] = l]
      /\ UNCHANGED isPausing \/ \E b : isPausing' = [isPausing EXCEPT ![Obj(t)] = b]
<1>2. \A t, body : Again(t, body) => Moves(t)
  BY DEF Again, GoTo
<1>3. \A t, body : EnterLoop(t, body) \/ PausedLoop(t, body) \/ Leave(t) => Moves(t)
  BY <1>2 DEF EnterLoop, PausedLoop, Leave, GoTo
<1>4. ASSUME NEW t \in DemuxThread, Demux(t) PROVE VideoKept
  <2>1. Moves(t)
    BY <1>2, <1>3, <1>4 DEF Demux, DemuxLoop, DemuxRead, DemuxNotify, GoTo
  <2>2. Obj(t) # "vDecode" /\ t \in Thread
    BY Names, Kinds4
  <2> QED BY <2>1, <2>2, OtherKeepsVideo
<1>5. ASSUME NEW t \in DecodeThread, Obj(t) = "aDecode", Decode(t) PROVE VideoKept
  <2>1. Moves(t)
    BY <1>2, <1>3, <1>5 DEF Decode, DecodeLoop, DecodePacket, Show, Output, Take, Send, Recv,
       DropPacket, TestOutput, PushFrame, GoTo, flags
  <2> QED BY <1>5, <2>1, Names, OtherKeepsVideo
<1>6. ASSUME Play PROVE VideoKept
  <2>1. Moves(Device)
    BY <1>2, <1>3, <1>6 DEF Play, Callback, Fire, PopFrame, Enqueue, GoTo, flags
  <2>2. Obj(Device) # "vDecode" /\ Device \in Thread
    BY Names, Kinds4
  <2> QED BY <2>1, <2>2, OtherKeepsVideo
<1>7. ASSUME NEW t \in SyncThread, Sync(t) PROVE VideoKept
  <2>1. Moves(t)
    BY <1>3, <1>7 DEF Sync, SyncLoop, SyncCopy, SyncAgain, GoTo, flags, Leave
  <2>2. Obj(t) # "vDecode" /\ t \in Thread
    BY Names, Kinds4
  <2> QED BY <2>1, <2>2, OtherKeepsVideo
<1> HIDE DEF Moves
<1>8. VideoKept
  BY <1>4, <1>5, <1>6, <1>7
<1> QED BY <1>1, <1>8, KeepsPause

(* Its own thread acknowledges what the flag says.                         *)
LEMMA PauseDecode ==
  ASSUME PlayInv, PauseInv, NEW t \in DecodeThread, Obj(t) = "vDecode", Decode(t)
  PROVE  PauseInv'
<1> SUFFICES ASSUME Alone("vDecode") PROVE PauseInv'
  BY DEF PauseInv, Alone
<1>1. OneThread("vDecode") /\ WorksUnpaused("vDecode") /\ PausedByNow
  BY DEF PauseInv
<1>2. UNCHANGED <<op, ip, isPause>>
  BY DEF Decode, DecodeLoop, DecodePacket, Show, Output, Take, Send, Recv, DropPacket, TestOutput,
         PushFrame, EnterLoop, PausedLoop, Leave, Again, playerVars, flags
<1>3. pc[t] # "none"
  BY DEF Decode, DecodeLoop, DecodePacket, Show, Output, Take, Send, Recv, DropPacket, TestOutput,
         PushFrame, EnterLoop, PausedLoop, Leave
<1>4. \/ Again(t, "take")
      \/ UNCHANGED isPausing /\ \E l \in {"none", "send", "recv", "deliver", "push", "drop"} :
           pc' = [pc EXCEPT ![t] = l] /\ (l # "none" => pc[t] \in {"take"} \cup Working)
  <2>1. CASE DecodeLoop(t)
    BY <2>1 DEF DecodeLoop, EnterLoop, PausedLoop, Leave, GoTo
  <2>2. CASE DecodePacket(t)
    BY <2>2 DEF DecodePacket, Take, Send, Recv, DropPacket, GoTo, flags, Working
  <2>3. CASE Show(t) \/ Output(t)
    BY <2>3 DEF Show, Output, TestOutput, PushFrame, GoTo, flags, Working
  <2> QED BY <2>1, <2>2, <2>3 DEF Decode
<1>5. t[2] \in Slot /\ t = <<"vDecode", t[2]>> /\ t \in Thread /\ "vDecode" \in Object
  BY Names DEF DecodeThread, Obj, Decoder
<1>6. \A u \in Thread \ {t} : pc'[u] = pc[u]
  BY <1>4 DEF Again, GoTo, PlayInv, ThreadsOK
<1>7. \A k \in Slot \ {t[2]} : pc[<<"vDecode", k>>] = "none" /\ pc'[<<"vDecode", k>>] = "none"
  <2>1. SUFFICES ASSUME NEW k \in Slot \ {t[2]}
                 PROVE  pc[<<"vDecode", k>>] = "none" /\ pc'[<<"vDecode", k>>] = "none"
    OBVIOUS
  <2>2. pc[<<"vDecode", k>>] = "none"
    BY <1>1, <1>3, <1>5, <2>1 DEF OneThread
  <2>3. <<"vDecode", k>> \in Thread \ {t}
    BY <1>5, <2>1, Names DEF Thread
  <2> QED BY <1>6, <2>2, <2>3
<1>8. OneThread("vDecode")'
  BY <1>7 DEF OneThread
<1>9. /\ pc'[t] \in {"take"} \cup Working => ~isPausing'["vDecode"]
      /\ isPausing'["vDecode"] \in {isPausing["vDecode"], isPause["vDecode"]}
  <2>1. CASE Again(t, "take")
    <3>1. pc'[t] = IF isExit["vDecode"] THEN "leave" ELSE IF isPause["vDecode"] THEN "head" ELSE "take"
      BY <1>5, <2>1 DEF Again, GoTo, PlayInv, ThreadsOK
    <3>2. isPausing'["vDecode"] = IF isExit["vDecode"] THEN isPausing["vDecode"] ELSE isPause["vDecode"]
      BY <1>5, <2>1 DEF Again, PlayInv, ThreadsOK
    <3> QED BY <3>1, <3>2 DEF Working
  <2>2. CASE UNCHANGED isPausing /\ \E l \in {"none", "send", "recv", "deliver", "push", "drop"} :
               pc' = [pc EXCEPT ![t] = l] /\ (l # "none" => pc[t] \in {"take"} \cup Working)
    <3>1. PICK l \in {"none", "send", "recv", "deliver", "push", "drop"} :
            pc'[t] = l /\ (l # "none" => pc[t] \in {"take"} \cup Working)
      BY <1>5, <2>2 DEF PlayInv, ThreadsOK
    <3>2. pc[t] \in {"take"} \cup Working => ~isPausing["vDecode"]
      BY <1>1, <1>5 DEF WorksUnpaused
    <3> QED BY <2>2, <3>1, <3>2 DEF Working
  <2> QED BY <1>4, <2>1, <2>2
<1>10. WorksUnpaused("vDecode")'
  <2>1. SUFFICES ASSUME NEW k \in Slot, pc'[<<"vDecode", k>>] \in {"take"} \cup Working
                 PROVE  ~isPausing'["vDecode"]
    BY DEF WorksUnpaused
  <2>2. k = t[2]
    BY <1>7, <2>1 DEF Working
  <2> QED BY <1>5, <1>9, <2>1, <2>2
<1>11. PausedByNow'
  <2>1. Live("vDecode") # {}
    BY <1>3, <1>5 DEF Live
  <2> QED BY <1>1, <1>2, <1>9, <2>1 DEF PausedByNow
<1> QED BY <1>8, <1>10, <1>11 DEF PauseInv

(* The pause of the video decoder is asked for, waited for and withdrawn   *)
(* at the entries of SeekScript that PausedByNow names.                    *)
LEMMA PauseMoves ==
  ASSUME PlayInv, Alone("vDecode"), PausedByNow, op = "seek",
         op' = "seek", ip' \in 1 .. 35,
         UNCHANGED <<isPausing, pc>>,
         \/ /\ ip' = ip + 1
            /\ Request \/ (UNCHANGED isPause /\ Entry.do # "pause")
            /\ Entry.do = "await" => Await
         \/ ip \in {20, 21, 22} /\ ip' \in 20 .. 23 /\ UNCHANGED isPause
         \/ UNCHANGED <<ip, isPause>>
  PROVE  PausedByNow'
<1>1. ip \in 1 .. 35 /\ SeekFacts(ip, Entry)
  BY EntryOK DEF PlayInv, Size
<1>2. CASE ip \in {20, 21, 22} /\ ip' \in 20 .. 23 /\ UNCHANGED isPause
  BY <1>2 DEF PausedByNow, Live
<1>3. CASE UNCHANGED <<ip, isPause>>
  BY <1>3 DEF PausedByNow, Live
<1>4. CASE /\ ip' = ip + 1
           /\ Request \/ (UNCHANGED isPause /\ Entry.do # "pause")
           /\ Entry.do = "await" => Await
  <2>0. "vDecode" \in Object
    BY Names DEF Decoder
  <2>1. ip \in 6 .. 28 => isPause'["vDecode"]
    <3>1. CASE ip = 6
      <4>1. Entry = Do("pause", "vDecode")
        BY <1>1, <3>1 DEF SeekFacts
      <4>2. Entry.do = "pause" /\ Part = "vDecode"
        BY <4>1 DEF Do, Part
      <4> QED BY <1>4, <2>0, <4>2 DEF Request, At, RequestPause, PlayInv, ThreadsOK
    <3>2. CASE ip \in 7 .. 28
      <4>1. isPause["vDecode"]
        BY <3>2 DEF PausedByNow
      <4>2. Entry.do = "resume" => Part # "vDecode"
        BY <1>1, <3>2 DEF SeekFacts, Part
      <4>3. \/ UNCHANGED isPause
            \/ isPause' = [isPause EXCEPT ![Part] = TRUE]
            \/ Part # "vDecode" /\ isPause' = [isPause EXCEPT ![Part] = FALSE]
        BY <1>4, <4>2 DEF Request, At, RaiseExit, RequestPause, WithdrawExit
      <4> QED BY <2>0, <4>1, <4>3 DEF PlayInv, ThreadsOK
    <3> QED BY <1>1, <3>1, <3>2
  <2>2. ip = 7 => isPausing["vDecode"] \/ Live("vDecode") = {}
    <3>1. SUFFICES ASSUME ip = 7 PROVE isPausing["vDecode"] \/ Live("vDecode") = {}
      OBVIOUS
    <3>2. Entry = Do("await", "vDecode")
      BY <1>1, <3>1 DEF SeekFacts
    <3>3. Entry.do = "await" /\ Part = "vDecode"
      BY <3>2 DEF Do, Part
    <3>4. isPause["vDecode"]
      BY <3>1 DEF PausedByNow
    <3>5. ~Waiting("vDecode")
      <4>1. \A k \in Slot : <<"vDecode", k>> \in DecodeThread /\ Obj(<<"vDecode", k>>) = "vDecode"
        BY Names DEF Decoder
      <4>2. \A k \in Slot : pc[<<"vDecode", k>>] \notin {"notify", "lock"}
        BY <4>1 DEF PlayInv, ThreadsOK, InLoop, Working
      <4> QED BY <4>1, <4>2 DEF Waiting, Blocked
    <3>6. Part \notin Slow \cup {"player"}
      BY <3>3 DEF Alone
    <3> QED BY <1>4, <3>3, <3>4, <3>5, <3>6 DEF Await, Absent
  <2> QED BY <1>1, <1>4, <2>1, <2>2 DEF PausedByNow, Live
<1> QED BY <1>2, <1>3, <1>4

(* Seek() goes on past its wait only when that thread has answered.        *)
LEMMA PauseControl ==
  ASSUME PlayInv, PauseInv, Control, ~StartPart
  PROVE  PauseInv'
<1> SUFFICES ASSUME Alone("vDecode") PROVE PauseInv'
  BY DEF PauseInv, Alone
<1>1. UNCHANGED <<isPausing, pc>>
  BY DEF Control, Lock, Unlock, Request, Join, Await, DecoderCall, AudioCall, DemuxCall, SeekRead,
         SeekRoute, SeekNotified, SeekRecv, SeekNotify, RaiseExit, RequestPause, WithdrawExit, flags
<1>2. OneThread("vDecode")' /\ WorksUnpaused("vDecode")'
  BY <1>1, KeepsAlone DEF PauseInv, VideoKept
<1>3. PausedByNow'
  <2>1. SUFFICES ASSUME op' = "seek" PROVE PausedByNow'
    BY DEF PausedByNow
  <2>2. CASE SeekNotify
    <3>1. UNCHANGED <<op, ip, isPause>>
      BY <2>2 DEF SeekNotify, playerVars, flags
    <3> QED BY <1>1, <3>1 DEF PauseInv, PausedByNow, Live
  <2>3. CASE SeekRead \/ SeekRoute \/ SeekNotified \/ SeekRecv
    <3>1. /\ op # "idle" /\ Entry.do \in {"read", "route", "recv"} /\ UNCHANGED isPause
          /\ Continue \/ Goto(UnlockEntry) \/ Goto(ReadEntry) \/ UNCHANGED <<op, ip>>
          /\ Entry.do = "route" => Continue \/ Goto(ReadEntry) \/ UNCHANGED <<op, ip>>
      BY <2>3 DEF SeekRead, SeekRoute, SeekNotified, SeekRecv, At, flags
    <3>2. op = "seek" /\ ip \in {20, 21, 22} /\ (ip # 21 => Entry.do # "route") /\ Size(op) = 35
      BY <3>1, OnlySeek DEF PlayInv
    <3>3. Entry.do # "route" => ip # 21
      BY <3>1, <3>2, OnlySeek DEF PlayInv
    <3>4. ip' \in {ip, ip + 1, 20, 23}
      <4>1. CASE Continue
        BY <2>1, <3>1, <4>1, ContinueOK DEF PlayInv
      <4>2. CASE Goto(ReadEntry)
        <5>1. Goto(20)
          BY <4>2, ReadIsThere
        <5> QED BY <2>1, <3>1, <3>2, <5>1, MoveOK DEF PlayInv
      <4>3. CASE Goto(UnlockEntry) /\ ip # 21
        <5>1. Goto(23)
          BY <3>2, <4>3, UnlockSeek
        <5> QED BY <2>1, <3>1, <3>2, <5>1, MoveOK DEF PlayInv
      <4> QED BY <3>1, <3>3, <4>1, <4>2, <4>3
    <3>5. PlaceOK'
      BY <3>1, <3>2, <3>3, SeekMoves DEF PlayInv
    <3> QED BY <1>1, <2>1, <3>1, <3>2, <3>4, PauseMoves DEF PauseInv
  <2>4. CASE \/ Lock \/ Unlock \/ Request \/ Join \/ Await
             \/ DecoderCall \/ AudioCall \/ DemuxCall
    <3>1. /\ op # "idle"
          /\ Continue \/ Entry.do = "open"
          /\ Request \/ (UNCHANGED isPause /\ Entry.do # "pause")
          /\ Entry.do = "await" => Await
      BY <2>4 DEF Lock, Unlock, Request, Join, Await, DecoderCall, AudioCall, DemuxCall, At, flags
    <3>2. op = "seek" /\ Entry.do # "open" /\ ip \in 1 .. 35
      <4>1. op' \in {op, "idle"}
        <5>1. \A i : Goto(i) => op' \in {op, "idle"}
          BY DEF Goto
        <5>2. \E i : Goto(i)
          BY <2>4, Zenon DEF Lock, Unlock, Request, Join, Await, DecoderCall, AudioCall, DemuxCall,
             Continue
        <5> QED BY <5>1, <5>2
      <4>2. op = "seek"
        BY <2>1, <4>1
      <4> QED BY <3>1, <4>2, EntryOK DEF SeekFacts, PlayInv, Size
    <3>3. ip' = ip + 1 /\ PlaceOK'
      BY <2>1, <3>1, <3>2, ContinueOK DEF PlayInv
    <3>4. ip' \in 1 .. 35
      BY <2>1, <3>3, Scripts DEF PlaceOK, Size
    <3> QED BY <1>1, <2>1, <3>1, <3>2, <3>3, <3>4, PauseMoves DEF PauseInv
  <2> QED BY <2>2, <2>3, <2>4 DEF Control
<1> QED BY <1>2, <1>3 DEF PauseInv

(* Start() finds no thread of the video decoder.                           *)
LEMMA PauseStart ==
  ASSUME PlayInv, PauseInv, StartPart
  PROVE  PauseInv'
<1> SUFFICES ASSUME Alone("vDecode") PROVE PauseInv'
  BY DEF PauseInv, Alone
<1>1. /\ op # "idle" /\ Entry.do = "start" /\ Continue /\ Start(Part) /\ UNCHANGED isPausing
      /\ Live(Part) = {} \/ Part \in Overlapping
  BY DEF StartPart, At, Start
<1>2. Part \in Object
  BY <1>1, EntryOK, Names DEF PlayInv, GoodEntry, Part
<1>3. op = "open"
  BY <1>1, EntryOK, Scripts DEF SeekFacts, PauseFacts, PlayInv
<1>4. PausedByNow'
  BY <1>1, <1>3, ContinueOK DEF PlayInv, PausedByNow
<1>5. PICK j \in Slot : pc' = [pc EXCEPT ![<<Part, j>>] = "spawned"]
  BY <1>1, <1>2, SpawnOK DEF Start
<1>6. \A k \in Slot : <<"vDecode", k>> \in Thread
  BY Names DEF Thread, Decoder
<1>7. OneThread("vDecode")' /\ WorksUnpaused("vDecode")'
  <2>1. CASE Part = "vDecode"
    <3>1. \A k \in Slot : pc[<<"vDecode", k>>] = "none"
      BY <1>1, <2>1 DEF Live, Alone
    <3>2. \A k \in Slot : pc'[<<"vDecode", k>>] = IF k = j THEN "spawned" ELSE "none"
      BY <1>5, <1>6, <2>1, <3>1 DEF PlayInv, ThreadsOK
    <3> QED BY <3>2 DEF OneThread, WorksUnpaused, Working
  <2>2. CASE Part # "vDecode"
    <3>1. \A k \in Slot : pc'[<<"vDecode", k>>] = pc[<<"vDecode", k>>]
      BY <1>5, <1>6, <2>2 DEF PlayInv, ThreadsOK
    <3> QED BY <1>1, <3>1, KeepsAlone DEF VideoKept, PauseInv
  <2> QED BY <2>1, <2>2
<1> QED BY <1>4, <1>7 DEF PauseInv

(* A new call begins with its script.                                      *)
LEMMA PauseCall ==
  ASSUME PlayInv, PauseInv, Call
  PROVE  PauseInv'
<1> SUFFICES ASSUME Alone("vDecode") PROVE PauseInv'
  BY DEF PauseInv, Alone
<1>1. ip' = 1 /\ UNCHANGED pc
  BY DEF Call, PlayInv, CallOK
<1>2. isPausing'["vDecode"] = isPausing["vDecode"]
  BY Names DEF Call, CallOpen, CallPlayOrPause, CallSeek, Acknowledge, flags, PlayInv, ThreadsOK,
     Decoder
<1>3. OneThread("vDecode")' /\ WorksUnpaused("vDecode")'
  BY <1>1, <1>2, KeepsAlone DEF PauseInv, VideoKept
<1> QED BY <1>1, <1>3 DEF PauseInv, PausedByNow

(* Every step keeps the video decoder paused while Seek() decodes.         *)
LEMMA StepPauses ==
  ASSUME PlayInv, PauseInv, [Next]_vars
  PROVE  PauseInv'
<1>1. CASE UNCHANGED vars
  <2>1. VideoKept /\ UNCHANGED <<op, ip, isPause>>
    BY <1>1 DEF vars, flags, playerVars, VideoKept
  <2> QED BY <2>1, KeepsPause
<1>2. ASSUME NEW t \in DecodeThread, Decode(t) PROVE PauseInv'
  BY <1>2, PauseDecode, PauseThreads, Names DEF Decoder
<1> QED BY <1>1, <1>2, PauseControl, PauseStart, PauseCall, PauseThreads DEF Next

(* So it is always paused then.                                            *)
LEMMA AlwaysPauses == Spec => []PauseInv
<1>1. Init => PauseInv
  <2>1. SUFFICES ASSUME Init PROVE PauseInv
    OBVIOUS
  <2>2. \A k \in Slot : <<"vDecode", k>> \in Thread
    BY Names DEF Thread, Decoder
  <2>3. \A k \in Slot : pc[<<"vDecode", k>>] = "none"
    BY <2>1, <2>2 DEF Init, XThreadInit
  <2>4. op = "open"
    BY <2>1 DEF Init
  <2> QED BY <2>3, <2>4 DEF PauseInv, OneThread, WorksUnpaused, PausedByNow, Working
<1>2. PlayInv /\ PauseInv /\ [Next]_vars => PauseInv'
  BY StepPauses
<1> QED BY AlwaysPlays, <1>1, <1>2, PTL DEF Spec

(* Three steps write the frame of a decoder: avcodec_receive_frame() of a  *)
(* worker and of Seek(), and the av_frame_free() of Close().               *)
LEMMA FrameWriters ==
  ASSUME PlayInv, [Next]_vars
  PROVE  \/ UNCHANGED frame
         \/ SeekRecv
         \/ Entry.do = "free" /\ op = "open" /\ DecoderCall /\ FreeCodec(Part)
         \/ \E t \in DecodeThread : Recv(t)
<1>1. CASE UNCHANGED vars \/ Call
  BY <1>1 DEF vars, Call, decodeVars
<1>2. CASE Lock \/ Unlock \/ Request \/ Join \/ Await \/ StartPart \/ AudioCall \/ DemuxCall
           \/ SeekRead \/ SeekRoute \/ SeekNotified \/ SeekNotify
  BY <1>2 DEF Lock, Unlock, Request, Join, Await, StartPart, AudioCall, DemuxCall, SeekRead,
     SeekRoute, SeekNotified, SeekNotify, NotifyStep, decodeVars
<1>3. CASE DecoderCall
  <2>1. UNCHANGED frame \/ (Entry.do = "free" /\ FreeCodec(Part) /\ op # "idle")
    BY <1>3 DEF DecoderCall, ClearQueue, FlushCodec, OpenCodec, At
  <2>2. op # "idle" /\ Entry.do = "free" => op = "open"
    BY EntryOK, Scripts DEF SeekFacts, PauseFacts, PlayInv
  <2> QED BY <1>3, <2>1, <2>2
<1>4. ASSUME NEW t \in DecodeThread, Decode(t)
      PROVE  UNCHANGED frame \/ Recv(t)
  BY <1>4 DEF Decode, DecodeLoop, DecodePacket, Show, Output, Take, Send, DropPacket, decodeVars
<1>5. CASE \/ \E t \in DemuxThread : Demux(t)
           \/ Play
           \/ \E t \in SyncThread : Sync(t)
  BY <1>5 DEF Demux, DemuxLoop, DemuxRead, DemuxNotify, NotifyStep, Play, Sync, SyncLoop, SyncCopy,
     decodeVars
<1> QED BY <1>1, <1>2, <1>3, <1>4, <1>5 DEF Next, Control

(* Nobody delivers while a worker of the same decoder receives.            *)
LEMMA ReceivesAlone ==
  ASSUME PlayInv, NEW t \in DecodeThread, pc[t] = "recv"
  PROVE  Delivers(Obj(t)) = {}
<1>1. t = <<Obj(t), t[2]>> /\ t[2] \in Slot /\ Obj(t) \in Decoder
  BY DEF DecodeThread, Obj
<1>2. \A k \in Delivers(Obj(t)) : k \in Slot /\ pc[<<Obj(t), k>>] \in {"deliver", "push"}
  BY DEF Delivers
<1>3. \A k \in Delivers(Obj(t)) : k = t[2]
  BY <1>1, <1>2, OneWorker DEF PlayInv, Working
<1> QED BY <1>1, <1>2, <1>3

(* A step that has a frame delivered writes no frame of that decoder.      *)
LEMMA FrameStep ==
  ASSUME PlayInv, PauseInv, op = "seek" => Alone("vDecode"), [Next]_vars
  PROVE  \A d \in Decoder : Delivers(d) # {} => frame'[d] = frame[d]
<1>1. CASE UNCHANGED frame
  BY <1>1
<1>2. CASE SeekRecv
  <2>1. op # "idle" /\ Entry.do = "recv" /\ RecvFrame("vDecode")
    BY <1>2 DEF SeekRecv, At
  <2>2. op = "seek" /\ ip = 22
    BY <2>1, OnlySeek DEF PlayInv
  <2>3. isPausing["vDecode"] \/ Live("vDecode") = {}
    BY <2>2 DEF PauseInv, PausedByNow
  <2>4. \A k \in Slot : pc[<<"vDecode", k>>] \notin Working
    BY <2>2, <2>3 DEF PauseInv, WorksUnpaused, Live, Working
  <2>5. Delivers("vDecode") = {}
    BY <2>4 DEF Delivers, Working
  <2>6. frame'["aDecode"] = frame["aDecode"]
    BY <2>1, RecvOK DEF PlayInv, Decoder
  <2> QED BY <2>5, <2>6 DEF Decoder
<1>3. CASE Entry.do = "free" /\ op = "open" /\ DecoderCall /\ FreeCodec(Part)
  <2>1. /\ Part = "vDecode" => ip \in {20, 29}
        /\ Part = "aDecode" => ip \in {22, 32}
        /\ Part \in Decoder
    BY <1>3, EntryOK DEF OpenFacts, GoodEntry, Part, PlayInv
  <2>2. Delivers(Part) = {}
    BY <1>3, <2>1 DEF StoppedOK, PlayInv, Decoder
  <2>3. \A d \in Decoder \ {Part} : frame'[d] = frame[d]
    BY <1>3 DEF FreeCodec, PlayInv, DecodersOK
  <2> QED BY <2>2, <2>3
<1>4. ASSUME NEW t \in DecodeThread, Recv(t)
      PROVE  \A d \in Decoder : Delivers(d) # {} => frame'[d] = frame[d]
  <2>1. Delivers(Obj(t)) = {} /\ Obj(t) \in Decoder
    BY <1>4, ReceivesAlone, Names DEF Recv
  <2>2. RecvFrame(Obj(t)) \/ UNCHANGED frame
    BY <1>4 DEF Recv
  <2>3. \A d \in Decoder \ {Obj(t)} : frame'[d] = frame[d]
    BY <2>1, <2>2, RecvOK DEF PlayInv
  <2> QED BY <2>1, <2>3
<1> QED BY <1>1, <1>2, <1>3, <1>4, FrameWriters

(* Only the application starts a seek.                                     *)
LEMMA WhoseSeek ==
  ASSUME PlayInv, [Next]_vars
  PROVE  op' \in {op, "idle"} \/ Call
<1>1. \A i : Goto(i) => op' \in {op, "idle"}
  BY DEF Goto
<1>2. Control => UNCHANGED op \/ \E i : Goto(i)
  BY Zenon DEF Control, Lock, Unlock, Request, Join, Await, StartPart, DecoderCall, AudioCall,
     DemuxCall, SeekRead, SeekRoute, SeekNotified, SeekRecv, SeekNotify, Continue, playerVars
<1>3. \A t : Demux(t) \/ Decode(t) \/ Sync(t) \/ Play => UNCHANGED op
  BY DEF Demux, DemuxLoop, DemuxRead, DemuxNotify, Decode, DecodeLoop, DecodePacket, Show, Output,
     Sync, SyncLoop, SyncCopy, Play, playerVars
<1>4. UNCHANGED vars => UNCHANGED op
  BY DEF vars, playerVars
<1> QED BY <1>1, <1>2, <1>3, <1>4 DEF Next

(* While a frame is shown or resampled nobody decodes into it and nobody   *)
(* frees it (FFDecode.cpp): whatever waits the control thread misses and   *)
(* whatever threads Start() finds, as long as nobody seeks; and with       *)
(* seeking if that does not happen to the video decoder, which Seek() uses *)
(* behind the back of its worker.                                          *)
THEOREM FrameIsSafe ==
  ASSUME "seek" \notin Operations \/ "vDecode" \notin Slow \cup Overlapping
  PROVE  Spec => FrameSafe
<1> DEFINE Seeks == op = "seek" => "seek" \in Operations
<1>1. Init => Seeks
  BY DEF Init
<1>2. PlayInv /\ Seeks /\ [Next]_vars => Seeks'
  BY WhoseSeek DEF Call, CallOpen, CallPlayOrPause, CallSeek
<1>3. Spec => []Seeks
  BY <1>1, <1>2, AlwaysPlays, PTL DEF Spec
<1>4. PlayInv /\ PauseInv /\ Seeks /\ [Next]_vars =>
        [\A d \in Decoder : Delivers(d) \cap Delivers(d)' # {} => frame'[d] = frame[d]]_vars
  <2>1. Seeks => (op = "seek" => Alone("vDecode"))
    BY DEF Alone
  <2>2. ASSUME PlayInv, PauseInv, Seeks, [Next]_vars
        PROVE  \A d \in Decoder : Delivers(d) \cap Delivers(d)' # {} => frame'[d] = frame[d]
    BY <2>1, <2>2, FrameStep
  <2> QED BY <2>2
<1> QED BY <1>3, <1>4, AlwaysPlays, AlwaysPauses, PTL DEF Spec, FrameSafe

-----------------------------------------------------------------------------
(* Steps and the script: which entry a step moves the control thread from. *)

(* What else stands where in SetPauseScript.                               *)
PausePlaces(r, i, e) ==
  /\ e.do = r <=> i \in {2, 4, 6, 8, 10}
  /\ i = 2 => e.on = "player"
  /\ i = 4 => e.on = "demux"
  /\ i = 6 => e.on = "vDecode"
  /\ i = 8 => e.on = "aDecode"
  /\ i = 10 => e.on = "audioPlay"
  /\ i = 5 => e.do = "await" /\ e.on = "demux"
  /\ i = 9 => e.do = "await" /\ e.on = "aDecode"

(* In SeekScript.                                                          *)
SeekPlaces(i, e) ==
  /\ i \in 1 .. 12 => PausePlaces("pause", i, e)
  /\ i \in 24 .. 35 => PausePlaces("resume", i - 23, e)
  /\ e.do = "pause" => i \in 1 .. 12
  /\ e.do = "resume" => i \in 24 .. 35
  /\ i = 14 => e.do = "clear" /\ e.on = "vDecode"
  /\ i = 15 => e.do = "flush" /\ e.on = "vDecode"
  /\ i = 16 => e.do = "clear" /\ e.on = "aDecode"
  /\ i = 17 => e.do = "flush" /\ e.on = "aDecode"
  /\ i = 18 => e.do = "clear" /\ e.on = "audioPlay"
  /\ e.do = "seek" <=> i = 19

(* And in OpenScript.                                                      *)
OpenPlaces(i, e) ==
  /\ e.do = "exit" => i = CASE e.on = "player" -> 2 [] e.on = "demux" -> 4 [] e.on = "vDecode" -> 6
                            [] e.on = "aDecode" -> 8 [] OTHER -> 10
  /\ i = 4 => e.do = "exit" /\ e.on = "demux"
  /\ i = 7 => e.do = "join" /\ e.on = "vDecode"
  /\ i = 13 => e.do = "flush" /\ e.on = "vDecode"
  /\ i = 15 => e.do = "flush" /\ e.on = "aDecode"
  /\ i = 16 => e.do = "clear" /\ e.on = "audioPlay"
  /\ i = 27 => e.do = "open" /\ e.on = "demux"
  /\ i = 36 => e.do = "start" /\ e.on = "vDecode"
  /\ i = 37 => e.do = "start" /\ e.on = "demux"
  /\ i = 43 => e.do = "start" /\ e.on = "player"
  /\ e.do = "withdraw" => e.on = "audioPlay"

(* SetPause() of the parts in their order.                                 *)
LEMMA PausePlaced ==
  \A r \in {"pause", "resume"}, i \in 1 .. 12 : PausePlaces(r, i, SetPauseScript(r)[i])
  BY DEF PausePlaces, SetPauseScript, Do

(* Seek() by its entries.                                                  *)
LEMMA SeekPlaced == \A i \in 1 .. 35 : SeekPlaces(i, SeekScript[i])
<1> SUFFICES ASSUME NEW i \in 1 .. 35 PROVE SeekPlaces(i, SeekScript[i])
  OBVIOUS
<1> DEFINE front == SetPauseScript("pause") \o SeekParts
<1>0. /\ Glued(SetPauseScript("pause"), SeekParts, front, 12, 11)
      /\ Glued(front, SetPauseScript("resume"), SeekScript, 23, 12)
  BY SeekIsGlued
<1> HIDE DEF front
<1>1. CASE i <= 12
  <2>1. i \in 1 .. 12 /\ i \in 1 .. 23
    BY <1>1
  <2>2. SeekScript[i] = SetPauseScript("pause")[i]
    BY <1>0, <2>1 DEF Glued
  <2>3. PausePlaces("pause", i, SetPauseScript("pause")[i])
    BY <2>1, PausePlaced
  <2>4. SetPauseScript("pause")[i].do \in {"lock", "unlock", "await", "pause"}
    BY <2>1, PauseTable DEF PauseFacts
  <2> QED BY <2>1, <2>2, <2>3, <2>4 DEF SeekPlaces
<1>2. CASE i > 12 /\ i <= 23
  <2>1. i \in 12 + 1 .. 12 + 11 /\ i \in 1 .. 23
    BY <1>2
  <2>2. SeekScript[i] = front[i]
    BY <1>0, <2>1 DEF Glued
  <2>3. front[i] = SeekParts[i - 12]
    BY <1>0, <2>1, Zenon DEF Glued
  <2>4. SeekPlaces(i, SeekParts[i - 12])
    BY <1>2 DEF SeekPlaces, SeekParts, Do
  <2> QED BY <2>2, <2>3, <2>4
<1>3. CASE i > 23
  <2>1. i \in 23 + 1 .. 23 + 12 /\ i - 23 \in 1 .. 12
    BY <1>3
  <2>2. SeekScript[i] = SetPauseScript("resume")[i - 23]
    BY <1>0, <2>1, Zenon DEF Glued
  <2>3. PausePlaces("resume", i - 23, SetPauseScript("resume")[i - 23])
    BY <2>1, PausePlaced
  <2>4. SetPauseScript("resume")[i - 23].do \in {"lock", "unlock", "await", "resume"}
    BY <2>1, PauseTable DEF PauseFacts
  <2> QED BY <1>3, <2>1, <2>2, <2>3, <2>4 DEF SeekPlaces
<1> QED BY <1>1, <1>2, <1>3

(* Open() by its entries.                                                  *)
LEMMA OpenPlaced == \A i \in 1 .. 44 : OpenPlaces(i, OpenScript[i])
<1> SUFFICES ASSUME NEW i \in 1 .. 44 PROVE OpenPlaces(i, OpenScript[i])
  OBVIOUS
<1>1. CASE i <= 24
  <2>1. OpenScript[i] = CloseScript[i]
    BY <1>1, OpenAt
  <2> QED BY <1>1, <2>1 DEF OpenPlaces, CloseScript, Do
<1>2. CASE i \in 25 .. 34
  <2>1. OpenScript[i] = OpenParts[i - 24]
    BY <1>2, OpenAt
  <2> QED BY <1>2, <2>1 DEF OpenPlaces, OpenParts, Do
<1>3. CASE i \in 35 .. 44
  <2>1. OpenScript[i] = StartScript[i - 34]
    BY <1>3, OpenAt
  <2> QED BY <1>3, <2>1 DEF OpenPlaces, StartScript, Do
<1> QED BY <1>1, <1>2, <1>3

(* The entry that comes next.                                              *)
LEMMA EntryPlaced ==
  ASSUME CallOK, op # "idle"
  PROVE  /\ op = "open" => OpenPlaces(ip, Entry)
         /\ op = "seek" => SeekPlaces(ip, Entry)
         /\ op \in {"pause", "resume"} => PausePlaces(op, ip, Entry)
<1>1. op \in DOMAIN Script /\ ip \in 1 .. Size(op)
  BY EntryOK
<1>2. op = "open" => OpenPlaces(ip, Entry)
  BY <1>1, Scripts, OpenPlaced DEF Entry, Size
<1>3. op = "seek" => SeekPlaces(ip, Entry)
  BY <1>1, Scripts, SeekPlaced DEF Entry, Size
<1>4. op \in {"pause", "resume"} => PausePlaces(op, ip, Entry)
  BY <1>1, Scripts, PausePlaced DEF Entry, Size
<1> QED BY <1>2, <1>3, <1>4

(* To the next entry, or back to the application.                          *)
GoesOn ==
  \/ op' = op /\ ip' = ip + 1 /\ ip < Size(op)
  \/ op' = "idle" /\ ip' = 1 /\ ip = Size(op)

(* How a script goes on.                                                   *)
LEMMA ContinueMoves ==
  ASSUME CallOK, op # "idle", Continue
  PROVE  GoesOn
<1>1. op \in DOMAIN Script /\ ip \in 1 .. Size(op) /\ Size(op) \in Nat
  BY EntryOK
<1>2. Len(Script[op]) = Size(op)
  BY <1>1, Scripts
<1> QED BY <1>1, <1>2 DEF Continue, Goto, GoesOn

(* How it jumps.                                                           *)
LEMMA GotoMoves ==
  ASSUME CallOK, op # "idle", NEW i \in 1 .. Size(op), Goto(i)
  PROVE  op' = op /\ ip' = i
<1>1. op \in DOMAIN Script /\ Size(op) \in Nat
  BY EntryOK
<1>2. Len(Script[op]) = Size(op)
  BY <1>1, Scripts
<1> QED BY <1>1, <1>2 DEF Goto

(* The moves of the control thread.                                        *)
ScriptStep ==
  \/ UNCHANGED <<op, ip>>
  \/ Call /\ op = "idle" /\ op' \in DOMAIN Script /\ ip = 1 /\ ip' = 1
  \/ op # "idle" /\ GoesOn
  \/ op = "open" /\ op' = op /\ ip = 27 /\ ip' = 34
  \/ op = "seek" /\ op' = op /\ ip \in {20, 22} /\ ip' = 23
  \/ op = "seek" /\ op' = op /\ ip \in {21, 22} /\ ip' = 20

(* Every step is one of them.                                              *)
LEMMA ScriptMoves ==
  ASSUME PlayInv, [Next]_vars
  PROVE  ScriptStep
<1>0. CallOK
  BY DEF PlayInv
<1>1. CASE UNCHANGED vars
  BY <1>1 DEF vars, playerVars, ScriptStep
<1>2. CASE Call
  <2>1. op = "idle" /\ ip = 1 /\ ip' = 1
    BY <1>0, <1>2 DEF Call, CallOK
  <2>2. op' \in {"open", "pause", "resume", "seek"}
    BY <1>2 DEF Call, CallOpen, CallPlayOrPause, CallSeek
  <2> QED BY <1>2, <2>1, <2>2, Scripts DEF ScriptStep
<1>3. CASE Lock \/ Unlock \/ Request \/ Join \/ Await \/ StartPart \/ DecoderCall \/ AudioCall
  <2>1. op # "idle" /\ Continue
    BY <1>3 DEF Lock, Unlock, Request, Join, Await, StartPart, DecoderCall, AudioCall, At
  <2> QED BY <1>0, <2>1, ContinueMoves DEF ScriptStep
<1>4. CASE DemuxCall
  <2>1. op # "idle" /\ (Continue \/ (Entry.do = "open" /\ Part = "demux" /\ Goto(UnlockEntry)))
    BY <1>4 DEF DemuxCall, At
  <2>2. CASE Continue
    BY <1>0, <2>1, <2>2, ContinueMoves DEF ScriptStep
  <2>3. CASE Entry.do = "open" /\ Part = "demux" /\ Goto(UnlockEntry)
    <3>1. op = "open"
      BY <1>0, <2>1, <2>3, EntryOK, Scripts DEF SeekFacts, PauseFacts
    <3>2. ip = 27
      BY <1>0, <2>1, <2>3, <3>1, EntryOK DEF OpenFacts, Part
    <3>3. Goto(34) /\ 34 \in 1 .. Size(op)
      BY <2>3, <3>1, <3>2, UnlockOpen DEF Size
    <3> QED BY <1>0, <2>1, <3>1, <3>2, <3>3, GotoMoves DEF ScriptStep
  <2> QED BY <2>1, <2>2, <2>3
<1>5. CASE SeekRead \/ SeekRoute \/ SeekNotified \/ SeekRecv
  <2>1. /\ op # "idle" /\ Entry.do \in {"read", "route", "recv"}
        /\ \/ Continue
           \/ Entry.do # "read" /\ Goto(ReadEntry)
           \/ Entry.do # "route" /\ Goto(UnlockEntry)
           \/ UNCHANGED <<op, ip>>
    BY <1>5 DEF SeekRead, SeekRoute, SeekNotified, SeekRecv, At
  <2>2. /\ op = "seek" /\ Size(op) = 35 /\ ip \in {20, 21, 22}
        /\ Entry.do # "route" => ip \in {20, 22}
        /\ Entry.do # "read" => ip \in {21, 22}
    BY <1>0, <2>1, OnlySeek
  <2>3. CASE Continue
    BY <1>0, <2>1, <2>3, ContinueMoves DEF ScriptStep
  <2>4. CASE Entry.do # "read" /\ Goto(ReadEntry)
    <3>1. Goto(20) /\ 20 \in 1 .. Size(op)
      BY <2>2, <2>4, ReadIsThere
    <3> QED BY <1>0, <2>1, <2>2, <2>4, <3>1, GotoMoves DEF ScriptStep
  <2>5. CASE Entry.do # "route" /\ Goto(UnlockEntry)
    <3>1. Goto(23) /\ 23 \in 1 .. Size(op)
      BY <2>2, <2>5, UnlockSeek
    <3> QED BY <1>0, <2>1, <2>2, <2>5, <3>1, GotoMoves DEF ScriptStep
  <2> QED BY <2>1, <2>3, <2>4, <2>5 DEF ScriptStep
<1>6. CASE SeekNotify
  BY <1>6 DEF SeekNotify, playerVars, ScriptStep
<1>7. CASE \/ \E t \in DemuxThread : Demux(t)
           \/ \E t \in DecodeThread : Decode(t)
           \/ Play
           \/ \E t \in SyncThread : Sync(t)
  BY <1>7 DEF Demux, DemuxLoop, DemuxRead, DemuxNotify, Decode, DecodeLoop, DecodePacket, Show,
     Output, Sync, SyncLoop, SyncCopy, Play, playerVars, ScriptStep
<1> QED BY <1>1, <1>2, <1>3, <1>4, <1>5, <1>6, <1>7 DEF Next, Control

(* A thread of the pipeline or of the device leaves the script alone, and  *)
(* the flags the control thread writes.                                    *)
LEMMA ThreadSteps ==
  ASSUME \/ \E t \in DemuxThread : Demux(t)
         \/ \E t \in DecodeThread : Decode(t)
         \/ Play
         \/ \E t \in SyncThread : Sync(t)
  PROVE  UNCHANGED <<op, ip, isPause, isExit, ops, target, got, ic, epoch>>
<1>1. \A t \in DemuxThread : Demux(t) =>
        UNCHANGED <<op, ip, isPause, isExit, ops, target, got, ic, epoch>>
  BY DEF Demux, DemuxLoop, DemuxRead, DemuxNotify, EnterLoop, PausedLoop, Leave, Again, Advance,
     playerVars, demuxVars
<1>2. \A t \in DecodeThread : Decode(t) =>
        UNCHANGED <<op, ip, isPause, isExit, ops, target, got, ic, epoch>>
  BY DEF Decode, DecodeLoop, DecodePacket, Show, Output, Take, Send, Recv, DropPacket, TestOutput,
     PushFrame, EnterLoop, PausedLoop, Leave, Again, playerVars, demuxVars, flags
<1>3. Play => UNCHANGED <<op, ip, isPause, isExit, ops, target, got, ic, epoch>>
  BY DEF Play, Callback, Fire, PopFrame, Enqueue, EnterLoop, PausedLoop, Leave, Again, playerVars,
     demuxVars, flags
<1>4. \A t \in SyncThread : Sync(t) =>
        UNCHANGED <<op, ip, isPause, isExit, ops, target, got, ic, epoch>>
  BY DEF Sync, SyncLoop, SyncCopy, Leave, playerVars, demuxVars, flags
<1> QED BY <1>1, <1>2, <1>3, <1>4

(* When the script moves, what its entry says has been done.               *)
LEMMA EntryDone ==
  ASSUME [Next]_vars, op # "idle", ~UNCHANGED <<op, ip>>
  PROVE  /\ Entry.do = "exit" => RaiseExit(Part)
         /\ Entry.do = "pause" => RequestPause(Part, TRUE)
         /\ Entry.do = "resume" => RequestPause(Part, FALSE)
         /\ Entry.do = "start" => StartPart
         /\ Entry.do = "join" => Join
         /\ Entry.do = "await" => Await
         /\ Entry.do = "clear" => IF Part \in Decoder THEN DecoderCall /\ ClearQueue(Part)
                                                      ELSE AudioCall /\ ClearFrames
         /\ Entry.do = "flush" => DecoderCall /\ FlushCodec(Part)
         /\ Entry.do = "free" => DecoderCall /\ FreeCodec(Part)
         /\ Entry.do = "seek" => DemuxCall /\ SeekInput(target)
         /\ Entry.do = "open" /\ Part = "demux" => DemuxCall
         /\ Entry.do = "route" => SeekRoute \/ SeekNotified
         /\ Entry.do = "recv" => SeekRecv
<1> USE DEF At
<1>1. CASE Lock \/ Unlock \/ Join \/ Await \/ StartPart
  BY <1>1 DEF Lock, Unlock, Join, Await, StartPart
<1>2. CASE Request
  BY <1>2 DEF Request
<1>3. CASE DecoderCall
  BY <1>3 DEF DecoderCall, Decoder
<1>4. CASE AudioCall
  BY <1>4 DEF AudioCall, Decoder
<1>5. CASE DemuxCall
  BY <1>5 DEF DemuxCall, Decoder
<1>6. CASE SeekRead \/ SeekRoute \/ SeekNotified \/ SeekRecv
  BY <1>6 DEF SeekRead, SeekRoute, SeekNotified, SeekRecv
<1>7. ~SeekNotify /\ ~Call /\ ~UNCHANGED vars
  BY DEF SeekNotify, Call, vars, playerVars
<1> QED BY <1>1, <1>2, <1>3, <1>4, <1>5, <1>6, <1>7, ThreadSteps DEF Next, Control

(* Only SetPause() and Start() write isPause.                              *)
LEMMA PauseWriters ==
  ASSUME PlayInv, [Next]_vars
  PROVE  \/ UNCHANGED isPause
         \/ /\ op # "idle" /\ GoesOn /\ Part \in Object
            /\ \/ Entry.do = "pause" /\ isPause' = [isPause EXCEPT ![Part] = TRUE]
               \/ Entry.do = "resume" /\ isPause' = [isPause EXCEPT ![Part] = FALSE]
               \/ Entry.do = "start" /\ isPause' = [isPause EXCEPT ![Part] = FALSE]
<1>1. CASE Request \/ StartPart
  <2>1. op # "idle" /\ Continue
    BY <1>1 DEF Request, StartPart, At
  <2>2. GoesOn /\ Part \in Object
    BY <2>1, ContinueMoves, EntryOK, Names DEF PlayInv, Part, Entries
  <2> QED BY <1>1, <2>1, <2>2 DEF Request, StartPart, At, RaiseExit, RequestPause, WithdrawExit, Start
<1>2. CASE Call \/ UNCHANGED vars
  BY <1>2 DEF Call, CallOpen, CallPlayOrPause, CallSeek, Acknowledge, vars, flags
<1>3. CASE Control /\ ~Request /\ ~StartPart
  BY <1>3 DEF Control, Lock, Unlock, Join, Await, DecoderCall, AudioCall, DemuxCall, SeekRead,
     SeekRoute, SeekNotified, SeekRecv, SeekNotify, flags
<1> QED BY <1>1, <1>2, <1>3, ThreadSteps DEF Next

(* Only Stop(), Start() and StartPlay() write isExit.                      *)
LEMMA ExitWriters ==
  ASSUME PlayInv, [Next]_vars
  PROVE  \/ UNCHANGED isExit
         \/ /\ op # "idle" /\ GoesOn /\ Part \in Object
            /\ \/ Entry.do = "exit" /\ isExit' = [isExit EXCEPT ![Part] = TRUE]
               \/ Entry.do = "withdraw" /\ isExit' = [isExit EXCEPT !["audioPlay"] = FALSE]
               \/ Entry.do = "start" /\ isExit' = [isExit EXCEPT ![Part] = FALSE]
<1>1. CASE Request \/ StartPart
  <2>1. op # "idle" /\ Continue
    BY <1>1 DEF Request, StartPart, At
  <2>2. GoesOn /\ Part \in Object
    BY <2>1, ContinueMoves, EntryOK, Names DEF PlayInv, Part, Entries
  <2> QED BY <1>1, <2>1, <2>2 DEF Request, StartPart, At, RaiseExit, RequestPause, WithdrawExit, Start
<1>2. CASE Call \/ UNCHANGED vars
  BY <1>2 DEF Call, CallOpen, CallPlayOrPause, CallSeek, Acknowledge, vars, flags
<1>3. CASE Control /\ ~Request /\ ~StartPart
  BY <1>3 DEF Control, Lock, Unlock, Join, Await, DecoderCall, AudioCall, DemuxCall, SeekRead,
     SeekRoute, SeekNotified, SeekRecv, SeekNotify, flags
<1> QED BY <1>1, <1>2, <1>3, ThreadSteps DEF Next

-----------------------------------------------------------------------------
(* What a pause asks for.                                                  *)

(* PlayOrPause() returns with the video decoder and the audio output asked *)
(* to pause, or with the player asked to go on.                            *)
AskedInv ==
  /\ op = "idle" /\ isPause["player"] => isPause["vDecode"] /\ isPause["audioPlay"]
  /\ op = "pause" => /\ ip \in 7 .. 12 => isPause["vDecode"]
                     /\ ip \in 11 .. 12 => isPause["audioPlay"]
  /\ op = "resume" => (ip \in 3 .. 12 => ~isPause["player"])
  /\ op = "seek" => (ip \in 26 .. 35 => ~isPause["player"])
  /\ op = "open" => (ip = 44 => ~isPause["player"])

(* What an entry does to one of these flags.                               *)
LEMMA PauseAtEntry ==
  ASSUME PlayInv, [Next]_vars, NEW o \in Object
  PROVE  /\ \/ isPause'[o] = isPause[o]
            \/ /\ op # "idle" /\ GoesOn /\ Part = o
               /\ \/ Entry.do = "pause" /\ isPause'[o]
                  \/ Entry.do \in {"resume", "start"} /\ ~isPause'[o]
         /\ op # "idle" /\ ~UNCHANGED <<op, ip>> /\ Part = o /\ Entry.do = "pause" => isPause'[o]
         /\ op # "idle" /\ ~UNCHANGED <<op, ip>> /\ Part = o /\ Entry.do \in {"resume", "start"} =>
              ~isPause'[o]
<1>0. isPause \in [Object -> BOOLEAN]
  BY DEF PlayInv, ThreadsOK
<1>1. \/ isPause'[o] = isPause[o]
      \/ /\ op # "idle" /\ GoesOn /\ Part = o
         /\ \/ Entry.do = "pause" /\ isPause'[o]
            \/ Entry.do \in {"resume", "start"} /\ ~isPause'[o]
  BY <1>0, PauseWriters
<1>2. ASSUME op # "idle", ~UNCHANGED <<op, ip>>, Part = o
      PROVE  /\ Entry.do = "pause" => isPause'[o]
             /\ Entry.do \in {"resume", "start"} => ~isPause'[o]
  BY <1>0, <1>2, EntryDone DEF RequestPause, StartPart, Start
<1> QED BY <1>1, <1>2

(* Each entry keeps to that.                                               *)
LEMMA StepAsked ==
  ASSUME PlayInv, AskedInv, [Next]_vars
  PROVE  AskedInv'
<1>0. CallOK /\ ScriptStep /\ {"player", "vDecode", "audioPlay"} \subseteq Object
  BY ScriptMoves, Names DEF PlayInv, Decoder
<1>1. CASE UNCHANGED <<op, ip>>
  <2>1. \A o \in {"player", "vDecode", "audioPlay"} :
          isPause'[o] = isPause[o] \/ (op # "idle" /\ GoesOn)
    BY <1>0, PauseAtEntry
  <2>2. op # "idle" => ~GoesOn
    BY <1>0, <1>1, EntryOK DEF GoesOn
  <2> QED BY <1>1, <2>1, <2>2 DEF AskedInv
<1>2. CASE op = "idle" /\ ~UNCHANGED <<op, ip>>
  <2>1. op' \in {"open", "pause", "resume", "seek"} /\ ip' = 1
    BY <1>2, <1>0, Scripts, Zenon DEF ScriptStep
  <2> QED BY <2>1 DEF AskedInv
<1>3. CASE op # "idle" /\ ~UNCHANGED <<op, ip>>
  <2>0. /\ ip \in 1 .. Size(op) /\ op \in {"open", "pause", "resume", "seek"}
        /\ GoesOn \/ (op = "open" /\ op' = op /\ ip' = 34) \/ (op = "seek" /\ op' = op /\ ip' \in {20, 23})
    BY <1>0, <1>3, EntryOK, Scripts DEF ScriptStep
  <2>1. CASE op = "open"
    <3>1. ip = 43 => ~isPause'["player"]
      BY <1>0, <1>3, <2>1, EntryPlaced, PauseAtEntry DEF OpenPlaces, Part
    <3>2. ip = 44 => isPause'["player"] = isPause["player"]
      BY <1>0, <1>3, <2>1, EntryOK, PauseAtEntry DEF OpenFacts
    <3> QED BY <2>0, <2>1, <3>1, <3>2 DEF AskedInv, GoesOn, Size
  <2>2. CASE op = "pause"
    <3>1. ip = 6 => isPause'["vDecode"]
      BY <1>0, <1>3, <2>2, EntryPlaced, PauseAtEntry DEF PausePlaces, Part
    <3>2. ip = 10 => isPause'["audioPlay"]
      BY <1>0, <1>3, <2>2, EntryPlaced, PauseAtEntry DEF PausePlaces, Part
    <3>3. \A o \in {"vDecode", "audioPlay"} : isPause[o] => isPause'[o]
      BY <1>0, <1>3, <2>2, EntryOK, PauseAtEntry DEF PauseFacts
    <3> QED BY <2>0, <2>2, <3>1, <3>2, <3>3 DEF AskedInv, GoesOn, Size
  <2>3. CASE op = "resume"
    <3>1. ip = 2 => ~isPause'["player"]
      BY <1>0, <1>3, <2>3, EntryPlaced, PauseAtEntry DEF PausePlaces, Part
    <3>2. ~isPause["player"] => ~isPause'["player"]
      BY <1>0, <1>3, <2>3, EntryOK, PauseAtEntry DEF PauseFacts
    <3> QED BY <2>0, <2>3, <3>1, <3>2 DEF AskedInv, GoesOn, Size
  <2>4. CASE op = "seek"
    <3>1. ip = 25 => ~isPause'["player"]
      <4>1. ASSUME ip = 25 PROVE Entry.do = "resume" /\ Part = "player"
        <5>1. PausePlaces("resume", 2, Entry)
          BY <1>0, <1>3, <2>4, <4>1, EntryPlaced DEF SeekPlaces
        <5> QED BY <5>1 DEF PausePlaces, Part
      <4> QED BY <1>0, <1>3, <4>1, PauseAtEntry
    <3>2. ip \in 24 .. 35 /\ ~isPause["player"] => ~isPause'["player"]
      BY <1>0, <1>3, <2>4, EntryPlaced, PauseAtEntry DEF SeekPlaces
    <3> QED BY <2>0, <2>4, <3>1, <3>2 DEF AskedInv, GoesOn, Size
  <2> QED BY <2>0, <2>1, <2>2, <2>3, <2>4
<1> QED BY <1>1, <1>2, <1>3

-----------------------------------------------------------------------------
(* Who moves which threads.                                                *)

(* The threads of an object stay where they are.                           *)
SameThreads(o) ==
  /\ \A k \in Slot : pc'[<<o, k>>] = pc[<<o, k>>]
  /\ isRunning'[o] = isRunning[o]

(* What one thread may do to the labels and to isRunning.                  *)
OwnMoves(t) ==
  /\ UNCHANGED pc \/ \E l : pc' = [pc EXCEPT ![t] = l]
  /\ UNCHANGED isRunning \/ \E b : isRunning' = [isRunning EXCEPT ![Obj(t)] = b]

(* It does no more.                                                        *)
LEMMA OwnSteps ==
  ASSUME NEW t,
         \/ Demux(t)
         \/ Decode(t)
         \/ t = Device /\ Play
         \/ Obj(t) = "player" /\ Sync(t)
  PROVE  OwnMoves(t)
<1>1. \A body : Again(t, body) => \E l : pc' = [pc EXCEPT ![t] = l]
  BY DEF Again, GoTo
<1>2. \A body : EnterLoop(t, body) \/ PausedLoop(t, body) \/ Leave(t) => OwnMoves(t)
  BY <1>1 DEF EnterLoop, PausedLoop, Leave, GoTo, OwnMoves
<1>3. CASE Demux(t)
  BY <1>1, <1>2, <1>3 DEF Demux, DemuxLoop, DemuxRead, DemuxNotify, GoTo, OwnMoves
<1>4. CASE Decode(t)
  <2>1. CASE DecodeLoop(t) \/ DecodePacket(t)
    BY <1>1, <1>2, <2>1 DEF DecodeLoop, DecodePacket, Take, Send, Recv, DropPacket, GoTo, flags,
       OwnMoves
  <2>2. CASE Show(t) \/ Output(t)
    BY <2>2 DEF Show, Output, TestOutput, PushFrame, GoTo, flags, OwnMoves
  <2> QED BY <1>4, <2>1, <2>2 DEF Decode
<1>5. CASE t = Device /\ Play
  BY <1>1, <1>2, <1>5 DEF Play, Callback, Fire, PopFrame, Enqueue, GoTo, flags, OwnMoves
<1>6. CASE Obj(t) = "player" /\ Sync(t)
  BY <1>2, <1>6 DEF Sync, SyncLoop, SyncCopy, SyncAgain, GoTo, flags, OwnMoves
<1> QED BY <1>3, <1>4, <1>5, <1>6

(* So the threads of one object move by a step of one of them, or because  *)
(* Start() adds one.                                                       *)
LEMMA WhoMoves ==
  ASSUME PlayInv, [Next]_vars, NEW o \in Object
  PROVE  \/ SameThreads(o)
         \/ StartPart /\ Part = o
         \/ o = "demux" /\ \E t \in DemuxThread : Demux(t)
         \/ \E t \in DecodeThread : Obj(t) = o /\ Decode(t)
         \/ o = "audioPlay" /\ Play
         \/ o = "player" /\ \E t \in SyncThread : Sync(t)
<1>0. /\ pc \in [Thread -> Label] /\ isRunning \in [Object -> BOOLEAN]
      /\ \A k \in Slot : <<o, k>> \in Thread
  BY DEF PlayInv, ThreadsOK, Thread
<1>1. ASSUME NEW t \in Thread, Obj(t) \in Object, Obj(t) # o, OwnMoves(t) PROVE SameThreads(o)
  <2>1. \A k \in Slot : <<o, k>> # t
    BY <1>1 DEF Obj
  <2> QED BY <1>0, <1>1, <2>1 DEF OwnMoves, SameThreads
<1>2. ASSUME UNCHANGED <<pc, isRunning>> PROVE SameThreads(o)
  BY <1>2 DEF SameThreads
<1>3. UNCHANGED vars \/ Call => UNCHANGED <<pc, isRunning>>
  BY DEF vars, flags, Call, CallOpen, CallPlayOrPause, CallSeek, Acknowledge
<1>4. Control /\ ~StartPart => UNCHANGED <<pc, isRunning>>
  BY DEF Control, Lock, Unlock, Request, Join, Await, DecoderCall, AudioCall, DemuxCall, SeekRead,
     SeekRoute, SeekNotified, SeekRecv, SeekNotify, RaiseExit, RequestPause, WithdrawExit, flags
<1>5. ASSUME StartPart, Part # o PROVE SameThreads(o)
  <2>1. op # "idle" /\ Spawn(Part) /\ UNCHANGED isRunning
    BY <1>5 DEF StartPart, At, Start
  <2>2. Part \in Object
    BY <2>1, EntryOK, Names DEF PlayInv, Part, Entries
  <2>3. PICK k \in Slot : pc' = [pc EXCEPT ![<<Part, k>>] = "spawned"]
    BY <2>1, <2>2, SpawnOK
  <2>4. \A l \in Slot : <<o, l>> # <<Part, k>>
    BY <1>5
  <2> QED BY <1>0, <2>1, <2>3, <2>4 DEF SameThreads
<1>6. ASSUME NEW t \in DemuxThread, Demux(t), o # "demux" PROVE SameThreads(o)
  BY <1>1, <1>6, OwnSteps, Names, Kinds4
<1>7. ASSUME NEW t \in DecodeThread, Decode(t), Obj(t) # o PROVE SameThreads(o)
  BY <1>1, <1>7, OwnSteps, Names
<1>8. ASSUME Play, o # "audioPlay" PROVE SameThreads(o)
  BY <1>1, <1>8, OwnSteps, Names, Kinds4
<1>9. ASSUME NEW t \in SyncThread, Sync(t), o # "player" PROVE SameThreads(o)
  BY <1>1, <1>9, OwnSteps, Names, Kinds4
<1> QED BY <1>2, <1>3, <1>4, <1>5, <1>6, <1>7, <1>8, <1>9 DEF Next

(* An object whose Start() waits for the last thread has one at most.      *)
LEMMA StepOneThread ==
  ASSUME PlayInv, [Next]_vars, NEW o \in {"vDecode", "aDecode", "demux"}, o \notin Overlapping,
         OneThread(o)
  PROVE  OneThread(o)'
<1>0. /\ pc \in [Thread -> Label] /\ o \in Object
      /\ \A k \in Slot : <<o, k>> \in Thread
  BY Names DEF PlayInv, ThreadsOK, Thread, Decoder
<1>1. CASE SameThreads(o)
  BY <1>1 DEF SameThreads, OneThread
<1>2. CASE StartPart /\ Part = o
  <2>1. Spawn(o) /\ \A k \in Slot : pc[<<o, k>>] = "none"
    BY <1>2 DEF StartPart, Start, Live
  <2>2. PICK j \in Slot : pc' = [pc EXCEPT ![<<o, j>>] = "spawned"]
    BY <1>0, <2>1, SpawnOK
  <2>3. \A k \in Slot : pc'[<<o, k>>] = IF k = j THEN "spawned" ELSE "none"
    BY <1>0, <2>1, <2>2
  <2> QED BY <2>3 DEF OneThread
<1>3. ASSUME NEW t \in DemuxThread \cup DecodeThread, Obj(t) = o, OwnMoves(t), pc[t] # "none"
      PROVE  OneThread(o)'
  <2>1. t = <<o, t[2]>> /\ t[2] \in Slot
    BY <1>3 DEF DemuxThread, DecodeThread, Obj
  <2>2. \A k \in Slot : k # t[2] => <<o, k>> # t /\ pc[<<o, k>>] = "none"
    BY <1>3, <2>1 DEF OneThread
  <2>3. \A k \in Slot : k # t[2] => pc'[<<o, k>>] = "none"
    BY <1>0, <1>3, <2>2 DEF OwnMoves
  <2> QED BY <2>3 DEF OneThread
<1>4. ASSUME NEW t \in DemuxThread, Demux(t), o = "demux" PROVE OneThread(o)'
  <2>1. pc[t] # "none"
    BY <1>4 DEF Demux, DemuxLoop, DemuxRead, DemuxNotify, EnterLoop, PausedLoop, Leave
  <2> QED BY <1>3, <1>4, <2>1, OwnSteps, Kinds4
<1>5. ASSUME NEW t \in DecodeThread, Decode(t), Obj(t) = o PROVE OneThread(o)'
  <2>1. pc[t] # "none"
    BY <1>5 DEF Decode, DecodeLoop, DecodePacket, Show, Output, Take, Send, Recv, DropPacket,
       TestOutput, PushFrame, EnterLoop, PausedLoop, Leave
  <2> QED BY <1>3, <1>5, <2>1, OwnSteps
<1> QED BY <1>0, <1>1, <1>2, <1>4, <1>5, WhoMoves

-----------------------------------------------------------------------------
(* The worker of a decoder, as a way through its labels.                   *)

(* Where Again() goes.                                                     *)
Next2(o, body) == IF isExit[o] THEN "leave" ELSE IF isPause[o] THEN "head" ELSE body

(* The worker leaves its codec alone.                                      *)
OutsideCodec(t) ==
  /\ \/ pc[t] \in {"spawned", "head", "take", "drop"} /\ pc'[t] = Next2(Obj(t), "take")
     \/ pc[t] = "leave" /\ pc'[t] = "none"
     \/ pc[t] = "take" /\ pc'[t] = "send"
     \/ pc[t] = "send" /\ pc'[t] = "drop"
     \/ pc[t] = "recv" /\ pc'[t] = "drop" /\ (isExit[Obj(t)] \/ ~HasFrame(Obj(t)))
     \/ pc[t] = "deliver" /\ pc'[t] \in {"recv", "push"}
     \/ pc[t] = "push" /\ pc'[t] \in {"recv", "deliver"}
  /\ codec'[Obj(t)] = codec[Obj(t)]

(* It sends a packet or receives a frame.                                  *)
InsideCodec(t) ==
  \/ /\ pc[t] = "send" /\ pc'[t] = "recv" /\ Accepts(Obj(t))
     /\ codec'[Obj(t)] = Append(codec[Obj(t)], pck[t])
  \/ /\ pc[t] = "recv" /\ pc'[t] = "deliver" /\ HasFrame(Obj(t)) /\ ~isExit[Obj(t)]
     /\ codec'[Obj(t)] = Tail(codec[Obj(t)])
     /\ frame'[Obj(t)] = Head(codec[Obj(t)])

(* A step of a worker is one of these.                                     *)
LEMMA WorkerSteps ==
  ASSUME PlayInv, NEW t \in DecodeThread, Decode(t)
  PROVE  /\ pc' = [pc EXCEPT ![t] = pc'[t]]
         /\ OutsideCodec(t) \/ InsideCodec(t)
         /\ isRunning'[Obj(t)] = IF pc[t] = "spawned" THEN TRUE
                                 ELSE IF pc[t] = "leave" THEN FALSE ELSE isRunning[Obj(t)]
         /\ UNCHANGED opened
         /\ \A d \in Decoder \ {Obj(t)} : codec'[d] = codec[d]
<1>0. /\ pc \in [Thread -> Label] /\ t \in Thread /\ Obj(t) \in Decoder /\ Obj(t) \in Object
      /\ isRunning \in [Object -> BOOLEAN] /\ codec \in [Decoder -> Seq(Read)]
      /\ frame \in [Decoder -> Packet]
  BY Names DEF PlayInv, ThreadsOK, DecodersOK
<1>1. \A l : pc' = [pc EXCEPT ![t] = l] => pc'[t] = l /\ pc' = [pc EXCEPT ![t] = pc'[t]]
  BY <1>0
<1>2. Again(t, "take") => pc' = [pc EXCEPT ![t] = Next2(Obj(t), "take")]
  BY DEF Again, GoTo, Next2
<1>3. CASE DecodeLoop(t)
  <2>1. UNCHANGED <<codec, opened>>
    BY <1>3 DEF DecodeLoop, decodeVars
  <2>2. CASE EnterLoop(t, "take")
    BY <1>0, <1>1, <1>2, <2>1, <2>2 DEF EnterLoop, OutsideCodec
  <2>3. CASE PausedLoop(t, "take")
    BY <1>0, <1>1, <1>2, <2>1, <2>3 DEF PausedLoop, OutsideCodec
  <2>4. CASE Leave(t)
    BY <1>0, <1>1, <1>2, <2>1, <2>4 DEF Leave, GoTo, OutsideCodec
  <2> QED BY <1>3, <2>2, <2>3, <2>4 DEF DecodeLoop
<1>4. CASE Take(t)
  <2>1. pc[t] = "take" /\ UNCHANGED <<codec, opened, isRunning>>
    BY <1>4 DEF Take
  <2>2. Again(t, "take") \/ pc' = [pc EXCEPT ![t] = "send"]
    BY <1>4 DEF Take, GoTo
  <2> QED BY <1>0, <1>1, <1>2, <2>1, <2>2 DEF OutsideCodec
<1>5. CASE Send(t)
  <2>1. /\ pc[t] = "send" /\ UNCHANGED <<opened, isRunning>> /\ SendPacket(Obj(t), pck[t])
        /\ pc' = [pc EXCEPT ![t] = IF Accepts(Obj(t)) THEN "recv" ELSE "drop"]
    BY <1>5 DEF Send, GoTo, flags
  <2>2. /\ codec'[Obj(t)] = IF Accepts(Obj(t)) THEN Append(codec[Obj(t)], pck[t]) ELSE codec[Obj(t)]
        /\ \A d \in Decoder \ {Obj(t)} : codec'[d] = codec[d]
    BY <1>0, <2>1 DEF SendPacket
  <2>3. pc'[t] = IF Accepts(Obj(t)) THEN "recv" ELSE "drop"
    BY <1>0, <2>1
  <2> QED BY <1>1, <2>1, <2>2, <2>3 DEF OutsideCodec, InsideCodec
<1>6. CASE Recv(t)
  <2>1. pc[t] = "recv" /\ UNCHANGED <<opened, isRunning>>
    BY <1>6 DEF Recv, flags
  <2>2. CASE isExit[Obj(t)] \/ ~HasFrame(Obj(t))
    <3>1. pc' = [pc EXCEPT ![t] = "drop"] /\ UNCHANGED codec
      BY <1>6, <2>2 DEF Recv, RecvFrame, GoTo
    <3> QED BY <1>1, <2>1, <2>2, <3>1 DEF OutsideCodec
  <2>3. CASE ~isExit[Obj(t)] /\ HasFrame(Obj(t))
    <3>1. /\ pc' = [pc EXCEPT ![t] = "deliver"]
          /\ codec' = [codec EXCEPT ![Obj(t)] = Tail(@)]
          /\ frame' = [frame EXCEPT ![Obj(t)] = Head(codec[Obj(t)])]
      BY <1>6, <2>3 DEF Recv, RecvFrame, GoTo
    <3> QED BY <1>0, <1>1, <2>1, <2>3, <3>1 DEF InsideCodec
  <2> QED BY <2>2, <2>3
<1>7. CASE DropPacket(t)
  <2>1. pc[t] = "drop" /\ UNCHANGED <<codec, opened, isRunning>>
    BY <1>7 DEF DropPacket
  <2>2. Again(t, "take")
    BY <1>7 DEF DropPacket
  <2> QED BY <1>0, <1>1, <1>2, <2>1, <2>2 DEF OutsideCodec
<1>8. CASE Show(t)
  BY <1>0, <1>1, <1>8 DEF Show, GoTo, flags, decodeVars, OutsideCodec
<1>9. CASE Output(t)
  <2>1. UNCHANGED <<codec, opened, isRunning>>
    BY <1>9 DEF Output, TestOutput, PushFrame, flags, decodeVars
  <2>2. \/ pc[t] = "deliver" /\ \E l \in {"recv", "push"} : pc' = [pc EXCEPT ![t] = l]
        \/ pc[t] = "push" /\ \E l \in {"recv", "deliver"} : pc' = [pc EXCEPT ![t] = l]
    BY <1>9 DEF Output, TestOutput, PushFrame, GoTo
  <2> QED BY <1>0, <1>1, <2>1, <2>2 DEF OutsideCodec
<1> QED BY <1>3, <1>4, <1>5, <1>6, <1>7, <1>8, <1>9 DEF Decode, DecodePacket

-----------------------------------------------------------------------------
(* How Close() stops the video decoder.                                    *)

(* The entries of Open() from one place to another.                        *)
InOpen(first, last) == op = "open" /\ ip \in first .. last

(* Its one thread says that it runs; it is asked to leave between entry 6  *)
(* and its new Start(), has left its loop once the Join() at entry 7 has   *)
(* not been missed, and is not there at all in the first Open().           *)
StopInv ==
  /\ OneThread("vDecode")
  /\ \A k \in Slot : pc[<<"vDecode", k>>] \notin {"none", "spawned"} => isRunning["vDecode"]
  /\ isExit["vDecode"] => InOpen(7, 36)
  /\ InOpen(8, 36) /\ "vDecode" \notin Slow =>
       \A k \in Slot : pc[<<"vDecode", k>>] \in {"none", "spawned", "leave"}
  /\ InOpen(1, 36) /\ "open" \notin Operations => Live("vDecode") = {}

(* isExit of the video decoder.                                            *)
LEMMA StepExit ==
  ASSUME PlayInv, isExit["vDecode"] => InOpen(7, 36), [Next]_vars
  PROVE  isExit'["vDecode"] => InOpen(7, 36)'
<1>0. /\ CallOK /\ ScriptStep /\ isExit \in [Object -> BOOLEAN] /\ "vDecode" \in Object
      /\ op # "idle" => ip \in 1 .. Size(op) /\ (op = "open" => Size(op) = 44)
  BY ScriptMoves, Names, EntryOK DEF PlayInv, ThreadsOK, Decoder, Size
<1> SUFFICES ASSUME isExit'["vDecode"] PROVE InOpen(7, 36)'
  OBVIOUS
<1>1. CASE ~isExit["vDecode"]
  <2>1. op # "idle" /\ GoesOn /\ Entry.do = "exit" /\ Part = "vDecode"
    BY <1>0, <1>1, ExitWriters
  <2>2. op = "open" /\ ip = 6
    <3>1. op = "open"
      BY <1>0, <2>1, EntryOK, Scripts DEF SeekFacts, PauseFacts
    <3> QED BY <1>0, <2>1, <3>1, EntryPlaced DEF OpenPlaces, Part
  <2> QED BY <1>0, <2>1, <2>2 DEF GoesOn, InOpen
<1>2. CASE isExit["vDecode"]
  <2>1. op = "open" /\ ip \in 7 .. 36
    BY <1>2 DEF InOpen
  <2>2. ip = 36 => UNCHANGED <<op, ip>>
    <3>1. SUFFICES ASSUME ip = 36, ~UNCHANGED <<op, ip>> PROVE FALSE
      OBVIOUS
    <3>2. Entry.do = "start" /\ Part = "vDecode"
      BY <1>0, <2>1, <3>1, EntryPlaced DEF OpenPlaces, Part
    <3>3. StartPart
      BY <2>1, <3>1, <3>2, EntryDone
    <3> QED BY <1>0, <3>2, <3>3 DEF StartPart, Start
  <2> QED BY <1>0, <2>1, <2>2 DEF ScriptStep, GoesOn, InOpen
<1> QED BY <1>1, <1>2

(* A video decoder that is waited for has no thread in its loop.           *)
LEMMA VideoJoined ==
  ASSUME PlayInv, StopInv, Join, Part = "vDecode", "vDecode" \notin Slow
  PROVE  \A k \in Slot : pc[<<"vDecode", k>>] \in {"none", "spawned"}
<1>1. \A k \in Slot : <<"vDecode", k>> \in DecodeThread /\ Obj(<<"vDecode", k>>) = "vDecode"
  BY Names DEF Decoder
<1>2. \A k \in Slot : pc[<<"vDecode", k>>] \notin {"notify", "lock"}
  BY <1>1 DEF PlayInv, ThreadsOK, InLoop, Working
<1>3. ~Waiting("vDecode")
  BY <1>1, <1>2 DEF Waiting, Blocked
<1>4. ~isRunning["vDecode"]
  BY <1>3 DEF Join
<1> QED BY <1>4 DEF StopInv

(* Every step keeps to it.                                                 *)
LEMMA StepStop ==
  ASSUME PlayInv, StopInv, "vDecode" \notin Overlapping, [Next]_vars
  PROVE  StopInv'
<1>0. /\ CallOK /\ ScriptStep /\ "vDecode" \in Object /\ "vDecode" \in Decoder
      /\ isRunning \in [Object -> BOOLEAN] /\ pc \in [Thread -> Label]
      /\ \A k \in Slot : <<"vDecode", k>> \in Thread
      /\ op # "idle" => ip \in 1 .. Size(op) /\ (op = "open" => Size(op) = 44)
      /\ op = "open" => (ip \in 7 .. 36 => isExit["vDecode"])
  BY ScriptMoves, Names, EntryOK DEF PlayInv, ThreadsOK, Decoder, Size, Thread, StoppedOK
<1>1. OneThread("vDecode")' /\ (isExit'["vDecode"] => InOpen(7, 36)')
  BY StepOneThread, StepExit DEF StopInv
<1>2. \/ InOpen(8, 36)' => InOpen(8, 36)
      \/ InOpen(7, 7) /\ Join /\ Part = "vDecode"
  <2>1. CASE op = "open" /\ ip = 7 /\ ~UNCHANGED <<op, ip>>
    <3>1. Entry.do = "join" /\ Part = "vDecode"
      BY <1>0, <2>1, EntryPlaced DEF OpenPlaces, Part
    <3>2. Join
      BY <2>1, <3>1, EntryDone
    <3> QED BY <2>1, <3>1, <3>2 DEF InOpen
  <2>2. CASE ~(op = "open" /\ ip = 7) \/ UNCHANGED <<op, ip>>
    BY <1>0, <2>2 DEF ScriptStep, GoesOn, InOpen
  <2> QED BY <2>1, <2>2
<1>3. InOpen(1, 36)' /\ "open" \notin Operations => InOpen(1, 36)
  BY <1>0 DEF ScriptStep, GoesOn, InOpen, Call, CallOpen, CallPlayOrPause, CallSeek
<1>4. CASE SameThreads("vDecode")
  <2>1. \A k \in Slot : pc'[<<"vDecode", k>>] \notin {"none", "spawned"} => isRunning'["vDecode"]
    BY <1>4 DEF SameThreads, StopInv
  <2>2. InOpen(8, 36)' /\ "vDecode" \notin Slow =>
          \A k \in Slot : pc'[<<"vDecode", k>>] \in {"none", "spawned", "leave"}
    BY <1>2, <1>4, VideoJoined DEF SameThreads, StopInv
  <2>3. InOpen(1, 36)' /\ "open" \notin Operations => Live("vDecode")' = {}
    BY <1>3, <1>4 DEF SameThreads, StopInv, Live
  <2> QED BY <1>1, <2>1, <2>2, <2>3 DEF StopInv
<1>5. CASE StartPart /\ Part = "vDecode"
  <2>1. op # "idle" /\ Entry.do = "start" /\ Spawn("vDecode") /\ Live("vDecode") = {} /\ Continue
    BY <1>5 DEF StartPart, At, Start
  <2>2. op = "open" /\ ip = 36
    <3>1. op = "open"
      BY <1>0, <2>1, EntryOK, Scripts DEF SeekFacts, PauseFacts
    <3> QED BY <1>0, <1>5, <2>1, <3>1, EntryOK DEF OpenFacts, Part
  <2>3. ~InOpen(8, 36)' /\ ~InOpen(1, 36)'
    BY <1>0, <2>1, <2>2, ContinueMoves DEF GoesOn, InOpen
  <2>4. \A k \in Slot : pc'[<<"vDecode", k>>] \in {"none", "spawned"}
    <3>1. \A k \in Slot : pc[<<"vDecode", k>>] = "none"
      BY <2>1 DEF Live
    <3>2. PICK i \in Slot : pc' = [pc EXCEPT ![<<"vDecode", i>>] = "spawned"]
      BY <1>0, <2>1, SpawnOK
    <3> QED BY <1>0, <3>1, <3>2
  <2> QED BY <1>1, <2>3, <2>4 DEF StopInv
<1>6. ASSUME NEW t \in DecodeThread, Obj(t) = "vDecode", Decode(t)
      PROVE  StopInv'
  <2>1. /\ pc' = [pc EXCEPT ![t] = pc'[t]]
        /\ OutsideCodec(t) \/ InsideCodec(t)
        /\ isRunning'["vDecode"] = IF pc[t] = "spawned" THEN TRUE
                                   ELSE IF pc[t] = "leave" THEN FALSE ELSE isRunning["vDecode"]
    BY <1>6, WorkerSteps
  <2>2. t = <<"vDecode", t[2]>> /\ t[2] \in Slot /\ pc[t] # "none"
    BY <1>6, <2>1 DEF DecodeThread, Obj, OutsideCodec, InsideCodec
  <2>3. \A k \in Slot : k # t[2] => pc[<<"vDecode", k>>] = "none" /\ pc'[<<"vDecode", k>>] = "none"
    <3>1. SUFFICES ASSUME NEW k \in Slot, k # t[2]
                   PROVE  pc[<<"vDecode", k>>] = "none" /\ pc'[<<"vDecode", k>>] = "none"
      OBVIOUS
    <3>2. pc[<<"vDecode", k>>] = "none"
      BY <2>2, <3>1 DEF StopInv, OneThread
    <3>3. <<"vDecode", k>> # t /\ <<"vDecode", k>> \in Thread
      BY <1>0, <2>2, <3>1
    <3>4. pc'[<<"vDecode", k>>] = pc[<<"vDecode", k>>]
      BY <1>0, <2>1, <3>3
    <3> QED BY <3>2, <3>4
  <2>4. UNCHANGED <<op, ip, isExit>>
    BY <1>6, ThreadSteps
  <2>5. \A k \in Slot : pc'[<<"vDecode", k>>] \notin {"none", "spawned"} => isRunning'["vDecode"]
    <3>1. pc'[t] \notin {"none", "spawned"} => isRunning'["vDecode"]
      BY <2>1, <2>2 DEF OutsideCodec, InsideCodec, StopInv, Next2
    <3> QED BY <2>2, <2>3, <3>1
  <2>6. InOpen(8, 36)' /\ "vDecode" \notin Slow =>
          \A k \in Slot : pc'[<<"vDecode", k>>] \in {"none", "spawned", "leave"}
    <3>1. SUFFICES ASSUME InOpen(8, 36), "vDecode" \notin Slow
                   PROVE  pc'[t] \in {"none", "spawned", "leave"}
      BY <2>2, <2>3, <2>4 DEF InOpen
    <3>2. isExit["vDecode"] /\ pc[t] \in {"none", "spawned", "leave"}
      BY <1>0, <2>2, <3>1 DEF InOpen, StopInv
    <3> QED BY <1>6, <2>1, <3>2 DEF OutsideCodec, InsideCodec, Next2
  <2>7. InOpen(1, 36)' /\ "open" \notin Operations => FALSE
    BY <2>2, <2>4 DEF InOpen, StopInv, Live
  <2> QED BY <1>1, <2>5, <2>6, <2>7 DEF StopInv
<1> QED BY <1>0, <1>4, <1>5, <1>6, WhoMoves

-----------------------------------------------------------------------------
(* How many packets the video codec holds.                                 *)

One(b) == IF b THEN 1 ELSE 0
VideoAt(S) == \E k \in Slot : pc[<<"vDecode", k>>] \in S

(* All its frames have been received whenever its worker, or Seek(), is    *)
(* not on the way from a packet sent to the frames of it.  A worker that   *)
(* is stopped may miss the last one, and its Join() may be missed: then    *)
(* one packet can reach the codec after the flush of Close().              *)
DrainInv ==
  /\ opened["vDecode"] /\ ~InOpen(7, 36) =>
       Len(codec["vDecode"]) <= Delay + One(VideoAt({"recv"})) + One(op = "seek" /\ ip = 22)
  /\ InOpen(14, 36) => Len(codec["vDecode"]) + One(VideoAt({"take", "send"})) <= 1
  /\ InOpen(14, 36) /\ ("vDecode" \notin Slow \/ "open" \notin Operations) => codec["vDecode"] = <<>>

(* Who touches the video codec.                                            *)
LEMMA VideoCodec ==
  ASSUME PlayInv, [Next]_vars
  PROVE  \/ \E t \in DecodeThread : Obj(t) = "vDecode" /\ Decode(t)
         \/ SeekRoute
         \/ SeekRecv
         \/ /\ codec'["vDecode"] \in {codec["vDecode"], <<>>}
            /\ opened'["vDecode"] => opened["vDecode"] \/ InOpen(31, 31)'
<1>0. /\ CallOK /\ codec \in [Decoder -> Seq(Read)] /\ opened \in [Decoder -> BOOLEAN]
      /\ "vDecode" \in Decoder
  BY DEF PlayInv, DecodersOK, Decoder
<1>1. CASE UNCHANGED <<codec, opened>>
  BY <1>1
<1>2. UNCHANGED vars \/ Call => UNCHANGED <<codec, opened>>
  BY DEF vars, Call, decodeVars
<1>3. Control => UNCHANGED <<codec, opened>> \/ DecoderCall \/ SeekRoute \/ SeekRecv
  BY DEF Control, Lock, Unlock, Request, Join, Await, StartPart, AudioCall, DemuxCall, SeekRead,
     SeekNotified, SeekNotify, NotifyStep, decodeVars
<1>4. CASE DecoderCall
  <2>1. op # "idle" /\ Continue
    BY <1>4 DEF DecoderCall, At
  <2>2. CASE ~(Entry.do = "open" /\ Part = "vDecode")
    BY <1>0, <1>4, <2>2 DEF DecoderCall, At, ClearQueue, FlushCodec, FreeCodec, OpenCodec
  <2>3. CASE Entry.do = "open" /\ Part = "vDecode"
    <3>1. op = "open"
      BY <1>0, <2>1, <2>3, EntryOK, Scripts DEF SeekFacts, PauseFacts
    <3>2. ip = 30
      BY <1>0, <2>1, <2>3, <3>1, EntryOK DEF OpenFacts, Part
    <3>3. InOpen(31, 31)'
      BY <1>0, <2>1, <3>1, <3>2, ContinueMoves DEF GoesOn, InOpen, Size
    <3>4. UNCHANGED codec
      BY <1>4, <2>3 DEF DecoderCall, At, OpenCodec
    <3> QED BY <3>3, <3>4
  <2> QED BY <2>2, <2>3
<1>5. (\E t \in DemuxThread : Demux(t)) \/ Play \/ (\E t \in SyncThread : Sync(t)) =>
        UNCHANGED <<codec, opened>>
  BY DEF Demux, DemuxLoop, DemuxRead, DemuxNotify, NotifyStep, Play, Sync, SyncLoop, SyncCopy,
     decodeVars
<1>6. ASSUME NEW t \in DecodeThread, Decode(t), Obj(t) # "vDecode"
      PROVE  codec'["vDecode"] = codec["vDecode"] /\ UNCHANGED opened
  BY <1>0, <1>6, WorkerSteps
<1> QED BY <1>1, <1>2, <1>3, <1>4, <1>5, <1>6 DEF Next

(* The codec can have no frame left before the pause once the worker is    *)
(* held: the video decoder is never missed by a Join(), or there is but    *)
(* one Open(), or the packet it may hold then is no frame yet.             *)
CatchesUp == "vDecode" \notin Slow \/ "open" \notin Operations \/ Delay > 0

(* The worker.                                                             *)
LEMMA DrainDecode ==
  ASSUME PlayInv, StopInv, DrainInv, NEW t \in DecodeThread, Obj(t) = "vDecode", Decode(t)
  PROVE  DrainInv'
<1>1. /\ pc' = [pc EXCEPT ![t] = pc'[t]] /\ UNCHANGED <<opened, op, ip, isExit>>
      /\ OutsideCodec(t) \/ InsideCodec(t)
  BY WorkerSteps, ThreadSteps
<1>2. t = <<"vDecode", t[2]>> /\ t[2] \in Slot /\ pc[t] # "none"
  BY <1>1 DEF DecodeThread, Obj, OutsideCodec, InsideCodec
<1>3. /\ pc \in [Thread -> Label] /\ codec["vDecode"] \in Seq(Read) /\ Delay \in Nat
      /\ \A k \in Slot : <<"vDecode", k>> \in Thread
      /\ opened["vDecode"] \in BOOLEAN
      /\ InOpen(7, 36) => isExit["vDecode"]
  BY Names, DecodeAssumption DEF PlayInv, ThreadsOK, DecodersOK, Decoder, Thread, StoppedOK, InOpen
<1>4. \A k \in Slot : k # t[2] => pc[<<"vDecode", k>>] = "none" /\ pc'[<<"vDecode", k>>] = "none"
  <2>1. SUFFICES ASSUME NEW k \in Slot, k # t[2]
                 PROVE  pc[<<"vDecode", k>>] = "none" /\ pc'[<<"vDecode", k>>] = "none"
    OBVIOUS
  <2>2. pc[<<"vDecode", k>>] = "none"
    BY <1>2, <2>1 DEF StopInv, OneThread
  <2>3. <<"vDecode", k>> # t /\ <<"vDecode", k>> \in Thread
    BY <1>2, <1>3, <2>1
  <2>4. pc'[<<"vDecode", k>>] = pc[<<"vDecode", k>>]
    BY <1>1, <1>3, <2>3
  <2> QED BY <2>2, <2>4
<1>5. \A S \in {{"recv"}, {"take", "send"}} :
        /\ VideoAt(S) <=> pc[t] \in S
        /\ VideoAt(S)' <=> pc'[t] \in S
  BY <1>2, <1>4 DEF VideoAt
<1>a. /\ One(VideoAt({"recv"})) = One(pc[t] = "recv")
      /\ One(VideoAt({"take", "send"})) = One(pc[t] \in {"take", "send"})
  BY <1>5 DEF One
<1>6. ASSUME opened["vDecode"], ~InOpen(7, 36)
      PROVE  Len(codec'["vDecode"]) <= Delay + One(pc'[t] = "recv") + One(op = "seek" /\ ip = 22)
  <2>1. /\ Len(codec["vDecode"]) \in Nat
        /\ Len(codec["vDecode"]) <= Delay + One(pc[t] = "recv") + One(op = "seek" /\ ip = 22)
        /\ ~isExit["vDecode"]
    BY <1>3, <1>a, <1>6 DEF DrainInv, StopInv
  <2>2. CASE OutsideCodec(t)
    <3>1. pc[t] = "recv" => Len(codec["vDecode"]) <= Delay
      BY <1>3, <1>6, <2>1, <2>2 DEF OutsideCodec, HasFrame
    <3>2. codec'["vDecode"] = codec["vDecode"]
      BY <2>2 DEF OutsideCodec
    <3> QED BY <1>3, <2>1, <3>1, <3>2 DEF One
  <2>3. CASE pc[t] = "send" /\ pc'[t] = "recv" /\ codec'["vDecode"] = Append(codec["vDecode"], pck[t])
    <3>1. Len(codec'["vDecode"]) = Len(codec["vDecode"]) + 1
      BY <1>3, <2>3
    <3> QED BY <1>3, <2>1, <2>3, <3>1 DEF One
  <2>4. CASE pc[t] = "recv" /\ HasFrame("vDecode") /\ codec'["vDecode"] = Tail(codec["vDecode"])
    <3>1. codec["vDecode"] # <<>>
      BY <1>3, <2>4 DEF HasFrame
    <3>2. Len(codec'["vDecode"]) = Len(codec["vDecode"]) - 1
      BY <1>3, <2>4, <3>1
    <3> QED BY <1>3, <2>1, <2>4, <3>2 DEF One
  <2> QED BY <1>1, <2>2, <2>3, <2>4 DEF InsideCodec
<1>7. ASSUME InOpen(14, 36)
      PROVE  Len(codec'["vDecode"]) + One(pc'[t] \in {"take", "send"}) <= 1
  <2>1. /\ Len(codec["vDecode"]) \in Nat
        /\ Len(codec["vDecode"]) + One(pc[t] \in {"take", "send"}) <= 1
        /\ isExit["vDecode"]
    BY <1>3, <1>a, <1>7 DEF DrainInv, InOpen
  <2>2. CASE OutsideCodec(t)
    <3>1. pc'[t] \in {"take", "send"} => pc[t] \in {"take", "send"}
      BY <2>1, <2>2 DEF OutsideCodec, Next2
    <3>2. codec'["vDecode"] = codec["vDecode"]
      BY <2>2 DEF OutsideCodec
    <3>3. One(pc'[t] \in {"take", "send"}) <= One(pc[t] \in {"take", "send"})
      BY <3>1 DEF One
    <3>4. One(pc'[t] \in {"take", "send"}) \in Nat /\ One(pc[t] \in {"take", "send"}) \in Nat
      BY DEF One
    <3> QED BY <2>1, <3>2, <3>3, <3>4
  <2>3. CASE pc[t] = "send" /\ pc'[t] = "recv" /\ codec'["vDecode"] = Append(codec["vDecode"], pck[t])
    <3>1. Len(codec'["vDecode"]) = Len(codec["vDecode"]) + 1
      BY <1>3, <2>3
    <3> QED BY <2>1, <2>3, <3>1 DEF One
  <2> QED BY <1>1, <2>1, <2>2, <2>3 DEF InsideCodec
<1>8. ASSUME InOpen(14, 36), "vDecode" \notin Slow \/ "open" \notin Operations
      PROVE  codec'["vDecode"] = <<>>
  <2>1. InOpen(8, 36) /\ InOpen(1, 36)
    BY <1>8 DEF InOpen
  <2>2. "open" \in Operations
    BY <1>2, <2>1 DEF StopInv, Live
  <2>3. pc[t] \in {"none", "spawned", "leave"}
    BY <1>2, <1>8, <2>1, <2>2 DEF StopInv
  <2>4. codec'["vDecode"] = codec["vDecode"]
    BY <1>1, <2>3 DEF OutsideCodec, InsideCodec
  <2> QED BY <1>8, <2>4 DEF DrainInv
<1> QED BY <1>1, <1>5, <1>6, <1>7, <1>8 DEF DrainInv, InOpen, One

(* The packet Seek() sends, and its frame.                                 *)
LEMMA DrainSeek ==
  ASSUME PlayInv, DrainInv, SameThreads("vDecode"), SeekRoute \/ SeekRecv
  PROVE  DrainInv'
<1>0. /\ CallOK /\ codec \in [Decoder -> Seq(Read)] /\ Delay \in Nat /\ opened \in [Decoder -> BOOLEAN]
      /\ "vDecode" \in Decoder
  BY DecodeAssumption DEF PlayInv, DecodersOK, Decoder
<1>1. /\ op # "idle" /\ UNCHANGED opened
      /\ SeekRoute => Entry.do = "route"
      /\ SeekRecv => Entry.do = "recv"
  BY DEF SeekRoute, SeekRecv, At
<1>2. op = "seek" /\ Size(op) = 35 /\ (SeekRoute => ip = 21) /\ (SeekRecv => ip = 22)
  BY <1>0, <1>1, OnlySeek
<1>3. ScriptStep
  BY ScriptMoves DEF Next, Control
<1>4. op' = "seek"
  BY <1>2, <1>3 DEF ScriptStep, GoesOn
<1>5. \A S : VideoAt(S)' <=> VideoAt(S)
  BY DEF SameThreads, VideoAt
<1>6. opened["vDecode"] => Len(codec["vDecode"]) <= Delay + One(VideoAt({"recv"})) + One(ip = 22)
  BY <1>2 DEF DrainInv, InOpen, One
<1>7. ASSUME opened["vDecode"]
      PROVE  Len(codec'["vDecode"]) <= Delay + One(VideoAt({"recv"})) + One(ip' = 22)
  <2>1. CASE SeekRoute
    <3>1. CASE UNCHANGED codec
      BY <1>0, <1>2, <1>6, <1>7, <2>1, <3>1 DEF One
    <3>2. CASE SendPacket("vDecode", got) /\ Continue
      <4>1. ip' = 22
        BY <1>0, <1>2, <1>4, <2>1, <3>2, ContinueMoves DEF GoesOn
      <4>2. Len(codec'["vDecode"]) <= Len(codec["vDecode"]) + 1
        BY <1>0, <3>2 DEF SendPacket
      <4>3. Len(codec'["vDecode"]) \in Nat
        BY <1>0, <3>2 DEF SendPacket
      <4> QED BY <1>0, <1>2, <1>6, <1>7, <2>1, <4>1, <4>2, <4>3 DEF One
    <3> QED BY <2>1, <3>1, <3>2 DEF SeekRoute
  <2>2. CASE SeekRecv
    <3>1. RecvFrame("vDecode")
      BY <2>2 DEF SeekRecv
    <3>2. CASE HasFrame("vDecode")
      <4>1. codec'["vDecode"] = Tail(codec["vDecode"]) /\ codec["vDecode"] # <<>>
        BY <1>0, <3>1, <3>2 DEF RecvFrame, HasFrame
      <4>2. Len(codec'["vDecode"]) = Len(codec["vDecode"]) - 1
        BY <1>0, <4>1
      <4> QED BY <1>0, <1>2, <1>6, <1>7, <2>2, <4>2 DEF One
    <3>3. CASE ~HasFrame("vDecode")
      <4>1. codec'["vDecode"] = codec["vDecode"] /\ Len(codec["vDecode"]) <= Delay
        BY <1>0, <1>7, <3>1, <3>3 DEF RecvFrame, HasFrame
      <4> QED BY <1>0, <4>1 DEF One
    <3> QED BY <3>2, <3>3
  <2> QED BY <2>1, <2>2
<1> QED BY <1>1, <1>4, <1>5, <1>7 DEF DrainInv, InOpen

(* Every step.                                                             *)
LEMMA StepDrain ==
  ASSUME PlayInv, StopInv, DrainInv, CatchesUp, [Next]_vars
  PROVE  DrainInv'
<1>0. /\ CallOK /\ ScriptStep /\ "vDecode" \in Object /\ "vDecode" \in Decoder
      /\ codec["vDecode"] \in Seq(Read) /\ Delay \in Nat
      /\ op # "idle" => ip \in 1 .. Size(op) /\ (op = "open" => Size(op) = 44)
      /\ op = "seek" => Size(op) = 35
  BY ScriptMoves, Names, EntryOK, DecodeAssumption DEF PlayInv, DecodersOK, Decoder, Size
<1>1. CASE \E t \in DecodeThread : Obj(t) = "vDecode" /\ Decode(t)
  BY <1>1, DrainDecode
<1>2. CASE SeekRoute \/ SeekRecv
  <2>1. UNCHANGED <<pc, isRunning>>
    BY <1>2 DEF SeekRoute, SeekRecv, flags
  <2> QED BY <1>2, <2>1, DrainSeek DEF SameThreads
<1>3. CASE /\ codec'["vDecode"] \in {codec["vDecode"], <<>>}
           /\ opened'["vDecode"] => opened["vDecode"] \/ InOpen(31, 31)'
           /\ ~(\E t \in DecodeThread : Obj(t) = "vDecode" /\ Decode(t))
           /\ ~SeekRoute /\ ~SeekRecv
  <2>1. Len(codec'["vDecode"]) \in Nat /\ Len(codec'["vDecode"]) <= Len(codec["vDecode"])
    BY <1>0, <1>3
  <2>2. CASE SameThreads("vDecode")
    <3>1. \A S : VideoAt(S)' <=> VideoAt(S)
      BY <2>2 DEF SameThreads, VideoAt
    <3>2. ASSUME op' # op \/ ip' # ip
          PROVE  /\ ~(op = "open" /\ ip = 36) /\ ~(op = "seek" /\ ip = 22)
                 /\ op = "open" /\ ip = 13 => codec'["vDecode"] = <<>>
      <4>1. ~(op = "seek" /\ ip = 22)
        <5>1. op = "seek" /\ ip = 22 => Entry.do = "recv"
          BY <1>0, EntryOK DEF SeekFacts
        <5> QED BY <1>3, <3>2, <5>1, EntryDone
      <4>2. ~(op = "open" /\ ip = 36)
        <5>1. SUFFICES ASSUME op = "open", ip = 36 PROVE FALSE
          OBVIOUS
        <5>2. Entry.do = "start" /\ Part = "vDecode"
          BY <1>0, <5>1, EntryPlaced DEF OpenPlaces, Part
        <5>3. StartPart
          BY <3>2, <5>1, <5>2, EntryDone
        <5>4. PICK k \in Slot : pc[<<"vDecode", k>>] = "none" /\ pc' = [pc EXCEPT ![<<"vDecode", k>>] = "spawned"]
          BY <1>0, <5>2, <5>3, SpawnOK DEF StartPart, Start
        <5>5. pc'[<<"vDecode", k>>] = "spawned"
          BY <1>0, <5>4 DEF PlayInv, ThreadsOK, Thread
        <5> QED BY <2>2, <5>4, <5>5 DEF SameThreads
      <4>3. op = "open" /\ ip = 13 => codec'["vDecode"] = <<>>
        <5>1. SUFFICES ASSUME op = "open", ip = 13 PROVE codec'["vDecode"] = <<>>
          OBVIOUS
        <5>2. Entry.do = "flush" /\ Part = "vDecode"
          BY <1>0, <5>1, EntryPlaced DEF OpenPlaces, Part
        <5>3. FlushCodec("vDecode")
          BY <3>2, <5>1, <5>2, EntryDone
        <5> QED BY <1>0, <5>3 DEF FlushCodec, PlayInv, DecodersOK
      <4> QED BY <4>1, <4>2, <4>3
    <3>3. opened'["vDecode"] /\ ~InOpen(7, 36)' =>
            /\ opened["vDecode"] /\ ~InOpen(7, 36)
            /\ op = "seek" /\ ip = 22 => op' = "seek" /\ ip' = 22
      <4>1. ~InOpen(7, 36)' => ~InOpen(7, 36)
        <5>1. CASE op' = op /\ ip' = ip
          BY <5>1 DEF InOpen
        <5>2. CASE op' # op \/ ip' # ip
          <6>1. SUFFICES ASSUME op = "open", ip \in 7 .. 36 PROVE op' = "open" /\ ip' \in 7 .. 36
            BY DEF InOpen
          <6>2. ip # 36
            BY <3>2, <5>2, <6>1
          <6>3. ip \in 7 .. 35 /\ Size(op) = 44
            BY <1>0, <6>1, <6>2
          <6>4. op' = op /\ (ip' = ip + 1 \/ ip' = 34)
            BY <1>0, <5>2, <6>1, <6>3 DEF ScriptStep, GoesOn
          <6> QED BY <6>1, <6>3, <6>4
        <5> QED BY <5>1, <5>2
      <4>2. op = "seek" /\ ip = 22 => op' = "seek" /\ ip' = 22
        BY <3>2
      <4>3. InOpen(31, 31)' => InOpen(7, 36)'
        BY DEF InOpen
      <4> QED BY <1>3, <4>1, <4>2, <4>3
    <3>4. InOpen(14, 36)' => InOpen(14, 36) \/ codec'["vDecode"] = <<>>
      <4>1. CASE op = "open" /\ op' = "open" /\ ip' = ip + 1
        <5>1. ip \in 1 .. 44
          BY <1>0, <4>1
        <5>2. ip = 13 => codec'["vDecode"] = <<>>
          BY <3>2, <4>1, <5>1
        <5> QED BY <4>1, <5>1, <5>2 DEF InOpen
      <4>2. CASE op' = op /\ ip' = ip
        BY <4>2 DEF InOpen
      <4>3. CASE ~(op = "open" /\ op' = "open" /\ ip' = ip + 1) /\ (op' # op \/ ip' # ip)
        <5>1. CASE op = "open" /\ ip = 27 /\ ip' = 34
          BY <5>1 DEF InOpen
        <5>2. CASE op' # "open" \/ ip' = 1
          BY <5>2 DEF InOpen
        <5> QED BY <1>0, <4>3, <5>1, <5>2 DEF ScriptStep, GoesOn
      <4> QED BY <4>1, <4>2, <4>3
    <3>5. opened'["vDecode"] /\ ~InOpen(7, 36)' =>
            Len(codec'["vDecode"]) <= Delay + One(VideoAt({"recv"})) + One(op' = "seek" /\ ip' = 22)
      <4>1. SUFFICES ASSUME opened'["vDecode"], ~InOpen(7, 36)'
                     PROVE  Len(codec'["vDecode"]) <= Delay + One(VideoAt({"recv"}))
                                                        + One(op' = "seek" /\ ip' = 22)
        OBVIOUS
      <4>2. Len(codec["vDecode"]) <= Delay + One(VideoAt({"recv"})) + One(op = "seek" /\ ip = 22)
        BY <3>3, <4>1 DEF DrainInv
      <4>3. One(op = "seek" /\ ip = 22) <= One(op' = "seek" /\ ip' = 22)
        BY <3>3, <4>1 DEF One
      <4>4. /\ One(VideoAt({"recv"})) \in Nat /\ One(op = "seek" /\ ip = 22) \in Nat
            /\ One(op' = "seek" /\ ip' = 22) \in Nat /\ Len(codec["vDecode"]) \in Nat
        BY <1>0 DEF One
      <4> QED BY <1>0, <2>1, <4>2, <4>3, <4>4
    <3>6. InOpen(14, 36)' => Len(codec'["vDecode"]) + One(VideoAt({"take", "send"})) <= 1
      <4>1. CASE codec'["vDecode"] = <<>>
        BY <4>1 DEF One
      <4>2. CASE InOpen(14, 36)
        <5>1. Len(codec["vDecode"]) + One(VideoAt({"take", "send"})) <= 1
          BY <4>2 DEF DrainInv
        <5>2. One(VideoAt({"take", "send"})) \in Nat /\ Len(codec["vDecode"]) \in Nat
          BY <1>0 DEF One
        <5> QED BY <2>1, <5>1, <5>2
      <4> QED BY <3>4, <4>1, <4>2
    <3>7. InOpen(14, 36)' /\ ("vDecode" \notin Slow \/ "open" \notin Operations) =>
            codec'["vDecode"] = <<>>
      BY <1>3, <3>4 DEF DrainInv
    <3> QED BY <3>1, <3>5, <3>6, <3>7 DEF DrainInv
  <2>3. CASE StartPart /\ Part = "vDecode"
    <3>1. op # "idle" /\ Entry.do = "start" /\ Continue /\ Spawn("vDecode")
      BY <2>3 DEF StartPart, At, Start
    <3>2. op = "open" /\ ip = 36
      <4>1. op = "open"
        BY <1>0, <3>1, EntryOK, Scripts DEF SeekFacts, PauseFacts
      <4> QED BY <1>0, <2>3, <3>1, <4>1, EntryOK DEF OpenFacts, Part
    <3>3. op' = "open" /\ ip' = 37
      BY <1>0, <3>1, <3>2, ContinueMoves DEF GoesOn
    <3>4. Len(codec["vDecode"]) <= Delay
      <4>1. InOpen(14, 36)
        BY <3>2 DEF InOpen
      <4>2. CASE "vDecode" \notin Slow \/ "open" \notin Operations
        BY <1>0, <4>1, <4>2 DEF DrainInv
      <4>3. CASE Delay > 0
        <5>1. Len(codec["vDecode"]) + One(VideoAt({"take", "send"})) <= 1
          BY <4>1 DEF DrainInv
        <5>2. One(VideoAt({"take", "send"})) \in Nat /\ Len(codec["vDecode"]) \in Nat
          BY <1>0 DEF One
        <5> QED BY <1>0, <4>3, <5>1, <5>2
      <4> QED BY <4>2, <4>3 DEF CatchesUp
    <3>5. Len(codec'["vDecode"]) <= Delay + One(VideoAt({"recv"})') + One(op' = "seek" /\ ip' = 22)
      <4>1. One(VideoAt({"recv"})') \in Nat /\ One(op' = "seek" /\ ip' = 22) \in Nat
        BY DEF One
      <4>2. Len(codec["vDecode"]) \in Nat
        BY <1>0
      <4> QED BY <1>0, <2>1, <3>4, <4>1, <4>2
    <3> QED BY <3>3, <3>5 DEF DrainInv, InOpen
  <2> QED BY <1>0, <1>3, <2>2, <2>3, WhoMoves
<1> QED BY <1>1, <1>2, <1>3, VideoCodec

-----------------------------------------------------------------------------
(* What comes out after a pause.                                           *)

(* A frame is on the way to the video view, or to the device, though the   *)
(* thread that brings it has been asked to pause.                          *)
VideoComes ==
  \/ VideoAt({"take", "send", "deliver"})
  \/ VideoAt({"recv"}) /\ HasFrame("vDecode")
SoundComes == pc[Device] \in {"pop", "enqueue"}

(* What has come out since the pause returned, and what is on the way, is  *)
(* one frame at most.                                                      *)
LeakInv ==
  /\ ~Paused => leaked.video = 0 /\ leaked.audio = 0
  /\ Paused => /\ leaked.video <= 1 /\ (VideoComes => leaked.video = 0)
               /\ leaked.audio <= 1 /\ (SoundComes => leaked.audio = 0)

(* Who counts.                                                             *)
LEMMA Counters ==
  ASSUME PlayInv, [Next]_vars, ~Call
  PROVE  /\ \/ leaked'.video = leaked.video
            \/ \E t \in DecodeThread :
                 /\ Obj(t) = "vDecode" /\ Decode(t) /\ pc[t] = "deliver" /\ pc'[t] = "recv"
                 /\ leaked'.video = leaked.video + LeakOf(TRUE) /\ UNCHANGED codec
         /\ \/ leaked'.audio = leaked.audio
            \/ /\ Play /\ pc[Device] = "enqueue" /\ pc'[Device] = "none"
               /\ leaked'.audio = leaked.audio + LeakOf(TRUE)
<1>0. leaked \in [video : Nat, audio : Nat] /\ pc \in [Thread -> Label] /\ Device \in Thread
  BY Names DEF PlayInv, HistoryOK, ThreadsOK
<1>1. CASE UNCHANGED leaked
  BY <1>1
<1>2. UNCHANGED vars \/ Control => UNCHANGED leaked
  BY DEF vars, Control, Lock, Unlock, Request, Join, Await, StartPart, DecoderCall, AudioCall,
     DemuxCall, SeekRead, SeekRoute, SeekNotified, SeekRecv, SeekNotify, history
<1>3. (\E t \in DemuxThread : Demux(t)) \/ (\E t \in SyncThread : Sync(t)) => UNCHANGED leaked
  BY DEF Demux, DemuxLoop, DemuxRead, DemuxNotify, Sync, SyncLoop, SyncCopy, history
<1>4. ASSUME NEW t \in DecodeThread, Decode(t)
      PROVE  \/ UNCHANGED leaked
             \/ /\ Obj(t) = "vDecode" /\ Decode(t) /\ pc[t] = "deliver" /\ pc'[t] = "recv"
                /\ leaked'.video = leaked.video + LeakOf(TRUE) /\ UNCHANGED codec
                /\ leaked'.audio = leaked.audio
  <2>1. CASE Show(t)
    <3>1. t \in Thread
      BY Names
    <3> QED BY <1>0, <1>4, <2>1, <3>1 DEF Show, GoTo, decodeVars
  <2>2. CASE ~Show(t)
    BY <1>4, <2>2 DEF Decode, DecodeLoop, DecodePacket, Output, history
  <2> QED BY <2>1, <2>2
<1>5. ASSUME Play
      PROVE  /\ leaked'.video = leaked.video
             /\ \/ leaked'.audio = leaked.audio
                \/ /\ Play /\ pc[Device] = "enqueue" /\ pc'[Device] = "none"
                   /\ leaked'.audio = leaked.audio + LeakOf(TRUE)
  <2>1. leaked' = [leaked EXCEPT !.audio = @ + LeakOf(pc[Device] = "enqueue")]
    BY <1>5 DEF Play
  <2>2. CASE pc[Device] = "enqueue"
    <3>1. Enqueue
      BY <1>5, <2>2 DEF Play, Callback, Fire, PopFrame, EnterLoop, PausedLoop, Leave
    <3>2. pc'[Device] = "none"
      BY <1>0, <3>1 DEF Enqueue, GoTo
    <3> QED BY <1>0, <1>5, <2>1, <2>2, <3>2 DEF LeakOf
  <2>3. CASE pc[Device] # "enqueue"
    BY <1>0, <2>1, <2>3 DEF LeakOf
  <2> QED BY <2>2, <2>3
<1> QED BY <1>1, <1>2, <1>3, <1>4, <1>5 DEF Next

(* The video decoder shows no second frame once it is asked to pause.      *)
LEMMA LeakVideo ==
  ASSUME PlayInv, StopInv, DrainInv, AskedInv, LeakInv, Paused, [Next]_vars, ~Call
  PROVE  leaked'.video <= 1 /\ (VideoComes' => leaked'.video = 0)
<1>0. /\ pc \in [Thread -> Label] /\ codec["vDecode"] \in Seq(Read) /\ Delay \in Nat
      /\ \A k \in Slot : <<"vDecode", k>> \in Thread
      /\ leaked.video \in Nat /\ "vDecode" \in Object
  BY Names, DecodeAssumption
     DEF PlayInv, ThreadsOK, DecodersOK, Decoder, Thread, StoppedOK, HistoryOK
<1>1. /\ op = "idle" /\ isPause["vDecode"] /\ ~isExit["vDecode"]
      /\ opened["vDecode"] => Len(codec["vDecode"]) <= Delay + One(VideoAt({"recv"}))
      /\ leaked.video <= 1 /\ (VideoComes => leaked.video = 0)
  <2>1. One(op = "seek" /\ ip = 22) = 0 /\ One(VideoAt({"recv"})) \in Nat
    BY DEF Paused, One
  <2> QED BY <1>0, <2>1 DEF Paused, AskedInv, StopInv, DrainInv, LeakInv, InOpen
<1>2. ASSUME NEW t \in DecodeThread, Obj(t) = "vDecode", Decode(t)
      PROVE  leaked'.video <= 1 /\ (VideoComes' => leaked'.video = 0)
  <2>1. /\ pc' = [pc EXCEPT ![t] = pc'[t]] /\ UNCHANGED <<opened, op, ip, isExit>>
        /\ OutsideCodec(t) \/ InsideCodec(t)
    BY <1>2, WorkerSteps, ThreadSteps
  <2>2. t = <<"vDecode", t[2]>> /\ t[2] \in Slot /\ pc[t] # "none"
    BY <1>2, <2>1 DEF DecodeThread, Obj, OutsideCodec, InsideCodec
  <2>3. \A k \in Slot : k # t[2] => pc[<<"vDecode", k>>] = "none" /\ pc'[<<"vDecode", k>>] = "none"
    <3>1. SUFFICES ASSUME NEW k \in Slot, k # t[2]
                   PROVE  pc[<<"vDecode", k>>] = "none" /\ pc'[<<"vDecode", k>>] = "none"
      OBVIOUS
    <3>2. pc[<<"vDecode", k>>] = "none"
      BY <2>2, <3>1 DEF StopInv, OneThread
    <3>3. <<"vDecode", k>> # t /\ <<"vDecode", k>> \in Thread
      BY <1>0, <2>2, <3>1
    <3>4. pc'[<<"vDecode", k>>] = pc[<<"vDecode", k>>]
      BY <1>0, <2>1, <3>3
    <3> QED BY <3>2, <3>4
  <2>4. \A S \in {{"recv"}, {"take", "send", "deliver"}} :
          /\ VideoAt(S) <=> pc[t] \in S
          /\ VideoAt(S)' <=> pc'[t] \in S
    BY <2>2, <2>3 DEF VideoAt
  <2>5. /\ VideoComes <=> pc[t] \in {"take", "send", "deliver"} \/ (pc[t] = "recv" /\ HasFrame("vDecode"))
        /\ VideoComes' <=> pc'[t] \in {"take", "send", "deliver"} \/ (pc'[t] = "recv" /\ HasFrame("vDecode")')
    BY <2>4 DEF VideoComes
  <2>6. CASE /\ pc[t] = "deliver" /\ pc'[t] = "recv" /\ UNCHANGED codec
             /\ leaked'.video = leaked.video + LeakOf(TRUE)
    <3>1. leaked.video = 0
      BY <1>1, <2>5, <2>6
    <3>2. opened["vDecode"] => Len(codec["vDecode"]) <= Delay
      BY <1>0, <1>1, <2>4, <2>6 DEF One
    <3>3. ~HasFrame("vDecode")'
      BY <1>0, <2>1, <2>6, <3>2 DEF HasFrame
    <3> QED BY <2>5, <2>6, <3>1, <3>3 DEF LeakOf
  <2>7. CASE leaked'.video = leaked.video
    <3>1. VideoComes' => VideoComes
      <4>1. pc[t] # "push"
        BY <1>2 DEF PlayInv, ThreadsOK
      <4> QED BY <1>1, <1>2, <2>1, <2>5, <4>1 DEF OutsideCodec, InsideCodec, Next2
    <3> QED BY <1>1, <2>7, <3>1
  <2>8. \/ leaked'.video = leaked.video
        \/ \E u \in DecodeThread :
             /\ Obj(u) = "vDecode" /\ pc[u] = "deliver" /\ pc'[u] = "recv"
             /\ leaked'.video = leaked.video + LeakOf(TRUE) /\ UNCHANGED codec
    BY Counters
  <2>9. \A u \in DecodeThread : Obj(u) = "vDecode" /\ pc[u] # "none" => u = t
    BY <2>2, <2>3 DEF DecodeThread, Obj
  <2> QED BY <2>6, <2>7, <2>8, <2>9
<1>3. CASE ~\E t \in DecodeThread : Obj(t) = "vDecode" /\ Decode(t)
  <2>1. leaked'.video = leaked.video
    BY <1>3, Counters
  <2>2. ~StartPart /\ ~SeekRoute /\ ~SeekRecv /\ op' = "idle"
    BY <1>1, WhoseSeek DEF StartPart, SeekRoute, SeekRecv, At
  <2>3. SameThreads("vDecode")
    BY <1>0, <1>3, <2>2, WhoMoves
  <2>4. \A S : VideoAt(S)' <=> VideoAt(S)
    BY <2>3 DEF SameThreads, VideoAt
  <2>5. /\ codec'["vDecode"] \in {codec["vDecode"], <<>>}
        /\ opened'["vDecode"] => opened["vDecode"] \/ InOpen(31, 31)'
    BY <1>3, <2>2, VideoCodec
  <2>6. HasFrame("vDecode")' => HasFrame("vDecode")
    BY <1>0, <2>2, <2>5 DEF HasFrame, InOpen
  <2> QED BY <1>1, <2>1, <2>4, <2>6 DEF VideoComes
<1> QED BY <1>2, <1>3

(* And the callback hands no second frame to the device.                   *)
LEMMA LeakAudio ==
  ASSUME PlayInv, AskedInv, LeakInv, Paused, [Next]_vars, ~Call
  PROVE  leaked'.audio <= 1 /\ (SoundComes' => leaked'.audio = 0)
<1>0. /\ pc \in [Thread -> Label] /\ leaked.audio \in Nat /\ Device \in Thread
      /\ Obj(Device) = "audioPlay" /\ Device = <<"audioPlay", 1>> /\ 1 \in Slot
      /\ "audioPlay" \in Object
  BY Names, Kinds4, AudioAssumption DEF PlayInv, ThreadsOK, HistoryOK, Device
<1>1. /\ op = "idle" /\ isPause["audioPlay"]
      /\ leaked.audio <= 1 /\ (SoundComes => leaked.audio = 0)
  BY DEF Paused, AskedInv, LeakInv
<1>2. CASE Play
  <2>1. CASE pc[Device] = "enqueue" /\ pc'[Device] = "none" /\ leaked'.audio = leaked.audio + LeakOf(TRUE)
    BY <1>1, <2>1 DEF SoundComes, LeakOf
  <2>2. CASE leaked'.audio = leaked.audio
    <3>1. SoundComes' => SoundComes
      <4>1. Again(Device, "pop") => pc'[Device] \in {"leave", "head"}
        BY <1>0, <1>1 DEF Again, GoTo
      <4>2. EnterLoop(Device, "pop") \/ PausedLoop(Device, "pop") => Again(Device, "pop")
        BY DEF EnterLoop, PausedLoop
      <4>3. Fire \/ Enqueue \/ Leave(Device) => pc'[Device] \in {"spawned", "none"}
        BY <1>0 DEF Fire, Enqueue, Leave, GoTo
      <4>4. PopFrame => pc[Device] = "pop"
        BY DEF PopFrame
      <4> QED BY <1>2, <4>1, <4>2, <4>3, <4>4 DEF Play, Callback, SoundComes
    <3> QED BY <1>1, <2>2, <3>1
  <2> QED BY <2>1, <2>2, Counters
<1>3. CASE ~Play
  <2>1. leaked'.audio = leaked.audio
    BY <1>3, Counters
  <2>2. ~StartPart
    BY <1>1 DEF StartPart, At
  <2>3. SameThreads("audioPlay")
    <3>1. \A t \in DecodeThread : Obj(t) # "audioPlay"
      BY Names DEF Decoder
    <3> QED BY <1>0, <1>3, <2>2, <3>1, WhoMoves
  <2>4. pc'[Device] = pc[Device]
    BY <1>0, <2>3 DEF SameThreads
  <2> QED BY <1>1, <2>1, <2>4 DEF SoundComes
<1> QED BY <1>2, <1>3

(* Every step.                                                             *)
LEMMA StepLeak ==
  ASSUME PlayInv, StopInv, DrainInv, AskedInv, LeakInv, [Next]_vars
  PROVE  LeakInv'
<1>1. CASE Call
  <2>1. op' # "idle"
    BY <1>1 DEF Call, CallOpen, CallPlayOrPause, CallSeek
  <2>2. leaked' = [video |-> 0, audio |-> 0]
    BY <1>1 DEF Call
  <2> QED BY <2>1, <2>2 DEF LeakInv, Paused
<1>2. CASE ~Call /\ Paused
  <2>1. op' = "idle"
    BY <1>2, WhoseSeek DEF Paused
  <2>2. UNCHANGED isPause
    BY <1>2, PauseWriters DEF Paused
  <2>3. Paused'
    BY <1>2, <2>1, <2>2 DEF Paused
  <2> QED BY <1>2, <2>3, LeakVideo, LeakAudio DEF LeakInv
<1>3. CASE ~Call /\ ~Paused
  <2>1. LeakOf(TRUE) = 0 /\ leaked.video = 0 /\ leaked.audio = 0
    BY <1>3 DEF LeakOf, LeakInv
  <2>2. leaked'.video = 0 /\ leaked'.audio = 0
    <3>1. leaked'.video = leaked.video \/ leaked'.video = leaked.video + LeakOf(TRUE)
      BY <1>3, Counters
    <3>2. leaked'.audio = leaked.audio \/ leaked'.audio = leaked.audio + LeakOf(TRUE)
      BY <1>3, Counters
    <3> QED BY <1>3, <2>1, <3>1, <3>2 DEF LeakOf
  <2> QED BY <2>2 DEF LeakInv
<1> QED BY <1>1, <1>2, <1>3

(* After a pause has returned the video view shows one more frame at most, *)
(* and one more at most is handed to the audio device (IPlayer::SetPause() *)
(* does not wait for frames on their way).  A Start() that finds a thread  *)
(* of the video decoder alive brings a second frame; so does a codec that  *)
(* holds back no packet when Close() missed the decoder's thread before.   *)
THEOREM PauseLeaksOne ==
  ASSUME "vDecode" \notin Overlapping, CatchesUp
  PROVE  Spec => []PauseLeak
<1> DEFINE All == StopInv /\ DrainInv /\ AskedInv /\ LeakInv
<1>1. Init => All
  <2>1. SUFFICES ASSUME Init PROVE All
    OBVIOUS
  <2>2. \A k \in Slot : pc[<<"vDecode", k>>] = "none"
    BY <2>1, Names DEF Init, XThreadInit, Thread, Decoder
  <2>3. /\ op = "open" /\ ip = 1 /\ ~isExit["vDecode"] /\ ~opened["vDecode"]
        /\ leaked = [video |-> 0, audio |-> 0]
    BY <2>1, Names DEF Init, XThreadInit, DecodeInit, Decoder
  <2>4. StopInv
    BY <2>2, <2>3 DEF StopInv, OneThread, Live, InOpen
  <2>5. DrainInv
    BY <2>3 DEF DrainInv, InOpen
  <2>6. AskedInv /\ LeakInv
    BY <2>3 DEF AskedInv, LeakInv, Paused
  <2> QED BY <2>4, <2>5, <2>6
<1>2. PlayInv /\ All /\ [Next]_vars => All'
  BY StepStop, StepDrain, StepAsked, StepLeak
<1>3. PlayInv /\ All => PauseLeak
  <2>1. PlayInv => leaked.video \in Nat /\ leaked.audio \in Nat
    BY DEF PlayInv, HistoryOK
  <2> QED BY <2>1 DEF LeakInv, PauseLeak
<1> QED BY AlwaysPlays, <1>1, <1>2, <1>3, PTL DEF Spec
=============================================================================
