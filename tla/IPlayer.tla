------------------------------ MODULE IPlayer -------------------------------
(***************************************************************************)
(* The player (IPlayer.cpp): the demuxer, the two decoders and the audio   *)
(* output working as a pipeline, the thread that copies the audio clock to *)
(* the video decoder, and the control thread that opens, pauses and seeks. *)
(*                                                                         *)
(* The control thread is Android's UI thread: every native call of the     *)
(* application is made on it, one at a time, under the mutex of            *)
(* IPlayerPorxy.  A call is a script, the sequence of the calls IPlayer    *)
(* makes on its parts in the order of the source; the control thread runs  *)
(* it one entry at a time against all the other threads.                   *)
(***************************************************************************)
EXTENDS IObserver, IAudioPlay

CONSTANTS
  Operations,   \* the calls the application makes after the first Open()
  MaxOps,       \* bound: how many of them
  Targets,      \* seek positions, as times
  DecodeFails,  \* decoders whose codec may fail to open
  Slow,         \* objects whose threads may miss a wait for no reason
  Overlapping   \* bound: objects whose Start() may find a live thread

ASSUME PlayerAssumption ==
  /\ {"player", "demux"} \subseteq Object
  /\ MaxOps \in Nat
  /\ Targets \subseteq Nat

VARIABLES
  mux,      \* whether the control thread holds IPlayer::mux
  op,       \* the call in progress, or "idle"
  ip,       \* the entry of its script that comes next
  ops,      \* calls made so far
  target,   \* the position of the seek in progress
  got,      \* the packet Seek() has in hand
  shown,    \* history: the last frame shown by the video view
  heard,    \* history: the last frame handed to the audio device
  overlap,  \* history: objects whose Start() found a live thread
  leaked    \* history: frames shown and heard since a pause returned

playerVars == <<mux, op, ip, ops, target, got>>
history == <<shown, heard, overlap, leaked>>

vars == <<flags, pc, demuxVars, decodeVars, noteVars, audioVars, playerVars, history>>

-----------------------------------------------------------------------------
(* The scripts.                                                            *)

Do(what, part) == [do |-> what, on |-> part]

CloseScript ==
  << Do("lock", "player"),
     Do("exit", "player"), Do("join", "player"),
     Do("exit", "demux"), Do("join", "demux"),
     Do("exit", "vDecode"), Do("join", "vDecode"),
     Do("exit", "aDecode"), Do("join", "aDecode"),
     Do("exit", "audioPlay"), Do("join", "audioPlay"),
     Do("clear", "vDecode"), Do("flush", "vDecode"),
     Do("clear", "aDecode"), Do("flush", "aDecode"),
     Do("clear", "audioPlay"),
     Do("clear", "audioPlay"), Do("destroy", "audioPlay"),
     Do("clear", "vDecode"), Do("free", "vDecode"),
     Do("clear", "aDecode"), Do("free", "aDecode"),
     Do("close", "demux"),
     Do("unlock", "player") >>

(* Open() after its Close().                                               *)
OpenParts ==
  << Do("lock", "player"),
     Do("close", "demux"), Do("open", "demux"),
     Do("clear", "vDecode"), Do("free", "vDecode"), Do("open", "vDecode"),
     Do("clear", "aDecode"), Do("free", "aDecode"), Do("open", "aDecode"),
     Do("unlock", "player") >>

(* The native Open() calls Start() whatever Open() returned.               *)
StartScript ==
  << Do("lock", "player"),
     Do("start", "vDecode"), Do("start", "demux"), Do("start", "aDecode"),
     Do("clear", "audioPlay"), Do("destroy", "audioPlay"), Do("create", "audioPlay"),
     Do("withdraw", "audioPlay"),
     Do("start", "player"),
     Do("unlock", "player") >>

OpenScript == CloseScript \o OpenParts \o StartScript

SetPauseScript(request) ==
  << Do("lock", "player"),
     Do(request, "player"), Do("await", "player"),
     Do(request, "demux"), Do("await", "demux"),
     Do(request, "vDecode"), Do("await", "vDecode"),
     Do(request, "aDecode"), Do("await", "aDecode"),
     Do(request, "audioPlay"), Do("await", "audioPlay"),
     Do("unlock", "player") >>

(* Seek() between its two calls of SetPause().                             *)
SeekParts ==
  << Do("lock", "player"),
     Do("clear", "vDecode"), Do("flush", "vDecode"),
     Do("clear", "aDecode"), Do("flush", "aDecode"),
     Do("clear", "audioPlay"),
     Do("seek", "demux"),
     Do("read", "demux"), Do("route", "player"), Do("recv", "vDecode"),
     Do("unlock", "player") >>

(* Mutant: Seek() does not pause the threads.                              *)
SeekScriptUnpaused == SeekParts

SeekScript == SetPauseScript("pause") \o SeekParts \o SetPauseScript("resume")

Script ==
  [open   |-> OpenScript,
   pause  |-> SetPauseScript("pause"),
   resume |-> SetPauseScript("resume"),
   seek   |-> SeekScript]

ReadEntry == CHOOSE i \in DOMAIN SeekScript : SeekScript[i].do = "read"

Entry == Script[op][ip]
At(what) == op # "idle" /\ Entry.do = what
Part == Entry.on

Goto(i) ==
  IF i > Len(Script[op])
  THEN op' = "idle" /\ ip' = 1
  ELSE UNCHANGED op /\ ip' = i

Continue == Goto(ip + 1)

(* The end of the part of a script that holds the mutex.                   *)
UnlockEntry == CHOOSE i \in ip .. Len(Script[op]) :
  /\ Script[op][i].do = "unlock"
  /\ \A j \in ip .. i - 1 : Script[op][j].do # "unlock"

Init ==
  /\ XThreadInit
  /\ DemuxInit
  /\ DecodeInit
  /\ NoteInit
  /\ AudioInit
  /\ mux = FALSE
  /\ op = "open"
  /\ ip = 1
  /\ ops = 0
  /\ target = 0
  /\ got = NoPacket
  /\ shown = NoPacket
  /\ heard = NoPacket
  /\ overlap = {}
  /\ leaked = [video |-> 0, audio |-> 0]

-----------------------------------------------------------------------------
(* The control thread: the calls of the application.                       *)

CallOpen ==
  /\ "open" \in Operations
  /\ op' = "open"
  /\ UNCHANGED <<flags, target>>

(* PlayOrPause() asks the player's own IsPause(), which acknowledges.      *)
CallPlayOrPause ==
  /\ "pause" \in Operations
  /\ op' = IF isPause["player"] THEN "resume" ELSE "pause"
  /\ Acknowledge("player")
  /\ UNCHANGED target

CallSeek ==
  /\ "seek" \in Operations
  /\ op' = "seek"
  /\ target' \in Targets
  /\ UNCHANGED flags

Call ==
  /\ op = "idle"
  /\ ops < MaxOps
  /\ ops' = ops + 1
  /\ CallOpen \/ CallPlayOrPause \/ CallSeek
  /\ leaked' = [video |-> 0, audio |-> 0]
  /\ UNCHANGED <<pc, demuxVars, decodeVars, noteVars, audioVars, mux, ip, got,
                 shown, heard, overlap>>

-----------------------------------------------------------------------------
(* The control thread: locking, and the flags of the parts.                *)

(* std::mutex: a second lock() by the thread that holds it never returns.  *)
Lock ==
  /\ At("lock")
  /\ ~mux
  /\ mux' = TRUE
  /\ Continue
  /\ UNCHANGED <<flags, pc, demuxVars, decodeVars, noteVars, audioVars,
                 ops, target, got, history>>

Unlock ==
  /\ At("unlock")
  /\ mux' = FALSE
  /\ Continue
  /\ UNCHANGED <<flags, pc, demuxVars, decodeVars, noteVars, audioVars,
                 ops, target, got, history>>

Request ==
  /\ \/ At("exit") /\ RaiseExit(Part)
     \/ At("pause") /\ RequestPause(Part, TRUE)
     \/ At("resume") /\ RequestPause(Part, FALSE)
     \/ At("withdraw") /\ WithdrawExit
  /\ Continue
  /\ UNCHANGED <<pc, demuxVars, decodeVars, noteVars, audioVars,
                 mux, ops, target, got, history>>

(* A wait that polls a flag runs out when a thread of the object waits for *)
(* something itself, when no thread is there to answer, or because the     *)
(* scheduler is slow.  The sync thread never answers a pause.              *)
Blocked(t) ==
  \/ /\ pc[t] = "notify"
     /\ IF note[t].at = "lock"
        THEN notifyMux # Free
        ELSE LET d == obss[note[t].to] IN ~HasRoom(d) \/ packsMutex[d] # Free
  \/ /\ Obj(t) = "aDecode"
     /\ pc[t] \in {"deliver", "push"}
     /\ Len(frames) > maxFrame
  \/ pc[t] = "lock" /\ mux

Waiting(o) == \E k \in Slot : Blocked(<<o, k>>)

Absent(o) ==
  Live(o) = {} /\ ~(o = "audioPlay" /\ outstanding)

Join ==
  /\ At("join")
  /\ ~isRunning[Part] \/ Waiting(Part) \/ Part \in Slow
  /\ Continue
  /\ UNCHANGED <<flags, pc, demuxVars, decodeVars, noteVars, audioVars,
                 mux, ops, target, got, history>>

Await ==
  /\ At("await")
  /\ \/ isPausing[Part] = isPause[Part]
     \/ Waiting(Part) \/ Absent(Part)
     \/ Part \in Slow \cup {"player"}
  /\ Continue
  /\ UNCHANGED <<flags, pc, demuxVars, decodeVars, noteVars, audioVars,
                 mux, ops, target, got, history>>

(* A thread that missed its Stop() may still be there.  Outside Overlapping*)
(* Start() waits until it has left: the threads of the pipeline do so      *)
(* within a poll of theirs once everything is stopped, and what becomes of *)
(* one that does not is the subject of ThreadLifecycle.                    *)
StartPart ==
  /\ At("start")
  /\ Live(Part) = {} \/ Part \in Overlapping
  /\ Start(Part)
  /\ overlap' = IF Live(Part) = {} THEN overlap ELSE overlap \cup {Part}
  /\ Continue
  /\ UNCHANGED <<demuxVars, decodeVars, noteVars, audioVars,
                 mux, ops, target, got, shown, heard, leaked>>

-----------------------------------------------------------------------------
(* The control thread: queues, codecs, demuxer and audio device.           *)

DecoderCall ==
  /\ \/ At("clear") /\ Part \in Decoder /\ ClearQueue(Part)
     \/ At("flush") /\ FlushCodec(Part)
     \/ At("free") /\ FreeCodec(Part)
     \/ /\ At("open") /\ Part \in Decoder
        /\ \/ OpenCodec(Part, TRUE)
           \/ Part \in DecodeFails /\ OpenCodec(Part, FALSE)
  /\ Continue
  /\ UNCHANGED <<flags, pc, demuxVars, noteVars, audioVars,
                 mux, ops, target, got, history>>

AudioCall ==
  /\ \/ At("clear") /\ Part = "audioPlay" /\ ClearFrames
     \/ At("destroy") /\ DestroyDevice
     \/ At("create") /\ CreateDevice
  /\ Continue
  /\ UNCHANGED <<flags, pc, demuxVars, decodeVars, noteVars,
                 mux, ops, target, got, history>>

(* Mutant: Open() returns with the mutex held when the demuxer fails.      *)
DemuxCallKeepsMutex ==
  /\ \/ At("close") /\ CloseInput /\ Continue
     \/ At("seek") /\ SeekInput(target) /\ Continue
     \/ /\ At("open") /\ Part = "demux"
        /\ \E outcome \in OpenOutcome :
             /\ OpenInput(outcome)
             /\ IF outcome = "ok" THEN Continue ELSE Goto(UnlockEntry + 1)
  /\ UNCHANGED <<flags, pc, decodeVars, noteVars, audioVars,
                 mux, ops, target, got, history>>

DemuxCall ==
  /\ \/ At("close") /\ CloseInput /\ Continue
     \/ At("seek") /\ SeekInput(target) /\ Continue
     \/ /\ At("open") /\ Part = "demux"
        /\ \E outcome \in OpenOutcome :
             /\ OpenInput(outcome)
             /\ IF outcome = "ok" THEN Continue ELSE Goto(UnlockEntry)
  /\ UNCHANGED <<flags, pc, decodeVars, noteVars, audioVars,
                 mux, ops, target, got, history>>

-----------------------------------------------------------------------------
(* The control thread: the loop of Seek().                                 *)

(* Mutant: Seek() goes on reading at the end of the file.                  *)
SeekReadOn ==
  /\ At("read")
  /\ IF isExit["player"]
     THEN /\ Goto(UnlockEntry)
          /\ UNCHANGED <<demuxVars, got>>
     ELSE /\ Advance
          /\ got' = ReadResult
          /\ IF ReadResult = NoPacket THEN Goto(ReadEntry) ELSE Continue
  /\ UNCHANGED <<flags, pc, decodeVars, noteVars, audioVars, mux, ops, target, history>>

SeekRead ==
  /\ At("read")
  /\ IF isExit["player"]
     THEN /\ Goto(UnlockEntry)
          /\ UNCHANGED <<demuxVars, got>>
     ELSE /\ Advance
          /\ got' = ReadResult
          /\ IF ReadResult = NoPacket THEN Goto(UnlockEntry) ELSE Continue
  /\ UNCHANGED <<flags, pc, decodeVars, noteVars, audioVars, mux, ops, target, history>>

(* Audio before the target is dropped, later audio goes to the decoder's   *)
(* queue, video goes straight into the codec.                              *)
SeekRoute ==
  /\ At("route")
  /\ got # NoPacket
  /\ got' = NoPacket
  /\ IF Kind(got) = "audio"
     THEN /\ IF Pts(got) < target
             THEN Goto(ReadEntry) /\ UNCHANGED noteVars
             ELSE BeginNotify(UI, got) /\ UNCHANGED <<op, ip>>
          /\ UNCHANGED codec
     ELSE /\ SendPacket("vDecode", got)
          /\ Continue
          /\ UNCHANGED noteVars
  /\ UNCHANGED <<flags, pc, demuxVars, packs, packsMutex, pck, isAudio, synPts, framePts,
                 opened, frame, audioVars, mux, ops, target, history>>

SeekNotified ==
  /\ At("route")
  /\ got = NoPacket
  /\ note[UI].at = "done"
  /\ Goto(ReadEntry)
  /\ UNCHANGED <<flags, pc, demuxVars, decodeVars, noteVars, audioVars,
                 mux, ops, target, got, history>>

SeekRecv ==
  /\ At("recv")
  /\ RecvFrame("vDecode")
  /\ IF HasFrame("vDecode") /\ framePts'["vDecode"] >= target
     THEN Goto(UnlockEntry)
     ELSE Goto(ReadEntry)
  /\ UNCHANGED <<flags, pc, demuxVars, packs, packsMutex, pck, isAudio, synPts, opened,
                 noteVars, audioVars, mux, ops, target, got, history>>

SeekNotify ==
  /\ NotifyStep(UI)
  /\ UNCHANGED <<flags, pc, demuxVars, audioVars, playerVars, history>>

Control ==
  \/ Lock \/ Unlock \/ Request \/ Join \/ Await \/ StartPart
  \/ DecoderCall \/ AudioCall \/ DemuxCall
  \/ SeekRead \/ SeekRoute \/ SeekNotified \/ SeekRecv \/ SeekNotify

-----------------------------------------------------------------------------
(* The demuxer thread (IDemux::Main).                                      *)

DemuxLoop(t) ==
  /\ EnterLoop(t, "read") \/ PausedLoop(t, "read") \/ Leave(t)
  /\ UNCHANGED <<demuxVars, decodeVars, noteVars, audioVars, playerVars, history>>

DemuxRead(t) ==
  /\ pc[t] = "read"
  /\ Advance
  /\ IF ReadResult = NoPacket
     THEN /\ Again(t, "read")
          /\ UNCHANGED noteVars
     ELSE /\ GoTo(t, "notify")
          /\ BeginNotify(t, ReadResult)
          /\ UNCHANGED <<isExit, isPause, isPausing>>
  /\ UNCHANGED <<isRunning, decodeVars, audioVars, playerVars, history>>

DemuxNotify(t) ==
  /\ pc[t] = "notify"
  /\ NotifyStep(t)
  /\ IF note'[t].at = "done"
     THEN Again(t, "read")
     ELSE UNCHANGED <<pc, isExit, isPause, isPausing>>
  /\ UNCHANGED <<isRunning, demuxVars, audioVars, playerVars, history>>

Demux(t) == DemuxLoop(t) \/ DemuxRead(t) \/ DemuxNotify(t)

-----------------------------------------------------------------------------
(* A decoder thread (IDecode::Main).                                       *)

DecodeLoop(t) ==
  /\ EnterLoop(t, "take") \/ PausedLoop(t, "take") \/ Leave(t)
  /\ UNCHANGED <<demuxVars, decodeVars, noteVars, audioVars, playerVars, history>>

DecodePacket(t) ==
  /\ Take(t) \/ Send(t) \/ Recv(t) \/ DropPacket(t)
  /\ UNCHANGED <<demuxVars, noteVars, audioVars, playerVars, history>>

(* The frame counts when it comes after a pause that has returned.         *)
Paused == op = "idle" /\ isPause["player"]
LeakOf(isFrame) == IF isFrame /\ Paused THEN 1 ELSE 0

(* The video view shows the frame before Notify() returns.                 *)
Show(t) ==
  /\ pc[t] = "deliver"
  /\ Obj(t) = "vDecode"
  /\ shown' = frame["vDecode"]
  /\ leaked' = [leaked EXCEPT !.video = @ + LeakOf(TRUE)]
  /\ GoTo(t, "recv")
  /\ UNCHANGED <<flags, demuxVars, decodeVars, noteVars, audioVars, playerVars,
                 heard, overlap>>

Output(t) ==
  /\ TestOutput(t) \/ PushFrame(t)
  /\ UNCHANGED <<demuxVars, decodeVars, noteVars, audioPts, outstanding, bufQueue, sound,
                 playerVars, history>>

Decode(t) == DecodeLoop(t) \/ DecodePacket(t) \/ Show(t) \/ Output(t)

-----------------------------------------------------------------------------
(* The audio device and the sync thread (IPlayer::Main).                   *)

Play ==
  /\ Callback
  /\ heard' = IF pc[Device] = "enqueue" THEN sound ELSE heard
  /\ leaked' = [leaked EXCEPT !.audio = @ + LeakOf(pc[Device] = "enqueue")]
  /\ UNCHANGED <<demuxVars, decodeVars, noteVars, playerVars, shown, overlap>>

SyncThread == {"player"} \X Slot

(* The sync loop looks at isExit only, never at isPause.                   *)
SyncAgain(t) == GoTo(t, IF isExit["player"] THEN "leave" ELSE "lock")

SyncLoop(t) ==
  /\ \/ /\ pc[t] = "spawned"
        /\ isRunning' = [isRunning EXCEPT !["player"] = TRUE]
        /\ SyncAgain(t)
        /\ UNCHANGED <<isExit, isPause, isPausing>>
     \/ Leave(t)
  /\ UNCHANGED <<demuxVars, decodeVars, noteVars, audioVars, playerVars, history>>

(* Mutant: the sync thread sees isExit under the mutex and leaves with it. *)
SyncCopyAndLeave(t) ==
  /\ pc[t] = "lock"
  /\ ~mux
  /\ mux' = isExit["player"]
  /\ synPts' = [synPts EXCEPT !["vDecode"] = audioPts]
  /\ SyncAgain(t)
  /\ UNCHANGED <<flags, demuxVars, packs, packsMutex, pck, isAudio, framePts, opened, codec,
                 frame, noteVars, audioVars, op, ip, ops, target, got, history>>

(* It waits for the mutex without a limit.                                 *)
SyncCopy(t) ==
  /\ pc[t] = "lock"
  /\ ~mux
  /\ synPts' = [synPts EXCEPT !["vDecode"] = audioPts]
  /\ SyncAgain(t)
  /\ UNCHANGED <<flags, demuxVars, packs, packsMutex, pck, isAudio, framePts, opened, codec,
                 frame, noteVars, audioVars, playerVars, history>>

Sync(t) == SyncLoop(t) \/ SyncCopy(t)

-----------------------------------------------------------------------------
Next ==
  \/ Call
  \/ Control
  \/ \E t \in DemuxThread : Demux(t)
  \/ \E t \in DecodeThread : Decode(t)
  \/ Play
  \/ \E t \in SyncThread : Sync(t)

(* Every thread is scheduled again and again; the application need not     *)
(* make another call.                                                      *)
Fairness ==
  /\ WF_vars(Control)
  /\ \A t \in DemuxThread : WF_vars(Demux(t))
  /\ \A t \in DecodeThread : WF_vars(Decode(t))
  /\ WF_vars(Play)
  /\ \A t \in SyncThread : WF_vars(Sync(t))

Spec == Init /\ [][Next]_vars /\ Fairness

-----------------------------------------------------------------------------
(* Properties.                                                             *)

Label == {"none", "spawned", "head", "leave", "read", "notify",
          "take", "send", "recv", "deliver", "push", "drop",
          "pop", "enqueue", "lock"}

NoteLabel == {"done", "lock", "test", "push"}

(* Every variable of the player and of its parts has its type; the         *)
(* positions in the file and in a script stay within them.                 *)
TypeOK ==
  /\ {isExit, isRunning, isPause, isPausing} \subseteq [Object -> BOOLEAN]
  /\ pc \in [Thread -> Label]
  /\ ic \in BOOLEAN /\ pos \in 1 .. Len(File) + 1 /\ epoch \in Nat
  /\ packs \in [Decoder -> Seq(Packet)] /\ codec \in [Decoder -> Seq(Packet)]
  /\ packsMutex \in [Decoder -> {Free} \cup DecodeThread]
  /\ pck \in [DecodeThread -> Packet] /\ frame \in [Decoder -> Packet]
  /\ {isAudio, opened} \subseteq [Decoder -> BOOLEAN]
  /\ {synPts, framePts} \subseteq [Decoder -> Nat]
  /\ notifyMux \in {Free} \cup Caller
  /\ note \in [Caller -> [at : NoteLabel, to : 0 .. Len(obss), pkt : Packet]]
  /\ frames \in Seq(Packet) /\ audioPts \in Nat
  /\ {outstanding, bufQueue, mux} \subseteq BOOLEAN
  /\ op \in {"idle"} \cup DOMAIN Script
  /\ ip \in IF op = "idle" THEN {1} ELSE DOMAIN Script[op]
  /\ ops \in 0 .. MaxOps /\ target \in Nat
  /\ {got, sound, shown, heard} \subseteq Packet
  /\ overlap \subseteq Object
  /\ leaked \in [video : Nat, audio : Nat]

(* However many threads push into a queue, a decoder never holds more than *)
(* maxList packets, and the audio output never more than maxFrame + 1      *)
(* frames: it tests size > maxFrame before it appends.                     *)
QueueBounds ==
  /\ \A d \in Decoder : Len(packs[d]) <= maxList
  /\ Len(frames) <= maxFrame + 1

Places(p) ==
  {x \in Decoder \X (1 .. maxList) : x[2] \in DOMAIN packs[x[1]] /\ packs[x[1]][x[2]] = p}
  \cup {t \in DecodeThread : pck[t] = p}

(* A packet has one owner, who frees it: it is never in two queues, twice  *)
(* in one, or in the hands of a worker and still queued.                   *)
SingleOwner ==
  \A n \in 1 .. Len(File), e \in 1 .. epoch :
    Cardinality(Places([n |-> n, e |-> e])) <= 1

Later(p, q) == p.e < q.e \/ (p.e = q.e /\ p.n < q.n)

(* Packets are queued in the order of the file even while Seek() pushes    *)
(* from the control thread and the demuxer thread is still in a Notify().  *)
QueueOrder ==
  \A d \in Decoder : \A i, j \in DOMAIN packs[d] :
    i < j => Later(packs[d][i], packs[d][j])

InPipeline ==
  (UNION {{packs[d][i] : i \in DOMAIN packs[d]} : d \in Decoder})
  \cup (UNION {{codec[d][i] : i \in DOMAIN codec[d]} : d \in Decoder})
  \cup {pck[t] : t \in DecodeThread}
  \cup {note[c].pkt : c \in Caller}
  \cup {frames[i] : i \in DOMAIN frames}

Stale == {p \in InPipeline : p.e # 0 /\ p.e < epoch}

(* Open() clears every queue, but a demuxer thread that missed its Stop()  *)
(* can still push the packet it holds: of the old file at most one packet  *)
(* survives into the new one.                                              *)
AtMostOneStale == Cardinality(Stale) <= 1

Delivers(d) == {k \in Slot : pc[<<d, k>>] \in {"deliver", "push"}}

(* While the frame of a decoder is being shown or resampled, nobody decodes*)
(* into it and nobody frees it.                                            *)
FrameSafe ==
  [][\A d \in Decoder :
       Delivers(d) \cap Delivers(d)' # {} => frame'[d] = frame[d]]_vars

(* After a pause has returned at most one more frame is shown and at most  *)
(* one more is handed to the audio device: those already taken.            *)
PauseLeak == leaked.video <= 1 /\ leaked.audio <= 1

(* The device has a buffer to play, or its callback is running.            *)
ChainAlive == outstanding \/ pc[Device] # "none"

Playing == op = "idle" /\ \A o \in Object : ~isPause[o]

Drained ==
  /\ AtEnd
  /\ \A d \in Decoder : packs[d] = <<>> /\ packsMutex[d] = Free
  /\ \A c \in Caller : note[c].at = "done"
  /\ frames = <<>> /\ sound = NoPacket

(* A player that is left to play, paused and resumed before or not, comes  *)
(* to the end of the file: full queues, the wait of the video for the audio*)
(* clock and the mutexes never hold each other up for good.  It needs the  *)
(* callbacks of the device to go on (see CallbacksContinue).               *)
PlaybackProgress == <>[](Playing /\ ChainAlive) => <>[]Drained

(* Every call of the application returns: Open() though it holds the       *)
(* player's mutex while it waits for threads that may be waiting for it,   *)
(* Seek() though it waits for the queues of decoders it has paused.        *)
CallReturns == (op # "idle") ~> (op = "idle")

(* Playback of one file implements the abstract specification.             *)
Stream == INSTANCE Playback WITH
  heard <- IF sound # NoPacket THEN sound.n ELSE heard.n,
  clock <- synPts["vDecode"],
  released <- IF pck[<<"vDecode", 1>>] # NoPacket THEN pck[<<"vDecode", 1>>].n ELSE shown.n,
  shown <- shown.n

(* Video and audio come out in order and complete, and the video waits for *)
(* the sound: the pipeline from Read() to Render() and Enqueue() against   *)
(* module Playback.                                                        *)
PlaysInOrder == Stream!Spec

-----------------------------------------------------------------------------
(* What documents and comments of the source say and the code does not do. *)

(* IAudioPlay.h:23 says that GetData() blocks while there is no data; when *)
(* it returns without data the callback enqueues nothing and no callback   *)
(* follows.  Once StartPlay() has returned the callbacks should go on.     *)
CallbacksContinue == op = "idle" => ChainAlive

(* IDecode.h:60: the synchronization time has to be cleared when a file is *)
(* opened again.  It should come from a frame of the open file.            *)
SyncTimeOfThisFile ==
  (op = "idle" /\ synPts["vDecode"] > 0) => epoch \in {heard.e, sound.e}

(* The three that follow have counterexamples too; section 3 of the README *)
(* says how to see them.                                                   *)

(* IPlayer.cpp:41-43: Close() stops the sync thread first.  One player     *)
(* should have one.                                                        *)
OneSyncThread == Cardinality(Live("player")) <= 1

(* IAudioPlay.h:30 says of StartPlay() that it starts playing.  Between    *)
(* calls the audio output should be paused only when the player is.        *)
StartPlayPlays == (op = "idle" /\ isPause["audioPlay"]) => isPause["player"]

(* The sequence diagram of the frame data (UML) has Notify() hand each     *)
(* decoder the packets of its own stream.                                  *)
AudioDecoderGetsAudio ==
  \A i \in DOMAIN packs["aDecode"] : Kind(packs["aDecode"][i]) = "audio"

=============================================================================
