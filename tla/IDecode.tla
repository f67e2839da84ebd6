------------------------------ MODULE IDecode -------------------------------
(***************************************************************************)
(* The two decoders (IDecode.cpp, FFDecode.cpp): a packet queue filled by  *)
(* Update(), a worker that takes packets from it, and the codec in between.*)
(*                                                                         *)
(* The worker keeps packsMutex from the moment it takes a packet until it  *)
(* has handed all the frames of that packet to its observer.  The observer *)
(* of the audio decoder (resampler and audio output) may block, so the     *)
(* mutex has an owner here and the steps below it are separate.            *)
(*                                                                         *)
(* The codec is a queue of packets accepted and not yet received as        *)
(* frames, one frame per packet: avcodec_receive_frame() has a frame as    *)
(* soon as more than Delay packets are in it, and avcodec_send_packet()    *)
(* refuses a packet once the frame slot and the packet slot behind it are  *)
(* taken: module DecoderQueue, which decoding with frame threads is shown  *)
(* to implement in module SendReceive.  FFDecode::mux is held around one   *)
(* codec call at a time, which is therefore one step.                      *)
(***************************************************************************)
EXTENDS XThread, FFDemux

CONSTANTS
  maxList,    \* most packets in a queue (100 in IDecode.h)
  Delay       \* packets a codec holds back before its first frame

Decoder == {"vDecode", "aDecode"}

ASSUME DecodeAssumption ==
  /\ Decoder \subseteq Object
  /\ maxList \in Nat \ {0}
  /\ Delay \in Nat

VARIABLES
  packs,        \* packs[d]: the packet queue
  packsMutex,   \* packsMutex[d]: the worker that holds it, or Free
  pck,          \* pck[t]: the packet worker t took
  isAudio,      \* isAudio[d]: the stream the decoder believes to decode
  synPts,       \* synPts[d]: audio clock last seen by the decoder
  framePts,     \* framePts[d]: IDecode::pts, time of the last frame
  opened,       \* opened[d]: whether the codec context is there
  codec,        \* codec[d]: packets inside the codec
  frame         \* frame[d]: content of the one AVFrame RecvFrame() reuses

decodeVars == <<packs, packsMutex, pck, isAudio, synPts, framePts, opened, codec, frame>>

Free == <<"free", 0>>

DecodeThread == Decoder \X Slot

DecodeInit ==
  /\ packs = [d \in Decoder |-> <<>>]
  /\ packsMutex = [d \in Decoder |-> Free]
  /\ pck = [t \in DecodeThread |-> NoPacket]
  /\ isAudio = [d \in Decoder |-> FALSE]
  /\ synPts = [d \in Decoder |-> 0]
  /\ framePts = [d \in Decoder |-> 0]
  /\ opened = [d \in Decoder |-> FALSE]
  /\ codec = [d \in Decoder |-> <<>>]
  /\ frame = [d \in Decoder |-> NoPacket]

-----------------------------------------------------------------------------
(* The codec.                                                              *)

Accepts(d) == opened[d] /\ Len(codec[d]) < Delay + 2

SendPacket(d, p) ==
  codec' = [codec EXCEPT ![d] = IF Accepts(d) THEN Append(@, p) ELSE @]

HasFrame(d) == opened[d] /\ Len(codec[d]) > Delay

(* RecvFrame() drops the frame it returned before, whether or not there is *)
(* a new one.                                                              *)
RecvFrame(d) ==
  IF HasFrame(d)
  THEN /\ codec' = [codec EXCEPT ![d] = Tail(@)]
       /\ frame' = [frame EXCEPT ![d] = Head(codec[d])]
       /\ framePts' = [framePts EXCEPT ![d] = Pts(Head(codec[d]))]
  ELSE /\ frame' = [frame EXCEPT ![d] = NoPacket]
       /\ UNCHANGED <<codec, framePts>>

-----------------------------------------------------------------------------
(* Update(): the part that holds packsMutex.  The caller's loop is in      *)
(* module IObserver.                                                       *)

CanPush(d) == packsMutex[d] = Free

(* Mutant: the queue takes one packet too many.                            *)
HasRoomOffByOne(d) == Len(packs[d]) <= maxList

HasRoom(d) == Len(packs[d]) < maxList

PushPacket(d, p) == packs' = [packs EXCEPT ![d] = Append(@, p)]

-----------------------------------------------------------------------------
(* Calls of the control thread.                                            *)

(* Mutant: Clear() resets the times and keeps the packets.                 *)
ClearTimesOnly(d) ==
  /\ packsMutex[d] = Free
  /\ framePts' = [framePts EXCEPT ![d] = 0]
  /\ synPts' = [synPts EXCEPT ![d] = 0]
  /\ UNCHANGED <<packs, packsMutex, pck, isAudio, opened, codec, frame>>

(* Mutant: Clear() does not take packsMutex.                               *)
ClearQueueUnlocked(d) ==
  /\ packs' = [packs EXCEPT ![d] = <<>>]
  /\ framePts' = [framePts EXCEPT ![d] = 0]
  /\ synPts' = [synPts EXCEPT ![d] = 0]
  /\ UNCHANGED <<packsMutex, pck, isAudio, opened, codec, frame>>

(* IDecode::Clear() waits for packsMutex.                                  *)
ClearQueue(d) ==
  /\ packsMutex[d] = Free
  /\ packs' = [packs EXCEPT ![d] = <<>>]
  /\ framePts' = [framePts EXCEPT ![d] = 0]
  /\ synPts' = [synPts EXCEPT ![d] = 0]
  /\ UNCHANGED <<packsMutex, pck, isAudio, opened, codec, frame>>

(* The rest of FFDecode::Clear().                                          *)
FlushCodec(d) ==
  /\ codec' = [codec EXCEPT ![d] = <<>>]
  /\ UNCHANGED <<packs, packsMutex, pck, isAudio, synPts, framePts, opened, frame>>

(* The rest of FFDecode::Close().                                          *)
FreeCodec(d) ==
  /\ framePts' = [framePts EXCEPT ![d] = 0]
  /\ frame' = [frame EXCEPT ![d] = NoPacket]
  /\ opened' = [opened EXCEPT ![d] = FALSE]
  /\ codec' = [codec EXCEPT ![d] = <<>>]
  /\ UNCHANGED <<packs, packsMutex, pck, isAudio, synPts>>

(* FFDecode::Open() after its Close(): isAudio is written only once the    *)
(* codec is open.                                                          *)
OpenCodec(d, ok) ==
  /\ opened' = [opened EXCEPT ![d] = ok]
  /\ isAudio' = [isAudio EXCEPT ![d] = IF ok THEN d = "aDecode" ELSE @]
  /\ UNCHANGED <<packs, packsMutex, pck, synPts, framePts, codec, frame>>

-----------------------------------------------------------------------------
(* The worker, from the point where it asks for packsMutex.                *)

(* Mutant: the video waits for the sound only when it is far ahead.        *)
WaitsTooLittle(d) == ~isAudio[d] /\ synPts[d] > 0 /\ synPts[d] + 1 < framePts[d]

WaitsForAudio(d) == ~isAudio[d] /\ synPts[d] > 0 /\ synPts[d] < framePts[d]

Take(t) ==
  LET d == Obj(t) IN
  /\ pc[t] = "take"
  /\ packsMutex[d] = Free
  /\ IF WaitsForAudio(d) \/ packs[d] = <<>>
     THEN /\ Again(t, "take")
          /\ UNCHANGED <<packs, packsMutex, pck>>
     ELSE /\ GoTo(t, "send")
          /\ UNCHANGED <<isExit, isPause, isPausing>>
          /\ packsMutex' = [packsMutex EXCEPT ![d] = t]
          /\ pck' = [pck EXCEPT ![t] = Head(packs[d])]
          /\ packs' = [packs EXCEPT ![d] = Tail(@)]
  /\ UNCHANGED <<isRunning, isAudio, synPts, framePts, opened, codec, frame>>

Send(t) ==
  LET d == Obj(t) IN
  /\ pc[t] = "send"
  /\ SendPacket(d, pck[t])
  /\ GoTo(t, IF Accepts(d) THEN "recv" ELSE "drop")
  /\ UNCHANGED <<flags, packs, packsMutex, pck, isAudio, synPts, framePts, opened, frame>>

Recv(t) ==
  LET d == Obj(t) IN
  /\ pc[t] = "recv"
  /\ IF isExit[d]
     THEN /\ GoTo(t, "drop")
          /\ UNCHANGED <<codec, frame, framePts>>
     ELSE /\ RecvFrame(d)
          /\ GoTo(t, IF HasFrame(d) THEN "deliver" ELSE "drop")
  /\ UNCHANGED <<flags, packs, packsMutex, pck, isAudio, synPts, opened>>

(* Mutant: the worker empties its queue before it looks at isPause again.  *)
DropAndTakeNext(t) ==
  /\ pc[t] = "drop"
  /\ packsMutex' = [packsMutex EXCEPT ![Obj(t)] = Free]
  /\ pck' = [pck EXCEPT ![t] = NoPacket]
  /\ GoTo(t, "take")
  /\ UNCHANGED <<flags, packs, isAudio, synPts, framePts, opened, codec, frame>>

(* pck.Drop() and the unlock.                                              *)
DropPacket(t) ==
  /\ pc[t] = "drop"
  /\ packsMutex' = [packsMutex EXCEPT ![Obj(t)] = Free]
  /\ pck' = [pck EXCEPT ![t] = NoPacket]
  /\ Again(t, "take")
  /\ UNCHANGED <<isRunning, packs, isAudio, synPts, framePts, opened, codec, frame>>

=============================================================================
