---------------------------- MODULE IAudioPlay ------------------------------
(***************************************************************************)
(* The audio output (IAudioPlay.cpp, SLAudioPlay.cpp): a queue of resampled*)
(* frames, filled by the audio decoder's worker and emptied by the callback*)
(* of the OpenSL ES buffer queue.                                          *)
(*                                                                         *)
(* OpenSL ES calls back when the buffer it was given has been played, and  *)
(* the callback hands it the next one: playback is a chain of callbacks    *)
(* with one buffer outstanding.  The callback runs GetData(), whose loop   *)
(* has the shape of the worker loops of XThread, on the thread of the      *)
(* device, <<"audioPlay", 1>>; the thread is "none" between two callbacks. *)
(***************************************************************************)
EXTENDS IDecode

CONSTANT maxFrame    \* bound tested by Update() (100 in IAudioPlay.h)

ASSUME AudioAssumption ==
  /\ "audioPlay" \in Object
  /\ 1 \in Slot
  /\ maxFrame \in Nat

VARIABLES
  frames,      \* the frame queue
  audioPts,    \* IAudioPlay::pts, time of the frame played last
  outstanding, \* whether the device has a buffer to play
  bufQueue,    \* whether the queue a running callback was given still exists
  sound        \* the frame a running callback copied into buf

audioVars == <<frames, audioPts, outstanding, bufQueue, sound>>

Device == <<"audioPlay", 1>>

AudioInit ==
  /\ frames = <<>>
  /\ audioPts = 0
  /\ outstanding = FALSE
  /\ bufQueue = FALSE
  /\ sound = NoPacket

-----------------------------------------------------------------------------
(* Update(), run by a worker of the audio decoder after the resampler.     *)

(* The loop condition.  A frame that meets a stopped output is not kept.   *)
TestOutput(t) ==
  /\ pc[t] = "deliver"
  /\ Obj(t) = "aDecode"
  /\ GoTo(t, IF isExit["audioPlay"] THEN "recv" ELSE "push")
  /\ UNCHANGED <<flags, frames>>

(* The body: push, or sleep and test again.                                *)
PushFrame(t) ==
  /\ pc[t] = "push"
  /\ IF Len(frames) > maxFrame
     THEN /\ GoTo(t, "deliver")
          /\ UNCHANGED frames
     ELSE /\ GoTo(t, "recv")
          /\ frames' = Append(frames, frame[Obj(t)])
  /\ UNCHANGED flags

-----------------------------------------------------------------------------
(* The callback.                                                           *)

(* The device has played its buffer and calls PcmCall().                   *)
Fire ==
  /\ outstanding
  /\ pc[Device] = "none"
  /\ outstanding' = FALSE
  /\ bufQueue' = TRUE
  /\ GoTo(Device, "spawned")
  /\ UNCHANGED <<flags, frames, audioPts, sound>>

PopFrame ==
  /\ pc[Device] = "pop"
  /\ IF frames = <<>>
     THEN /\ Again(Device, "pop")
          /\ UNCHANGED <<frames, audioPts, sound>>
     ELSE /\ GoTo(Device, "enqueue")
          /\ UNCHANGED <<isExit, isPause, isPausing>>
          /\ sound' = Head(frames)
          /\ audioPts' = Pts(Head(frames))
          /\ frames' = Tail(frames)
  /\ UNCHANGED <<isRunning, outstanding, bufQueue>>

(* The rest of PlayCall(); GetData() returned data, so isRunning stays set.*)
Enqueue ==
  /\ pc[Device] = "enqueue"
  /\ outstanding' = (outstanding \/ bufQueue)
  /\ sound' = NoPacket
  /\ GoTo(Device, "none")
  /\ UNCHANGED <<flags, frames, audioPts, bufQueue>>

(* GetData() found isExit: PlayCall() returns without a new buffer, which  *)
(* ends the chain of callbacks.                                            *)
Callback ==
  \/ Fire
  \/ PopFrame
  \/ Enqueue
  \/ /\ \/ EnterLoop(Device, "pop")
        \/ PausedLoop(Device, "pop")
        \/ Leave(Device)
     /\ UNCHANGED audioVars

-----------------------------------------------------------------------------
(* Calls of the control thread.                                            *)

ClearFrames ==
  /\ frames' = <<>>
  /\ UNCHANGED <<audioPts, outstanding, bufQueue, sound>>

(* SLAudioPlay::Close() after its Clear(): the device is destroyed.        *)
DestroyDevice ==
  /\ outstanding' = FALSE
  /\ bufQueue' = FALSE
  /\ UNCHANGED <<frames, audioPts, sound>>

(* StartPlay() after its Close(): the device starts on a first buffer ...  *)
CreateDevice ==
  /\ outstanding' = TRUE
  /\ UNCHANGED <<frames, audioPts, bufQueue, sound>>

(* ... and only then is the exit request of the last Stop() withdrawn.     *)
WithdrawExit ==
  /\ isExit' = [isExit EXCEPT !["audioPlay"] = FALSE]
  /\ UNCHANGED <<isRunning, isPause, isPausing>>

=============================================================================
