----------------------------- MODULE FFResample -----------------------------
(***************************************************************************)
(* The resampler (FFResample.cpp).  Resample() runs in the thread of an    *)
(* audio decoder and holds the mutex; Open() runs in the thread that calls *)
(* the player and holds nothing.  Close() is never called.                 *)
(*                                                                         *)
(* A frame is its number of channels and whether it has samples.  The      *)
(* output has the channels of the input (IPlayer::Open() passes the same   *)
(* parameters twice), so a context is known by that number.  Sizes are in  *)
(* samples of all channels, for frames of one sample.                      *)
(***************************************************************************)
EXTENDS Naturals

CONSTANTS
  Resampler,   \* the threads in which an audio decoder can run
  Channels,    \* numbers of channels of a file
  Nobody

ASSUME FFResampleAssumption ==
  /\ Channels \subseteq Nat \ {0}
  /\ Nobody \notin Resampler \cup Nat

Uninitialised == 0      \* a context after swr_alloc(), before swr_init()

VARIABLES
  actx,         \* the context: Nobody, Uninitialised, or its channels
  outChannels,  \* as the last successful Open() left it
  resampleMux,  \* the holder of FFResample::mux
  resample      \* resample[t]: where Resample() of t is, its frame, its buffer

resampleVars == <<actx, outChannels, resampleMux, resample>>

NoFrame == [pc |-> "away", channels |-> 0, samples |-> 0, room |-> 0]

ResampleInit ==
  /\ actx = Nobody
  /\ outChannels = 2
  /\ resampleMux = Nobody
  /\ resample = [t \in Resampler |-> NoFrame]

-----------------------------------------------------------------------------
Stage(t, label) == resample[t].pc = label

(* Mutant: a frame without samples is let in.                              *)
AnyFrame(samples) == TRUE

(* The first test of Resample(), on XData::size.                           *)
HasData(samples) == samples > 0

(* Resample() begins, or returns at once.                                  *)
Offer(t, channels, samples) ==
  /\ Stage(t, "away")
  /\ HasData(samples)
  /\ resample' = [resample EXCEPT ![t] =
       [pc |-> "lock", channels |-> channels, samples |-> samples, room |-> 0]]
  /\ UNCHANGED <<actx, outChannels, resampleMux>>

(* The mutex, then the room for the output.  Without a context the call    *)
(* ends; so it does for a size of zero, but with the mutex held.           *)
Allocate(t) ==
  LET outsize == outChannels * resample[t].samples IN
  /\ Stage(t, "lock")
  /\ resampleMux = Nobody
  /\ IF actx = Nobody
     THEN /\ resample' = [resample EXCEPT ![t] = NoFrame]
          /\ UNCHANGED resampleMux
     ELSE /\ resample' = [resample EXCEPT ![t] =
               IF outsize <= 0 THEN NoFrame ELSE [@ EXCEPT !.pc = "convert", !.room = outsize]]
          /\ resampleMux' = t
  /\ UNCHANGED <<actx, outChannels>>

(* swr_convert(), which refuses a context that is not initialised.         *)
Convert(t) ==
  /\ Stage(t, "convert")
  /\ resample' = [resample EXCEPT ![t] = NoFrame]
  /\ resampleMux' = Nobody
  /\ UNCHANGED <<actx, outChannels>>

ResampleStep(t) == Allocate(t) \/ Convert(t)

(* What swr_convert() reads and writes is there.                           *)
Fits(t) ==
  actx # Uninitialised =>
    /\ actx * resample[t].samples <= resample[t].room
    /\ actx <= resample[t].channels

-----------------------------------------------------------------------------
(* Open(), in three steps: swr_alloc() and its options; swr_init(); the    *)
(* members that follow.                                                    *)
AllocContext ==
  /\ actx' = Uninitialised
  /\ UNCHANGED <<outChannels, resampleMux, resample>>

InitContext(channels) ==
  /\ actx' = channels
  /\ UNCHANGED <<outChannels, resampleMux, resample>>

(* Mutant: the size of the first file's frames is kept.                    *)
KeepOutChannels(channels) == UNCHANGED <<outChannels, actx, resampleMux, resample>>

SetOutChannels(channels) ==
  /\ outChannels' = channels
  /\ UNCHANGED <<actx, resampleMux, resample>>

=============================================================================
