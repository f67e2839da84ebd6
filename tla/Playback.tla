------------------------------ MODULE Playback ------------------------------
(***************************************************************************)
(* What a viewer is promised while a file plays: the video frames appear   *)
(* in the order of the file with none missing, so do the audio frames once *)
(* the first has been heard, and a video frame is let go only when the     *)
(* sound has reached the frame before it.  Threads, queues and codecs are  *)
(* out of sight here; IPlayer implements this specification.               *)
(***************************************************************************)
EXTENDS Naturals, Sequences

CONSTANT File    \* the packets of the file: [kind, key, pts]

VARIABLES
  heard,      \* index of the last audio frame handed to the device
  clock,      \* the time of the sound as the video side last saw it
  released,   \* index of the last video packet let go to the decoder
  shown       \* index of the last video frame shown

stream == <<heard, clock, released, shown>>

IndicesOf(kind) == {n \in 1 .. Len(File) : File[n].kind = kind}

(* n is the first packet of its kind after packet m (0: before the file).  *)
Follows(n, m) ==
  /\ n > m
  /\ \A k \in IndicesOf(File[n].kind) : k > m => k >= n

Time(n) == IF n = 0 THEN 0 ELSE File[n].pts

Init ==
  /\ heard = 0
  /\ clock = 0
  /\ released = 0
  /\ shown = 0

(* The first audio frames may be lost while the player starts its threads. *)
Hear ==
  /\ \E n \in IndicesOf("audio") :
       /\ heard = 0 \/ Follows(n, heard)
       /\ heard' = n
  /\ UNCHANGED <<clock, released, shown>>

Copy ==
  /\ clock' = Time(heard)
  /\ UNCHANGED <<heard, released, shown>>

(* Without a clock the video runs freely.                                  *)
Release ==
  /\ released = shown
  /\ clock = 0 \/ Time(shown) <= clock
  /\ \E n \in IndicesOf("video") :
       /\ Follows(n, shown)
       /\ released' = n
  /\ UNCHANGED <<heard, clock, shown>>

Show ==
  /\ released # shown
  /\ shown' = released
  /\ UNCHANGED <<heard, clock, released>>

Next == Hear \/ Copy \/ Release \/ Show

Spec == Init /\ [][Next]_stream

=============================================================================
