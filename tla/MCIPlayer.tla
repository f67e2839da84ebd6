----------------------------- MODULE MCIPlayer ------------------------------
(* Small files for the player: times 1, 2, ... stand for milliseconds.     *)
EXTENDS IPlayer

KeyFrame(time) == [kind |-> "video", key |-> TRUE, pts |-> time]
Video(time) == [kind |-> "video", key |-> FALSE, pts |-> time]
Audio(time) == [kind |-> "audio", key |-> FALSE, pts |-> time]
Subtitle(time) == [kind |-> "other", key |-> FALSE, pts |-> time]

(* Audio and video interleaved, as a well muxed file has them.             *)
Interleaved == <<KeyFrame(1), Audio(1), Video(2), Audio(2)>>

(* The least with both streams, for runs that open it twice.               *)
Short == <<KeyFrame(1), Audio(1)>>

(* More audio than the queues of the audio side can hold.                  *)
AudioAhead == <<KeyFrame(1), Audio(1), Audio(2)>>

(* No video, and a stream the player does not know.                        *)
Subtitled == <<Audio(1), Subtitle(1)>>

(* Three frames of each, the second of the video a key frame.              *)
Longer == <<KeyFrame(1), Audio(1), KeyFrame(2), Audio(2), Video(3), Audio(3)>>

=============================================================================
