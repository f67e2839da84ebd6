------------------------------ MODULE MCSinks -------------------------------
EXTENDS Sinks, TLC

(* Threads and windows are interchangeable, and no property is temporal    *)
(* beyond a single step.                                                   *)
Names == Permutations(Renderer) \cup Permutations(Resampler) \cup Permutations(Window)

=============================================================================
