----------------------------- MODULE MCAVBuffer -----------------------------
EXTENDS AVBuffer, TLC

(* Names carry no meaning, and no property is temporal.                    *)
Names == Permutations(Thread) \cup Permutations(Ref) \cup Permutations(Buffer)
           \cup Permutations(Data) \cup Permutations(Pool)

=============================================================================
