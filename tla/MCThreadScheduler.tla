-------------------------- MODULE MCThreadScheduler --------------------------
(* Symmetry for the safety runs of ThreadScheduler.                        *)
EXTENDS ThreadScheduler

Symmetry == Permutations(Threads) \cup Permutations(Works) \cup Permutations(Tasks)

=============================================================================
