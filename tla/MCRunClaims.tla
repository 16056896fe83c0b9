---------------------------- MODULE MCRunClaims ----------------------------
(* Small instances of RunClaims for TLC.                                   *)
EXTENDS RunClaims, TLC

SafetySymmetry == Permutations(Runs) \cup Permutations(Daemons)
=============================================================================
