----------------------------- MODULE MCRunRegistry -----------------------------
(***************************************************************************)
(* RunRegistry for TLC: processes and runs are interchangeable.            *)
(***************************************************************************)
EXTENDS RunRegistry, TLC

Symm == Permutations(Process) \cup Permutations(Run)
=============================================================================
