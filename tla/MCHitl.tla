-------------------------------- MODULE MCHitl --------------------------------
(***************************************************************************)
(* HitlRequest for TLC.  Task slots are interchangeable; the workers are   *)
(* not, one of them being Host.                                            *)
(***************************************************************************)
EXTENDS HitlRequest, TLC

Symm == Permutations(Task)
=============================================================================
