------------------------------ MODULE MCSessions ------------------------------
(***************************************************************************)
(* SubAgentSessions for TLC: runs and requesters are interchangeable.      *)
(***************************************************************************)
EXTENDS SubAgentSessions, TLC

Symm == Permutations(Run) \cup Permutations(Caller)
=============================================================================
