------------------------------ MODULE MCSandbox ------------------------------
(***************************************************************************)
(* SandboxLifecycle for TLC: two tasks of one API server, with the Redis   *)
(* lock, and two tasks of an agent worker, with the advisory lock.  One of *)
(* the server's tasks calls every operation, the other get_or_create.      *)
(***************************************************************************)
EXTENDS SandboxLifecycle, TLC

CONSTANTS c1, c2, c3, c4, api, worker

MCHome == [c \in Caller |-> IF c \in {c3, c4} THEN worker ELSE api]

Symm == Permutations({c3, c4})
=============================================================================
