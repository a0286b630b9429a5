------------------------------- MODULE RunLedger -------------------------------
(***************************************************************************)
(* What SubAgentRunRegistry promises its callers: one table of runs whose  *)
(* statuses follow the lifecycle of SubAgentRun, changed by one call at a  *)
(* time, from which only terminal runs are ever dropped.                   *)
(***************************************************************************)
CONSTANT Run

Active == {"pending", "running"}
Terminal == {"completed", "failed", "cancelled", "timed_out"}
Stored == Active \cup Terminal \cup {"absent"}

VARIABLE runs

\* SubAgentRun.start, complete, fail, cancel and time_out: the statuses a
\* transition to s may start from; the others raise ValueError.
From(s) ==
  CASE s = "running" -> {"pending"}
    [] s \in {"completed", "failed"} -> {"running"}
    [] s \in {"cancelled", "timed_out"} -> Active
    [] OTHER -> {}

\* The table without the terminal runs in D (retention and capacity).
Without(t, D) == [r \in Run |-> IF r \in D THEN "absent" ELSE t[r]]

Terminals(t) == {r \in Run : t[r] \in Terminal}

Init == runs = [r \in Run |-> "absent"]

\* A call writes table t, less some of its terminal runs.
Write(t) == \E D \in SUBSET Terminals(t) : runs' = Without(t, D)

Create(r) == runs[r] = "absent" /\ Write([runs EXCEPT ![r] = "pending"])

Move(r, s) == runs[r] \in From(s) /\ Write([runs EXCEPT ![r] = s])

\* attach_metadata, set_trace_context: no status changes.
Touch == Write(runs)

\* A restart times out whatever was in flight.
Recover ==
  runs' = [r \in Run |-> IF runs[r] \in Active THEN "timed_out" ELSE runs[r]]

Next ==
  \/ \E r \in Run : Create(r) \/ \E s \in Stored : Move(r, s)
  \/ Touch
  \/ Recover

Spec == Init /\ [][Next]_runs
=============================================================================
