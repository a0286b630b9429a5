--------------------------- MODULE SubAgentSessions ---------------------------
(***************************************************************************)
(* Detached sub-agent sessions of one conversation in one agent process:   *)
(* the tools that spawn, follow up, kill and steer them                    *)
(* (subagent_sessions.py) and the asyncio task that runs each of them      *)
(* (SubAgentSessionRunner).  The tools and the tasks meet in the run       *)
(* registry, whose calls are atomic here: RunRegistry shows that they      *)
(* implement RunLedger.                                                    *)
(*                                                                         *)
(*   runs       status of every run in the registry                        *)
(*   parent, root, by   parent_run_id, lineage_root_run_id and             *)
(*              requester_session_key of a run                             *)
(*   task       where the task of a run stands                             *)
(*   cancel     task.cancel() was called and is not delivered yet          *)
(*   tries      failed attempts to store the completion announce           *)
(*   announced  the status in the stored announce payload                  *)
(*   ended      the status in the subagent_ended report                    *)
(*   call       the tool call each requester has in progress               *)
(*   lost       runs whose tool call was abandoned half way                *)
(*   late       runs that ended before their task was launched or while a  *)
(*              tool was about to steer them (a history variable)          *)
(***************************************************************************)
EXTENDS Naturals, FiniteSets

CONSTANTS
  Run,              \* run ids
  Caller,           \* requesters that call the tools: the agent, its sub-agents
  MaxActive,        \* max_active_runs
  MaxChildren,      \* max_children_per_requester
  MaxLineage,       \* max_active_runs_per_lineage
  Lanes,            \* permits of subagent_lane_semaphore
  SpawnRetries,     \* _sess_max_spawn_retries
  AnnounceRetries,  \* subagent_announce_max_retries
  Channel,          \* a Redis control channel is configured
  Fault,            \* the failures this instance may meet
  NoRun             \* no run

ASSUME LimitAssumption ==
  {MaxActive, MaxChildren, MaxLineage, Lanes} \subseteq Nat \ {0}
ASSUME RetryAssumption == {SpawnRetries, AnnounceRetries} \subseteq Nat
ASSUME ChannelAssumption == Channel \in BOOLEAN
ASSUME SessionFaultAssumption ==
  Fault \subseteq {"spawn", "attach", "evict", "turn_cancel"}
ASSUME NoRunAssumption == NoRun \notin Run

VARIABLES runs, parent, root, by, task, cancel, tries, announced, ended, call, lost, late

vars == <<runs, parent, root, by, task, cancel, tries, announced, ended, call, lost, late>>
lineage == <<parent, root, by>>
runner == <<task, cancel, tries, announced, ended>>
history == <<lost, late>>

Ledger == INSTANCE RunLedger

Active == Ledger!Active
Terminal == Ledger!Terminal
Stored == Ledger!Stored

\* gated waits for start_gate, ready has it; queued waits for a lane; lane
\* executes; *_hook awaits the hook of a kill; backoff and report are
\* runner_finalize.  done finished runner_finalize; dead ended without it.
Phase == {"none", "gated", "ready", "queued", "lane", "timeout_hook",
          "cancel_hook", "backoff", "report", "done", "dead"}

\* launch: spawn callback; hooks: launch_emit_lifecycle_hooks; kill: the loop
\* of _ctrl_exec_cancellations; kill_mark, steer: awaiting the control channel.
Call == [op : {"idle", "launch", "hooks", "kill", "kill_mark", "steer"},
         run : Run \cup {NoRun}, left : Nat, todo : SUBSET Run]

TypeOK ==
  /\ runs \in [Run -> Stored]
  /\ parent \in [Run -> Run \cup {NoRun}]
  /\ root \in [Run -> Run \cup {NoRun}]
  /\ by \in [Run -> Caller \cup {NoRun}]
  /\ task \in [Run -> Phase]
  /\ cancel \in [Run -> BOOLEAN]
  /\ tries \in [Run -> Nat]
  /\ announced \in [Run -> Stored \cup {"none", "giveup"}]
  /\ ended \in [Run -> Stored \cup {"none"}]
  /\ call \in [Caller -> Call]
  /\ lost \subseteq Run
  /\ late \subseteq Run

Idle == [op |-> "idle", run |-> NoRun, left |-> 0, todo |-> {}]

Init ==
  /\ runs = [r \in Run |-> "absent"]
  /\ parent = [r \in Run |-> NoRun]
  /\ root = [r \in Run |-> NoRun]
  /\ by = [r \in Run |-> NoRun]
  /\ task = [r \in Run |-> "none"]
  /\ cancel = [r \in Run |-> FALSE]
  /\ tries = [r \in Run |-> 0]
  /\ announced = [r \in Run |-> "none"]
  /\ ended = [r \in Run |-> "none"]
  /\ call = [c \in Caller |-> Idle]
  /\ lost = {}
  /\ late = {}

-----------------------------------------------------------------------------
(***************************************************************************)
(* The registry.                                                           *)
(***************************************************************************)

\* _upsert_locked: a write may evict terminal runs.
Store(t) ==
  \E D \in (IF "evict" \in Fault THEN SUBSET Ledger!Terminals(t) ELSE {{}}) :
    runs' = Ledger!Without(t, D)

\* Mutant: the transition is not checked against the current status.
MarkedBlindly(t, r, s) == [t EXCEPT ![r] = s]

\* mark_completed, mark_failed, mark_cancelled, mark_timed_out: nothing
\* happens when the run is missing or in no status the transition leaves.
Marked(t, r, s) == IF t[r] \in Ledger!From(s) THEN [t EXCEPT ![r] = s] ELSE t

ActiveRuns == {r \in Run : runs[r] \in Active}

\* Runs named so far; ids are never used again.
Fresh(r) == root[r] = NoRun

Child(q, r) == runs[r] # "absent" /\ parent[r] = q

\* list_descendant_runs: what parent_run_id reaches through stored runs.
Descendants(q) ==
  {r \in Run : \A S \in SUBSET Run :
     (\A x \in Run : (Child(q, x) \/ \E y \in S : Child(y, x)) => x \in S) => r \in S}

-----------------------------------------------------------------------------
(***************************************************************************)
(* The tools that start sessions.                                          *)
(***************************************************************************)

\* create_run and mark_running, then the spawn callback with n retries.
Start(c, r, p, rt, key, n) ==
  /\ Fresh(r)
  /\ Store([runs EXCEPT ![r] = "running"])
  /\ parent' = [parent EXCEPT ![r] = p]
  /\ root' = [root EXCEPT ![r] = rt]
  /\ by' = [by EXCEPT ![r] = key]
  /\ call' = [call EXCEPT ![c] = [Idle EXCEPT !.op = "launch", !.run = r, !.left = n]]

\* _spawn_check_capacity.
HasCapacity(c) ==
  /\ Cardinality(ActiveRuns) < MaxActive
  /\ Cardinality({r \in ActiveRuns : by[r] = c}) < MaxChildren

\* sessions_spawn_tool up to the spawn callback's first await.
SessionsSpawn(c, r) ==
  /\ call[c].op = "idle" /\ HasCapacity(c)
  /\ Start(c, r, NoRun, r, c, SpawnRetries)
  /\ UNCHANGED <<runner, history>>

\* sessions_send_tool: a follow-up run under a stored run.
SessionsSend(c, p, r) ==
  /\ call[c].op = "idle" /\ runs[p] # "absent"
  /\ HasCapacity(c)
  /\ Cardinality({q \in ActiveRuns : root[q] = root[p]}) < MaxLineage
  /\ Start(c, r, p, root[p], c, SpawnRetries)
  /\ UNCHANGED <<runner, history>>

\* The send action of subagents_control_tool.
CtrlSend(c, p, r) ==
  /\ call[c].op = "idle" /\ runs[p] # "absent"
  /\ Start(c, r, p, root[p], c, 0)
  /\ UNCHANGED <<runner, history>>

\* Mutant: the retries are never used up.
SpawnFailsForever(c) ==
  /\ "spawn" \in Fault
  /\ call[c].op = "launch"
  /\ call' = [call EXCEPT ![c].left = @ - 1]
  /\ UNCHANGED <<runs, lineage, runner, history>>

\* The spawn callback raises: retried, or the run is marked failed.
SpawnFails(c) ==
  LET r == call[c].run
  IN /\ "spawn" \in Fault
     /\ call[c].op = "launch"
     /\ IF call[c].left > 0
        THEN Store(runs) /\ call' = [call EXCEPT ![c].left = @ - 1]
        ELSE Store(Marked(runs, r, "failed")) /\ call' = [call EXCEPT ![c] = Idle]
     /\ UNCHANGED <<lineage, runner, history>>

\* The tool acts on a run that is over by now.
Late(r) == late' = late \cup ({r} \ ActiveRuns)

\* launch_subagent_session up to the lifecycle hooks: the task waits for its
\* gate.
LaunchSession(c) ==
  /\ call[c].op = "launch"
  /\ task' = [task EXCEPT ![call[c].run] = "gated"]
  /\ call' = [call EXCEPT ![c].op = "hooks"]
  /\ Store(runs)
  /\ Late(call[c].run)
  /\ UNCHANGED <<lineage, cancel, tries, announced, ended, lost>>

\* The hooks are done: start_gate.set().
OpenGate(c) ==
  LET r == call[c].run
  IN /\ call[c].op = "hooks"
     /\ task' = [task EXCEPT ![r] = IF @ = "gated" THEN "ready" ELSE @]
     /\ call' = [call EXCEPT ![c] = Idle]
     /\ UNCHANGED <<runs, lineage, cancel, tries, announced, ended, history>>

-----------------------------------------------------------------------------
(***************************************************************************)
(* The task of a session.  A cancel that was requested is delivered at the *)
(* task's next await, so every other step needs that none is pending.      *)
(***************************************************************************)

\* The gate is open: runner_resolve_overrides, and the queued hook.
RunnerStarts(r) ==
  /\ task[r] = "ready" /\ ~cancel[r]
  /\ task' = [task EXCEPT ![r] = "queued"]
  /\ Store(runs)
  /\ UNCHANGED <<lineage, cancel, tries, announced, ended, call, history>>

\* async with subagent_lane_semaphore.
AcquireLane(r) ==
  /\ task[r] = "queued" /\ ~cancel[r]
  /\ Cardinality({q \in Run : task[q] = "lane"}) < Lanes
  /\ task' = [task EXCEPT ![r] = "lane"]
  /\ Store(runs)
  /\ UNCHANGED <<lineage, cancel, tries, announced, ended, call, history>>

\* runner_finalize after the announce: final_run is read for the reports.
Report(r) ==
  /\ task' = [task EXCEPT ![r] = "report"]
  /\ ended' = [ended EXCEPT ![r] = runs'[r]]

\* persist_subagent_completion_announce on table t after n failed attempts.
Announce(r, t, n) ==
  /\ Store(t)
  /\ \/ /\ runs'[r] \notin Terminal
        /\ Report(r)
        /\ UNCHANGED <<tries, announced>>
     \/ /\ t[r] \in Terminal
        /\ announced' = [announced EXCEPT ![r] = t[r]]
        /\ Report(r)
        /\ UNCHANGED tries
     \/ /\ t[r] \in Terminal /\ "attach" \in Fault /\ n < AnnounceRetries
        /\ tries' = [tries EXCEPT ![r] = n + 1]
        /\ task' = [task EXCEPT ![r] = "backoff"]
        /\ UNCHANGED <<announced, ended>>
     \/ /\ t[r] \in Terminal /\ "attach" \in Fault /\ n = AnnounceRetries
        /\ announced' \in {announced, [announced EXCEPT ![r] = "giveup"]}
        /\ Report(r)
        /\ UNCHANGED tries

\* Mutant: a session whose run is not active leaves it to others to report.
EndsUnmarked(r, s) ==
  /\ task[r] = "lane" /\ ~cancel[r]
  /\ s \in {"completed", "failed"}
  /\ Announce(r, runs, 0)
  /\ UNCHANGED <<lineage, cancel, call, history>>

\* The execution ends: runner_mark_completion or runner_mark_error, and the
\* first attempt to announce.
SessionEnds(r, s) ==
  /\ task[r] = "lane" /\ ~cancel[r]
  /\ s \in {"completed", "failed"}
  /\ Announce(r, Marked(runs, r, s), 0)
  /\ UNCHANGED <<lineage, cancel, call, history>>

\* wait_for raises TimeoutError: runner_mark_timeout, then the killed hook.
SessionTimesOut(r) ==
  /\ task[r] = "lane" /\ ~cancel[r]
  /\ Store(Marked(runs, r, "timed_out"))
  /\ task' = [task EXCEPT ![r] = "timeout_hook"]
  /\ UNCHANGED <<lineage, cancel, tries, announced, ended, call, history>>

\* The killed hook is done, or cancelled: either way runner_finalize follows,
\* without an announce when the session was cancelled.
KilledHookEnds(r) ==
  /\ \/ task[r] = "timeout_hook" /\ Announce(r, runs, 0)
     \/ task[r] = "cancel_hook" /\ Store(runs) /\ Report(r) /\ UNCHANGED <<tries, announced>>
  /\ cancel' = [cancel EXCEPT ![r] = FALSE]
  /\ UNCHANGED <<lineage, call, history>>

RetryAnnounce(r) ==
  /\ task[r] = "backoff" /\ ~cancel[r]
  /\ Announce(r, runs, tries[r])
  /\ UNCHANGED <<lineage, cancel, call, history>>

\* The subagent_ended hook ran: the task leaves subagent_session_tasks.
SessionReported(r) ==
  /\ task[r] = "report" /\ ~cancel[r]
  /\ task' = [task EXCEPT ![r] = "done"]
  /\ UNCHANGED <<runs, lineage, cancel, tries, announced, ended, call, history>>

\* CancelledError: runner_mark_cancelled inside the runner's try block; the
\* end of the task outside it (before the gate, and in runner_finalize).
CancelDelivered(r) ==
  /\ cancel[r] /\ cancel' = [cancel EXCEPT ![r] = FALSE]
  /\ \/ /\ task[r] \in {"queued", "lane"}
        /\ Store(Marked(runs, r, "cancelled"))
        /\ task' = [task EXCEPT ![r] = "cancel_hook"]
     \/ /\ task[r] \in {"gated", "ready", "backoff", "report"}
        /\ task' = [task EXCEPT ![r] = "dead"]
        /\ UNCHANGED runs
  /\ UNCHANGED <<lineage, tries, announced, ended, call, history>>

-----------------------------------------------------------------------------
(***************************************************************************)
(* The tools that stop sessions.                                           *)
(***************************************************************************)

\* Mutant: a task that has not started yet is not cancelled.
CancelledStarted(r) ==
  [cancel EXCEPT ![r] = @ \/ task[r] \notin {"none", "gated", "ready", "done", "dead"}]

\* cancel_subagent_session: task and not task.done().
Cancelled(r) ==
  [cancel EXCEPT ![r] = @ \/ task[r] \notin {"none", "done", "dead"}]

\* _ctrl_handle_kill of one active run or of all: _ctrl_collect_kill_candidates.
Kill(c, Roots) ==
  LET found == Roots \cup UNION {Descendants(q) : q \in Roots}
  IN /\ call[c].op = "idle"
     /\ found \cap ActiveRuns # {}
     /\ call' = [call EXCEPT ![c] = [Idle EXCEPT !.op = "kill", !.todo = found \cap ActiveRuns]]
     /\ UNCHANGED <<runs, lineage, runner, history>>

\* One candidate of _ctrl_exec_cancellations: the task is cancelled, the
\* control message sent, and the run marked; the message is an await.
KillNext(c, r) ==
  LET rest == call[c].todo \ {r}
      next == [call[c] EXCEPT !.todo = rest, !.op = IF rest = {} THEN "idle" ELSE "kill",
                              !.run = NoRun]
  IN /\ call[c].op = "kill" /\ r \in call[c].todo
     /\ \/ /\ runs[r] \notin Active
           /\ call' = [call EXCEPT ![c] = next]
           /\ UNCHANGED <<runs, cancel, late>>
        \/ /\ runs[r] \in Active
           /\ cancel' = Cancelled(r)
           /\ late' = late \cup (IF task[r] = "none" THEN {r} ELSE {})
           /\ IF Channel
              THEN /\ call' = [call EXCEPT ![c] = [@ EXCEPT !.op = "kill_mark", !.run = r, !.todo = rest]]
                   /\ UNCHANGED runs
              ELSE /\ call' = [call EXCEPT ![c] = next]
                   /\ Store(Marked(runs, r, "cancelled"))
     /\ UNCHANGED <<lineage, task, tries, announced, ended, lost>>

\* Mutant: a tool that cancelled the task leaves the mark to the task.
KillMarkSkipped(c) ==
  /\ call[c].op = "kill_mark"
  /\ call' = [call EXCEPT ![c] =
                [@ EXCEPT !.run = NoRun, !.op = IF call[c].todo = {} THEN "idle" ELSE "kill"]]
  /\ UNCHANGED <<runs, lineage, runner, history>>

\* The control message is sent: mark_cancelled.
KillMark(c) ==
  /\ call[c].op = "kill_mark"
  /\ Store(Marked(runs, call[c].run, "cancelled"))
  /\ call' = [call EXCEPT ![c] =
                [@ EXCEPT !.run = NoRun, !.op = IF call[c].todo = {} THEN "idle" ELSE "kill"]]
  /\ UNCHANGED <<lineage, runner, history>>

\* _ctrl_handle_steer of an active run, up to the control message.
Steer(c, r) ==
  /\ Channel
  /\ call[c].op = "idle" /\ runs[r] \in Active
  /\ call' = [call EXCEPT ![c] = [Idle EXCEPT !.op = "steer", !.run = r]]
  /\ UNCHANGED <<runs, lineage, runner, history>>

\* The rest of _ctrl_steer_with_restart up to the spawn callback: the old run
\* r is cancelled and its replacement r2 created.
SteerRestarts(c, r, r2) ==
  /\ \/ call[c].op = "steer" /\ call[c].run = r
     \/ ~Channel /\ call[c].op = "idle" /\ runs[r] \in Active
  /\ cancel' = Cancelled(r)
  /\ Fresh(r2)
  /\ Store([Marked(runs, r, "cancelled") EXCEPT ![r2] = "running"])
  /\ parent' = [parent EXCEPT ![r2] = parent[r]]
  /\ root' = [root EXCEPT ![r2] = root[r]]
  /\ by' = [by EXCEPT ![r2] = by[r]]
  /\ call' = [call EXCEPT ![c] = [Idle EXCEPT !.op = "launch", !.run = r2]]
  /\ Late(r)
  /\ UNCHANGED <<task, tries, announced, ended, lost>>

\* The requester's turn is cancelled at one of the tool's awaits.
TurnCancelled(c) ==
  /\ "turn_cancel" \in Fault
  /\ call[c].op # "idle"
  /\ lost' = lost \cup (IF call[c].op \in {"launch", "hooks", "kill_mark"} THEN {call[c].run} ELSE {})
  /\ call' = [call EXCEPT ![c] = Idle]
  /\ UNCHANGED <<runs, lineage, runner, late>>

ToolStep(c) ==
  \/ LaunchSession(c) \/ OpenGate(c) \/ KillMark(c)
  \/ \E r \in Run : KillNext(c, r) \/ \E r2 \in Run : SteerRestarts(c, r, r2)

RunnerStep(r) ==
  \/ RunnerStarts(r) \/ AcquireLane(r) \/ KilledHookEnds(r)
  \/ RetryAnnounce(r) \/ SessionReported(r) \/ CancelDelivered(r)

Ends(r) == SessionTimesOut(r) \/ \E s \in {"completed", "failed"} : SessionEnds(r, s)

Next ==
  \/ \E c \in Caller, r \in Run : SessionsSpawn(c, r) \/ Steer(c, r)
  \/ \E c \in Caller, p, r \in Run : SessionsSend(c, p, r) \/ CtrlSend(c, p, r)
  \/ \E c \in Caller : \/ ToolStep(c) \/ SpawnFails(c) \/ TurnCancelled(c)
                       \/ \E Roots \in {Run} \cup {{r} : r \in ActiveRuns} : Kill(c, Roots)
  \/ \E r \in Run : RunnerStep(r) \/ Ends(r)

Spec == Init /\ [][Next]_vars

\* The event loop resumes every tool call and task that can go on, and a
\* sub-agent's execution ends: its steps and its model calls are bounded.
FairSpec ==
  /\ Spec
  /\ \A c \in Caller : WF_vars(ToolStep(c))
  /\ \A r \in Run : WF_vars(RunnerStep(r)) /\ WF_vars(Ends(r))

-----------------------------------------------------------------------------
(***************************************************************************)
(* Properties.                                                             *)
(***************************************************************************)

Pending(r, ops) == \E c \in Caller : call[c].op \in ops /\ call[c].run = r

Working == {"gated", "ready", "queued", "lane"}

\* An active run occupies its conversation's limits, so somebody must be bound
\* to end it: the tool that launches it or opens its gate, its own task, or the
\* tool that killed it.  Only the cancelled turn of one of those tools
\* can leave it active for good.
AccountedFor ==
  \A r \in ActiveRuns :
    \/ r \in lost
    \/ Pending(r, {"launch", "kill_mark"})
    \/ task[r] = "gated" /\ Pending(r, {"hooks"})
    \/ task[r] \in Working \ {"gated"}

\* What a session announced and reported as its outcome stays its outcome in
\* the registry, whichever tools act on the run afterwards, and no session
\* reports while its run is still active.
ReportIsOutcome ==
  \A r \in Run :
    /\ ended[r] # "none" => ended[r] \notin Active /\ runs[r] \in {ended[r], "absent"}
    /\ announced[r] \in Terminal => runs[r] \in {announced[r], "absent"}

\* A session works only for an active run, or has its cancellation pending; a
\* session that died without its report belongs to a cancelled run.  The
\* exceptions are the runs a tool acted on with a status that had changed.
SessionMatchesRun ==
  \A r \in Run \ (late \cup lost) :
    /\ task[r] \in Working /\ runs[r] \notin Active => cancel[r]
    /\ task[r] = "dead" => runs[r] \in {"cancelled", "absent"} \/ Pending(r, {"kill_mark"})

\* Every run ends, and its task with it, unless its tool call was abandoned.
SessionsEnd ==
  \A r \in Run :
    runs[r] \in Active
      ~> \/ runs[r] \notin Active /\ task[r] \in {"none", "done", "dead"}
         \/ r \in lost

=============================================================================
