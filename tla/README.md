# MemStack: TLA+ models of the agent platform's coordination

MemStack is an agent and memory platform: a FastAPI backend with a ReAct agent
runtime, PostgreSQL, Redis, Docker and Neo4j behind it, and a web console in front.
Most of its code transforms data (prompts, events, documents, user interface state).
What a model checker can decide better than a test is the part where several tasks or
processes agree on one piece of state. This project models six places where that
agreement is built from conditional updates, leases, locks, streams, cancellation and
recovery:

1. **human-in-the-loop (HITL) requests**: an agent turn asks a person something,
   waits, and resumes when the answer arrives, on a deployment whose processes
   crash, restart and receive each other's messages;
2. **the sub-agent run registry**: the table of delegated runs that every process
   keeps and that all of them rewrite in one shared snapshot;
3. **sub-agent sessions**: detached runs that tools spawn, follow up, kill and steer
   while the sessions' own tasks end, time out and announce;
4. **LLM call resilience**: circuit breaker and rate limiter around every model call;
5. **the channel outbox**: answers sent to chat channels, recorded and retried by the
   workers of several replicas;
6. **the sandbox lifecycle**: the one container a project has, created, adopted,
   replaced and reaped by API servers and agent workers.

Paths below are relative to the repository's `src/`.

## Inventory

| Component | State it keeps | Operations | Interacts through | Hard behaviours |
|---|---|---|---|---|
| HITL row (`sql_hitl_request_repository.py`) | `hitl_requests`: status, response, lease owner and heartbeat | create, update_response / claim_response_v2, reopen_pending, mark_timeout, mark_cancelled, mark_completed, claim_for_processing, refresh_processing_lease, revert_to_answered, scans | SQL from every process | concurrent conditional updates, a non-atomic lease refresh |
| HITL coordinator (`hitl/coordinator.py`) | pending futures, module-level registry | prepare, wait, resolve, complete, cancel_request_if_pending | called by tool handlers and by the consumer of the same process | timeout against late answer, cancellation, futures awaited by others |
| Resume consumer (`hitl/local_resume_consumer.py`) | consumer-group position, resume tasks | listen, reclaim, dispatch on status, resume, fallback resume, reopen, revert, ack | Redis stream, row, coordinator, agent | redelivery, competing consumers, failing acks |
| Startup recovery and lease (`hitl/recovery_service.py`, `hitl/utils.py`) | none of its own | settle expired, replay answered, revert and replay stale | row, agent | recovery beside a live turn, lease expiry of a stalled holder |
| HITL endpoints (`routers/agent/hitl.py`, `hitl_response_v2.py`) | none | respond, cancel, settle expired, publish | row, Redis stream | commit before publish, races on one pending row |
| HITL tool handlers (`processor/hitl_tool_handler.py`) | queued completions of a tool part | five handlers | coordinator | exceptions, cancellation of the generator |
| Run registry (`subagent/run_registry.py`, `run_repository.py`, `subagent_run.py`) | runs by conversation: memory, JSON / SQLite / PostgreSQL snapshot, Redis cache | create_run, mark_*, attach_metadata, set_trace_context, queries, boot recovery, eviction | file lock, shared snapshot | lost updates, crash between two stores, failing load and save, boot recovery |
| Sub-agent sessions (`tools/subagent_sessions.py`, `core/subagent_runner.py`) | session tasks by run, start gates, lane semaphore, announce payloads | sessions_spawn, sessions_send, subagents (send, kill, steer), the session task, announce, finalize | run registry, asyncio cancellation, Redis control channel | kill before the task exists, status read before an await, cancel during finalize, abandoned tool calls |
| Supervision helpers (`subagent/state_tracker.py`, `background_executor.py`, `orphan_sweeper.py`, ...) | progress states, background tasks | register, complete, sweep, announce | mostly not wired | unconditional overwrites |
| LLM resilience (`llm/resilience/`, `llm/litellm/litellm_client.py`) | circuit state and counters, semaphore, request times | can_execute, record_*, reset, acquire, release | providers, the callers' tasks | results recorded in another state, cancelled probes, check-then-wait |
| Channel outbox (`channels/outbox_worker.py`, `channel_repository.py`, `channel_message_router.py`) | `channel_outbox`: status, attempts, next retry | create, mark_sent, mark_failed, list_pending_retry, poll, retry | SQL, chat adapters | at-least-once, two replicas, crash between send and record, broken sessions |
| Channel connections (`channels/connection_manager.py`) | connections and their tasks | add, remove, restart, health check | adapters | removal against a slow connect |
| Sandbox lifecycle (`project_sandbox_lifecycle_service.py`, `sandbox_idle_reaper.py`, `sql_project_sandbox_repository.py`, `redis_lock.py`, `agent_worker_state.py`) | `project_sandboxes`: one row per project; locks | get_or_create, terminate, restart, health check, status sync, repair, reap, recover | SQL, Redis, Docker | two kinds of lock, expiring leases, unlocked operations |
| Sandbox adapter (`mcp_sandbox_adapter.py`) | containers each process tracks | create, terminate, clean up, look up, re-read | Docker | stale memory, name conflicts, failing removals |
| Agent pool (`agent/pool/`) | instances, circuit breakers, health | acquire, release, evict, fail over | agents, containers | half-open probes, resource limits |
| Queue, dead letters | streams, DLQ | publish, consume, move to DLQ | Redis | at-least-once |
| Workspace orchestration | plans, nodes, outbox | plan, dispatch, accept | SQL, agents | attempts, verification |
| Session processor, memory and graph, web console, `agi-stack` | - | - | - | data and I/O, or a second implementation |

How they interact: a turn of the agent asks a person through the HITL path and delegates
through the session tools; sessions keep their status in the run registry
(`SubAgentSessions` instantiates `RunLedger`, which `RunRegistry` implements); every turn
and session calls its model through the LLM client and its tools in the project's sandbox;
the answer of a turn that began in a chat channel leaves through the outbox.

## Modules

| Module | Role |
|---|---|
| `HitlLifecycle` | abstract specification: the life cycle of the `HITLRequest` entity, as user and agent see it |
| `HitlRequest` | one HITL request through row, coordinator, stream, tasks and processes |
| `RunLedger` | abstract specification: what the registry promises, one table changed by one call at a time |
| `RunRegistry` | the registry: calls in steps of load and save, lock, stores, crashes |
| `SubAgentSessions` | the sessions of one conversation over the run table of `RunLedger` |
| `LlmResilience` | the calls of one process to one provider |
| `ChannelOutbox` | answers, their senders, the outbox table and the retry workers |
| `SandboxLifecycle` | one project's row, containers, locks and the calls on them |
| `HitlRequestProofs`, `RunRegistryProofs`, `SubAgentSessionsProofs`, `LlmResilienceProofs`, `ChannelOutboxProofs`, `SandboxLifecycleProofs` | the theorems |
| `MCHitl`, `MCRunRegistry`, `MCSessions`, `MCLlm`, `MCOutbox`, `MCSandbox` | TLC instances: symmetry, model values |

Operators whose comment starts with "Mutant:" or "mutant:" are deliberately wrong
variants of the definition that follows them. Nothing uses them. Substituting one for its
neighbour must make the property it is aimed at fail, which shows that the property
depends on that piece of code.

### HitlRequest and HitlLifecycle

The state is one request: `row`, the coordinator entry `live` and the `turn` of the
asking process `Host`, one stream `entry` per accepted reply, the resume tasks
`task` and the tasks `waiters` that only await the completion future, and `proc`.
`acted` and `bad` are history: the replies an agent acted on, and those the request's
own validation refuses. Requests share nothing but the processes, so one is enough
except for the bounds listed under *Not modelled*.

Every repository method is one conditional `UPDATE`, hence one atomic step: `MarkTimeout`,
`CanClaim` / `ClaimForProcessing` and so on give the row after it.
`refresh_processing_lease` is a `SELECT` and a flush, hence two (`HeartbeatRead`,
`HeartbeatWrite`). The asyncio code is cut at its awaits: `prepare_request` registers
the future (`PrepareRequest`), then awaits the database (`PersistRequest`);
`wait_for_response` gives up (`WaitTimesOut`), then awaits `mark_hitl_request_timeout`
and drops the entry (`FinishTimeout`). `complete_request` is one step: between its
commit and its cleanup the row is settled and others can only join the waiters.

A resume task walks through program counters: `recover` (stale lease), `resume`
(resolve in this process), `reopen`, `claim`, `check`, `run`, `exec`, `wrapup`,
`complete`, `revert`. The startup recovery runs the same steps with entry number 0: it
has nothing to acknowledge. Its lease owner, a fresh UUID in the code, is reused after a
restart in the model, as the consumer's process id may be: the model has more
behaviours.

Time is abstract: `expired`, `row.stale` (lease older than 300 s) and the idle level of
an entry (30 s, 300 s). `LeaseAges` is disabled while a beating holder exists unless
`pause` is among the faults; `EntryIdles` reaches 300 s only when nobody reclaims,
because every consumer is down or cut off from Redis (`outage`).

Faults are chosen per instance by the constant `Fault`: `crash`, `ack` (failing XACK),
`publish`, `reject` (a reply that validation refuses), `cancel_turn`, `error` (handler
or resume exceptions), `db`, `pause`, `outage`. `StateSaved` tells whether
`handle_hitl_pending` runs. Nothing calls it at this commit, and both settings
are checked.

`HitlLifecycle` is the promise: the statuses of the entity, one reply at a time and only
before the deadline (`Answer`), a timeout only after it, an answer taken back only when
some reply was refused (`Reopen`), processing that a dead worker gives back (`Recover`),
and agents that act on accepted, valid replies (`Act`). The refinement maps its status,
reply and count to the row, `refused` to `bad` and `late` to `expired`; leases, entries,
tasks, futures and processes are invisible to it.

### RunRegistry and RunLedger

A call takes the lock (`Begin`, `Free`), loads (`LoadCached`, `LoadRuns`, `FillCache`),
then changes, evicts and saves (`SaveRuns`, `SaveCache`) or does not apply
(`SkipSave`). `Crash` may fall between any two steps. `Backend` selects JSON file,
database or database with Redis cache, which differ in what a failing load gives
(`Loaded`). `SharedLock` says whether the processes share a machine, for the lock is
a local file. Eviction is nondeterministic in age, exact in capacity, and keeps that
the run that ended just now goes last (`Evictable`). `told` is what the caller of the
last transition was told; `owner` is the process that executes a run, which the code
does not record.

`RunLedger` is the promise: `Create`, `Move` along the lifecycle of `SubAgentRun`,
`Touch`, `Recover`; only terminal runs are dropped. The refinement maps the ledger's
table to the stored snapshot `db`.

### SubAgentSessions

One conversation in one process. The tools and the session tasks share an event loop, so
a step is what runs between two awaits, and the registry calls inside it are atomic.
`call` is the tool call of each requester: `SessionsSpawn`, `SessionsSend` and `CtrlSend`
create a run and await the spawn callback (`SpawnFails`, `LaunchSession`), then the hooks
that precede `start_gate.set()` (`OpenGate`). `Kill` collects an active run and its active
descendants, `KillNext` takes one candidate (cancel the task, then the control message),
`KillMark` marks it after that await; `Steer` and `SteerRestarts` replace a run.

`task` is where `_runner` stands: `gated`, `ready`, `queued` for a lane, `lane`,
the hooks of a kill, `backoff` and `report` of `runner_finalize`. `task.cancel()` sets
`cancel`; the `CancelledError` arrives at the next await (`CancelDelivered`), inside the
runner's `try` as `runner_mark_cancelled`, outside it as the end of the task.

`lost` and `late` are history: runs whose tool call was abandoned by a cancelled turn, and
runs that a tool handled with a status that had changed under it.

### LlmResilience

Breaker fields and limiter fields of one provider, and where each caller stands (`wait` for
the semaphore, `sleep` with the window full, `call`). Ages count up to the limit that
matters and stay there, so time needs no bound. `CanExecute` has the code's test of
`_half_open_requests`, which nothing increments. Calls end by answer, error, client error
(not recorded), cancellation or a closed stream (neither is an `Exception`, so nothing is
recorded). `sick` is the provider.

### ChannelOutbox

Rows and senders by message, workers with the batch they listed. `mark_sent` and
`mark_failed` are single conditional transactions, one step each; listing, sending and
recording are separate, because the worker re-reads nothing in between and the list takes
no lock. `broken` is a session after an error inside its transaction: nobody rolls it back, so
the rest of the batch is sent and cannot be recorded. A commit may raise although it was
applied, that of the first insert included: the sender then goes on without a row of its
own and leaves a pending one behind. An adapter may raise although the chat has the
message. An answer may also be streamed into a card (`Stream`): the router then records it
as sent because the card has an id, whatever became of the card's last update. `tries`,
`lost`, `reached` and `carded` are history: deliveries tried, outcomes that a fault kept
out of the row, the messages the chat has, and those left to a streaming card.

### SandboxLifecycle

Every database statement is a step, and so is every Docker call that changes something; the
lookup of a container to adopt and the check that it runs are one step. A call works on the
copy of the row it read (`mine`). What its save writes depends on whether the session, which
holds its objects by weak references, still has the one it `loaded`: if so the columns that
changed (`Written`), and an error when the row is gone; if not the whole copy, inserted again
when the row is gone. The service's dictionary of `asyncio.Lock`s is built per request and
excludes nobody. Row `n` has the placeholder container name `-n` until its container `n`
exists. ERROR and TERMINATED rows are one status, `down`, since every reader treats them
alike.

`lock` has one holder per kind. API servers construct the service with a Redis lock, agent
workers without, so these use PostgreSQL's advisory lock. That one belongs to a database
connection, which the session hands back with its first commit (`EndTransaction`): closed
(`NullPool`) it frees the lock, in a pool it keeps it for whichever session gets the
connection next and refuses it to the others. The model leaves open which, so that after the
commit a second agent worker can be inside, and an advisory acquisition may fail with nobody
to be named as holder. A Redis acquisition fails when the key is held, and when Redis raises,
perhaps after the key was set; a release that raises leaves the key to its time to live
(`Lost`). `container_exists` may answer wrongly, a removal may fail, and it does nothing
while another call of the process is at the same container.

`stirred` marks what the Redis lock of get_or_create cannot see: a call that enters beside
one of an agent worker (or the reverse, or two of these); terminate and restart, which take
no lock; an expired lease; a failing Docker call; a crash. `alone` is the call that nobody has
interrupted since it began.

## Runs

Passing:

| Run | Instance | Shows |
|---|---|---|
| `hitl_lease` | 2 workers, 2 tasks, 2 replies, state saved; crash, ack, publish, reject, cancel_turn | `OneContinuation`, `RefusedNeverActedOn`, `AckNeverStrands`, `SettledIsFinal`, `LifecycleSpec` (refinement), `TypeOK` |
| `hitl_acted` | 2 workers, 2 tasks, 2 replies, state saved; crash, error, db, pause | `ActedOnPersisted` |
| `hitl_live` | 2 workers, 3 tasks, 1 reply, no state; ack, reject; fair | `AnswerSettles`, `TurnEnds` |
| `run_faults` | 2 processes, 2 runs, capacity 1, database; crash, save, load | `TerminalIsFinal`, `TypeOK` |
| `run_cache` | same, Redis cache, all transitions; cache_read | `LedgerSpec` (refinement), `CacheAgrees` |
| `run_orphans` | 2 processes, 1 run, JSON; crash; fair | `ToldIsStored`, `OrphansEnd` |
| `sessions` | 2 runs, 2 requesters, 1 lane, control channel; spawn, evict, turn_cancel | `AccountedFor`, `ReportIsOutcome`, `SessionMatchesRun`, `TypeOK` |
| `sessions_end` | same, no channel; attach; fair | `SessionsEnd` |
| `llm_resilience` | 3 callers, 2 permits, 3 requests per window; fair | `PermitsConserved`, `WindowWithinLimit`, `BreakerSound`, `Recovers`, `TypeOK` |
| `channel_outbox` | 2 messages, sent or streamed, 2 workers, 3 attempts, 2 faults of db and crash; fair | `TriesBounded`, `VerdictEarned`, `SettledIsFinal`, `FailedSettles`, `TypeOK` |
| `sandbox` | 2 requests of an API server, 2 tasks of an agent worker, 2 row generations, 1 disturbance | `OneSandbox`, `Heals`, `LockIsReleased`, `TypeOK` |

Violated, a disagreement between the code and what the repository says of it:

| Run | Property | What happens |
|---|---|---|
| `hitl_strand` | `CrashStrandsNothing` | XCLAIM at 30 s resets the idle time that the stale branch wants at 300 s: a crashed worker's claim is never taken up by the living consumers, although `local_resume_consumer.py:581` says they "do not strand responses" |

Behaviours of the models that are worth knowing, though no run is devoted to them:

* A stream entry that reaches a worker without the live coordinator, and without saved
  state, is completed with no agent having seen the reply (`local_resume_consumer.py:474`;
  `hitl_request.py:30` says "Agent successfully processed the response").
* `reopen_pending` clears whatever reply is current: a redelivered entry of a refused reply
  can clear a later, valid one (`sql_hitl_request_repository.py:326`).
* The coordinator entry of a cancelled turn stays registered, because `CancelledError` is
  not an `Exception`. A worker that starts up may replay an answered row whose turn is
  acting on it elsewhere.
* A cache hit is returned without looking at the database, so after a crash between the two
  saves the older cached table wins (`run_repository.py:314`; line 303 calls the database
  the "source of truth").
* A starting process times out the active runs of living processes too
  (`run_registry.py:704`). With `SharedLock = FALSE`, two machines on one PostgreSQL, the
  registry does not implement the ledger.
* The send action of the control tool checks no capacity, so `max_subagent_active_runs`
  can be exceeded (`subagent_sessions.py:2190`). A killed run whose task does not exist yet
  is executed all the same. A turn cancelled before `start_gate.set()` leaves its run active
  for good.
* The half-open limit of the circuit breaker is compared and never counted
  (`circuit_breaker.py:149`).
* A row whose sender died stays `pending`: the retry worker selects `failed` rows only
  (`channel_repository.py:358`).
* An answer streamed into a card is marked `sent` although the card's last update failed or
  timed out: the router takes the existence of the card for success ("If streaming card was
  used successfully, we're done", `channel_message_router.py:970`). `VerdictEarned` therefore
  says of such a row only that its answer was left to a card.
* The advisory lock is gone with the commit of the new row, before the container is created
  (`sql_project_sandbox_repository.py:104`), although line 307 says that it "persists until
  explicitly released or the database connection closes" and calls this "critical for
  protecting long-running operations like Docker container creation". Two agent workers can
  each start a container.
* Two sandboxes of a project can run at once after the events that `stirred` lists; the
  docstring of `restart_project_sandbox` ("Uses per-project lock") does not hold across
  requests.
* A resume task whose claim raises reverts the request under its worker's id, which is also
  the owner of the lease that another task of that worker may hold
  (`local_resume_consumer.py:553`).

### Bounds

*HITL.* Two workers are the least that separate the process that runs the turn from another
one, and every race of the protocol is between two parties: two resume tasks, a task
and the turn, a task and an endpoint. A second reply (`MaxReply = 2`) is what
redelivery across a reopening needs. `hitl_live` has a third task slot so that slots never
run out while an entry is redelivered. Slots are not a resource of the code: a full
table only delays a delivery. The fault `outage` is left to the theorems, which hold with
it: in the runs an entry becomes 300 s old when every worker is down.

*Registry.* Two processes make every lost update, and two runs with capacity 1 make
eviction happen with and without a free place.

*Sessions.* Two runs are a parent and its follow-up, or a run and the one that replaces it;
two requesters make every race between two tools and a task. One lane makes sessions queue.

*LLM.* Three callers on two permits and a window of three requests: the semaphore, the
window and the breaker each refuse somebody while another call is under way. Thresholds of
two distinguish "one more" from "enough".

*Outbox.* Two messages make a batch with a broken session in its middle; two workers list
the same row; two faults allow an error in the handler of an error. The faults are counted
(`MaxFaults`) because liveness needs them to end; the theorems have no such bound.

*Sandbox.* Four callers, at most two calls at a time: two requests, of which one may be any
operation and the other is get_or_create, or a request and an agent worker, or two workers.
Two row generations (a row and its replacement) and one disturbance, among which the
sandboxes reaped are counted. Two requests that are both of the unlocked kind make the
instance too slow to keep. With one request, two workers and three row generations the model
reaches, in 29 steps, the state in which two workers have each started a container. The
theorems have none of these bounds.

The HITL, session and outbox configurations switch the deadlock check off: a settled
request, an ended session and a delivered answer are the end of their lives. The other
runs check for deadlock.

### Fairness

`HitlRequest!Fairness`: event loops run their ready callbacks (weak fairness of the
turn's steps and of each task), listeners poll and reclaim (delivery and reclaim of each
entry by some worker), clocks advance (`Expire`, `LeaseAges`, `EntryIdles`), and the
deployment restarts dead processes. An agent execution ends because its steps are limited.
No fairness for users, heartbeats or faults. `hitl_live` has no crash: with crashes the
property fails, which is the subject of `hitl_strand`; it has no lost publication, since
such an answer waits for the next process start, as `docs/hitl/README.md` says.

`RunRegistry!FairSpec`: a call that has its lock ends, since it is straight-line code.
Booting is strongly fair, because the lock is contended: `flock` is taken
eventually by a process that keeps asking.

`SubAgentSessions!FairSpec`: the event loop resumes tools and tasks that can go on, and an
execution ends (it has a timeout and a step limit). No fairness for the tools' beginnings or
for faults.

`LlmResilience!FairSpec`: time passes, callers keep calling, the semaphore's queue is served
in order (strong fairness of `Acquire`), and a healthy provider answers some of the calls of
each caller: not all are cancelled or refused for their parameters.

`ChannelOutbox!FairSpec`: time passes, a started sender runs on, and the poll loop catches
every exception and polls again.

## Proofs

TLAPS proves these for every value of the constants under the assumptions the modules
name (`HostAssumption`, `FaultAssumption`, `MarkAssumption`, `ThresholdAssumption`,
`NoRowAssumption` ...):

| Module | Theorem | Statement | Extra hypothesis |
|---|---|---|---|
| `HitlRequest` | `TypeCorrect` | `Spec => []TypeOK` | |
| | `SettledStays` | `Spec => SettledIsFinal` | |
| | `LeaseExclusive` | `Spec => []OneContinuation` | no `pause`, no `db` |
| | `RefusedStaysOut` | `Spec => []RefusedNeverActedOn` | |
| | `ActedIsPersisted` | `Spec => []ActedOnPersisted` | no `reject` |
| | `AckedIsSettled` | `Spec => []AckNeverStrands` | no `error`, no `db`, no `pause` |
| | `RequestImplementsLifecycle` | `Spec => LifecycleSpec` | |
| `RunRegistry` | `RegistryTypeCorrect` | `Spec => []TypeOK` | |
| | `RegistryImplementsLedger` | `Spec => LedgerSpec` | `Dependable`, one lock, no `load` failure |
| | `EndedStaysEnded` | `Spec => TerminalIsFinal` | `Dependable`, one lock |
| | `ToldStaysStored` | `Spec => []ToldIsStored` | `Dependable`, one lock, no `save` failure |
| | `CacheStaysTrue` | `Spec => []CacheAgrees` | `Dependable`, one lock |
| `SubAgentSessions` | `SessionsTypeCorrect` | `Spec => []TypeOK` | |
| | `ActiveRunsAccountedFor` | `Spec => []AccountedFor` | |
| | `ReportsAreOutcomes` | `Spec => []ReportIsOutcome` | |
| | `SessionsMatchRuns` | `Spec => []SessionMatchesRun` | |
| `LlmResilience` | `ResilienceTypeCorrect` | `Spec => []TypeOK` | |
| | `PermitsNeverLeak` | `Spec => []PermitsConserved` | |
| | `RateNeverExceeded` | `Spec => []WindowWithinLimit` | |
| | `BreakerAlwaysSound` | `Spec => []BreakerSound` | |
| `ChannelOutbox` | `OutboxTypeCorrect` | `Spec => []TypeOK` | |
| | `DuplicatesBounded` | `Spec => []TriesBounded` | |
| | `VerdictsEarned` | `Spec => []VerdictEarned` | |
| | `SettledRowsAreFinal` | `Spec => SettledIsFinal` | |
| `SandboxLifecycle` | `SandboxTypeCorrect` | `Spec => []TypeOK` | |
| | `LockAlwaysReleased` | `Spec => []LockIsReleased` | |
| | `OneSandboxPerProject` | `Spec => []OneSandbox` | |
| | `GetOrCreateHeals` | `Spec => []Heals` | |

*The lease.* `OneContinuation` is not inductive: nothing in it says why a second claim
fails. `LeaseInv` adds that a claimed task either finds the row processing, under its own
name and fresh, or completed. A claim needs an answered row, a takeover needs a stale
one, so both are impossible beside it. The live turn may complete the row
under the holder (it completes without a lease owner), which is the second
alternative. A heartbeat that is off or a task that is wrapping up implies a completed
row. Without the hypothesis the theorem is false: a stalled holder wakes up beside
its successor, a dead heartbeat lets a working holder's lease grow old, and a failing claim
reverts the lease of another task of the same worker.

*Refused replies.* `AcceptedInv` bounds every reply number in the system by the number
the row has accepted, so a newly accepted (and perhaps refused) reply is known nowhere
yet; `RefusedInv` adds that the live future never carries a refused one.

*What was acted on.* Without refusals nothing is reopened, so the row accepts one reply
in its life; `ActedInv` says that row, entries, tasks and the live future all carry that
one, and that a row which has it can only move between answered, processing and completed.

*Acknowledgements.* `AckInv` says where the row owes a reply nothing any more (not
`Open`): when its entry is acknowledged, and, for the tasks that await the completion
future, once that is set. Its induction rests on `OpenStep` (only `Respond` opens a reply,
always a new one by `AcceptedInv`; the lease operations move between answered and
processing) and on `LeaseInv`, by which a task that wraps up or completes finds its row
completed or its own. With `error` the theorem is false: a handler's exception sets the
completion future while the row is answered, and the waiting task acknowledges the entry
(`HandlerFails`, `DiscardPrepared`).

*The life cycle.* `LifeInv`: a turn that gives up is past the deadline, a task that
reopens has met a refused reply (the coordinator drops its entry when it sets the
completion future, so "already done" is never a reason), and nobody carries reply 0.
With `RefusedInv` each step changes one visible part (`OnePartMoves`): a reply is
`Answer`, an acting agent `Act` (`ActRefines`), and a row method the action of the same
name or a stutter (`RowRefines`). No fault is excluded.

*The registry.* `Dependable` says what each store can stand: the database every fault, the
JSON file everything but failing reads and writes (after which a process has a table of its
own), the cached database only failing reads of the cache (a crash between the two writes
leaves the copies apart). `LockInv`: two calls overlap only if both are queries. Hence `LoadedInv`: a
call about to save holds the stored table, or the empty one after a failing load. With
`CallInv` (a transition starts from a status of the lifecycle; a run being created is
nowhere yet), `FreshInv`, `FileInv` (while there is no file, every table is empty) and
`CacheAgrees` itself (a load from the cache is a load of the database), the lemma `SaveLemma` gives the effect of one write on one
run, from which the three theorems follow. `SaveRuns` is the only step that changes `db`
and becomes `Create`, `Move`, `Touch` or `Recover` of the ledger.

*Sessions.* The three properties are proved together, in `Safe`. They need to know that
nobody knows a run id before its run exists (`BornOnce`), that a run is launched once
(`OneLauncher`), that a task past its execution has ended its run (`OverIsEnded`), and why a
cancel is pending: a tool ends the run, or its call was abandoned (`CancelHasReason`,
`KillReachesTask`).

*LLM.* `WindowWithinLimit` follows from a bound on the whole list of request times
(`ListBounded`), because an entry is appended only after the old ones are dropped. The
permits are counted by the cardinality of the set of calls under way.

*The outbox.* The bounds on `tries` are inductive only with a count of who may still try a
row. `Upper` adds the workers that tried and have not recorded (`Flying`) and, once the row is settled,
those that listed it and have yet to try (`Waiting`): every worker can be surprised once by
a settled row, and the one that settled it cannot. `Lower` counts, of those in flight, the
ones whose session still works (`Able`), so that no try is counted twice in
`attempt_count`. `BatchOK` says that a batch names a row once. A pending row was tried at
most once, and one that is marked sent was received or is `carded`, which the streamed
answer's step gives and nothing takes away.

*The sandbox.* `ShapeInv` lists, operation by operation, the steps a call can be at and
whether it works on a stored row, a draft or none. `HoldInv`: until something stirs, at most
one caller is between the acquisition and its last Docker call (`Critical`), and if that is a
request it holds the Redis lock. Nothing is claimed of the advisory lock, which is why
workers may share the section only after something stirred. Hence `SoleInv`: a running
container has a row, and a caller about to start one (`Making`) knows that none runs; its four
conjuncts are needed together, for a container is started several steps after the look at
Docker. `AloneInv` follows one uninterrupted call from its first read to its release: its copy
is the row as it is, and so is what its session has loaded (`Current`), so a save writes what
is true whichever way it is written (`WrittenRow`, `Undisturbed`). Each action has a lemma
that says what it does to the call, the row and Docker (`...Facts`), and the invariants
are shown from these.

Only model-checked: the liveness properties (`AnswerSettles`, `TurnEnds`, `OrphansEnd`,
`SessionsEnd`, `Recovers`, `FailedSettles`), because fairness is outside the prover's
reach, and the violated statement. Every invariant, action property and refinement that a
run checks is also a theorem.

## Not modelled

* Several HITL requests at once: XPENDING looks at the ten oldest entries, the stream is
  trimmed at 1000. Both can hide an answer in a busy project.
* The content of replies: validation is a predicate (`bad`), sealing and sanitising are
  data. The idempotent replay of `respond_to_hitl_v2`, which changes no state, and
  authorisation. Failures of a commit in `complete_request`. That the coordinator and the
  resumed agent validate alike is assumed: both are `bad`.
* In the HITL recovery: `mark_expired` and the two scans of a starting process are one step
  (`Restart`), although other processes may write between them; a row without a readable
  response, which is skipped (`recovery_service.py:95`), does not occur.
* The Ray path (`ray_hitl_handler.py`, `response_listener.py`), which mirrors the consumer.
* In the registry: ages of runs other than "just ended", unreadable single runs in a
  snapshot, several conversations.
* In the sessions: the sub-agent's own execution, delegation inside the requester's turn,
  the tools that only read, and a restart of the process (`RunRegistry` has it). The
  rejection by a spawn validator (`subagent_runner.py:1133`): `react_agent.py` sets none.
* In the LLM client: token limits, changes of the configuration at run time, the
  Redis-backed limiter, provider failover.
* In the outbox: the channel connections, the card-then-text fallback of one send as two
  deliveries, and the rows that a push records directly as sent
  (`channel_message_router.py:1223`).
* In the sandbox: tool execution and its rebuild, ports, workspace sync, MCP servers,
  monitors; `cleanup_stale_sandboxes`, which repeats the reaper. Creators that take no lock of
  the service: the adapter's own `get_or_create_sandbox` (`mcp_sandbox_adapter.py:4192`, called
  by `media_import_service.py:342`) and `UnifiedSandboxService`
  (`unified_sandbox_service.py:654`, `:719`). What they start beside a locked call is one more
  way to a second container, which `OneSandbox` does not exclude.
* The supervision helpers of the sub-agents: at this commit the background executor is built
  without events, store or sweeper, and nothing reads the key the cancel route sets.
* Workspace orchestration, memory and graph, web console, `agi-stack`: data, user interface,
  or a system of its own size. Everything else marked `not_modelled` in `PROJECT.json`.

The share of the repository's lines that these models cover is small, and will stay so: the
web console, the Rust port, the routers' data handling and the workspace services are most
of it.

## Plan

1. *HITL, registry, sessions, LLM, outbox, sandbox*, done: models, checks, and a theorem for
   every safety property.
2. *Proofs left to add*: what remains true of the lease when a holder stalls (the fencing
   of its completion), and the registry behind a cache when a process dies between the
   two writes.
3. *Channel connections*: connect loops, removal and restart.
4. *Agent pool, queue and dead letters*.
