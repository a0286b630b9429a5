------------------------------ MODULE HitlRequest ------------------------------
(***************************************************************************)
(* One human-in-the-loop (HITL) request of MemStack's agent runtime, from  *)
(* the tool call that asks to the durable settlement of the answer:        *)
(*                                                                         *)
(*   row      the hitl_requests record in PostgreSQL.  Every repository    *)
(*            method is one conditional UPDATE, hence one atomic step;     *)
(*            refresh_processing_lease is a SELECT followed by a flush,    *)
(*            hence two (HeartbeatRead, HeartbeatWrite).                   *)
(*   live     the HITLCoordinator entry in the memory of the process that  *)
(*            runs the agent turn (Host): a response future and a          *)
(*            completion future.                                           *)
(*   turn     the agent turn (the HITL tool handler) that asked.           *)
(*   entry    the Redis stream entries, one per accepted reply, under the  *)
(*            consumer group "hitl-local-resume" (at-least-once).          *)
(*   task     the resume tasks the consumers and the startup recovery of   *)
(*            all the processes have in flight; waiters, the entries whose *)
(*            task on Host only awaits the completion future.              *)
(*   proc     the processes, which crash and restart.                      *)
(*                                                                         *)
(* Requests share nothing but the processes, so one request is modelled.   *)
(* Replies are numbered in the order the row accepted them; reply 0 is     *)
(* "no reply".  Time is two flags and one level: expired (expires_at has   *)
(* passed), row.stale (the lease is older than 300 s) and entry.idle (0,   *)
(* 1: at least RECLAIM_IDLE_MS, 2: at least STALE_PROCESSING_IDLE_MS).     *)
(***************************************************************************)
EXTENDS Naturals

CONSTANTS
  Worker,      \* the processes that run a LocalHITLResumeConsumer
  Host,        \* the process whose event loop runs the asking agent turn
  Task,        \* slots for resume tasks in flight: a bound on duplicates
  MaxReply,    \* bound on the replies the row accepts
  StateSaved,  \* whether handle_hitl_pending saves state for crash recovery
  Fault,       \* the environment events this instance may meet
  NoOwner      \* "no processing_owner in the metadata"

Faults == {"crash", "ack", "publish", "reject", "cancel_turn", "error",
           "db", "pause", "outage"}

ASSUME HostAssumption == Host \in Worker
ASSUME ReplyAssumption == MaxReply \in Nat \ {0}
ASSUME FaultAssumption == Fault \subseteq Faults
ASSUME SavedAssumption == StateSaved \in BOOLEAN
ASSUME OwnerAssumption == NoOwner \notin Worker \X {"consumer", "recovery"}

Reply == 1 .. MaxReply
Owner == Worker \X {"consumer", "recovery"}
Settled == {"completed", "timeout", "cancelled"}
Status == {"none", "pending", "answered", "processing"} \cup Settled

VARIABLES row, expired, saved, turn, live, bad, entry, task, waiters, proc, acted

vars == <<row, expired, saved, turn, live, bad, entry, task, waiters, proc, acted>>

Row == [status : Status, reply : Reply \cup {0}, accepted : Reply \cup {0},
        owner : Owner \cup {NoOwner}, stale : BOOLEAN]

Live == [reg : BOOLEAN, fut : {"pending", "answered", "cancelled"},
         val : Reply \cup {0}, done : BOOLEAN]

Entry == [st : {"absent", "committed", "lost", "new", "pending", "acked"},
          idle : 0 .. 2]

Pc == {"idle", "recover", "resume", "reopen", "claim", "check",
       "run", "exec", "wrapup", "complete", "revert"}

TaskRec == [pc : Pc, own : Owner, msg : Reply \cup {0}, reply : Reply \cup {0},
            prev : Owner \cup {NoOwner}, hb : {"on", "read", "off", "dead"}]

Lifecycle == INSTANCE HitlLifecycle
  WITH status <- row.status, reply <- row.reply, accepted <- row.accepted,
       refused <- bad, late <- expired

TypeOK ==
  /\ row \in Row
  /\ expired \in BOOLEAN
  /\ saved \in BOOLEAN
  /\ turn \in {"none", "preparing", "waiting", "timing_out", "tool", "ended"}
  /\ live \in Live
  /\ bad \in SUBSET Reply
  /\ entry \in [Reply -> Entry]
  /\ task \in [Task -> TaskRec]
  /\ waiters \in SUBSET (Reply \cup {0})
  /\ proc \in [Worker -> {"up", "recovering", "down"}]
  /\ acted \in SUBSET (Reply \cup {0})

NoLive == [reg |-> FALSE, fut |-> "cancelled", val |-> 0, done |-> TRUE]

IdleTask == [pc |-> "idle", own |-> <<Host, "consumer">>, msg |-> 0,
             reply |-> 0, prev |-> NoOwner, hb |-> "off"]

Init ==
  /\ row = [status |-> "none", reply |-> 0, accepted |-> 0,
            owner |-> NoOwner, stale |-> FALSE]
  /\ expired = FALSE
  /\ saved = FALSE
  /\ turn = "none"
  /\ live = NoLive
  /\ bad = {}
  /\ entry = [i \in Reply |-> [st |-> "absent", idle |-> 0]]
  /\ task = [t \in Task |-> IdleTask]
  /\ waiters = {}
  /\ proc = [w \in Worker |-> "up"]
  /\ acted = {}

-----------------------------------------------------------------------------
(***************************************************************************)
(* SqlHITLRequestRepository: each operator is the row after one method,    *)
(* unchanged when the UPDATE's WHERE clause matches no row.                *)
(***************************************************************************)
UpdateResponse(i) ==
  [row EXCEPT !.status = "answered", !.reply = i, !.accepted = i,
              !.owner = NoOwner]

CanReopen == row.status = "answered"
ReopenPending == [row EXCEPT !.status = "pending", !.reply = 0, !.owner = NoOwner]

\* Mutant: the UPDATE drops its status condition.
MarkTimeoutAnyStatus ==
  [row EXCEPT !.status = "timeout", !.owner = NoOwner]

MarkTimeout ==
  IF row.status = "pending"
  THEN [row EXCEPT !.status = "timeout", !.owner = NoOwner] ELSE row

MarkCancelled ==
  IF row.status = "pending" THEN [row EXCEPT !.status = "cancelled"] ELSE row

\* own = NoOwner stands for lease_owner=None.
CanComplete(own) ==
  IF own = NoOwner THEN row.status \in {"answered", "processing"}
                   ELSE row.status = "processing" /\ row.owner = own
MarkCompleted(own) ==
  IF CanComplete(own)
  THEN [row EXCEPT !.status = "completed", !.owner = NoOwner, !.stale = FALSE]
  ELSE row

\* Mutant: a claim also takes over a request that is already processing.
CanClaimProcessing == row.status \in {"answered", "processing"}

CanClaim == row.status = "answered"
ClaimForProcessing(own) ==
  [row EXCEPT !.status = "processing", !.owner = own, !.stale = FALSE]

CanRefresh(own) == row.status = "processing" /\ row.owner \in {NoOwner, own}
\* Mutant: the refresh writes the worker id without the role of the lease.
RefreshLeaseBareId(own) == [row EXCEPT !.owner = own[1], !.stale = FALSE]

RefreshLease(own) == [row EXCEPT !.owner = own, !.stale = FALSE]

CanRevert(own) ==
  row.status = "processing" /\ (own # NoOwner => row.owner \in {NoOwner, own})
RevertToAnswered ==
  [row EXCEPT !.status = "answered", !.owner = NoOwner, !.stale = FALSE]

-----------------------------------------------------------------------------
(***************************************************************************)
(* The agent turn on Host and its HITLCoordinator.                         *)
(***************************************************************************)
TurnAlive == proc[Host] = "up"

\* prepare_request, up to the await on the database: the future is
\* registered before the row exists.
PrepareRequest ==
  /\ TurnAlive /\ turn = "none"
  /\ turn' = "preparing"
  /\ live' = [reg |-> TRUE, fut |-> "pending", val |-> 0, done |-> FALSE]
  /\ UNCHANGED <<row, expired, saved, bad, entry, task, waiters, proc, acted>>

\* _persist_hitl_request commits; the asked event is yielded.
PersistRequest ==
  /\ TurnAlive /\ turn = "preparing"
  /\ turn' = "waiting"
  /\ row' = [row EXCEPT !.status = "pending"]
  /\ UNCHANGED <<expired, saved, live, bad, entry, task, waiters, proc, acted>>

\* _persist_hitl_request raises: prepare_request drops the entry and re-raises.
PersistFails ==
  /\ "db" \in Fault
  /\ TurnAlive /\ turn = "preparing"
  /\ turn' = "ended"
  /\ live' = [live EXCEPT !.reg = FALSE]
  /\ UNCHANGED <<row, expired, saved, bad, entry, task, waiters, proc, acted>>

\* handle_hitl_pending: state for crash recovery in Redis and PostgreSQL.
HandleHitlPending ==
  /\ StateSaved
  /\ TurnAlive /\ turn = "waiting" /\ ~saved
  /\ saved' = TRUE
  /\ UNCHANGED <<row, expired, turn, live, bad, entry, task, waiters, proc, acted>>

\* wait_for_response returns; the handler queues the completion.
ReceiveResponse ==
  /\ TurnAlive /\ turn = "waiting" /\ live.fut = "answered"
  /\ turn' = "tool"
  /\ acted' = acted \cup {live.val}
  /\ UNCHANGED <<row, expired, saved, live, bad, entry, task, waiters, proc>>

\* The coordinator registry of process w has the request.
Registered(w) == w = Host /\ live.reg

\* complete_request: the row, then the entry and its completion future.
CompleteRequest ==
  /\ row' = MarkCompleted(NoOwner)
  /\ live' = [live EXCEPT !.reg = FALSE, !.done = TRUE]

\* Mutant: a process without the coordinator entry leaves the row alone.
CompleteHitlRequestLocalOnly(w, own) ==
  IF Registered(w) THEN CompleteRequest ELSE UNCHANGED <<row, live>>

\* complete_hitl_request in process w: through the registered coordinator
\* (no lease owner), or straight at the row with the caller's lease.
CompleteHitlRequest(w, own) ==
  IF Registered(w)
  THEN CompleteRequest
  ELSE row' = MarkCompleted(own) /\ UNCHANGED live

\* _flush_tool_part_hitl_completions, in the finally of the tool execution.
CompleteTurn ==
  /\ TurnAlive /\ turn = "tool"
  /\ CompleteHitlRequest(Host, NoOwner)
  /\ turn' = "ended"
  /\ UNCHANGED <<expired, saved, bad, entry, task, waiters, proc, acted>>

\* asyncio.wait_for gives up: the future is cancelled, the entry stays
\* registered while mark_hitl_request_timeout is awaited.
WaitTimesOut ==
  /\ TurnAlive /\ turn = "waiting" /\ live.fut = "pending" /\ expired
  /\ turn' = "timing_out"
  /\ live' = [live EXCEPT !.fut = "cancelled"]
  /\ UNCHANGED <<row, expired, saved, bad, entry, task, waiters, proc, acted>>

\* Mutant: the turn insists on having timed the row out itself.
FinishTimeoutIfPending ==
  /\ TurnAlive /\ turn = "timing_out" /\ row.status = "pending"
  /\ turn' = "ended"
  /\ row' = MarkTimeout
  /\ live' = [live EXCEPT !.reg = FALSE]
  /\ UNCHANGED <<expired, saved, bad, entry, task, waiters, proc, acted>>

\* mark_hitl_request_timeout, then _cleanup_pending_request, which leaves the
\* completion future unset.
FinishTimeout ==
  /\ TurnAlive /\ turn = "timing_out"
  /\ turn' = "ended"
  /\ row' = MarkTimeout
  /\ live' = [live EXCEPT !.reg = FALSE]
  /\ UNCHANGED <<expired, saved, bad, entry, task, waiters, proc, acted>>

DoneFut == IF live.fut = "pending" THEN "cancelled" ELSE live.fut

\* cancel_request_if_pending.
CancelIfPending ==
  live' = [live EXCEPT !.reg = FALSE, !.fut = DoneFut, !.done = TRUE]

\* "except Exception" of a tool handler: an error while it waits, one after it
\* has queued the completion, which is flushed all the same, or a failing
\* mark_hitl_request_timeout.
HandlerFails ==
  /\ TurnAlive
  /\ \/ "error" \in Fault /\ turn = "waiting" /\ turn' = "ended"
     \/ "error" \in Fault /\ turn = "tool" /\ UNCHANGED turn
     \/ "db" \in Fault /\ turn = "timing_out" /\ turn' = "ended"
  /\ CancelIfPending
  /\ UNCHANGED <<row, expired, saved, bad, entry, task, waiters, proc, acted>>

\* "except Exception" of the A2UI handler: _discard_prepared_request.
DiscardPrepared ==
  /\ "error" \in Fault
  /\ TurnAlive /\ turn = "waiting"
  /\ turn' = "ended"
  /\ live' = [live EXCEPT !.reg = FALSE, !.done = TRUE,
                          !.fut = IF @ = "pending" THEN "answered" ELSE @]
  /\ row' = MarkCancelled
  /\ UNCHANGED <<expired, saved, bad, entry, task, waiters, proc, acted>>

\* The chat task is cancelled while it waits, or while it times the row out:
\* CancelledError is no Exception, so no handler cleans the coordinator entry
\* up.  Once the completion is queued, the finally clause flushes it.
CancelTurn ==
  /\ "cancel_turn" \in Fault
  /\ TurnAlive
  /\ \/ turn = "waiting" /\ UNCHANGED row
     \/ turn = "timing_out" /\ row' \in {row, MarkTimeout}
  /\ turn' = "ended"
  /\ live' = [live EXCEPT !.fut = DoneFut]
  /\ UNCHANGED <<expired, saved, bad, entry, task, waiters, proc, acted>>

-----------------------------------------------------------------------------
(***************************************************************************)
(* The REST endpoints respond_to_hitl and cancel_hitl_request.             *)
(***************************************************************************)
\* The i-th reply claims the row, and the claim is committed before anything
\* is published.  It may be a reply that the live coordinator will refuse.
\* respond_to_hitl and its revisioned variant, which also answers a repeated
\* idempotency key without touching the row, both end in this.
ClaimResponse(i) ==
  /\ row' = UpdateResponse(i)
  /\ entry' = [entry EXCEPT ![i].st = "committed"]
  /\ bad' \in {bad} \cup (IF "reject" \in Fault THEN {bad \cup {i}} ELSE {})

\* Mutant: the conditional UPDATE accepts a second reply over an unprocessed one.
RespondAgain ==
  /\ row.status \in {"pending", "answered"} /\ ~expired
  /\ row.accepted < MaxReply
  /\ ClaimResponse(row.accepted + 1)
  /\ UNCHANGED <<expired, saved, turn, live, task, waiters, proc, acted>>

\* A reply to a request that is pending and not expired.
Respond ==
  /\ row.status = "pending" /\ ~expired
  /\ row.accepted < MaxReply
  /\ ClaimResponse(row.accepted + 1)
  /\ UNCHANGED <<expired, saved, turn, live, task, waiters, proc, acted>>

\* respond and cancel settle a request they find pending after its expiry.
SettleExpired ==
  /\ row.status = "pending" /\ expired
  /\ row' = MarkTimeout
  /\ UNCHANGED <<expired, saved, turn, live, bad, entry, task, waiters, proc, acted>>

\* XADD, or its failure (also the API process dying before it).
Publish(i) ==
  /\ entry[i].st = "committed"
  /\ entry' = [entry EXCEPT ![i].st = "new"]
  /\ UNCHANGED <<row, expired, saved, turn, live, bad, task, waiters, proc, acted>>

PublishFails(i) ==
  /\ "publish" \in Fault
  /\ entry[i].st = "committed"
  /\ entry' = [entry EXCEPT ![i].st = "lost"]
  /\ UNCHANGED <<row, expired, saved, turn, live, bad, task, waiters, proc, acted>>

\* Cancel wins only over a pending row; the saved state goes with it, unless
\* that cleanup fails.  The live future is not touched.
CancelRequest ==
  /\ row.status = "pending" /\ ~expired
  /\ row' = MarkCancelled
  /\ saved' \in {FALSE} \cup (IF "db" \in Fault THEN {saved} ELSE {})
  /\ UNCHANGED <<expired, turn, live, bad, entry, task, waiters, proc, acted>>

-----------------------------------------------------------------------------
(***************************************************************************)
(* LocalHITLResumeConsumer: _listen_loop, _handle_message and the resume   *)
(* tasks it spawns.  A task's owner <<w, kind>> is its process and its     *)
(* lease_owner string; msg is the stream entry it may acknowledge (0 for   *)
(* the startup recovery) and reply the response it carries.                *)
(***************************************************************************)
\* _ack swallows a failing XACK.
Acked(e, i) ==
  {[e EXCEPT ![i].st = "acked"]} \cup (IF "ack" \in Fault THEN {e} ELSE {})

AckEntry(i) == IF i = 0 THEN UNCHANGED entry ELSE entry' \in Acked(entry, i)

Spawn(rec) ==
  \E t \in Task : task[t].pc = "idle" /\ task' = [task EXCEPT ![t] = rec]

NewTask(pc, own, msg, reply) ==
  [pc |-> pc, own |-> own, msg |-> msg, reply |-> reply,
   prev |-> row.owner, hb |-> "off"]

\* Mutant: the entry is acknowledged when its resume task is spawned.
HandleMessageAckFirst(w, i, idle) ==
  LET e   == [entry EXCEPT ![i] = [st |-> "pending", idle |-> 0]]
      own == <<w, "consumer">>
  IN \/ /\ row.status \in Settled \cup {"pending"}
        /\ entry' \in Acked(e, i)
        /\ UNCHANGED task
     \/ /\ row.status = "answered"
        /\ entry' \in Acked(e, i)
        /\ Spawn(NewTask("resume", own, i, i))
     \/ /\ row.status = "processing"
        /\ entry' = e
        /\ UNCHANGED task

\* _handle_message and _handle_request_status of entry i, which is now
\* pending with its idle time reset; idle is the level it had before.
HandleMessage(w, i, idle) ==
  LET e   == [entry EXCEPT ![i] = [st |-> "pending", idle |-> 0]]
      own == <<w, "consumer">>
  IN \/ /\ row.status \in Settled \cup {"pending"}
        /\ entry' \in Acked(e, i)
        /\ UNCHANGED task
     \/ /\ row.status = "answered"
        /\ entry' = e
        /\ Spawn(NewTask("resume", own, i, i))
     \/ /\ row.status = "processing" /\ idle = 2 /\ row.stale
        /\ entry' = e
        /\ Spawn(NewTask("recover", own, i, row.reply))
     \/ /\ row.status = "processing" /\ ~(idle = 2 /\ row.stale)
        /\ entry' = e
        /\ UNCHANGED task

\* XREADGROUP ">".
Deliver(w, i) ==
  /\ proc[w] = "up" /\ entry[i].st = "new"
  /\ HandleMessage(w, i, 0)
  /\ UNCHANGED <<row, expired, saved, turn, live, bad, waiters, proc, acted>>

\* XPENDING and XCLAIM of an idle entry; the claim resets its idle time.
Reclaim(w, i) ==
  /\ proc[w] = "up" /\ entry[i].st = "pending" /\ entry[i].idle >= 1
  /\ HandleMessage(w, i, entry[i].idle)
  /\ UNCHANGED <<row, expired, saved, turn, live, bad, waiters, proc, acted>>

Goto(t, pc) == task' = [task EXCEPT ![t].pc = pc]
Finish(t) == task' = [task EXCEPT ![t] = IdleTask]

\* _recover_stale_processing_request.  The consumer drops the message when
\* the revert matches no row, the startup recovery goes on to its claim.
RecoverStale(t) ==
  LET ok == CanRevert(task[t].prev) /\ row.stale
  IN /\ task[t].pc = "recover"
     /\ row' = IF ok THEN RevertToAnswered ELSE row
     /\ IF task[t].msg = 0 THEN Goto(t, "claim")
        ELSE IF ok THEN Goto(t, "resume") ELSE Finish(t)
     /\ UNCHANGED <<expired, saved, turn, live, bad, entry, waiters, proc, acted>>

\* Mutant: a redelivered reply is refused once the future is done.
ResolveOnce(w, reply) ==
  IF ~Registered(w) THEN "not_found"
  ELSE IF live.fut # "pending" \/ reply \in bad THEN "rejected" ELSE "resolved"

\* HITLCoordinator.resolve.  A future that is done while its completion is not
\* counts as resolved.
Resolve(w, reply) ==
  IF ~Registered(w) THEN "not_found"
  ELSE IF (live.fut = "pending" /\ reply \in bad) \/ (live.fut # "pending" /\ live.done)
       THEN "rejected"
       ELSE "resolved"

\* resolve_by_request_id, synchronous.  A resolved task goes on to wait for
\* the completion: waiters.
ResumeAgent(t) ==
  LET result == Resolve(task[t].own[1], task[t].reply)
  IN /\ task[t].pc = "resume"
     /\ \/ /\ result = "resolved"
           /\ live' = IF live.fut = "pending"
                      THEN [live EXCEPT !.fut = "answered", !.val = task[t].reply]
                      ELSE live
           /\ waiters' = waiters \cup {task[t].msg}
           /\ Finish(t)
        \/ /\ result = "rejected"
           /\ Goto(t, "reopen")
           /\ UNCHANGED <<live, waiters>>
        \/ /\ result = "not_found"
           /\ Goto(t, "claim")
           /\ UNCHANGED <<live, waiters>>
     /\ UNCHANGED <<row, expired, saved, turn, bad, entry, proc, acted>>

\* wait_for_request_completion returns, the entry is acknowledged.
AwaitCompletion(i) ==
  /\ i \in waiters /\ live.done
  /\ waiters' = waiters \ {i}
  /\ AckEntry(i)
  /\ UNCHANGED <<row, expired, saved, turn, live, bad, task, proc, acted>>

\* _reopen_answered_request after a rejection; acknowledged if it reopened.
ReopenAnswered(t) ==
  /\ task[t].pc = "reopen"
  /\ row' = IF CanReopen THEN ReopenPending ELSE row
  /\ IF CanReopen THEN AckEntry(task[t].msg) ELSE UNCHANGED entry
  /\ Finish(t)
  /\ UNCHANGED <<expired, saved, turn, live, bad, waiters, proc, acted>>

\* claim_for_processing; only the consumer looks for recoverable state first.
ClaimRequest(t) ==
  /\ task[t].pc = "claim"
  /\ IF CanClaim
     THEN /\ row' = ClaimForProcessing(task[t].own)
          /\ Goto(t, IF task[t].msg = 0 THEN "run" ELSE "check")
     ELSE /\ Finish(t)
          /\ UNCHANGED row
  /\ UNCHANGED <<expired, saved, turn, live, bad, entry, waiters, proc, acted>>

\* _has_recoverable_hitl_state.
CheckState(t) ==
  /\ task[t].pc = "check"
  /\ Goto(t, IF saved THEN "run" ELSE "complete")
  /\ UNCHANGED <<row, expired, saved, turn, live, bad, entry, waiters, proc, acted>>

\* Mutant: the response is not validated against the saved request.
ContinueChatUnvalidated(t) ==
  /\ task[t].pc = "run"
  /\ IF saved
     THEN /\ task' = [task EXCEPT ![t].pc = "exec", ![t].hb = "on"]
          /\ acted' = acted \cup {task[t].reply}
     ELSE /\ Goto(t, "complete")
          /\ UNCHANGED acted
  /\ UNCHANGED <<row, expired, saved, turn, live, bad, entry, waiters, proc>>

\* continue_project_chat up to the agent's execution: missing state and a
\* response that fails validation are permanent errors.
ContinueChat(t) ==
  /\ task[t].pc = "run"
  /\ IF saved /\ task[t].reply \notin bad
     THEN /\ task' = [task EXCEPT ![t].pc = "exec", ![t].hb = "on"]
          /\ acted' = acted \cup {task[t].reply}
     ELSE /\ Goto(t, "complete")
          /\ UNCHANGED acted
  /\ UNCHANGED <<row, expired, saved, turn, live, bad, entry, waiters, proc>>

\* The end of continue_project_chat: the fenced completion, and the deletion
\* of the saved state when it succeeded.
FinishExecution(t) ==
  LET own == task[t].own
  IN /\ task[t].pc = "exec"
     /\ row' = MarkCompleted(own)
     /\ saved' = (saved /\ ~CanComplete(own))
     /\ Goto(t, "wrapup")
     /\ UNCHANGED <<expired, turn, live, bad, entry, waiters, proc, acted>>

\* The heartbeat context exits and the entry is acknowledged, also after a
\* fenced completion miss.  A heartbeat that died of an exception raises it
\* here: the claim is reverted instead and the entry stays pending.
WrapUp(t) ==
  /\ task[t].pc = "wrapup"
  /\ IF task[t].hb = "dead"
     THEN Goto(t, "revert") /\ UNCHANGED entry
     ELSE Finish(t) /\ AckEntry(task[t].msg)
  /\ UNCHANGED <<row, expired, saved, turn, live, bad, waiters, proc, acted>>

\* complete_hitl_request after a permanent error or without state.
CompletePermanently(t) ==
  /\ task[t].pc = "complete"
  /\ CompleteHitlRequest(task[t].own[1], task[t].own)
  /\ Finish(t)
  /\ AckEntry(task[t].msg)
  /\ UNCHANGED <<expired, saved, turn, bad, waiters, proc, acted>>

\* A transient error or an exception after the claim, also one raised by the
\* completion itself or by what follows it; or a failing claim, after which the
\* consumer reverts under its worker id and the startup recovery gives up.
StepFails(t) ==
  /\ \/ /\ "error" \in Fault
        /\ task[t].pc \in {"check", "run", "exec", "wrapup", "complete"}
        /\ Goto(t, "revert")
     \/ /\ "db" \in Fault
        /\ task[t].pc = "claim"
        /\ IF task[t].msg = 0 THEN Finish(t) ELSE Goto(t, "revert")
  /\ UNCHANGED <<row, expired, saved, turn, live, bad, entry, waiters, proc, acted>>

\* _revert_processing_request; the entry stays pending for a retry.
RevertClaim(t) ==
  /\ task[t].pc = "revert"
  /\ row' = IF CanRevert(task[t].own) THEN RevertToAnswered ELSE row
  /\ Finish(t)
  /\ UNCHANGED <<expired, saved, turn, live, bad, entry, waiters, proc, acted>>

Beating(t) == task[t].pc \in {"exec", "wrapup"}

\* processing_lease_heartbeat: the SELECT and the owner check ...
HeartbeatRead(t) ==
  /\ Beating(t) /\ task[t].hb = "on"
  /\ task' = [task EXCEPT ![t].hb =
                 IF CanRefresh(task[t].own) THEN "read" ELSE "off"]
  /\ UNCHANGED <<row, expired, saved, turn, live, bad, entry, waiters, proc, acted>>

\* ... and the flush, which writes the metadata whatever the row is by now.
HeartbeatWrite(t) ==
  /\ Beating(t) /\ task[t].hb = "read"
  /\ row' = RefreshLease(task[t].own)
  /\ task' = [task EXCEPT ![t].hb = "on"]
  /\ UNCHANGED <<expired, saved, turn, live, bad, entry, waiters, proc, acted>>

\* The heartbeat task dies of a database error; the continuation goes on.
HeartbeatDies(t) ==
  /\ "db" \in Fault
  /\ Beating(t) /\ task[t].hb \in {"on", "read"}
  /\ task' = [task EXCEPT ![t].hb = "dead"]
  /\ UNCHANGED <<row, expired, saved, turn, live, bad, entry, waiters, proc, acted>>

-----------------------------------------------------------------------------
(***************************************************************************)
(* Processes and time.                                                     *)
(***************************************************************************)
TasksOf(w) == {t \in Task : task[t].pc # "idle" /\ task[t].own[1] = w}

\* A crash; a graceful stop() cancels the tasks to the same effect, for the
\* CancelledError passes their "except Exception".
Crash(w) ==
  /\ "crash" \in Fault
  /\ proc[w] # "down"
  /\ proc' = [proc EXCEPT ![w] = "down"]
  /\ task' = [t \in Task |-> IF t \in TasksOf(w) THEN IdleTask ELSE task[t]]
  /\ IF w = Host /\ turn # "none"
     THEN turn' = "ended" /\ live' = NoLive /\ waiters' = {}
     ELSE UNCHANGED <<turn, live, waiters>>
  /\ UNCHANGED <<row, expired, saved, bad, entry, acted>>

\* recover_unprocessed_requests: settle expired requests, then replay the
\* answered ones and those whose lease is stale.  The consumer starts when
\* the replays have ended (StartConsumer).
Restart(w) ==
  /\ proc[w] = "down"
  /\ proc' = [proc EXCEPT ![w] = "recovering"]
  /\ row' = IF expired THEN MarkTimeout ELSE row
  /\ \/ /\ row.status = "answered"
        /\ Spawn(NewTask("claim", <<w, "recovery">>, 0, row.reply))
     \/ /\ row.status = "processing" /\ row.stale
        /\ Spawn(NewTask("recover", <<w, "recovery">>, 0, row.reply))
     \/ /\ row.status # "answered" /\ ~(row.status = "processing" /\ row.stale)
        /\ UNCHANGED task
  /\ UNCHANGED <<expired, saved, turn, live, bad, entry, waiters, acted>>

StartConsumer(w) ==
  /\ proc[w] = "recovering" /\ TasksOf(w) = {}
  /\ proc' = [proc EXCEPT ![w] = "up"]
  /\ UNCHANGED <<row, expired, saved, turn, live, bad, entry, task, waiters, acted>>

\* expires_at passes.
Expire ==
  /\ row.status # "none" /\ ~expired
  /\ expired' = TRUE
  /\ UNCHANGED <<row, saved, turn, live, bad, entry, task, waiters, proc, acted>>

Claimed == {"check", "run", "exec", "wrapup", "complete", "revert"}

\* Task t keeps the lease it claimed from growing old: it beats, or it is in
\* a stretch much shorter than 300 s.
Holding(t) ==
  /\ task[t].pc \in Claimed /\ task[t].own = row.owner
  /\ task[t].pc \in {"exec", "wrapup"} => task[t].hb \in {"on", "read"}

\* The last heartbeat is 300 s old.  A paused process stops beating ("pause").
LeaseAges ==
  /\ row.status = "processing" /\ ~row.stale
  /\ "pause" \in Fault \/ \A t \in Task : ~Holding(t)
  /\ row' = [row EXCEPT !.stale = TRUE]
  /\ UNCHANGED <<expired, saved, turn, live, bad, entry, task, waiters, proc, acted>>

\* An entry turns idle; it idles for 300 s only when no consumer reclaims it
\* every 30 s, because all are down or cut off from Redis ("outage").
EntryIdles(i) ==
  /\ entry[i].st = "pending"
  /\ \/ entry[i].idle = 0
     \/ /\ entry[i].idle = 1
        /\ "outage" \in Fault \/ \A w \in Worker : proc[w] # "up"
  /\ entry' = [entry EXCEPT ![i].idle = @ + 1]
  /\ UNCHANGED <<row, expired, saved, turn, live, bad, task, waiters, proc, acted>>

-----------------------------------------------------------------------------
TurnStep ==
  \/ PrepareRequest \/ PersistRequest \/ ReceiveResponse \/ CompleteTurn
  \/ WaitTimesOut \/ FinishTimeout

TurnFault == PersistFails \/ HandlerFails \/ DiscardPrepared \/ CancelTurn

ApiStep == Respond \/ SettleExpired \/ CancelRequest

TaskStep(t) ==
  \/ RecoverStale(t) \/ ResumeAgent(t) \/ ReopenAnswered(t)
  \/ ClaimRequest(t) \/ CheckState(t) \/ ContinueChat(t)
  \/ FinishExecution(t) \/ WrapUp(t)
  \/ CompletePermanently(t) \/ RevertClaim(t)

Heartbeat(t) == HeartbeatRead(t) \/ HeartbeatWrite(t)

Next ==
  \/ TurnStep \/ TurnFault \/ HandleHitlPending \/ ApiStep
  \/ \E i \in Reply : \/ Publish(i) \/ PublishFails(i) \/ EntryIdles(i)
                      \/ AwaitCompletion(i)
  \/ \E w \in Worker, i \in Reply : Deliver(w, i) \/ Reclaim(w, i)
  \/ \E t \in Task : \/ TaskStep(t) \/ Heartbeat(t)
                     \/ StepFails(t) \/ HeartbeatDies(t)
  \/ \E w \in Worker : Crash(w) \/ Restart(w) \/ StartConsumer(w)
  \/ Expire \/ LeaseAges

Spec == Init /\ [][Next]_vars

\* Event loops run their ready callbacks, the listener polls every second,
\* clocks advance and crashed processes are restarted.  An agent execution is
\* bounded by its step limit, so FinishExecution is fair as well.  Nothing is
\* assumed of users, or of faults.
Fairness ==
  /\ WF_vars(TurnStep)
  /\ WF_vars(Expire) /\ WF_vars(LeaseAges)
  /\ \A i \in Reply : /\ WF_vars(Publish(i)) /\ WF_vars(EntryIdles(i))
                      /\ WF_vars(AwaitCompletion(i))
                      /\ WF_vars(\E w \in Worker : Deliver(w, i))
                      /\ WF_vars(\E w \in Worker : Reclaim(w, i))
  /\ \A t \in Task : WF_vars(TaskStep(t))
  /\ \A w \in Worker : WF_vars(Restart(w)) /\ WF_vars(StartConsumer(w))

FairSpec == Spec /\ Fairness

-----------------------------------------------------------------------------
(***************************************************************************)
(* Properties.                                                             *)
(***************************************************************************)

\* The processing lease is exclusive: as long as no holder stalls past the
\* 300 s cutoff ("pause") and no heartbeat dies ("db"), at most one resume
\* task of all the processes is between its claim_for_processing and its end,
\* through crashes, redeliveries and startup recoveries.
OneContinuation ==
  \A t, u \in Task :
    task[t].pc \in Claimed /\ task[u].pc \in Claimed => t = u

\* When no reply is refused by the coordinator ("reject"), whatever an agent
\* acted on is the reply the row records, and that row was neither timed out
\* nor cancelled: the wait timeout, the cancel endpoint and expiry all lose
\* against an accepted reply.
ActedOnPersisted ==
  acted # {} => /\ acted = {row.reply}
                /\ row.status \in {"answered", "processing", "completed"}

\* An acknowledged entry is never the only trace of an answer: once the entry
\* of a reply is acknowledged, the row is no longer answered or processing with
\* that reply and never is again, so no redelivery is needed to settle it.
\* (Without handler exceptions and stalls past the lease cutoff.)
AckNeverStrands ==
  \A i \in Reply :
    entry[i].st = "acked" =>
      ~(row.status \in {"answered", "processing"} /\ row.reply = i)

\* A reply that the request's own validation refuses reaches no agent: not
\* through the live future, not through a fallback resume, not through the
\* startup replay.
RefusedNeverActedOn == acted \cap bad = {}

\* A settled request is final: no late reply, redelivery, lease operation or
\* recovery moves a completed, timed-out or cancelled row or its response.
SettledIsFinal ==
  [][row.status \in Settled =>
       row'.status = row.status /\ row'.reply = row.reply]_vars

\* Turn, endpoints, consumers, startup recovery and crashes together implement
\* the life cycle of the HITLRequest entity: one reply at a time and only before
\* the deadline, a timeout only after it, an answer taken back only when some
\* reply was refused, and agents that act on accepted, valid replies only.
LifecycleSpec == Lifecycle!Spec

\* Every accepted answer leaves the answered and processing states, whatever
\* entry is redelivered to whatever process and whenever the wait expires.
AnswerSettles ==
  row.status \in {"answered", "processing"} ~>
    row.status \notin {"answered", "processing"}

\* An agent turn that asked is never left waiting.
TurnEnds == turn = "waiting" ~> turn = "ended"

-----------------------------------------------------------------------------
(***************************************************************************)
(* What a comment of the repository says and the code does not do.         *)
(***************************************************************************)

\* _reclaim_pending_messages: "Claim idle pending messages so crashed
\* consumers do not strand responses": once every process is up for good, a
\* request left processing by a crashed one is taken up again.
CrashStrandsNothing ==
  (<>[](\A w \in Worker : proc[w] = "up")) =>
    (row.status = "processing" ~> row.status # "processing")
=============================================================================
