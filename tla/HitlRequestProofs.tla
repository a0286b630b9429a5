--------------------------- MODULE HitlRequestProofs ---------------------------
(***************************************************************************)
(* Theorems of HitlRequest for any number of processes, resume tasks and   *)
(* replies.                                                                *)
(***************************************************************************)
EXTENDS HitlRequest, TLAPS

\* Shared parts of actions, expanded wherever the action is.
USE DEF Registered, CompleteRequest, CancelIfPending, ClaimResponse, Resolve

-----------------------------------------------------------------------------
(***************************************************************************)
(* Types.                                                                  *)
(***************************************************************************)

\* Every repository method of SqlHITLRequestRepository keeps the record's type.
LEMMA RowMethods ==
  ASSUME TypeOK, NEW own \in Owner \cup {NoOwner}
  PROVE  /\ \A i \in Reply : UpdateResponse(i) \in Row
         /\ ReopenPending \in Row
         /\ MarkTimeout \in Row
         /\ MarkCancelled \in Row
         /\ MarkCompleted(own) \in Row
         /\ ClaimForProcessing(own) \in Row
         /\ RefreshLease(own) \in Row
         /\ RevertToAnswered \in Row
BY DEF TypeOK, Row, Status, Settled, UpdateResponse, ReopenPending, MarkTimeout,
  MarkCancelled, MarkCompleted, ClaimForProcessing, RefreshLease,
  RevertToAnswered

LEMMA IdleTaskType == IdleTask \in TaskRec
BY HostAssumption DEF IdleTask, TaskRec, Pc, Owner

\* The acknowledgement of an entry, also one that fails, keeps the type.
LEMMA AckedType ==
  ASSUME NEW e \in [Reply -> Entry], NEW i \in Reply, NEW f \in Acked(e, i)
  PROVE  f \in [Reply -> Entry]
BY DEF Acked, Entry

LEMMA AckEntryType ==
  ASSUME TypeOK, NEW i \in Reply \cup {0}, AckEntry(i)
  PROVE  entry' \in [Reply -> Entry]
BY AckedType, ReplyAssumption DEF AckEntry, TypeOK, Reply

\* A task spawned with a well-typed record, moved or finished keeps the type.
LEMMA SpawnType ==
  ASSUME TypeOK, NEW rec \in TaskRec, Spawn(rec)
  PROVE  task' \in [Task -> TaskRec]
BY DEF Spawn, TypeOK

LEMMA GotoType ==
  ASSUME TypeOK, NEW t \in Task, NEW pc \in Pc, Goto(t, pc)
  PROVE  task' \in [Task -> TaskRec]
BY DEF Goto, TypeOK, TaskRec

LEMMA FinishType ==
  ASSUME TypeOK, NEW t \in Task, Finish(t)
  PROVE  task' \in [Task -> TaskRec]
BY IdleTaskType DEF Finish, TypeOK

LEMMA NewTaskType ==
  ASSUME TypeOK, NEW pc \in Pc, NEW own \in Owner,
         NEW msg \in Reply \cup {0}, NEW reply \in Reply \cup {0}
  PROVE  NewTask(pc, own, msg, reply) \in TaskRec
BY DEF NewTask, TaskRec, TypeOK, Row

LEMMA HandleMessageType ==
  ASSUME TypeOK, NEW w \in Worker, NEW i \in Reply, NEW idle,
         HandleMessage(w, i, idle)
  PROVE  /\ task' \in [Task -> TaskRec]
         /\ entry' \in [Reply -> Entry]
<1> DEFINE e == [entry EXCEPT ![i] = [st |-> "pending", idle |-> 0]]
           own == <<w, "consumer">>
<1>1. e \in [Reply -> Entry]
  BY DEF TypeOK, Entry
<1>2. NewTask("resume", own, i, i) \in TaskRec
  BY NewTaskType DEF Pc, Owner
<1>3. NewTask("recover", own, i, row.reply) \in TaskRec
  BY NewTaskType DEF Pc, Owner, TypeOK, Row
<1>4. task \in [Task -> TaskRec]
  BY DEF TypeOK
<1> HIDE DEF e, own
<1>5. CASE row.status \in Settled \cup {"pending"} /\ entry' \in Acked(e, i) /\ task' = task
  BY <1>5, <1>1, <1>4, AckedType
<1>6. CASE entry' = e /\ Spawn(NewTask("resume", own, i, i))
  BY <1>6, <1>1, <1>2, SpawnType
<1>7. CASE entry' = e /\ Spawn(NewTask("recover", own, i, row.reply))
  BY <1>7, <1>1, <1>3, SpawnType
<1>8. CASE entry' = e /\ task' = task
  BY <1>8, <1>1, <1>4
<1> QED
  BY <1>5, <1>6, <1>7, <1>8 DEF HandleMessage, e, own

\* complete_hitl_request, through the coordinator or at the row.
LEMMA CompleteType ==
  ASSUME TypeOK, NEW w, NEW own \in Owner \cup {NoOwner},
         CompleteHitlRequest(w, own)
  PROVE  row' \in Row /\ live' \in Live
<1>1. row' \in Row
  BY RowMethods DEF CompleteHitlRequest
<1>2. live' \in Live
  BY DEF CompleteHitlRequest, TypeOK, Live
<1> QED BY <1>1, <1>2

LEMMA TypeOKInit == Init => TypeOK
<1> SUFFICES ASSUME Init PROVE TypeOK
  OBVIOUS
<1>1. row \in Row /\ live \in Live
  BY DEF Init, Row, Status, Live, NoLive
<1>2. entry \in [Reply -> Entry] /\ task \in [Task -> TaskRec]
  BY IdleTaskType DEF Init, Entry
<1> QED BY <1>1, <1>2 DEF Init, TypeOK

\* One step per action; the steps of a task go through the lemmas above.
LEMMA TypeOKNext == TypeOK /\ [Next]_vars => TypeOK'
<1> SUFFICES ASSUME TypeOK, [Next]_vars PROVE TypeOK'
  OBVIOUS
<1> USE RowMethods DEF TypeOK
<1>1. CASE TurnStep
  <2>1. CASE PrepareRequest
    BY <2>1 DEF PrepareRequest, Live
  <2>2. CASE PersistRequest
    BY <2>2 DEF PersistRequest, Row, Status
  <2>3. CASE ReceiveResponse
    BY <2>3 DEF ReceiveResponse, Live
  <2>4. CASE CompleteTurn
    BY <2>4, CompleteType DEF CompleteTurn
  <2>5. CASE WaitTimesOut
    BY <2>5 DEF WaitTimesOut, Live
  <2>6. CASE FinishTimeout
    BY <2>6 DEF FinishTimeout, Live
  <2> QED BY <1>1, <2>1, <2>2, <2>3, <2>4, <2>5, <2>6 DEF TurnStep
<1>2. CASE TurnFault
  <2>1. CASE PersistFails
    BY <2>1 DEF PersistFails, Live
  <2>2. CASE HandlerFails
    BY <2>2 DEF HandlerFails, Live, DoneFut
  <2>3. CASE DiscardPrepared
    BY <2>3 DEF DiscardPrepared, Live
  <2>4. CASE CancelTurn
    BY <2>4 DEF CancelTurn, Live, DoneFut
  <2> QED BY <1>2, <2>1, <2>2, <2>3, <2>4 DEF TurnFault
<1>3. CASE HandleHitlPending
  BY <1>3 DEF HandleHitlPending
<1>4. CASE ApiStep
  <2>1. CASE Respond
    <3> DEFINE i == row.accepted + 1
    <3>1. i \in Reply
      BY <2>1, ReplyAssumption DEF Respond, Row, Reply
    <3>2. /\ row' = UpdateResponse(i)
          /\ entry' = [entry EXCEPT ![i].st = "committed"]
          /\ bad' \in {bad} \cup (IF "reject" \in Fault THEN {bad \cup {i}} ELSE {})
      BY <2>1 DEF Respond
    <3> HIDE DEF i
    <3>3. bad' \in SUBSET Reply
      BY <3>1, <3>2
    <3>4. entry' \in [Reply -> Entry]
      BY <3>1, <3>2 DEF Entry
    <3> QED BY <2>1, <3>1, <3>2, <3>3, <3>4 DEF Respond
  <2>2. CASE SettleExpired
    BY <2>2 DEF SettleExpired
  <2>3. CASE CancelRequest
    BY <2>3 DEF CancelRequest
  <2> QED BY <1>4, <2>1, <2>2, <2>3 DEF ApiStep
<1>5. ASSUME NEW i \in Reply,
             Publish(i) \/ PublishFails(i) \/ EntryIdles(i) \/ AwaitCompletion(i)
      PROVE  TypeOK'
  <2>1. CASE Publish(i) \/ PublishFails(i)
    BY <2>1 DEF Publish, PublishFails, Entry
  <2>2. CASE EntryIdles(i)
    <3>1. entry[i].idle + 1 \in 0 .. 2
      BY <2>2 DEF EntryIdles, Entry
    <3> QED BY <2>2, <3>1 DEF EntryIdles, Entry
  <2>3. CASE AwaitCompletion(i)
    BY <2>3, AckEntryType DEF AwaitCompletion
  <2> QED BY <1>5, <2>1, <2>2, <2>3
<1>6. ASSUME NEW w \in Worker, NEW i \in Reply, Deliver(w, i) \/ Reclaim(w, i)
      PROVE  TypeOK'
  BY <1>6, HandleMessageType DEF Deliver, Reclaim
<1>7. ASSUME NEW t \in Task, TaskStep(t) PROVE TypeOK'
  <2> USE GotoType, FinishType
  <2>0. /\ task[t].own \in Owner
        /\ task[t].own[1] \in Worker
        /\ task[t].msg \in Reply \cup {0}
        /\ task[t].reply \in Reply \cup {0}
    BY DEF TaskRec, Owner
  <2>1. CASE RecoverStale(t)
    BY <2>1 DEF RecoverStale, Pc
  <2>2. CASE ResumeAgent(t)
    <3>1. live' \in Live /\ waiters' \in SUBSET (Reply \cup {0})
      BY <2>0, <2>2 DEF ResumeAgent, Live
    <3>2. task' \in [Task -> TaskRec]
      BY <2>2 DEF ResumeAgent, Pc
    <3> QED BY <2>2, <3>1, <3>2 DEF ResumeAgent
  <2>3. CASE ReopenAnswered(t)
    BY <2>0, <2>3, AckEntryType DEF ReopenAnswered
  <2>4. CASE ClaimRequest(t)
    <3>1. task' \in [Task -> TaskRec]
      BY <2>4 DEF ClaimRequest, Pc
    <3> QED BY <2>0, <2>4, <3>1 DEF ClaimRequest
  <2>5. CASE CheckState(t)
    BY <2>5 DEF CheckState, Pc
  <2>6. CASE ContinueChat(t)
    <3>1. task' \in [Task -> TaskRec]
      BY <2>6 DEF ContinueChat, Goto, TaskRec, Pc
    <3> QED BY <2>0, <2>6, <3>1 DEF ContinueChat
  <2>7. CASE FinishExecution(t)
    <3>1. task' \in [Task -> TaskRec]
      BY <2>7 DEF FinishExecution, Pc
    <3> QED BY <2>0, <2>7, <3>1 DEF FinishExecution
  <2>8. CASE WrapUp(t)
    BY <2>0, <2>8, AckEntryType DEF WrapUp, Pc
  <2>9. CASE CompletePermanently(t)
    BY <2>0, <2>9, AckEntryType, CompleteType DEF CompletePermanently
  <2>10. CASE RevertClaim(t)
    BY <2>10 DEF RevertClaim
  <2> QED BY <1>7, <2>1, <2>2, <2>3, <2>4, <2>5, <2>6, <2>7, <2>8, <2>9, <2>10 DEF TaskStep
<1>8. ASSUME NEW t \in Task, Heartbeat(t) \/ HeartbeatDies(t) \/ StepFails(t)
      PROVE  TypeOK'
  <2>1. task' \in [Task -> TaskRec]
    BY <1>8, GotoType, FinishType DEF Heartbeat, HeartbeatRead, HeartbeatWrite,
      HeartbeatDies, StepFails, TaskRec, Pc
  <2>2. task[t].own \in Owner
    BY DEF TaskRec
  <2> QED BY <1>8, <2>1, <2>2 DEF Heartbeat, HeartbeatRead, HeartbeatWrite,
    HeartbeatDies, StepFails
<1>9. ASSUME NEW w \in Worker, Crash(w) PROVE TypeOK'
  <2>1. NoLive \in Live
    BY DEF NoLive, Live
  <2>2. task' \in [Task -> TaskRec]
    BY <1>9, IdleTaskType DEF Crash
  <2> QED BY <1>9, <2>1, <2>2 DEF Crash
<1>10. ASSUME NEW w \in Worker, Restart(w) PROVE TypeOK'
  <2>1. /\ NewTask("claim", <<w, "recovery">>, 0, row.reply) \in TaskRec
        /\ NewTask("recover", <<w, "recovery">>, 0, row.reply) \in TaskRec
    BY NewTaskType DEF Pc, Owner, Row
  <2>2. task' \in [Task -> TaskRec]
    BY <1>10, <2>1, SpawnType DEF Restart
  <2> QED BY <1>10, <2>2 DEF Restart
<1>11. ASSUME NEW w \in Worker, StartConsumer(w) PROVE TypeOK'
  BY <1>11 DEF StartConsumer
<1>12. CASE Expire
  BY <1>12 DEF Expire
<1>13. CASE LeaseAges
  BY <1>13 DEF LeaseAges, Row
<1>14. CASE UNCHANGED vars
  BY <1>14 DEF vars
<1> QED BY <1>1, <1>2, <1>3, <1>4, <1>5, <1>6, <1>7, <1>8, <1>9, <1>10, <1>11,
  <1>12, <1>13, <1>14 DEF Next

\* Every step of the request's life, in any instance, keeps the types.
THEOREM TypeCorrect == Spec => []TypeOK
BY TypeOKInit, TypeOKNext, PTL DEF Spec

-----------------------------------------------------------------------------
(***************************************************************************)
(* The inductive invariants.                                               *)
(***************************************************************************)

\* The row does not exist before the turn has persisted it.
AskedInv == turn \in {"none", "preparing"} => row.status = "none"

\* A claimed task holds a fresh lease or its row is already completed; a task
\* whose heartbeat stopped, or that wraps up, has a completed row.
LeaseInv ==
  /\ OneContinuation
  /\ \A t \in Task :
       /\ task[t].pc \in Claimed =>
            \/ row.status = "processing" /\ row.owner = task[t].own /\ ~row.stale
            \/ row.status = "completed"
       /\ task[t].hb # "dead"
       /\ task[t].pc = "exec" /\ task[t].hb = "off" => row.status = "completed"
       /\ task[t].pc = "wrapup" => row.status = "completed"

\* Replies are known everywhere only after the row accepted them.
AcceptedInv ==
  /\ \A i \in bad : i <= row.accepted
  /\ \A i \in acted : i <= row.accepted
  /\ row.reply <= row.accepted
  /\ live.val <= row.accepted
  /\ \A t \in Task : task[t].reply <= row.accepted /\ task[t].msg <= row.accepted
  /\ \A i \in waiters : i <= row.accepted
  /\ \A i \in Reply : entry[i].st # "absent" => i <= row.accepted

RefusedInv ==
  /\ AcceptedInv
  /\ live.val \notin bad
  /\ acted \cap bad = {}

\* Without refused replies nothing is ever reopened, so the row accepts one
\* reply in its life and everybody who carries a reply carries that one.
ActedInv ==
  /\ AcceptedInv
  /\ AskedInv
  /\ bad = {}
  /\ live.reg => ~live.done
  /\ IF row.status \in {"answered", "processing", "completed"}
     THEN row.accepted = 1 /\ row.reply = 1 ELSE row.accepted = 0
  /\ \A t \in Task :
       /\ task[t].pc # "reopen"
       /\ task[t].pc # "idle" => task[t].reply = 1
  /\ turn \in {"preparing", "waiting"} /\ live.fut = "answered" => live.val = 1
  /\ acted \subseteq {1}

\* The row still owes reply i a settlement.
Open(i) == row.status \in {"answered", "processing"} /\ row.reply = i

\* The coordinator drops its entry when it sets the completion future, and by
\* then the row owes nothing to those who wait for it or were acknowledged.
AckInv ==
  /\ live.reg => ~live.done
  /\ live.done => \A i \in waiters \cap Reply : ~Open(i)
  /\ \A i \in Reply : entry[i].st = "acked" => ~Open(i)

\* A waiting turn gives up after the deadline only, and only refusals lead to a
\* reopening; whoever carries a reply carries one that was accepted.
LifeInv ==
  /\ turn = "timing_out" => expired
  /\ live.reg => ~live.done
  /\ row.status \in {"answered", "processing"} => row.reply # 0
  /\ \A t \in Task : /\ task[t].pc = "reopen" => bad # {}
                     /\ task[t].pc # "idle" => task[t].reply # 0
  /\ turn \in {"preparing", "waiting"} /\ live.fut = "answered" => live.val # 0

-----------------------------------------------------------------------------
(***************************************************************************)
(* A settled row is final.                                                 *)
(***************************************************************************)

\* What one step may do to the row: persist it, or a repository method.
LEMMA RowStep ==
  ASSUME TypeOK, [Next]_vars
  PROVE  \/ PersistRequest
         \/ row' \in {row, MarkTimeout, MarkCancelled}
         \/ \E own \in Owner \cup {NoOwner} : row' = MarkCompleted(own)
         \/ Respond
         \/ CanReopen /\ row' = ReopenPending /\ \E t \in Task : task[t].pc = "reopen"
         \/ CanClaim /\ \E own \in Owner : row' = ClaimForProcessing(own)
         \/ \E own \in Owner : row' = RefreshLease(own)
         \/ row.status = "processing" /\ row' = RevertToAnswered
         \/ row.status = "processing" /\ row' = [row EXCEPT !.stale = TRUE]
<1> DEFINE P == \/ PersistRequest
                \/ row' \in {row, MarkTimeout, MarkCancelled}
                \/ \E own \in Owner \cup {NoOwner} : row' = MarkCompleted(own)
                \/ Respond
                \/ CanReopen /\ row' = ReopenPending /\ \E t \in Task : task[t].pc = "reopen"
                \/ CanClaim /\ \E own \in Owner : row' = ClaimForProcessing(own)
                \/ \E own \in Owner : row' = RefreshLease(own)
                \/ row.status = "processing" /\ row' = RevertToAnswered
                \/ row.status = "processing" /\ row' = [row EXCEPT !.stale = TRUE]
<1>1. CASE TurnStep
  BY <1>1 DEF TurnStep, PrepareRequest, ReceiveResponse, CompleteTurn,
    CompleteHitlRequest, WaitTimesOut, FinishTimeout
<1>2. CASE TurnFault
  BY <1>2 DEF TurnFault, PersistFails, HandlerFails, DiscardPrepared, CancelTurn
<1>3. CASE HandleHitlPending \/ Expire
  BY <1>3 DEF HandleHitlPending, Expire
<1>4. CASE ApiStep
  BY <1>4 DEF ApiStep, SettleExpired, CancelRequest
<1>5. ASSUME NEW i \in Reply,
             Publish(i) \/ PublishFails(i) \/ EntryIdles(i) \/ AwaitCompletion(i)
      PROVE  P
  BY <1>5 DEF Publish, PublishFails, EntryIdles, AwaitCompletion
<1>6. ASSUME NEW w \in Worker, NEW i \in Reply, Deliver(w, i) \/ Reclaim(w, i)
      PROVE  P
  BY <1>6 DEF Deliver, Reclaim
<1>7. ASSUME NEW t \in Task, TaskStep(t) PROVE P
  <2>0. task[t].own \in Owner
    BY DEF TypeOK, TaskRec
  <2>1. CASE RecoverStale(t)
    BY <2>1 DEF RecoverStale, CanRevert
  <2>2. CASE ResumeAgent(t) \/ CheckState(t) \/ ContinueChat(t) \/ WrapUp(t)
    BY <2>2 DEF ResumeAgent, CheckState, ContinueChat, WrapUp
  <2>3. CASE ReopenAnswered(t)
    BY <2>3 DEF ReopenAnswered
  <2>4. CASE ClaimRequest(t)
    BY <2>0, <2>4 DEF ClaimRequest
  <2>5. CASE FinishExecution(t)
    BY <2>0, <2>5 DEF FinishExecution
  <2>6. CASE CompletePermanently(t)
    BY <2>0, <2>6 DEF CompletePermanently, CompleteHitlRequest
  <2>7. CASE RevertClaim(t)
    BY <2>7 DEF RevertClaim, CanRevert
  <2> QED BY <1>7, <2>1, <2>2, <2>3, <2>4, <2>5, <2>6, <2>7 DEF TaskStep
<1>8. ASSUME NEW t \in Task, Heartbeat(t) \/ HeartbeatDies(t) \/ StepFails(t)
      PROVE  P
  <2>1. task[t].own \in Owner
    BY DEF TypeOK, TaskRec
  <2> QED BY <1>8, <2>1 DEF Heartbeat, HeartbeatRead, HeartbeatWrite,
    HeartbeatDies, StepFails
<1>9. ASSUME NEW w \in Worker, Crash(w) \/ Restart(w) \/ StartConsumer(w) PROVE P
  BY <1>9 DEF Crash, Restart, StartConsumer
<1>10. CASE LeaseAges
  BY <1>10 DEF LeaseAges
<1>11. CASE UNCHANGED vars
  BY <1>11 DEF vars
<1> QED BY <1>1, <1>2, <1>3, <1>4, <1>5, <1>6, <1>7, <1>8, <1>9, <1>10, <1>11
  DEF Next

\* The turn leaves "none" and "preparing" for good, and persists on the way.
LEMMA TurnPhase ==
  ASSUME TypeOK, [Next]_vars, turn' \in {"none", "preparing"}
  PROVE  turn \in {"none", "preparing"} /\ ~PersistRequest
BY DEF Next, TurnStep, PrepareRequest, PersistRequest, ReceiveResponse,
  CompleteTurn, WaitTimesOut, FinishTimeout, TurnFault, PersistFails,
  HandlerFails, DiscardPrepared, CancelTurn, HandleHitlPending, ApiStep,
  Respond, SettleExpired, CancelRequest, Publish, PublishFails, EntryIdles,
  AwaitCompletion, Deliver, Reclaim, TaskStep, RecoverStale, ResumeAgent,
  ReopenAnswered, ClaimRequest, CheckState, ContinueChat, FinishExecution,
  WrapUp, CompletePermanently, RevertClaim, Heartbeat, HeartbeatRead,
  HeartbeatWrite, StepFails, HeartbeatDies, Crash, Restart, StartConsumer,
  Expire, LeaseAges, vars

LEMMA AskedNext == TypeOK /\ AskedInv /\ [Next]_vars => AskedInv'
<1> SUFFICES ASSUME TypeOK, AskedInv, [Next]_vars, turn' \in {"none", "preparing"}
             PROVE  row'.status = "none"
  BY DEF AskedInv
<1>1. row.status = "none" /\ ~PersistRequest
  BY TurnPhase DEF AskedInv
<1>2. ~Respond
  BY <1>1 DEF Respond
<1> QED BY <1>1, <1>2, RowStep DEF TypeOK, Row, MarkTimeout, MarkCancelled,
  MarkCompleted, CanComplete, CanReopen, CanClaim, RefreshLease

\* No step moves a completed, timed-out or cancelled request or its response.
THEOREM SettledStays == Spec => SettledIsFinal
<1>1. Init => AskedInv
  BY DEF Init, AskedInv
<1>2. TypeOK /\ AskedInv /\ [Next]_vars =>
        [row.status \in Settled =>
           row'.status = row.status /\ row'.reply = row.reply]_vars
  <2> SUFFICES ASSUME TypeOK, AskedInv, [Next]_vars, row.status \in Settled
               PROVE  row'.status = row.status /\ row'.reply = row.reply
    OBVIOUS
  <2>1. ~PersistRequest /\ ~Respond
    BY DEF PersistRequest, Respond, AskedInv, Settled
  <2> QED BY <2>1, RowStep DEF TypeOK, Row, Settled, MarkTimeout, MarkCancelled,
    MarkCompleted, CanComplete, CanReopen, CanClaim, RefreshLease
<1> QED BY <1>1, <1>2, AskedNext, TypeCorrect, PTL DEF Spec, SettledIsFinal

-----------------------------------------------------------------------------
(***************************************************************************)
(* The processing lease is exclusive.                                      *)
(***************************************************************************)

\* The tasks change little in a step that leaves the row and the heartbeats:
\* claims only disappear.
LEMMA LeaseKept ==
  ASSUME LeaseInv, row' = row,
         \A t \in Task :
           \/ task'[t] = task[t]
           \/ task'[t].pc \notin Claimed /\ task'[t].hb # "dead"
  PROVE  LeaseInv'
BY DEF LeaseInv, OneContinuation, Claimed

\* A finished, crashed or idle task claims nothing.
LEMMA IdleClaimsNothing ==
  IdleTask.pc \notin Claimed /\ IdleTask.hb # "dead"
BY DEF IdleTask, Claimed

LEMMA SpawnClaimsNothing ==
  ASSUME TypeOK, NEW pc \in {"recover", "resume", "claim"}, NEW own, NEW msg,
         NEW reply, Spawn(NewTask(pc, own, msg, reply))
  PROVE  \A t \in Task : \/ task'[t] = task[t]
                         \/ task'[t].pc \notin Claimed /\ task'[t].hb # "dead"
BY DEF Spawn, NewTask, Claimed, TypeOK

\* While nothing is claimed and no lease is held, the row is free to move.
LEMMA NoClaim ==
  ASSUME LeaseInv, row.status # "processing" \/ row.stale, row.status # "completed"
  PROVE  \A t \in Task : task[t].pc \notin Claimed
BY DEF LeaseInv

\* The tasks stand still and the row was free, or is completed by the step.
LEMMA LeaseRowMoves ==
  ASSUME TypeOK, LeaseInv, task' = task,
         \/ \A t \in Task : task[t].pc \notin Claimed
         \/ row'.status = "completed"
  PROVE  LeaseInv'
BY DEF LeaseInv, OneContinuation, Claimed

LEMMA LeaseTaskStep ==
  ASSUME TypeOK, LeaseInv, Fault \cap {"pause", "db"} = {},
         NEW t \in Task, TaskStep(t)
  PROVE  LeaseInv'
<1> USE DEF TypeOK
<1>0. /\ task \in [Task -> TaskRec]
      /\ task[t].own \in Owner
      /\ task[t].own # NoOwner
      /\ row.status \in Status /\ row.stale \in BOOLEAN
  BY OwnerAssumption DEF TaskRec, Row, Owner
<1>1. CASE RecoverStale(t)
  <2>1. CASE CanRevert(task[t].prev) /\ row.stale
    <3>1. \A u \in Task : task[u].pc \notin Claimed
      BY <2>1, NoClaim DEF CanRevert
    <3>2. \A u \in Task : task'[u].pc \notin Claimed /\ task'[u].hb # "dead"
      BY <1>0, <1>1, <2>1, <3>1, IdleClaimsNothing
      DEF RecoverStale, Goto, Finish, LeaseInv, Claimed, TaskRec
    <3> QED BY <3>2 DEF LeaseInv, OneContinuation, Claimed
  <2>2. CASE ~(CanRevert(task[t].prev) /\ row.stale)
    BY <1>0, <1>1, <2>2, LeaseKept, IdleClaimsNothing
    DEF RecoverStale, Goto, Finish, LeaseInv, Claimed, TaskRec
  <2> QED BY <2>1, <2>2
<1>2. CASE ResumeAgent(t)
  BY <1>0, <1>2, LeaseKept, IdleClaimsNothing
  DEF ResumeAgent, Goto, Finish, LeaseInv, Claimed, TaskRec
<1>3. CASE ReopenAnswered(t)
  <2>0. /\ task'[t] = IdleTask
        /\ \A u \in Task \ {t} : task'[u] = task[u]
    BY <1>0, <1>3 DEF ReopenAnswered, Finish
  <2>1. \A u \in Task : \/ task'[u] = task[u]
                        \/ task'[u].pc \notin Claimed /\ task'[u].hb # "dead"
    BY <2>0, IdleClaimsNothing
  <2>2. CASE CanReopen
    <3>1. \A u \in Task : task[u].pc \notin Claimed
      BY <2>2, NoClaim DEF CanReopen
    <3>2. \A u \in Task : task'[u].pc \notin Claimed /\ task'[u].hb # "dead"
      BY <2>1, <3>1 DEF LeaseInv
    <3> QED BY <3>2 DEF LeaseInv, OneContinuation, Claimed
  <2>3. CASE ~CanReopen
    BY <1>3, <2>1, <2>3, LeaseKept DEF ReopenAnswered
  <2> QED BY <2>2, <2>3
<1>4. CASE ClaimRequest(t)
  <2>1. CASE CanClaim
    <3>1. \A u \in Task : task[u].pc \notin Claimed
      BY <2>1, NoClaim DEF CanClaim
    <3>2. /\ row'.status = "processing"
          /\ row'.owner = task[t].own
          /\ row'.stale = FALSE
      BY <1>4, <2>1 DEF ClaimRequest, ClaimForProcessing, Row
    <3>3. /\ task'[t].pc \in {"run", "check"}
          /\ task'[t].own = task[t].own
          /\ task'[t].hb = task[t].hb
          /\ \A u \in Task \ {t} : task'[u] = task[u]
      BY <1>0, <1>4, <2>1 DEF ClaimRequest, Goto, TaskRec
    <3> QED BY <3>1, <3>2, <3>3 DEF LeaseInv, OneContinuation, Claimed
  <2>2. CASE ~CanClaim
    BY <1>0, <1>4, <2>2, LeaseKept, IdleClaimsNothing DEF ClaimRequest, Finish
  <2> QED BY <2>1, <2>2
<1>5. CASE CheckState(t)
  BY <1>0, <1>5 DEF CheckState, Goto, LeaseInv, OneContinuation, Claimed, TaskRec
<1>6. CASE ContinueChat(t)
  <2>1. /\ task'[t].pc \in {"exec", "complete"}
        /\ task'[t].pc = "exec" => task'[t].hb = "on"
        /\ task'[t].pc = "complete" => task'[t].hb = task[t].hb
        /\ task'[t].own = task[t].own
        /\ \A u \in Task \ {t} : task'[u] = task[u]
    BY <1>0, <1>6 DEF ContinueChat, Goto, TaskRec
  <2>2. task[t].pc = "run" /\ row' = row
    BY <1>6 DEF ContinueChat
  <2> QED BY <2>1, <2>2 DEF LeaseInv, OneContinuation, Claimed
<1>7. CASE FinishExecution(t)
  <2>1. row'.status = "completed"
    BY <1>0, <1>7 DEF FinishExecution, MarkCompleted, CanComplete, LeaseInv,
      Claimed, Row
  <2>2. /\ task'[t].pc = "wrapup" /\ task[t].pc = "exec"
        /\ task'[t].hb = task[t].hb
        /\ \A u \in Task \ {t} : task'[u] = task[u]
    BY <1>0, <1>7 DEF FinishExecution, Goto, TaskRec
  <2> QED BY <2>1, <2>2 DEF LeaseInv, OneContinuation, Claimed
<1>8. CASE WrapUp(t)
  BY <1>0, <1>8, LeaseKept, IdleClaimsNothing DEF WrapUp, Finish, LeaseInv
<1>9. CASE CompletePermanently(t)
  <2>1. \A u \in Task \ {t} : task[u].pc \notin Claimed
    BY <1>9 DEF CompletePermanently, LeaseInv, OneContinuation, Claimed
  <2>2. /\ task'[t] = IdleTask
        /\ \A u \in Task \ {t} : task'[u] = task[u]
    BY <1>0, <1>9 DEF CompletePermanently, Finish
  <2> QED BY <2>1, <2>2, IdleClaimsNothing DEF LeaseInv, OneContinuation, Claimed
<1>10. CASE RevertClaim(t)
  <2>1. \A u \in Task \ {t} : task[u].pc \notin Claimed
    BY <1>10 DEF RevertClaim, LeaseInv, OneContinuation, Claimed
  <2>2. /\ task'[t] = IdleTask
        /\ \A u \in Task \ {t} : task'[u] = task[u]
    BY <1>0, <1>10 DEF RevertClaim, Finish
  <2> QED BY <2>1, <2>2, IdleClaimsNothing DEF LeaseInv, OneContinuation, Claimed
<1> QED BY <1>1, <1>2, <1>3, <1>4, <1>5, <1>6, <1>7, <1>8, <1>9, <1>10 DEF TaskStep

LEMMA LeaseHeartbeat ==
  ASSUME TypeOK, LeaseInv, Fault \cap {"pause", "db"} = {}, NEW t \in Task,
         Heartbeat(t) \/ HeartbeatDies(t) \/ StepFails(t)
  PROVE  LeaseInv'
<1>0. task \in [Task -> TaskRec] /\ row \in Row
  BY DEF TypeOK
<1>1. CASE HeartbeatRead(t)
  <2>1. /\ task'[t].pc = task[t].pc /\ task'[t].own = task[t].own
        /\ \A u \in Task \ {t} : task'[u] = task[u]
        /\ task'[t].hb \in {"read", "off"}
        /\ task'[t].hb = "off" => ~CanRefresh(task[t].own)
    BY <1>0, <1>1 DEF HeartbeatRead, TaskRec
  <2>2. task'[t].hb = "off" => row.status = "completed"
    BY <1>1, <2>1 DEF HeartbeatRead, Beating, CanRefresh, LeaseInv, Claimed
  <2>3. row' = row /\ task[t].pc \in {"exec", "wrapup"}
    BY <1>1 DEF HeartbeatRead, Beating
  <2> QED BY <2>1, <2>2, <2>3 DEF LeaseInv, OneContinuation, Claimed
<1>2. CASE HeartbeatWrite(t)
  <2>1. /\ task'[t].pc = task[t].pc /\ task'[t].own = task[t].own
        /\ \A u \in Task \ {t} : task'[u] = task[u]
        /\ task'[t].hb = "on" /\ task[t].pc \in {"exec", "wrapup"}
    BY <1>0, <1>2 DEF HeartbeatWrite, Beating, TaskRec
  <2>2. row'.status = row.status /\ row'.owner = task[t].own /\ row'.stale = FALSE
    BY <1>0, <1>2 DEF HeartbeatWrite, RefreshLease, Row
  <2>3. \A u \in Task : u # t => task[u].pc \notin Claimed
    BY <2>1 DEF LeaseInv, OneContinuation, Claimed
  <2> QED BY <2>1, <2>2, <2>3 DEF LeaseInv, OneContinuation, Claimed
<1>3. CASE StepFails(t)
  <2>1. /\ task'[t].pc = "revert" /\ task'[t].own = task[t].own
        /\ task'[t].hb = task[t].hb
        /\ \A u \in Task \ {t} : task'[u] = task[u]
    BY <1>0, <1>3 DEF StepFails, Goto, TaskRec
  <2>2. row' = row /\ task[t].pc \in {"check", "run", "exec", "wrapup", "complete"}
    BY <1>3 DEF StepFails
  <2> QED BY <2>1, <2>2 DEF LeaseInv, OneContinuation, Claimed
<1>4. ~HeartbeatDies(t)
  BY DEF HeartbeatDies
<1> QED BY <1>1, <1>2, <1>3, <1>4 DEF Heartbeat

LEMMA LeaseNext ==
  ASSUME TypeOK, AskedInv, LeaseInv, Fault \cap {"pause", "db"} = {}, [Next]_vars
  PROVE  LeaseInv'
<1>0. row \in Row
  BY DEF TypeOK
<1>1. CASE TurnStep \/ TurnFault \/ HandleHitlPending \/ ApiStep \/ Expire
  <2>1. task' = task
    BY <1>1 DEF TurnStep, PrepareRequest, PersistRequest, ReceiveResponse,
      CompleteTurn, WaitTimesOut, FinishTimeout, TurnFault, PersistFails,
      HandlerFails, DiscardPrepared, CancelTurn, HandleHitlPending, ApiStep,
      Respond, SettleExpired, CancelRequest, Expire
  <2>2. \/ row' = row
        \/ row'.status = "completed"
        \/ row.status \in {"none", "pending"}
    BY <1>0, <1>1 DEF TurnStep, PrepareRequest, PersistRequest, ReceiveResponse,
      CompleteTurn, CompleteHitlRequest, WaitTimesOut, FinishTimeout, TurnFault,
      PersistFails, HandlerFails, DiscardPrepared, CancelTurn,
      HandleHitlPending, ApiStep, Respond, SettleExpired, CancelRequest, Expire,
      AskedInv, MarkTimeout, MarkCancelled, MarkCompleted, Row
  <2>3. CASE row' = row
    BY <2>1, <2>3, LeaseKept
  <2>4. CASE row'.status = "completed"
    BY <2>1, <2>4, LeaseRowMoves
  <2>5. CASE row.status \in {"none", "pending"}
    BY <2>1, <2>5, NoClaim, LeaseRowMoves
  <2> QED BY <2>2, <2>3, <2>4, <2>5
<1>2. ASSUME NEW i \in Reply,
             Publish(i) \/ PublishFails(i) \/ EntryIdles(i) \/ AwaitCompletion(i)
      PROVE  LeaseInv'
  BY <1>2, LeaseKept DEF Publish, PublishFails, EntryIdles, AwaitCompletion
<1>3. ASSUME NEW w \in Worker, NEW i \in Reply, Deliver(w, i) \/ Reclaim(w, i)
      PROVE  LeaseInv'
  <2>1. row' = row
    BY <1>3 DEF Deliver, Reclaim
  <2>2. \A t \in Task : \/ task'[t] = task[t]
                        \/ task'[t].pc \notin Claimed /\ task'[t].hb # "dead"
    BY <1>3, SpawnClaimsNothing DEF Deliver, Reclaim, HandleMessage
  <2> QED BY <2>1, <2>2, LeaseKept
<1>4. ASSUME NEW t \in Task,
             TaskStep(t) \/ Heartbeat(t) \/ StepFails(t) \/ HeartbeatDies(t)
      PROVE  LeaseInv'
  BY <1>4, LeaseTaskStep, LeaseHeartbeat
<1>5. ASSUME NEW w \in Worker, Crash(w) \/ StartConsumer(w) PROVE LeaseInv'
  <2>1. row' = row
    BY <1>5 DEF Crash, StartConsumer
  <2>2. \A t \in Task : task'[t] = task[t] \/ task'[t] = IdleTask
    BY <1>5 DEF Crash, StartConsumer
  <2> QED BY <2>1, <2>2, IdleClaimsNothing, LeaseKept
<1>6. ASSUME NEW w \in Worker, Restart(w) PROVE LeaseInv'
  <2>1. \A t \in Task : \/ task'[t] = task[t]
                        \/ task'[t].pc \notin Claimed /\ task'[t].hb # "dead"
    BY <1>6, SpawnClaimsNothing DEF Restart
  <2>2. CASE row' = row
    BY <2>1, <2>2, LeaseKept
  <2>3. CASE row' # row
    <3>1. row.status = "pending"
      BY <1>6, <2>3 DEF Restart, MarkTimeout
    <3>2. \A t \in Task : task[t].pc \notin Claimed
      BY <3>1, NoClaim
    <3>3. \A t \in Task : task'[t].pc \notin Claimed /\ task'[t].hb # "dead"
      BY <2>1, <3>2 DEF LeaseInv
    <3> QED BY <3>3 DEF LeaseInv, OneContinuation, Claimed
  <2> QED BY <2>2, <2>3
<1>7. CASE LeaseAges
  <2>1. \A t \in Task : task[t].pc \notin Claimed
    BY <1>7 DEF LeaseAges, Holding, LeaseInv, Claimed, TypeOK, TaskRec
  <2> QED BY <1>7, <2>1, LeaseRowMoves DEF LeaseAges
<1>8. CASE UNCHANGED vars
  BY <1>8, LeaseKept DEF vars
<1> QED BY <1>1, <1>2, <1>3, <1>4, <1>5, <1>6, <1>7, <1>8 DEF Next

\* Without a stall past the 300 s cutoff and without a dead heartbeat, no two
\* resume tasks of any processes are ever between claim and end together.
THEOREM LeaseExclusive ==
  ASSUME Fault \cap {"pause", "db"} = {}
  PROVE  Spec => []OneContinuation
<1>1. Init => AskedInv /\ LeaseInv
  BY DEF Init, AskedInv, LeaseInv, OneContinuation, Claimed, IdleTask
<1>2. TypeOK /\ AskedInv /\ LeaseInv /\ [Next]_vars => AskedInv' /\ LeaseInv'
  BY AskedNext, LeaseNext
<1>3. LeaseInv => OneContinuation
  BY DEF LeaseInv
<1> QED BY <1>1, <1>2, <1>3, TypeCorrect, PTL DEF Spec

-----------------------------------------------------------------------------
(***************************************************************************)
(* Which replies reach the agent.  The lemmas say, for each place that     *)
(* holds a reply, where a step may have taken it from.                     *)
(***************************************************************************)

\* The row accepts replies in order and records none it has not accepted.
LEMMA RowReplies ==
  ASSUME TypeOK, [Next]_vars, row.reply <= row.accepted
  PROVE  /\ row'.reply <= row'.accepted
         /\ row.accepted <= row'.accepted
         /\ ~Respond => row'.accepted = row.accepted
<1>1. row \in Row /\ row.accepted \in Nat /\ row.reply \in Nat
  BY ReplyAssumption DEF TypeOK, Row, Reply
<1>2. CASE Respond
  <2>1. row.accepted + 1 \in Reply
    BY <1>1, <1>2, ReplyAssumption DEF Respond, Reply
  <2> QED BY <1>1, <1>2, <2>1 DEF Respond, UpdateResponse, Row
<1>3. CASE ~Respond
  <2>1. CASE PersistRequest
    BY <1>1, <1>3, <2>1 DEF PersistRequest, Row
  <2>2. CASE row' \in {row, MarkTimeout, MarkCancelled}
    <3>1. row'.accepted = row.accepted /\ row'.reply = row.reply
      BY <1>1, <2>2 DEF MarkTimeout, MarkCancelled, Row
    <3> QED BY <1>1, <3>1
  <2>5. CASE row' = ReopenPending
    BY <1>1, <1>3, <2>5 DEF ReopenPending, Row
  <2>3. ASSUME NEW own, row' \in {MarkCompleted(own), ClaimForProcessing(own),
                                 RefreshLease(own), RevertToAnswered}
        PROVE  row'.accepted = row.accepted /\ row'.reply = row.reply
    BY <1>1, <2>3 DEF MarkCompleted, ClaimForProcessing, RefreshLease,
      RevertToAnswered, Row
  <2>4. CASE row' = [row EXCEPT !.stale = TRUE]
    BY <1>1, <1>3, <2>4 DEF Row
  <2> QED BY <1>1, <1>3, <2>1, <2>2, <2>3, <2>4, <2>5, RowStep
<1> QED BY <1>2, <1>3

\* Only the endpoint's reply, when it is new, may turn out to be refused.
LEMMA BadReplies ==
  ASSUME TypeOK, [Next]_vars
  PROVE  bad' = bad \/ (Respond /\ "reject" \in Fault /\ bad' = bad \cup {row.accepted + 1})
BY DEF Next, TurnStep, PrepareRequest, PersistRequest, ReceiveResponse,
  CompleteTurn, WaitTimesOut, FinishTimeout, TurnFault, PersistFails,
  HandlerFails, DiscardPrepared, CancelTurn, HandleHitlPending, ApiStep,
  Respond, SettleExpired, CancelRequest, Publish, PublishFails, EntryIdles,
  AwaitCompletion, Deliver, Reclaim, TaskStep, RecoverStale, ResumeAgent,
  ReopenAnswered, ClaimRequest, CheckState, ContinueChat, FinishExecution,
  WrapUp, CompletePermanently, RevertClaim, Heartbeat, HeartbeatRead,
  HeartbeatWrite, StepFails, HeartbeatDies, Crash, Restart, StartConsumer,
  Expire, LeaseAges, vars

\* An agent acts on the live future's value or on a validated task's reply.
LEMMA ActedReplies ==
  ASSUME TypeOK, [Next]_vars
  PROVE  \/ acted' = acted
         \/ /\ turn = "waiting" /\ live.fut = "answered"
            /\ acted' = acted \cup {live.val}
         \/ \E t \in Task : /\ task[t].pc = "run" /\ task[t].reply \notin bad
                            /\ acted' = acted \cup {task[t].reply}
BY DEF Next, TurnStep, PrepareRequest, PersistRequest, ReceiveResponse,
  CompleteTurn, WaitTimesOut, FinishTimeout, TurnFault, PersistFails,
  HandlerFails, DiscardPrepared, CancelTurn, HandleHitlPending, ApiStep,
  Respond, SettleExpired, CancelRequest, Publish, PublishFails, EntryIdles,
  AwaitCompletion, Deliver, Reclaim, TaskStep, RecoverStale, ResumeAgent,
  ReopenAnswered, ClaimRequest, CheckState, ContinueChat, FinishExecution,
  WrapUp, CompletePermanently, RevertClaim, Heartbeat, HeartbeatRead,
  HeartbeatWrite, StepFails, HeartbeatDies, Crash, Restart, StartConsumer,
  Expire, LeaseAges, vars

\* The live future gets its value from a resume task, never a refused one.
LEMMA LiveReplies ==
  ASSUME TypeOK, [Next]_vars
  PROVE  \/ live'.val = live.val
         \/ live'.val = 0
         \/ \E t \in Task : /\ task[t].pc = "resume" /\ task[t].reply \notin bad
                            /\ live'.val = task[t].reply
<1> USE DEF TypeOK, Live
<1>1. CASE TurnStep
  <2>1. CASE CompleteTurn
    BY <2>1 DEF CompleteTurn, CompleteHitlRequest
  <2>2. CASE WaitTimesOut \/ FinishTimeout
    BY <2>2 DEF WaitTimesOut, FinishTimeout
  <2>3. CASE PrepareRequest
    BY <2>3 DEF PrepareRequest
  <2>4. CASE PersistRequest \/ ReceiveResponse
    BY <2>4 DEF PersistRequest, ReceiveResponse
  <2> QED BY <1>1, <2>1, <2>2, <2>3, <2>4 DEF TurnStep
<1>2. CASE TurnFault
  <2>1. CASE PersistFails
    BY <2>1 DEF PersistFails
  <2>2. CASE HandlerFails
    BY <2>2 DEF HandlerFails
  <2>3. CASE DiscardPrepared
    BY <2>3 DEF DiscardPrepared
  <2>4. CASE CancelTurn
    BY <2>4 DEF CancelTurn
  <2> QED BY <1>2, <2>1, <2>2, <2>3, <2>4 DEF TurnFault
<1>3. ASSUME NEW t \in Task, ResumeAgent(t)
      PROVE  \/ live'.val = live.val
             \/ /\ task[t].pc = "resume" /\ task[t].reply \notin bad
                /\ live'.val = task[t].reply
  BY <1>3 DEF ResumeAgent
<1>4. ASSUME NEW t \in Task, CompletePermanently(t) PROVE live'.val = live.val
  BY <1>4 DEF CompletePermanently, CompleteHitlRequest
<1>5. ASSUME NEW w \in Worker, Crash(w) PROVE live'.val \in {0, live.val}
  BY <1>5 DEF Crash, NoLive
<1>6. ASSUME ~TurnStep, ~TurnFault, \A t \in Task : ~ResumeAgent(t),
             \A t \in Task : ~CompletePermanently(t), \A w \in Worker : ~Crash(w)
      PROVE  live' = live
  BY <1>6 DEF Next, HandleHitlPending, ApiStep,
    Respond, SettleExpired, CancelRequest, Publish, PublishFails, EntryIdles,
    AwaitCompletion, Deliver, Reclaim, TaskStep, RecoverStale,
    ReopenAnswered, ClaimRequest, CheckState, ContinueChat, FinishExecution,
    WrapUp, RevertClaim, Heartbeat, HeartbeatRead,
    HeartbeatWrite, StepFails, HeartbeatDies, Restart, StartConsumer,
    Expire, LeaseAges, vars
<1> QED BY <1>1, <1>2, <1>3, <1>4, <1>5, <1>6

\* An entry is written for the reply accepted now, or acknowledged by a task
\* or a waiter that was given it.
LEMMA EntryReplies ==
  ASSUME TypeOK, [Next]_vars, NEW i \in Reply, entry'[i].st # "absent"
  PROVE  \/ entry[i].st # "absent"
         \/ Respond /\ i = row.accepted + 1
         \/ i \in waiters
         \/ \E t \in Task : task[t].msg = i
<1> USE DEF TypeOK
<1>0. entry \in [Reply -> Entry]
  OBVIOUS
<1>1. CASE Respond
  BY <1>0, <1>1, ReplyAssumption DEF Respond, Row, Reply, Entry
<1>2. ASSUME NEW j \in Reply, Publish(j) \/ PublishFails(j) \/ EntryIdles(j)
      PROVE  entry[i].st # "absent"
  BY <1>0, <1>2 DEF Publish, PublishFails, EntryIdles, Entry
<1>3. ASSUME NEW j \in Reply \cup {0}, AckEntry(j)
      PROVE  entry[i].st # "absent" \/ j = i
  BY <1>0, <1>3 DEF AckEntry, Acked, Entry
<1>4. ASSUME NEW j \in Reply, AwaitCompletion(j)
      PROVE  entry[i].st # "absent" \/ i \in waiters
  BY <1>3, <1>4 DEF AwaitCompletion
<1>5. ASSUME NEW w \in Worker, NEW j \in Reply, Deliver(w, j) \/ Reclaim(w, j)
      PROVE  entry[i].st # "absent"
  <2>1. entry[j].st # "absent"
    BY <1>5 DEF Deliver, Reclaim
  <2>2. CASE i = j
    BY <2>1, <2>2
  <2>3. CASE i # j
    BY <1>0, <1>5, <2>3 DEF Deliver, Reclaim, HandleMessage, Acked, Entry
  <2> QED BY <2>2, <2>3
<1>6. ASSUME NEW t \in Task, TaskStep(t)
      PROVE  entry[i].st # "absent" \/ task[t].msg = i
  <2>1. task[t].msg \in Reply \cup {0}
    BY DEF TaskRec
  <2>2. CASE ReopenAnswered(t) \/ WrapUp(t) \/ CompletePermanently(t)
    BY <1>3, <2>1, <2>2 DEF ReopenAnswered, WrapUp, CompletePermanently
  <2>3. CASE ~(ReopenAnswered(t) \/ WrapUp(t) \/ CompletePermanently(t))
    BY <1>6, <2>3 DEF TaskStep, RecoverStale, ResumeAgent, ClaimRequest,
      CheckState, ContinueChat, FinishExecution, RevertClaim
  <2> QED BY <2>2, <2>3
<1>7. ASSUME ~Respond,
             \A j \in Reply : ~(Publish(j) \/ PublishFails(j) \/ EntryIdles(j)),
             \A j \in Reply : ~AwaitCompletion(j),
             \A w \in Worker, j \in Reply : ~(Deliver(w, j) \/ Reclaim(w, j)),
             \A t \in Task : ~TaskStep(t)
      PROVE  entry' = entry
  BY <1>7 DEF Next, TurnStep, PrepareRequest, PersistRequest, ReceiveResponse,
    CompleteTurn, WaitTimesOut, FinishTimeout, TurnFault, PersistFails,
    HandlerFails, DiscardPrepared, CancelTurn, HandleHitlPending, ApiStep,
    SettleExpired, CancelRequest, Heartbeat, HeartbeatRead,
    HeartbeatWrite, StepFails, HeartbeatDies, Crash, Restart, StartConsumer,
    Expire, LeaseAges, vars
<1> QED BY <1>1, <1>2, <1>4, <1>5, <1>6, <1>7

\* A resume task carries the reply of its entry or the one the row holds.
LEMMA TaskReplies ==
  ASSUME TypeOK, [Next]_vars, NEW t \in Task
  PROVE  \/ task'[t].pc = "idle" /\ task'[t].reply = 0 /\ task'[t].msg = 0
         \/ /\ task'[t].reply = task[t].reply /\ task'[t].msg = task[t].msg
            /\ task'[t].pc # "idle" => task[t].pc # "idle"
         \/ /\ row.status \in {"answered", "processing"}
            /\ task'[t].pc # "reopen"
            /\ task'[t].msg = 0 /\ task'[t].reply = row.reply
         \/ /\ row.status \in {"answered", "processing"}
            /\ task'[t].pc # "reopen"
            /\ \E i \in Reply : /\ entry[i].st # "absent" /\ task'[t].msg = i
                                /\ task'[t].reply \in {i, row.reply}
<1> DEFINE Q == \/ task'[t].pc = "idle" /\ task'[t].reply = 0 /\ task'[t].msg = 0
                \/ /\ task'[t].reply = task[t].reply /\ task'[t].msg = task[t].msg
                   /\ task'[t].pc # "idle" => task[t].pc # "idle"
                \/ /\ row.status \in {"answered", "processing"}
                   /\ task'[t].pc # "reopen"
                   /\ task'[t].msg = 0 /\ task'[t].reply = row.reply
                \/ /\ row.status \in {"answered", "processing"}
                   /\ task'[t].pc # "reopen"
                   /\ \E i \in Reply :
                        /\ entry[i].st # "absent" /\ task'[t].msg = i
                        /\ task'[t].reply \in {i, row.reply}
<1> USE DEF TypeOK
<1>0. task \in [Task -> TaskRec]
  OBVIOUS
<1>1. ASSUME NEW u \in Task, task[u].pc # "idle",
             Finish(u) \/ \E pc \in Pc : Goto(u, pc)
      PROVE  Q
  BY <1>0, <1>1 DEF Finish, Goto, IdleTask, TaskRec
<1>2. ASSUME NEW u \in Task, TaskStep(u) PROVE Q
  <2>1. CASE ContinueChat(u)
    BY <1>0, <1>1, <2>1 DEF ContinueChat, TaskRec, Pc
  <2>2. CASE ~ContinueChat(u)
    <3>1. task[u].pc # "idle" /\ (Finish(u) \/ \E pc \in Pc : Goto(u, pc))
      BY <1>2, <2>2 DEF TaskStep, RecoverStale, ResumeAgent, ReopenAnswered,
        ClaimRequest, CheckState, FinishExecution, WrapUp, CompletePermanently,
        RevertClaim, Pc
    <3> QED BY <1>1, <3>1
  <2> QED BY <2>1, <2>2
<1>3. ASSUME NEW u \in Task, Heartbeat(u) \/ HeartbeatDies(u) \/ StepFails(u)
      PROVE  Q
  <2>1. CASE StepFails(u)
    <3>1. task[u].pc # "idle" /\ (Finish(u) \/ \E pc \in Pc : Goto(u, pc))
      BY <2>1 DEF StepFails, Pc
    <3> QED BY <1>1, <3>1
  <2>2. CASE Heartbeat(u) \/ HeartbeatDies(u)
    BY <1>0, <2>2 DEF Heartbeat, HeartbeatRead, HeartbeatWrite, HeartbeatDies,
      Beating, TaskRec, Pc
  <2> QED BY <1>3, <2>1, <2>2
<1>4. ASSUME NEW w \in Worker, NEW i \in Reply, Deliver(w, i) \/ Reclaim(w, i)
      PROVE  Q
  <2>1. entry[i].st # "absent"
    BY <1>4 DEF Deliver, Reclaim
  <2> QED BY <1>0, <1>4, <2>1 DEF Deliver, Reclaim, HandleMessage, Spawn, NewTask
<1>5. ASSUME NEW w \in Worker, Restart(w) PROVE Q
  BY <1>0, <1>5 DEF Restart, Spawn, NewTask
<1>6. ASSUME NEW w \in Worker, Crash(w) PROVE Q
  BY <1>0, <1>6 DEF Crash, IdleTask
<1>7. CASE task' = task
  BY <1>7
<1> QED BY <1>2, <1>3, <1>4, <1>5, <1>6, <1>7 DEF Next, TurnStep, PrepareRequest,
  PersistRequest, ReceiveResponse, CompleteTurn, WaitTimesOut, FinishTimeout,
  TurnFault, PersistFails, HandlerFails, DiscardPrepared, CancelTurn,
  HandleHitlPending, ApiStep, Respond, SettleExpired, CancelRequest, Publish,
  PublishFails, EntryIdles, AwaitCompletion, StartConsumer, Expire, LeaseAges,
  vars

\* The waiters were resume tasks before.
LEMMA WaiterReplies ==
  ASSUME TypeOK, [Next]_vars
  PROVE  \/ waiters' \subseteq waiters
         \/ \E t \in Task : waiters' = waiters \cup {task[t].msg}
BY DEF Next, TurnStep, PrepareRequest, PersistRequest, ReceiveResponse,
  CompleteTurn, WaitTimesOut, FinishTimeout, TurnFault, PersistFails,
  HandlerFails, DiscardPrepared, CancelTurn, HandleHitlPending, ApiStep,
  Respond, SettleExpired, CancelRequest, Publish, PublishFails, EntryIdles,
  AwaitCompletion, Deliver, Reclaim, TaskStep, RecoverStale, ResumeAgent,
  ReopenAnswered, ClaimRequest, CheckState, ContinueChat, FinishExecution,
  WrapUp, CompletePermanently, RevertClaim, Heartbeat, HeartbeatRead,
  HeartbeatWrite, StepFails, HeartbeatDies, Crash, Restart, StartConsumer,
  Expire, LeaseAges, vars

LEMMA AcceptedNext == TypeOK /\ AcceptedInv /\ [Next]_vars => AcceptedInv'
<1> SUFFICES ASSUME TypeOK, AcceptedInv, [Next]_vars PROVE AcceptedInv'
  OBVIOUS
<1>0. /\ row.accepted \in Nat /\ row'.accepted \in Nat
      /\ row.accepted <= row'.accepted
      /\ row'.reply <= row'.accepted
      /\ Respond => row'.accepted = row.accepted + 1
  <2>1. row'.accepted \in Nat /\ row.accepted \in Nat
    BY TypeOKNext, ReplyAssumption DEF TypeOK, Row, Reply
  <2>2. Respond => row'.accepted = row.accepted + 1
    BY DEF Respond, UpdateResponse, TypeOK, Row
  <2> QED BY <2>1, <2>2, RowReplies DEF AcceptedInv
<1> DEFINE Old(i) == i <= row.accepted
<1>1. \A i \in Reply \cup {0} : Old(i) => i <= row'.accepted
  BY <1>0, ReplyAssumption DEF Reply
<1>2. \A i \in bad' : i <= row'.accepted
  <2>1. bad \subseteq Reply
    BY DEF TypeOK
  <2> QED BY <1>0, <1>1, <2>1, BadReplies DEF AcceptedInv
<1>3. \A i \in acted' : i <= row'.accepted
  <2>1. /\ acted \subseteq Reply \cup {0}
        /\ live.val \in Reply \cup {0}
        /\ \A t \in Task : task[t].reply \in Reply \cup {0}
    BY DEF TypeOK, Live, TaskRec
  <2> QED BY <1>1, <2>1, ActedReplies DEF AcceptedInv
<1>4. live'.val <= row'.accepted
  <2>1. /\ live.val \in Reply \cup {0}
        /\ \A t \in Task : task[t].reply \in Reply \cup {0}
    BY DEF TypeOK, Live, TaskRec
  <2> QED BY <1>0, <1>1, <2>1, LiveReplies DEF AcceptedInv
<1>5. \A t \in Task : task'[t].reply <= row'.accepted /\ task'[t].msg <= row'.accepted
  <2> SUFFICES ASSUME NEW t \in Task
               PROVE  task'[t].reply <= row'.accepted /\ task'[t].msg <= row'.accepted
    OBVIOUS
  <2>1. /\ row.reply \in Reply \cup {0}
        /\ task[t].reply \in Reply \cup {0} /\ task[t].msg \in Reply \cup {0}
    BY DEF TypeOK, Row, TaskRec
  <2>2. /\ Old(row.reply) /\ Old(task[t].reply) /\ Old(task[t].msg)
        /\ \A i \in Reply : entry[i].st # "absent" => Old(i)
    BY DEF AcceptedInv
  <2> QED BY <1>0, <1>1, <2>1, <2>2, TaskReplies
<1>6. \A i \in waiters' : i <= row'.accepted
  <2>1. /\ waiters \subseteq Reply \cup {0}
        /\ \A t \in Task : task[t].msg \in Reply \cup {0}
    BY DEF TypeOK, TaskRec
  <2> QED BY <1>1, <2>1, WaiterReplies DEF AcceptedInv
<1>7. \A i \in Reply : entry'[i].st # "absent" => i <= row'.accepted
  BY <1>0, <1>1, EntryReplies DEF AcceptedInv
<1> QED BY <1>0, <1>2, <1>3, <1>4, <1>5, <1>6, <1>7 DEF AcceptedInv

LEMMA AcceptedInit == Init => AcceptedInv
BY ReplyAssumption DEF Init, AcceptedInv, NoLive, IdleTask

LEMMA RefusedNext == TypeOK /\ RefusedInv /\ [Next]_vars => RefusedInv'
<1> SUFFICES ASSUME TypeOK, RefusedInv, [Next]_vars PROVE RefusedInv'
  OBVIOUS
<1>1. AcceptedInv'
  BY AcceptedNext DEF RefusedInv
<1>2. /\ row.accepted \in Nat /\ live.val \in Nat /\ acted \subseteq Nat
      /\ bad \subseteq Reply /\ 0 \notin Reply
      /\ \A t \in Task : task[t].reply \in Nat
  BY ReplyAssumption DEF TypeOK, Row, Live, TaskRec, Reply
<1>3. \* A reply that becomes refused now is newer than all that are carried.
      \A i \in bad' : i \in bad \/ i = row.accepted + 1
  BY BadReplies
<1>4. live'.val \notin bad'
  <2>1. /\ live.val \notin bad /\ live.val <= row.accepted
        /\ \A t \in Task : task[t].reply <= row.accepted
    BY DEF RefusedInv, AcceptedInv
  <2>2. CASE live'.val = 0
    BY <1>2, <1>3, <2>2
  <2>3. CASE live'.val # 0
    BY <1>2, <1>3, <2>1, <2>3, LiveReplies
  <2> QED BY <2>2, <2>3
<1>5. acted' \cap bad' = {}
  <2>1. /\ live.val \notin bad /\ live.val <= row.accepted
        /\ \A t \in Task : task[t].reply <= row.accepted
        /\ \A i \in acted : i \notin bad /\ i <= row.accepted
    BY DEF RefusedInv, AcceptedInv
  <2> SUFFICES ASSUME NEW i \in acted', i \in bad' PROVE FALSE
    OBVIOUS
  <2>2. i \in acted \/ i = live.val
          \/ \E t \in Task : i = task[t].reply /\ task[t].reply \notin bad
    BY ActedReplies
  <2>3. i \notin bad /\ i <= row.accepted /\ i \in Nat
    BY <1>2, <2>1, <2>2
  <2> QED BY <1>2, <1>3, <2>3
<1> QED BY <1>1, <1>4, <1>5 DEF RefusedInv

\* A reply that the request's validation refuses never reaches an agent.
THEOREM RefusedStaysOut == Spec => []RefusedNeverActedOn
<1>1. Init => RefusedInv
  BY AcceptedInit DEF Init, RefusedInv, NoLive
<1>2. RefusedInv => RefusedNeverActedOn
  BY DEF RefusedInv, RefusedNeverActedOn
<1> QED BY <1>1, <1>2, RefusedNext, TypeCorrect, PTL DEF Spec

\* A task turns to reopening only after the coordinator refused its reply, or
\* answered that the request is already done.
LEMMA ReopenReason ==
  ASSUME TypeOK, [Next]_vars, NEW t \in Task, task'[t].pc = "reopen"
  PROVE  \/ task[t].pc = "reopen"
         \/ task[t].reply \in bad
         \/ live.reg /\ live.done
<1>0. task \in [Task -> TaskRec]
  BY DEF TypeOK
<1>1. ASSUME NEW u \in Task, ResumeAgent(u)
      PROVE  task[t].pc = "reopen" \/ task[t].reply \in bad \/ (live.reg /\ live.done)
  BY <1>0, <1>1 DEF ResumeAgent, Goto, Finish, IdleTask, TaskRec
<1>2. ASSUME NEW u \in Task, TaskStep(u), ~ResumeAgent(u)
      PROVE  task[t].pc = "reopen"
  BY <1>0, <1>2 DEF TaskStep, RecoverStale, ReopenAnswered, ClaimRequest,
    CheckState, ContinueChat, FinishExecution, WrapUp, CompletePermanently,
    RevertClaim, Goto, Finish, IdleTask, TaskRec
<1>3. ASSUME NEW u \in Task, Heartbeat(u) \/ HeartbeatDies(u) \/ StepFails(u)
      PROVE  task[t].pc = "reopen"
  BY <1>0, <1>3 DEF Heartbeat, HeartbeatRead, HeartbeatWrite, HeartbeatDies,
    StepFails, Goto, Finish, IdleTask, TaskRec
<1>4. ASSUME NEW w \in Worker, NEW i \in Reply, Deliver(w, i) \/ Reclaim(w, i)
      PROVE  task[t].pc = "reopen"
  BY <1>0, <1>4 DEF Deliver, Reclaim, HandleMessage, Spawn, NewTask
<1>5. ASSUME NEW w \in Worker, Restart(w) \/ Crash(w) PROVE task[t].pc = "reopen"
  BY <1>0, <1>5 DEF Restart, Crash, Spawn, NewTask, IdleTask
<1>6. CASE task' = task
  BY <1>6
<1> QED BY <1>1, <1>2, <1>3, <1>4, <1>5, <1>6 DEF Next, TurnStep, PrepareRequest,
  PersistRequest, ReceiveResponse, CompleteTurn, WaitTimesOut, FinishTimeout,
  TurnFault, PersistFails, HandlerFails, DiscardPrepared, CancelTurn,
  HandleHitlPending, ApiStep, Respond, SettleExpired, CancelRequest, Publish,
  PublishFails, EntryIdles, AwaitCompletion, StartConsumer, Expire, LeaseAges,
  vars

\* The coordinator drops its entry whenever it sets the completion future, and
\* a waiting turn's future is answered by a resume task only.
LEMMA LiveStep ==
  ASSUME TypeOK, [Next]_vars, live.reg => ~live.done
  PROVE  /\ live'.reg => ~live'.done
         /\ turn' \in {"preparing", "waiting"} /\ live'.fut = "answered" =>
              \/ /\ turn \in {"preparing", "waiting"} /\ live.fut = "answered"
                 /\ live'.val = live.val
              \/ \E t \in Task : task[t].pc = "resume" /\ live'.val = task[t].reply
<1> DEFINE L == /\ live'.reg => ~live'.done
                /\ turn' \in {"preparing", "waiting"} /\ live'.fut = "answered" =>
                     \/ /\ turn \in {"preparing", "waiting"} /\ live.fut = "answered"
                        /\ live'.val = live.val
                     \/ \E t \in Task : task[t].pc = "resume" /\ live'.val = task[t].reply
<1>0. live \in Live
  BY DEF TypeOK
<1>1. CASE TurnStep
  <2>1. CASE PrepareRequest
    BY <2>1 DEF PrepareRequest
  <2>2. CASE PersistRequest
    BY <2>2 DEF PersistRequest
  <2>3. CASE ReceiveResponse
    BY <2>3 DEF ReceiveResponse
  <2>4. CASE CompleteTurn
    BY <1>0, <2>4 DEF CompleteTurn, CompleteHitlRequest, Live
  <2>5. CASE WaitTimesOut
    BY <1>0, <2>5 DEF WaitTimesOut, Live
  <2>6. CASE FinishTimeout
    BY <1>0, <2>6 DEF FinishTimeout, Live
  <2> QED BY <1>1, <2>1, <2>2, <2>3, <2>4, <2>5, <2>6 DEF TurnStep
<1>2. CASE TurnFault
  <2>1. CASE PersistFails
    BY <1>0, <2>1 DEF PersistFails, Live
  <2>2. CASE HandlerFails
    BY <1>0, <2>2 DEF HandlerFails, Live
  <2>3. CASE DiscardPrepared
    BY <1>0, <2>3 DEF DiscardPrepared, Live
  <2>4. CASE CancelTurn
    BY <1>0, <2>4 DEF CancelTurn, Live
  <2> QED BY <1>2, <2>1, <2>2, <2>3, <2>4 DEF TurnFault
<1>3. ASSUME NEW t \in Task, ResumeAgent(t) PROVE L
  BY <1>0, <1>3 DEF ResumeAgent, Live
<1>4. ASSUME NEW t \in Task, CompletePermanently(t) PROVE L
  BY <1>0, <1>4 DEF CompletePermanently, CompleteHitlRequest, Live
<1>5. ASSUME NEW w \in Worker, Crash(w) PROVE L
  BY <1>0, <1>5 DEF Crash, NoLive
<1>6. CASE live' = live /\ turn' = turn
  BY <1>6
<1> QED BY <1>1, <1>2, <1>3, <1>4, <1>5, <1>6 DEF Next, HandleHitlPending,
  ApiStep, Respond, SettleExpired, CancelRequest, Publish, PublishFails,
  EntryIdles, AwaitCompletion, Deliver, Reclaim, TaskStep, RecoverStale,
  ReopenAnswered, ClaimRequest, CheckState, ContinueChat, FinishExecution,
  WrapUp, RevertClaim, Heartbeat, HeartbeatRead, HeartbeatWrite, StepFails,
  HeartbeatDies, Restart, StartConsumer, Expire, LeaseAges, vars

LEMMA ActedNext ==
  ASSUME TypeOK, ActedInv, "reject" \notin Fault, [Next]_vars
  PROVE  ActedInv'
<1>1. AcceptedInv' /\ AskedInv'
  BY AcceptedNext, AskedNext DEF ActedInv
<1>2. bad' = {}
  BY BadReplies DEF ActedInv
<1>3. live'.reg => ~live'.done
  BY LiveStep DEF ActedInv
<1>4. IF row'.status \in {"answered", "processing", "completed"}
      THEN row'.accepted = 1 /\ row'.reply = 1 ELSE row'.accepted = 0
  <2> DEFINE Good(r) == IF r.status \in {"answered", "processing", "completed"}
                        THEN r.accepted = 1 /\ r.reply = 1 ELSE r.accepted = 0
  <2>0. row \in Row /\ Good(row) /\ \A t \in Task : task[t].pc # "reopen"
    BY DEF TypeOK, ActedInv
  <2>1. CASE PersistRequest
    BY <2>0, <2>1 DEF PersistRequest, ActedInv, AskedInv, Row
  <2>2. CASE row' \in {row, MarkTimeout, MarkCancelled}
    BY <2>0, <2>2 DEF MarkTimeout, MarkCancelled, Row
  <2>3. ASSUME NEW own, row' = MarkCompleted(own) PROVE Good(row')
    <3>1. CASE CanComplete(own)
      <4>1. row.status \in {"answered", "processing"}
        BY <3>1 DEF CanComplete
      <4> QED BY <2>0, <2>3, <3>1, <4>1 DEF MarkCompleted, Row
    <3>2. CASE ~CanComplete(own)
      BY <2>0, <2>3, <3>2 DEF MarkCompleted
    <3> QED BY <3>1, <3>2
  <2>4. CASE Respond
    BY <2>0, <2>4 DEF Respond, UpdateResponse, Row
  <2>5. ASSUME NEW own, CanClaim, row' = ClaimForProcessing(own) PROVE Good(row')
    BY <2>0, <2>5 DEF CanClaim, ClaimForProcessing, Row
  <2>6. ASSUME NEW own, row' = RefreshLease(own) PROVE Good(row')
    BY <2>0, <2>6 DEF RefreshLease, Row
  <2>7. CASE row.status = "processing" /\ row' = RevertToAnswered
    BY <2>0, <2>7 DEF RevertToAnswered, Row
  <2>8. CASE row.status = "processing" /\ row' = [row EXCEPT !.stale = TRUE]
    BY <2>0, <2>8 DEF Row
  <2> QED BY <2>0, <2>1, <2>2, <2>3, <2>4, <2>5, <2>6, <2>7, <2>8, RowStep
<1>5. ASSUME NEW t \in Task
      PROVE  task'[t].pc # "reopen" /\ (task'[t].pc # "idle" => task'[t].reply = 1)
  <2>1. task'[t].pc # "reopen"
    BY ReopenReason DEF ActedInv
  <2>2. ASSUME NEW i \in Reply, entry[i].st # "absent",
               row.status \in {"answered", "processing"}
        PROVE  i = 1 /\ row.reply = 1
    BY <2>2, ReplyAssumption DEF ActedInv, AcceptedInv, Reply
  <2>3. row.status \in {"answered", "processing"} => row.reply = 1
    BY DEF ActedInv
  <2>4. task[t].pc # "idle" => task[t].reply = 1
    BY DEF ActedInv
  <2> QED BY <2>1, <2>2, <2>3, <2>4, TaskReplies
<1>6. turn' \in {"preparing", "waiting"} /\ live'.fut = "answered" => live'.val = 1
  BY LiveStep DEF ActedInv
<1>7. acted' \subseteq {1}
  BY ActedReplies DEF ActedInv
<1> QED BY <1>1, <1>2, <1>3, <1>4, <1>5, <1>6, <1>7 DEF ActedInv

\* When the coordinator refuses no reply, what an agent acted on is the reply
\* the row records, and the row was neither timed out nor cancelled: under
\* crashes, stalls, dead heartbeats, lost acknowledgements and publications.
THEOREM ActedIsPersisted ==
  ASSUME "reject" \notin Fault
  PROVE  Spec => []ActedOnPersisted
<1>1. Init => ActedInv
  BY AcceptedInit DEF Init, ActedInv, AskedInv, NoLive, IdleTask
<1>2. TypeOK /\ ActedInv /\ [Next]_vars => ActedInv'
  BY ActedNext
<1>3. TypeOK /\ ActedInv => ActedOnPersisted
  <2> SUFFICES ASSUME TypeOK, ActedInv, acted # {}
               PROVE  /\ acted = {row.reply}
                      /\ row.status \in {"answered", "processing", "completed"}
    BY DEF ActedOnPersisted
  <2>1. acted = {1}
    BY DEF ActedInv
  <2>2. row.accepted # 0
    BY <2>1 DEF ActedInv, AcceptedInv
  <2> QED BY <2>1, <2>2 DEF ActedInv
<1> QED BY <1>1, <1>2, <1>3, TypeCorrect, PTL DEF Spec

-----------------------------------------------------------------------------
(***************************************************************************)
(* What an acknowledgement leaves behind.                                  *)
(***************************************************************************)

\* The row owes a reply a settlement only from its acceptance on: reopening,
\* settling and timing out close it, and no lease operation opens it again.
LEMMA OpenStep ==
  ASSUME TypeOK, [Next]_vars, NEW i \in Reply, Open(i)'
  PROVE  Open(i) \/ (Respond /\ i = row.accepted + 1)
<1>0. row \in Row
  BY DEF TypeOK
<1>1. CASE PersistRequest
  BY <1>0, <1>1 DEF PersistRequest, Open, Row
<1>2. CASE row' \in {row, MarkTimeout, MarkCancelled}
  BY <1>0, <1>2 DEF MarkTimeout, MarkCancelled, Open, Row
<1>3. ASSUME NEW own, row' = MarkCompleted(own) PROVE Open(i)
  BY <1>0, <1>3 DEF MarkCompleted, Open, Row
<1>4. CASE Respond
  <2>1. row'.reply = row.accepted + 1
    BY <1>0, <1>4 DEF Respond, UpdateResponse, Row
  <2> QED BY <1>4, <2>1 DEF Open
<1>5. CASE row' = ReopenPending
  BY <1>0, <1>5 DEF ReopenPending, Open, Row
<1>6. ASSUME NEW own, CanClaim, row' = ClaimForProcessing(own) PROVE Open(i)
  BY <1>0, <1>6 DEF CanClaim, ClaimForProcessing, Open, Row
<1>7. ASSUME NEW own, row' = RefreshLease(own) PROVE Open(i)
  BY <1>0, <1>7 DEF RefreshLease, Open, Row
<1>8. CASE row.status = "processing" /\ row' = RevertToAnswered
  BY <1>0, <1>8 DEF RevertToAnswered, Open, Row
<1>9. CASE row.status = "processing" /\ row' = [row EXCEPT !.stale = TRUE]
  BY <1>0, <1>9 DEF Open, Row
<1> QED BY <1>1, <1>2, <1>3, <1>4, <1>5, <1>6, <1>7, <1>8, <1>9, RowStep

\* A completion without a lease owner settles whatever the row owes.
LEMMA CompletedOwesNothing ==
  ASSUME TypeOK, NEW i \in Reply, row' = MarkCompleted(NoOwner)
  PROVE  ~Open(i)'
BY DEF TypeOK, Row, MarkCompleted, CanComplete, Open

\* complete_hitl_request by the task that holds the lease, or after somebody
\* else completed the row, leaves nothing owed either.
LEMMA HolderOwesNothing ==
  ASSUME TypeOK, LeaseInv, NEW t \in Task, task[t].pc \in Claimed, NEW w,
         CompleteHitlRequest(w, task[t].own), NEW i \in Reply
  PROVE  ~Open(i)'
<1>1. CASE Registered(w)
  BY <1>1, CompletedOwesNothing DEF CompleteHitlRequest
<1>2. CASE ~Registered(w)
  <2>1. row' = MarkCompleted(task[t].own)
    BY <1>2 DEF CompleteHitlRequest
  <2>2. \/ row.status = "processing" /\ row.owner = task[t].own
        \/ row.status = "completed"
    BY DEF LeaseInv
  <2>3. task[t].own # NoOwner
    BY OwnerAssumption DEF TypeOK, TaskRec, Owner
  <2>4. row'.status = "completed"
    BY <2>1, <2>2, <2>3 DEF MarkCompleted, CanComplete, TypeOK, Row
  <2> QED BY <2>4 DEF Open
<1> QED BY <1>1, <1>2

\* An entry is acknowledged when the row owes its reply nothing, or by a task
\* that only waited for the completion.
LEMMA AckStep ==
  ASSUME TypeOK, LeaseInv, [Next]_vars, NEW i \in Reply,
         entry[i].st # "acked", entry'[i].st = "acked"
  PROVE  ~Open(i)' \/ (live.done /\ i \in waiters)
<1>0. entry \in [Reply -> Entry] /\ row \in Row
  BY DEF TypeOK
<1>1. ASSUME NEW j \in Reply \cup {0}, AckEntry(j) PROVE j = i
  BY <1>0, <1>1 DEF AckEntry, Acked, Entry
<1>2. ~Respond
  BY <1>0, ReplyAssumption DEF Respond, Row, Reply, Entry
<1>3. ASSUME NEW j \in Reply, Publish(j) \/ PublishFails(j) \/ EntryIdles(j)
      PROVE  FALSE
  BY <1>0, <1>3 DEF Publish, PublishFails, EntryIdles, Entry
<1>4. ASSUME NEW j \in Reply, AwaitCompletion(j)
      PROVE  live.done /\ i \in waiters
  BY <1>1, <1>4 DEF AwaitCompletion
<1>5. ASSUME NEW w \in Worker, NEW j \in Reply, Deliver(w, j) \/ Reclaim(w, j)
      PROVE  ~Open(i)'
  <2>1. row' = row
    BY <1>5 DEF Deliver, Reclaim
  <2>2. row.status \in Settled \cup {"pending"}
    BY <1>0, <1>5 DEF Deliver, Reclaim, HandleMessage, Acked, Entry
  <2> QED BY <2>1, <2>2 DEF Open, Settled
<1>6. ASSUME NEW t \in Task, TaskStep(t) PROVE ~Open(i)'
  <2>0. task[t].msg \in Reply \cup {0}
    BY DEF TypeOK, TaskRec
  <2>1. CASE ReopenAnswered(t)
    BY <1>0, <2>1 DEF ReopenAnswered, ReopenPending, Open, Row
  <2>2. CASE WrapUp(t)
    BY <1>0, <2>2 DEF WrapUp, LeaseInv, Open
  <2>3. CASE CompletePermanently(t)
    BY <2>3, HolderOwesNothing DEF CompletePermanently, Claimed
  <2>4. CASE ~(ReopenAnswered(t) \/ WrapUp(t) \/ CompletePermanently(t))
    BY <1>6, <2>4 DEF TaskStep, RecoverStale, ResumeAgent, ClaimRequest,
      CheckState, ContinueChat, FinishExecution, RevertClaim
  <2> QED BY <2>1, <2>2, <2>3, <2>4
<1>7. ASSUME \A j \in Reply : ~AwaitCompletion(j),
             \A w \in Worker, j \in Reply : ~(Deliver(w, j) \/ Reclaim(w, j)),
             \A t \in Task : ~TaskStep(t)
      PROVE  entry' = entry
  BY <1>2, <1>3, <1>7 DEF Next, TurnStep, PrepareRequest, PersistRequest,
    ReceiveResponse, CompleteTurn, WaitTimesOut, FinishTimeout, TurnFault,
    PersistFails, HandlerFails, DiscardPrepared, CancelTurn, HandleHitlPending,
    ApiStep, SettleExpired, CancelRequest, Heartbeat, HeartbeatRead,
    HeartbeatWrite, StepFails, HeartbeatDies, Crash, Restart, StartConsumer,
    Expire, LeaseAges, vars
<1> QED BY <1>4, <1>5, <1>6, <1>7

\* Only a registered request is waited for, and without exceptions in the tool
\* handlers its completion future is set after the row was completed.
LEMMA WaitStep ==
  ASSUME TypeOK, Fault \cap {"error", "db"} = {}, [Next]_vars,
         live.reg => ~live.done, live'.done, NEW i \in Reply, i \in waiters'
  PROVE  (live.done /\ i \in waiters) \/ row' = MarkCompleted(NoOwner)
<1> DEFINE W == (live.done /\ i \in waiters) \/ row' = MarkCompleted(NoOwner)
<1>0. live \in Live
  BY DEF TypeOK
<1>1. CASE TurnStep
  <2>1. CASE CompleteTurn
    BY <2>1 DEF CompleteTurn, CompleteHitlRequest
  <2>2. CASE PrepareRequest
    BY <2>2 DEF PrepareRequest
  <2>3. CASE PersistRequest \/ ReceiveResponse \/ WaitTimesOut \/ FinishTimeout
    BY <1>0, <2>3 DEF PersistRequest, ReceiveResponse, WaitTimesOut,
      FinishTimeout, Live
  <2> QED BY <1>1, <2>1, <2>2, <2>3 DEF TurnStep
<1>2. CASE TurnFault
  BY <1>0, <1>2 DEF TurnFault, PersistFails, HandlerFails, DiscardPrepared,
    CancelTurn, Live
<1>3. ASSUME NEW t \in Task, ResumeAgent(t) PROVE W
  BY <1>0, <1>3 DEF ResumeAgent, Live
<1>4. ASSUME NEW t \in Task, CompletePermanently(t) PROVE W
  BY <1>4 DEF CompletePermanently, CompleteHitlRequest
<1>5. ASSUME NEW w \in Worker, Crash(w) PROVE W
  BY <1>5 DEF Crash
<1>6. CASE live' = live /\ waiters' \subseteq waiters
  BY <1>6
<1> QED BY <1>1, <1>2, <1>3, <1>4, <1>5, <1>6 DEF Next, HandleHitlPending,
  ApiStep, Respond, SettleExpired, CancelRequest, Publish, PublishFails,
  EntryIdles, AwaitCompletion, Deliver, Reclaim, TaskStep, RecoverStale,
  ReopenAnswered, ClaimRequest, CheckState, ContinueChat, FinishExecution,
  WrapUp, RevertClaim, Heartbeat, HeartbeatRead, HeartbeatWrite, StepFails,
  HeartbeatDies, Restart, StartConsumer, Expire, LeaseAges, vars

LEMMA AckNext ==
  ASSUME TypeOK, AskedInv, LeaseInv, AcceptedInv, AckInv,
         Fault \cap {"error", "db", "pause"} = {}, [Next]_vars
  PROVE  AckInv'
<1>1. live'.reg => ~live'.done
  BY LiveStep DEF AckInv
<1>2. \* A reply the row accepted before and owes nothing now is not owed later.
      ASSUME NEW i \in Reply, i <= row.accepted, ~Open(i) PROVE ~Open(i)'
  <2>1. row.accepted \in Nat /\ i \in Nat
    BY ReplyAssumption DEF TypeOK, Row, Reply
  <2> QED BY <1>2, <2>1, OpenStep
<1>3. ASSUME NEW i \in Reply, live.done, i \in waiters PROVE ~Open(i)'
  BY <1>2, <1>3 DEF AckInv, AcceptedInv
<1>4. live'.done => \A i \in waiters' \cap Reply : ~Open(i)'
  <2> SUFFICES ASSUME live'.done, NEW i \in Reply, i \in waiters' PROVE ~Open(i)'
    OBVIOUS
  <2>1. (live.done /\ i \in waiters) \/ row' = MarkCompleted(NoOwner)
    BY WaitStep DEF AckInv
  <2> QED BY <1>3, <2>1, CompletedOwesNothing
<1>5. \A i \in Reply : entry'[i].st = "acked" => ~Open(i)'
  <2> SUFFICES ASSUME NEW i \in Reply, entry'[i].st = "acked" PROVE ~Open(i)'
    OBVIOUS
  <2>1. CASE entry[i].st = "acked"
    BY <1>2, <2>1 DEF AckInv, AcceptedInv
  <2>2. CASE entry[i].st # "acked"
    BY <1>3, <2>2, AckStep
  <2> QED BY <2>1, <2>2
<1> QED BY <1>1, <1>4, <1>5 DEF AckInv, Open

\* Without handler exceptions, database errors and stalls past the cutoff, an
\* acknowledged entry's reply is settled or reopened for good: through crashes,
\* redeliveries, lost acknowledgements, refusals and cancelled turns.
THEOREM AckedIsSettled ==
  ASSUME Fault \cap {"error", "db", "pause"} = {}
  PROVE  Spec => []AckNeverStrands
<1> DEFINE I == AskedInv /\ LeaseInv /\ AcceptedInv /\ AckInv
<1>1. Init => I
  <2>1. Init => AskedInv /\ LeaseInv
    BY DEF Init, AskedInv, LeaseInv, OneContinuation, Claimed, IdleTask
  <2>2. Init => AckInv
    BY DEF Init, AckInv, NoLive
  <2> QED BY <2>1, <2>2, AcceptedInit
<1>2. TypeOK /\ I /\ [Next]_vars => I'
  BY AskedNext, LeaseNext, AcceptedNext, AckNext
<1>3. I => AckNeverStrands
  BY DEF AckInv, AckNeverStrands, Open
<1> QED BY <1>1, <1>2, <1>3, TypeCorrect, PTL DEF Spec

-----------------------------------------------------------------------------
(***************************************************************************)
(* The refinement of HitlLifecycle.                                        *)
(***************************************************************************)

\* The deadline passes in one action only, and once.
LEMMA DeadlineStep ==
  ASSUME TypeOK, [Next]_vars
  PROVE  expired' = expired \/ Expire
<1>1. CASE TurnStep \/ TurnFault \/ HandleHitlPending \/ ApiStep
  BY <1>1 DEF TurnStep, PrepareRequest, PersistRequest, ReceiveResponse,
    CompleteTurn, WaitTimesOut, FinishTimeout, TurnFault, PersistFails,
    HandlerFails, DiscardPrepared, CancelTurn, HandleHitlPending, ApiStep,
    Respond, SettleExpired, CancelRequest
<1>2. ASSUME NEW t \in Task, TaskStep(t) PROVE expired' = expired
  BY <1>2 DEF TaskStep, RecoverStale, ResumeAgent, ReopenAnswered, ClaimRequest,
    CheckState, ContinueChat, FinishExecution, WrapUp, CompletePermanently,
    RevertClaim
<1>3. CASE ~(TurnStep \/ TurnFault \/ HandleHitlPending \/ ApiStep)
           /\ (\A t \in Task : ~TaskStep(t))
  BY <1>3 DEF Next, Publish, PublishFails, EntryIdles, AwaitCompletion, Deliver,
    Reclaim, Heartbeat, HeartbeatRead, HeartbeatWrite, StepFails, HeartbeatDies,
    Crash, Restart, StartConsumer, LeaseAges, vars
<1> QED BY <1>1, <1>2, <1>3

\* Only the wait itself turns to timing out, after the deadline.
LEMMA TurnTimes ==
  ASSUME TypeOK, [Next]_vars, turn = "timing_out" => expired
  PROVE  turn' = "timing_out" => expired'
<1>0. expired => expired'
  <2>1. expired' = expired \/ Expire
    BY DeadlineStep
  <2> QED BY <2>1, Zenon DEF Expire
<1>1. CASE TurnStep \/ TurnFault
  BY <1>0, <1>1 DEF TurnStep, PrepareRequest, PersistRequest, ReceiveResponse,
    CompleteTurn, WaitTimesOut, FinishTimeout, TurnFault, PersistFails,
    HandlerFails, DiscardPrepared, CancelTurn
<1>2. ASSUME NEW t \in Task, TaskStep(t) PROVE turn' = turn
  BY <1>2 DEF TaskStep, RecoverStale, ResumeAgent, ReopenAnswered, ClaimRequest,
    CheckState, ContinueChat, FinishExecution, WrapUp, CompletePermanently,
    RevertClaim
<1>3. ASSUME NEW w \in Worker, Crash(w) PROVE turn' \in {turn, "ended"}
  BY <1>3 DEF Crash
<1>4. CASE ~(TurnStep \/ TurnFault) /\ (\A t \in Task : ~TaskStep(t))
           /\ (\A w \in Worker : ~Crash(w))
  <2>1. turn' = turn
    BY <1>4 DEF Next, HandleHitlPending, ApiStep, Respond, SettleExpired,
      CancelRequest, Publish, PublishFails, EntryIdles, AwaitCompletion, Deliver,
      Reclaim, Heartbeat, HeartbeatRead, HeartbeatWrite, StepFails,
      HeartbeatDies, Restart, StartConsumer, Expire, LeaseAges, vars
  <2> QED BY <1>0, <2>1
<1> QED BY <1>0, <1>1, <1>2, <1>3, <1>4

LEMMA LifeNext ==
  ASSUME TypeOK, AskedInv, AcceptedInv, LifeInv, [Next]_vars
  PROVE  LifeInv'
<1>1. turn' = "timing_out" => expired'
  BY TurnTimes DEF LifeInv
<1>2. live'.reg => ~live'.done
  BY LiveStep DEF LifeInv
<1>3. row'.status \in {"answered", "processing"} => row'.reply # 0
  <2> SUFFICES ASSUME row'.status \in {"answered", "processing"}, row'.reply = 0
               PROVE  FALSE
    OBVIOUS
  <2>0. row \in Row /\ (row.status \in {"answered", "processing"} => row.reply # 0)
    BY DEF TypeOK, LifeInv
  <2>1. CASE PersistRequest
    BY <2>0, <2>1 DEF PersistRequest, Row
  <2>2. CASE row' \in {row, MarkTimeout, MarkCancelled}
    BY <2>0, <2>2 DEF MarkTimeout, MarkCancelled, Row
  <2>3. ASSUME NEW own, row' = MarkCompleted(own) PROVE FALSE
    BY <2>0, <2>3 DEF MarkCompleted, Row
  <2>4. CASE Respond
    <3>1. row'.reply = row.accepted + 1 /\ row.accepted \in Nat
      BY <2>0, <2>4, ReplyAssumption DEF Respond, UpdateResponse, Row, Reply
    <3> QED BY <3>1
  <2>5. CASE row' = ReopenPending
    BY <2>0, <2>5 DEF ReopenPending, Row
  <2>6. ASSUME NEW own, CanClaim, row' = ClaimForProcessing(own) PROVE FALSE
    BY <2>0, <2>6 DEF CanClaim, ClaimForProcessing, Row
  <2>7. ASSUME NEW own, row' = RefreshLease(own) PROVE FALSE
    BY <2>0, <2>7 DEF RefreshLease, Row
  <2>8. CASE row.status = "processing" /\ row' = RevertToAnswered
    BY <2>0, <2>8 DEF RevertToAnswered, Row
  <2>9. CASE row.status = "processing" /\ row' = [row EXCEPT !.stale = TRUE]
    BY <2>0, <2>9 DEF Row
  <2> QED BY <2>1, <2>2, <2>3, <2>4, <2>5, <2>6, <2>7, <2>8, <2>9, RowStep
<1>4. ASSUME NEW t \in Task
      PROVE  /\ task'[t].pc = "reopen" => bad' # {}
             /\ task'[t].pc # "idle" => task'[t].reply # 0
  <2>1. bad \subseteq bad'
    BY BadReplies
  <2>2. task'[t].pc = "reopen" => bad # {}
    BY ReopenReason DEF LifeInv
  <2>3. 0 \notin Reply
    BY DEF Reply
  <2>4. /\ row.status \in {"answered", "processing"} => row.reply # 0
        /\ task[t].pc # "idle" => task[t].reply # 0
    BY DEF LifeInv
  <2> QED BY <2>1, <2>2, <2>3, <2>4, TaskReplies
<1>5. turn' \in {"preparing", "waiting"} /\ live'.fut = "answered" => live'.val # 0
  BY LiveStep DEF LifeInv
<1> QED BY <1>1, <1>2, <1>3, <1>4, <1>5 DEF LifeInv

\* A step changes one of the parts that the life cycle shows: the deadline, what
\* was acted on, or the row; only an accepted reply may add to the refused ones.
LEMMA OnePartMoves ==
  ASSUME TypeOK, [Next]_vars
  PROVE  \/ Respond
         \/ Expire
         \/ row' = row /\ bad' = bad /\ expired' = expired
         \/ bad' = bad /\ expired' = expired /\ acted' = acted
<1>1. bad' = bad \/ Respond
  BY BadReplies
<1>2. acted' = acted \/ row' = row
  <2>1. ASSUME NEW t \in Task, TaskStep(t) PROVE acted' = acted \/ row' = row
    BY <2>1 DEF TaskStep, RecoverStale, ResumeAgent, ReopenAnswered, ClaimRequest,
      CheckState, ContinueChat, FinishExecution, WrapUp, CompletePermanently,
      RevertClaim
  <2>2. CASE ReceiveResponse
    BY <2>2 DEF ReceiveResponse
  <2>3. CASE ~ReceiveResponse /\ (\A t \in Task : ~TaskStep(t))
    BY <2>3 DEF Next, TurnStep, PrepareRequest, PersistRequest,
      CompleteTurn, WaitTimesOut, FinishTimeout, TurnFault, PersistFails,
      HandlerFails, DiscardPrepared, CancelTurn, HandleHitlPending, ApiStep,
      Respond, SettleExpired, CancelRequest, Publish, PublishFails, EntryIdles,
      AwaitCompletion, Deliver, Reclaim, Heartbeat, HeartbeatRead,
      HeartbeatWrite, StepFails, HeartbeatDies, Crash, Restart, StartConsumer,
      Expire, LeaseAges, vars
  <2> QED BY <2>1, <2>2, <2>3
<1> QED BY <1>1, <1>2, DeadlineStep

\* The turn, the endpoints and the startup recovery time a request out only
\* after its deadline.
LEMMA TimeoutIsLate ==
  ASSUME TypeOK, LifeInv, [Next]_vars,
         row.status = "pending", row'.status = "timeout"
  PROVE  expired
<1>0. row \in Row /\ row' # row
  BY DEF TypeOK
<1>1. CASE TurnStep
  <2>1. CASE PersistRequest \/ CompleteTurn
    BY <1>0, <2>1 DEF PersistRequest, CompleteTurn, CompleteHitlRequest,
      MarkCompleted, CanComplete, Row
  <2>2. CASE FinishTimeout
    BY <2>2 DEF FinishTimeout, LifeInv
  <2>3. CASE PrepareRequest \/ ReceiveResponse \/ WaitTimesOut
    BY <1>0, <2>3 DEF PrepareRequest, ReceiveResponse, WaitTimesOut
  <2> QED BY <1>1, <2>1, <2>2, <2>3 DEF TurnStep
<1>2. CASE TurnFault
  <2>1. CASE CancelTurn
    BY <1>0, <2>1 DEF CancelTurn, LifeInv
  <2>2. CASE PersistFails \/ HandlerFails \/ DiscardPrepared
    BY <1>0, <2>2 DEF PersistFails, HandlerFails, DiscardPrepared, MarkCancelled, Row
  <2> QED BY <1>2, <2>1, <2>2 DEF TurnFault
<1>3. CASE ApiStep
  BY <1>0, <1>3 DEF ApiStep, Respond, SettleExpired, CancelRequest,
    UpdateResponse, MarkCancelled, Row
<1>4. ASSUME NEW t \in Task, TaskStep(t) PROVE FALSE
  <2>1. task[t].own # NoOwner
    BY OwnerAssumption DEF TypeOK, TaskRec, Owner
  <2>2. CASE CompletePermanently(t)
    BY <1>0, <2>1, <2>2 DEF CompletePermanently, CompleteHitlRequest,
      MarkCompleted, CanComplete, Row
  <2>3. CASE ~CompletePermanently(t)
    BY <1>0, <1>4, <2>1, <2>3 DEF TaskStep, RecoverStale, ResumeAgent,
      ReopenAnswered, ClaimRequest, CheckState, ContinueChat, FinishExecution,
      WrapUp, RevertClaim, CanRevert, CanReopen, CanClaim, MarkCompleted,
      CanComplete
  <2> QED BY <2>2, <2>3
<1>5. ASSUME NEW t \in Task, Heartbeat(t) \/ StepFails(t) \/ HeartbeatDies(t)
      PROVE  FALSE
  BY <1>0, <1>5 DEF Heartbeat, HeartbeatRead, HeartbeatWrite, StepFails,
    HeartbeatDies, RefreshLease, Row
<1>6. ASSUME NEW w \in Worker, Restart(w) PROVE expired
  BY <1>0, <1>6 DEF Restart
<1>7. ASSUME ~TurnStep, ~TurnFault, ~ApiStep, \A t \in Task : ~TaskStep(t),
             \A t \in Task : ~(Heartbeat(t) \/ StepFails(t) \/ HeartbeatDies(t)),
             \A w \in Worker : ~Restart(w)
      PROVE  row' = row
  BY <1>7 DEF Next, HandleHitlPending, Publish, PublishFails, EntryIdles,
    AwaitCompletion, Deliver, Reclaim, Crash, StartConsumer, Expire, LeaseAges,
    vars
<1> QED BY <1>0, <1>1, <1>2, <1>3, <1>4, <1>5, <1>6, <1>7

\* A step of the row alone is a step of the life cycle, or invisible there.
LEMMA RowRefines ==
  ASSUME TypeOK, AskedInv, LifeInv, [Next]_vars, ~Respond,
         bad' = bad, expired' = expired, acted' = acted
  PROVE  [Lifecycle!Next]_(Lifecycle!vars)
<1> DEFINE Same == row'.reply = row.reply /\ row'.accepted = row.accepted
<1>0. row \in Row
  BY DEF TypeOK
<1>1. ASSUME Same, row'.status = row.status PROVE UNCHANGED Lifecycle!vars
  BY <1>1 DEF Lifecycle!vars
<1>2. ASSUME NEW From, NEW to, Same, row.status \in From, row'.status = to
      PROVE  Lifecycle!Move(From, to)
  BY <1>2 DEF Lifecycle!Move
<1>3. CASE PersistRequest
  <2>1. row.status = "none" /\ row'.status = "pending" /\ Same
    BY <1>0, <1>3 DEF PersistRequest, AskedInv, Row
  <2> QED BY <1>2, <2>1 DEF Lifecycle!Next, Lifecycle!Ask
<1>4. CASE row' = row
  BY <1>1, <1>4
<1>5. CASE row' = MarkTimeout /\ row' # row
  <2>1. row.status = "pending" /\ row'.status = "timeout" /\ Same
    BY <1>0, <1>5 DEF MarkTimeout, Row
  <2>2. expired
    BY <2>1, TimeoutIsLate
  <2> QED BY <1>2, <2>1, <2>2 DEF Lifecycle!Next, Lifecycle!MarkTimeout
<1>6. CASE row' = MarkCancelled /\ row' # row
  <2>1. row.status = "pending" /\ row'.status = "cancelled" /\ Same
    BY <1>0, <1>6 DEF MarkCancelled, Row
  <2> QED BY <1>2, <2>1 DEF Lifecycle!Next, Lifecycle!Cancel
<1>7. ASSUME NEW own, row' = MarkCompleted(own), row' # row
      PROVE  Lifecycle!MarkCompleted
  <2>1. row.status \in {"answered", "processing"} /\ row'.status = "completed" /\ Same
    BY <1>0, <1>7 DEF MarkCompleted, CanComplete, Row
  <2> QED BY <1>2, <2>1 DEF Lifecycle!MarkCompleted
<1>8. CASE CanReopen /\ row' = ReopenPending /\ \E t \in Task : task[t].pc = "reopen"
  <2>1. /\ row.status = "answered" /\ row'.status = "pending"
        /\ row'.reply = 0 /\ row'.accepted = row.accepted
    BY <1>0, <1>8 DEF CanReopen, ReopenPending, Row
  <2>2. bad # {}
    BY <1>8 DEF LifeInv
  <2> QED BY <2>1, <2>2 DEF Lifecycle!Next, Lifecycle!Reopen
<1>9. ASSUME NEW own, CanClaim, row' = ClaimForProcessing(own)
      PROVE  Lifecycle!MarkProcessing
  <2>1. row.status = "answered" /\ row'.status = "processing" /\ Same
    BY <1>0, <1>9 DEF CanClaim, ClaimForProcessing, Row
  <2> QED BY <1>2, <2>1 DEF Lifecycle!MarkProcessing
<1>10. ASSUME NEW own, row' = RefreshLease(own) PROVE UNCHANGED Lifecycle!vars
  <2>1. row'.status = row.status /\ Same
    BY <1>0, <1>10 DEF RefreshLease, Row
  <2> QED BY <1>1, <2>1
<1>11. CASE row.status = "processing" /\ row' = RevertToAnswered
  <2>1. row'.status = "answered" /\ Same
    BY <1>0, <1>11 DEF RevertToAnswered, Row
  <2> QED BY <1>2, <1>11, <2>1 DEF Lifecycle!Next, Lifecycle!Recover
<1>12. CASE row.status = "processing" /\ row' = [row EXCEPT !.stale = TRUE]
  <2>1. row'.status = row.status /\ Same
    BY <1>0, <1>12 DEF Row
  <2> QED BY <1>1, <2>1
<1>13. \/ Lifecycle!MarkCompleted \/ Lifecycle!MarkProcessing
       \/ [Lifecycle!Next]_(Lifecycle!vars)
  BY <1>3, <1>4, <1>5, <1>6, <1>7, <1>8, <1>9, <1>10, <1>11, <1>12, RowStep
<1> QED BY <1>13 DEF Lifecycle!Next

\* An agent acts on a reply that was accepted and is not refused.
LEMMA ActRefines ==
  ASSUME TypeOK, RefusedInv, LifeInv, [Next]_vars, acted' # acted,
         row' = row, bad' = bad, expired' = expired
  PROVE  Lifecycle!Act
<1> DEFINE Valid(i) == i \in (1 .. row.accepted) \ bad
<1>1. \A i \in Reply \cup {0} : i # 0 /\ i <= row.accepted => i \in 1 .. row.accepted
  BY ReplyAssumption DEF TypeOK, Row, Reply
<1>2. CASE /\ turn = "waiting" /\ live.fut = "answered"
           /\ acted' = acted \cup {live.val}
  <2>1. /\ live.val \in Reply \cup {0} /\ live.val # 0
        /\ live.val <= row.accepted /\ live.val \notin bad
    BY <1>2 DEF TypeOK, Live, LifeInv, RefusedInv, AcceptedInv
  <2>2. Valid(live.val)
    BY <1>1, <2>1
  <2> QED BY <1>2, <2>2 DEF Lifecycle!Act
<1>3. ASSUME NEW t \in Task, task[t].pc = "run", task[t].reply \notin bad,
             acted' = acted \cup {task[t].reply}
      PROVE  Lifecycle!Act
  <2>1. /\ task[t].reply \in Reply \cup {0} /\ task[t].reply # 0
        /\ task[t].reply <= row.accepted
    BY <1>3 DEF TypeOK, TaskRec, LifeInv, RefusedInv, AcceptedInv
  <2>2. Valid(task[t].reply)
    BY <1>1, <1>3, <2>1
  <2> QED BY <1>3, <2>2 DEF Lifecycle!Act
<1> QED BY <1>2, <1>3, ActedReplies

LEMMA RespondRefines == TypeOK /\ Respond => Lifecycle!Answer
<1> SUFFICES ASSUME TypeOK, Respond PROVE Lifecycle!Answer
  OBVIOUS
<1>0. row \in Row
  BY DEF TypeOK
<1>1. /\ row'.status = "answered" /\ row'.accepted = row.accepted + 1
      /\ row'.reply = row.accepted + 1
  BY <1>0 DEF Respond, UpdateResponse, Row
<1>2. bad' \in {bad, bad \cup {row.accepted + 1}}
  BY DEF Respond
<1>3. row.status = "pending" /\ ~expired /\ expired' = expired /\ acted' = acted
  BY DEF Respond
<1> QED BY <1>1, <1>2, <1>3 DEF Lifecycle!Answer

\* With any number of processes, tasks and replies and under every fault, what
\* turn, endpoints, consumers and recovery do to a request is its life cycle.
THEOREM RequestImplementsLifecycle == Spec => LifecycleSpec
<1> DEFINE I == AskedInv /\ RefusedInv /\ LifeInv
<1>1. Init => I
  <2>1. Init => AskedInv /\ RefusedInv
    BY AcceptedInit DEF Init, AskedInv, RefusedInv, NoLive
  <2>2. Init => LifeInv
    BY DEF Init, LifeInv, NoLive, IdleTask
  <2> QED BY <2>1, <2>2
<1>2. TypeOK /\ I /\ [Next]_vars => I'
  <2>1. RefusedInv => AcceptedInv
    BY DEF RefusedInv
  <2> QED BY <2>1, AskedNext, RefusedNext, LifeNext
<1>3. Init => Lifecycle!Init
  BY DEF Init, Lifecycle!Init
<1>4. TypeOK /\ I /\ [Next]_vars => [Lifecycle!Next]_(Lifecycle!vars)
  <2> SUFFICES ASSUME TypeOK, I, [Next]_vars PROVE [Lifecycle!Next]_(Lifecycle!vars)
    OBVIOUS
  <2>1. CASE Respond
    BY <2>1, RespondRefines DEF Lifecycle!Next
  <2>2. CASE Expire
    <3>1. Lifecycle!Expire
      BY <2>2 DEF Expire, Lifecycle!Expire
    <3> QED BY <3>1 DEF Lifecycle!Next
  <2>3. CASE row' = row /\ bad' = bad /\ expired' = expired /\ acted' # acted
    BY <2>3, ActRefines DEF Lifecycle!Next
  <2>4. CASE ~Respond /\ bad' = bad /\ expired' = expired /\ acted' = acted
    BY <2>4, RowRefines
  <2> QED BY <2>1, <2>2, <2>3, <2>4, OnePartMoves
<1> QED BY <1>1, <1>2, <1>3, <1>4, TypeCorrect, PTL
        DEF Spec, LifecycleSpec, Lifecycle!Spec
=============================================================================
