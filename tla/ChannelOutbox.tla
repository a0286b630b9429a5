---------------------------- MODULE ChannelOutbox ----------------------------
(***************************************************************************)
(* Delivery of an agent's answer to a chat channel, with the outbox table  *)
(* that is meant to survive a failed send.                                 *)
(*                                                                         *)
(*   - ChannelMessageRouter._send_response, and the streaming-card variant *)
(*     _record_streaming_outbox: one sender task per answer;               *)
(*   - ChannelOutboxRepository: the conditional updates of a row;          *)
(*   - OutboxRetryWorker: the poll loop each server process runs.          *)
(*                                                                         *)
(* mark_sent and mark_failed are single transactions whose condition is    *)
(* evaluated under the row's lock, so each is one step.  Reading the batch,*)
(* sending an item and recording the outcome are steps of their own: the   *)
(* worker re-reads nothing between them, and list_pending_retry takes no   *)
(* lock, so two processes may hold the same row.                           *)
(***************************************************************************)
EXTENDS Integers, Sequences, FiniteSets, SequencesExt

CONSTANTS Messages,     \* the answers to deliver
          Workers,      \* the retry workers, one per server process
          MaxAttempts,  \* ChannelOutboxModel.max_attempts
          BatchSize,    \* OUTBOX_BATCH_SIZE
          Fault,        \* the faults of this instance, of AllFaults
          MaxFaults     \* bound: how many faults may happen

AllFaults == {"db", "crash"}

ASSUME WorkersAssumption == IsFiniteSet(Workers) /\ Workers # {}
ASSUME MaxAttemptsAssumption == MaxAttempts \in Nat \ {0}
ASSUME BatchSizeAssumption == BatchSize \in Nat \ {0}
ASSUME FaultAssumption == Fault \subseteq AllFaults /\ MaxFaults \in Nat

VARIABLES
  row,      \* ChannelOutboxModel.status; "none": no row
  attempts, \* ChannelOutboxModel.attempt_count
  due,      \* the failed rows whose next_retry_at has passed, oldest first
  sender,   \* where _send_response of each answer stands
  pc,       \* where each worker stands in _retry_item
  batch,    \* the items each worker has still to retry, the current one first
  broken,   \* each worker's session can run no further statement
  tries,    \* how often delivery of each answer was tried
  lost,     \* how many of those tries had their outcome never recorded
  reached,  \* the answers the chat has received at least once
  carded,   \* history: the answers that were left to a streaming card
  faults    \* how many faults have happened

vars == <<row, attempts, due, sender, pc, batch, broken, tries, lost, reached,
          carded, faults>>

rowVars    == <<row, attempts, due>>
workerVars == <<pc, batch, broken>>

Settled == {"sent", "dead_letter"}
Status  == {"none", "pending", "failed"} \cup Settled

SenderAt == {"new", "recorded", "unrecorded", "streamed", "sent", "raised",
             "done"}
WorkerAt == {"idle", "look", "sent", "unconnected", "raised"}

(***************************************************************************)
(* A tried delivery whose outcome is not recorded yet.                     *)
(***************************************************************************)
SenderTried(m) == sender[m] \in {"sent", "raised"}
WorkerTried(w) == pc[w] \in {"sent", "unconnected", "raised"}

Item(w) == Head(batch[w])

FaultHappens(f) ==
  /\ f \in Fault
  /\ faults < MaxFaults
  /\ faults' = faults + 1

Init ==
  /\ row      = [m \in Messages |-> "none"]
  /\ attempts = [m \in Messages |-> 0]
  /\ due      = <<>>
  /\ sender   = [m \in Messages |-> "new"]
  /\ pc       = [w \in Workers |-> "idle"]
  /\ batch    = [w \in Workers |-> <<>>]
  /\ broken   = [w \in Workers |-> FALSE]
  /\ tries    = [m \in Messages |-> 0]
  /\ lost     = [m \in Messages |-> 0]
  /\ reached  = {}
  /\ carded   = {}
  /\ faults   = 0

-----------------------------------------------------------------------------
(***************************************************************************)
(* The repository.                                                         *)
(***************************************************************************)
\* mutant: the updates are made whatever the status
Exists(m) == row[m] # "none"

IsOpen(m) == row[m] \in {"pending", "failed"}

\* next_retry_at is cleared or moved into the future
Undue(m) == due' = RemoveFirst(due, m)

MarkSent(m) ==
  IF IsOpen(m)
    THEN /\ row' = [row EXCEPT ![m] = "sent"]
         /\ Undue(m)
         /\ UNCHANGED attempts
    ELSE UNCHANGED rowVars

\* mutants of mark_failed: the comparison one too late, one too early, and
\* the counter not written
MarkFailedLate(m) ==
  IF IsOpen(m)
    THEN LET n == attempts[m] + 1 IN
         /\ attempts' = [attempts EXCEPT ![m] = n]
         /\ row' = [row EXCEPT ![m] = IF n > MaxAttempts THEN "dead_letter"
                                                         ELSE "failed"]
         /\ Undue(m)
    ELSE UNCHANGED rowVars

MarkFailedEarly(m) ==
  IF IsOpen(m)
    THEN LET n == attempts[m] + 1 IN
         /\ attempts' = [attempts EXCEPT ![m] = n]
         /\ row' = [row EXCEPT ![m] = IF n >= MaxAttempts - 1 THEN "dead_letter"
                                                              ELSE "failed"]
         /\ Undue(m)
    ELSE UNCHANGED rowVars

MarkFailedUncounted(m) ==
  IF IsOpen(m)
    THEN /\ row' = [row EXCEPT ![m] = IF attempts[m] + 1 >= MaxAttempts
                                        THEN "dead_letter" ELSE "failed"]
         /\ Undue(m)
         /\ UNCHANGED attempts
    ELSE UNCHANGED rowVars

MarkFailed(m) ==
  IF IsOpen(m)
    THEN LET n == attempts[m] + 1 IN
         /\ attempts' = [attempts EXCEPT ![m] = n]
         /\ row' = [row EXCEPT ![m] = IF n >= MaxAttempts THEN "dead_letter"
                                                          ELSE "failed"]
         /\ Undue(m)
    ELSE UNCHANGED rowVars

\* a failed row's backoff runs out: list_pending_retry returns it from now on
Due(m) ==
  /\ row[m] = "failed"
  /\ m \notin Range(due)
  /\ due' = Append(due, m)
  /\ UNCHANGED <<row, attempts, sender, pc, batch, broken, tries, lost, reached,
                 carded, faults>>

ListPendingRetry ==
  SubSeq(due, 1, IF Len(due) < BatchSize THEN Len(due) ELSE BatchSize)

-----------------------------------------------------------------------------
(***************************************************************************)
(* The sender.                                                             *)
(***************************************************************************)

\* no channel_config_id: the answer is refused before a row exists
Refuse(m) ==
  /\ sender[m] = "new"
  /\ sender' = [sender EXCEPT ![m] = "done"]
  /\ UNCHANGED <<rowVars, workerVars, tries, lost, reached, carded, faults>>

(***************************************************************************)
(* The answer was left to a streaming card, which exists as soon as its    *)
(* "Thinking" message has an id.  Whether the last update of the card      *)
(* arrives is ignored, so the chat may never get the answer; only the      *)
(* record is left to write.                                                *)
(***************************************************************************)
Stream(m) ==
  /\ sender[m] = "new"
  /\ sender' = [sender EXCEPT ![m] = "streamed"]
  /\ tries' = [tries EXCEPT ![m] = @ + 1]
  /\ \E got \in BOOLEAN : reached' = IF got THEN reached \cup {m} ELSE reached
  /\ carded' = carded \cup {m}
  /\ UNCHANGED <<rowVars, workerVars, lost, faults>>

(***************************************************************************)
(* _create_outbox_record.  When the insert fails the send goes on without  *)
(* a row; so it does when the commit raised although it was applied, and   *)
(* the row it left is nobody's.                                            *)
(***************************************************************************)
CreateRecord(m) ==
  /\ sender[m] \in {"new", "streamed"}
  /\ \/ /\ row' = [row EXCEPT ![m] = "pending"]
        /\ sender' = [sender EXCEPT
                        ![m] = IF @ = "new" THEN "recorded" ELSE "sent"]
        /\ UNCHANGED faults
     \/ /\ FaultHappens("db")
        /\ sender' = [sender EXCEPT
                        ![m] = IF @ = "new" THEN "unrecorded" ELSE "done"]
        /\ UNCHANGED row \/ row' = [row EXCEPT ![m] = "pending"]
  /\ UNCHANGED <<attempts, due, workerVars, tries, lost, reached, carded>>

(***************************************************************************)
(* The send.  Without a manager or a connection, or when the adapter       *)
(* raises, the try failed; an adapter may also raise (a timeout) after the *)
(* chat has received the message.  Without a row nothing is recorded.      *)
(***************************************************************************)
Send(m) ==
  /\ sender[m] \in {"recorded", "unrecorded"}
  /\ tries' = [tries EXCEPT ![m] = @ + 1]
  /\ \E got \in BOOLEAN, outcome \in {"sent", "raised"} :
       /\ outcome = "sent" => got
       /\ reached' = IF got THEN reached \cup {m} ELSE reached
       /\ sender' = [sender EXCEPT
                       ![m] = IF @ = "recorded" THEN outcome ELSE "done"]
  /\ UNCHANGED <<rowVars, workerVars, lost, carded, faults>>

\* _mark_outbox_sent or _mark_outbox_failed, which swallow a database error
SenderMarks(m) ==
  /\ SenderTried(m)
  /\ \/ /\ IF sender[m] = "sent" THEN MarkSent(m) ELSE MarkFailed(m)
        /\ UNCHANGED <<lost, faults>>
     \/ /\ FaultHappens("db")
        /\ lost' = [lost EXCEPT ![m] = @ + 1]
        /\ UNCHANGED rowVars
  /\ sender' = [sender EXCEPT ![m] = "done"]
  /\ UNCHANGED <<workerVars, tries, reached, carded>>

\* the sender's process dies or its task is cancelled
SenderDies(m) ==
  /\ sender[m] \notin {"new", "done"}
  /\ FaultHappens("crash")
  /\ lost' = [lost EXCEPT ![m] = IF SenderTried(m) THEN @ + 1 ELSE @]
  /\ sender' = [sender EXCEPT ![m] = "done"]
  /\ UNCHANGED <<rowVars, workerVars, tries, reached, carded>>

-----------------------------------------------------------------------------
(***************************************************************************)
(* The retry worker.                                                       *)
(***************************************************************************)

\* mutant: a database error ends the poll loop
PollUntilError(w) ==
  /\ pc[w] = "idle"
  /\ ~broken[w]
  /\ due # <<>>
  /\ batch' = [batch EXCEPT ![w] = ListPendingRetry]
  /\ pc' = [pc EXCEPT ![w] = "look"]
  /\ UNCHANGED <<rowVars, broken, sender, tries, lost, reached, carded, faults>>

\* _poll_loop wakes and _process_batch opens a session and reads the batch
Poll(w) ==
  /\ pc[w] = "idle"
  /\ due # <<>>
  /\ batch' = [batch EXCEPT ![w] = ListPendingRetry]
  /\ broken' = [broken EXCEPT ![w] = FALSE]
  /\ pc' = [pc EXCEPT ![w] = "look"]
  /\ UNCHANGED <<rowVars, sender, tries, lost, reached, carded, faults>>

(***************************************************************************)
(* _retry_item up to the send: it uses the row as listed, whatever became  *)
(* of it since.                                                            *)
(***************************************************************************)
Retry(w) ==
  /\ pc[w] = "look"
  /\ tries' = [tries EXCEPT ![Item(w)] = @ + 1]
  /\ \E got \in BOOLEAN, outcome \in {"sent", "unconnected", "raised"} :
       /\ outcome = "sent" => got
       /\ outcome = "unconnected" => ~got
       /\ reached' = IF got THEN reached \cup {Item(w)} ELSE reached
       /\ pc' = [pc EXCEPT ![w] = outcome]
  /\ UNCHANGED <<rowVars, batch, broken, sender, lost, carded, faults>>

\* the loop goes on to the next item, or the session closes
NextItem(w) ==
  /\ batch' = [batch EXCEPT ![w] = Tail(@)]
  /\ pc' = [pc EXCEPT ![w] = IF Len(batch[w]) > 1 THEN "look" ELSE "idle"]

WorkerMarks(w) ==
  /\ WorkerTried(w)
  /\ ~broken[w]
  /\ IF pc[w] = "sent" THEN MarkSent(Item(w)) ELSE MarkFailed(Item(w))
  /\ NextItem(w)
  /\ UNCHANGED <<broken, sender, tries, lost, reached, carded, faults>>

(***************************************************************************)
(* The update or its commit raises.  Nothing rolls the session back, so an *)
(* error inside the transaction leaves it unusable until the next poll; a  *)
(* commit may have been applied although it raised.                        *)
(***************************************************************************)
DatabaseRaises(w) ==
  \/ /\ broken[w]
     /\ UNCHANGED <<rowVars, broken, faults>>
  \/ /\ ~broken[w]
     /\ FaultHappens("db")
     /\ \/ UNCHANGED <<rowVars, broken>>
        \/ /\ broken' = [broken EXCEPT ![w] = TRUE]
           /\ \/ UNCHANGED rowVars
              \/ IF pc[w] = "sent" THEN MarkSent(Item(w)) ELSE MarkFailed(Item(w))

\* an error while recording is handled like a failed send: mark_failed
MarkRaises(w) ==
  /\ pc[w] \in {"sent", "unconnected"}
  /\ DatabaseRaises(w)
  /\ pc' = [pc EXCEPT ![w] = "raised"]
  /\ UNCHANGED <<batch, sender, tries, lost, reached, carded>>

\* an error in the handler itself is logged, and the row stays as it was
HandlerRaises(w) ==
  /\ pc[w] = "raised"
  /\ DatabaseRaises(w)
  /\ lost' = [lost EXCEPT ![Item(w)] = @ + 1]
  /\ NextItem(w)
  /\ UNCHANGED <<sender, tries, reached, carded>>

\* the process dies, or stop() cancels the task; the next start polls afresh
WorkerDies(w) ==
  /\ pc[w] # "idle"
  /\ FaultHappens("crash")
  /\ lost' = [lost EXCEPT ![Item(w)] = IF WorkerTried(w) THEN @ + 1 ELSE @]
  /\ pc' = [pc EXCEPT ![w] = "idle"]
  /\ batch' = [batch EXCEPT ![w] = <<>>]
  /\ UNCHANGED <<rowVars, broken, sender, tries, reached, carded>>

-----------------------------------------------------------------------------
SenderStep(m) ==
  Refuse(m) \/ Stream(m) \/ CreateRecord(m) \/ Send(m) \/ SenderMarks(m)

WorkerStep(w) ==
  Poll(w) \/ Retry(w) \/ WorkerMarks(w) \/ MarkRaises(w) \/ HandlerRaises(w)

Next ==
  \/ \E m \in Messages : SenderStep(m) \/ Due(m) \/ SenderDies(m)
  \/ \E w \in Workers : WorkerStep(w) \/ WorkerDies(w)

Spec == Init /\ [][Next]_vars

(***************************************************************************)
(* Time passes, a started sender runs on, and a worker's loop catches every*)
(* exception and polls again; faults are finitely many (MaxFaults).        *)
(***************************************************************************)
FairSpec ==
  /\ Spec
  /\ \A m \in Messages : WF_vars(Due(m)) /\ WF_vars(SenderStep(m))
  /\ \A w \in Workers : WF_vars(WorkerStep(w))

-----------------------------------------------------------------------------
\* every variable holds values of the kind its declaration says
TypeOK ==
  /\ row \in [Messages -> Status]
  /\ attempts \in [Messages -> 0..MaxAttempts]
  /\ due \in Seq(Messages)
  /\ sender \in [Messages -> SenderAt]
  /\ pc \in [Workers -> WorkerAt]
  /\ batch \in [Workers -> Seq(Messages)]
  /\ broken \in [Workers -> BOOLEAN]
  /\ tries \in [Messages -> Nat]
  /\ lost \in [Messages -> Nat]
  /\ reached \subseteq Messages
  /\ carded \subseteq Messages
  /\ faults \in Nat

(***************************************************************************)
(* Duplicates are bounded: no answer is tried more often than max_attempts,*)
(* plus once for every further process that listed the row before it       *)
(* settled, plus once for every outcome that a fault kept out of the row.  *)
(* _retry_item sends what it listed without looking at the row again.      *)
(***************************************************************************)
TriesBounded ==
  \A m \in Messages :
    tries[m] <= MaxAttempts + lost[m] + Cardinality(Workers) - 1

(***************************************************************************)
(* Nobody gives up early, and a delivery that did not happen is claimed on *)
(* one path only: a dead letter was tried max_attempts times, each counted *)
(* once although several workers and the error handler all call            *)
(* mark_failed, and a row marked sent is of an answer the chat received or *)
(* of one left to a streaming card, whose last update nobody checks.       *)
(***************************************************************************)
VerdictEarned ==
  \A m \in Messages :
    /\ row[m] = "dead_letter" => tries[m] >= MaxAttempts
    /\ row[m] = "sent" => m \in reached \cup carded

(***************************************************************************)
(* A settled row stays as it is, although a worker that listed it earlier  *)
(* may still record the outcome of a later send.                           *)
(***************************************************************************)
SettledIsFinal ==
  [][\A m \in Messages : row[m] \in Settled => row'[m] = row[m]
                                               /\ attempts'[m] = attempts[m]]_vars

(***************************************************************************)
(* A row that a failed send left in the table is retried until it is sent  *)
(* or dead-lettered, whatever finitely many faults do to the workers.      *)
(***************************************************************************)
FailedSettles ==
  \A m \in Messages : row[m] = "failed" ~> row[m] \in Settled

=============================================================================
