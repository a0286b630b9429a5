----------------------------- MODULE HitlLifecycle -----------------------------
(***************************************************************************)
(* What a human-in-the-loop request promises the user who answers it and   *)
(* the agent that asked: the life cycle of the HITLRequest entity, with    *)
(* the replies it accepted, in order, the ones its validation refuses and  *)
(* the ones an agent acted on.  Leases, processes, stream entries and the  *)
(* live futures are not visible here.                                      *)
(***************************************************************************)
EXTENDS Naturals

VARIABLES
  status,    \* HITLRequestStatus, or "none" before the request is stored
  reply,     \* the reply the request holds; 0: none
  accepted,  \* the number of replies accepted so far
  refused,   \* the accepted replies that fail the request's validation
  late,      \* is_expired
  acted      \* the replies an agent acted on

vars == <<status, reply, accepted, refused, late, acted>>

Init ==
  /\ status = "none"
  /\ reply = 0
  /\ accepted = 0
  /\ refused = {}
  /\ late = FALSE
  /\ acted = {}

Move(From, to) ==
  /\ status \in From
  /\ status' = to
  /\ UNCHANGED <<reply, accepted, refused, late, acted>>

Ask == Move({"none"}, "pending")

\* answer, update_response: one reply, before the deadline, to a pending request.
Answer ==
  /\ status = "pending" /\ ~late
  /\ status' = "answered"
  /\ accepted' = accepted + 1
  /\ reply' = accepted'
  /\ refused' \in {refused, refused \cup {accepted'}}
  /\ UNCHANGED <<late, acted>>

\* An answer is taken back only after some reply was refused.
Reopen ==
  /\ status = "answered" /\ refused # {}
  /\ status' = "pending"
  /\ reply' = 0
  /\ UNCHANGED <<accepted, refused, late, acted>>

MarkProcessing == Move({"answered"}, "processing")

\* Processing is transient: what a dead worker was processing is answered again.
Recover == Move({"processing"}, "answered")

MarkCompleted == Move({"answered", "processing"}, "completed")

\* Without a default response, which no caller gives.
MarkTimeout == late /\ Move({"pending"}, "timeout")

Cancel == Move({"pending"}, "cancelled")

\* An agent continues with a reply that was accepted and is valid.
Act ==
  /\ \E i \in (1 .. accepted) \ refused : acted' = acted \cup {i}
  /\ UNCHANGED <<status, reply, accepted, refused, late>>

Expire ==
  /\ status # "none" /\ ~late
  /\ late' = TRUE
  /\ UNCHANGED <<status, reply, accepted, refused, acted>>

Next ==
  \/ Ask \/ Answer \/ Reopen \/ MarkProcessing \/ Recover
  \/ MarkCompleted \/ MarkTimeout \/ Cancel \/ Act \/ Expire

Spec == Init /\ [][Next]_vars
=============================================================================
