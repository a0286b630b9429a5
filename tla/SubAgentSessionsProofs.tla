------------------------ MODULE SubAgentSessionsProofs ------------------------
(***************************************************************************)
(* Theorems of SubAgentSessions for any number of runs and requesters and  *)
(* any limits.                                                             *)
(***************************************************************************)
EXTENDS SubAgentSessions, TLAPS

-----------------------------------------------------------------------------
(***************************************************************************)
(* The inductive invariant.                                                *)
(***************************************************************************)

\* Nobody knows a run id before its run is created.
BornOnce ==
  \A r \in Run : Fresh(r) =>
    /\ runs[r] = "absent" /\ task[r] = "none" /\ ~cancel[r]
    /\ ended[r] = "none" /\ announced[r] = "none"
    /\ \A c \in Caller : call[c].run # r

\* A run has one launcher, and no task before it is launched.
OneLauncher ==
  \A c \in Caller : call[c].op = "launch" =>
    /\ task[call[c].run] = "none"
    /\ \A d \in Caller : call[d].op = "launch" /\ call[d].run = call[c].run => d = c

\* A tool in the middle of a call knows its run.
CallsNameRuns ==
  \A c \in Caller :
    call[c].op \in {"launch", "hooks", "kill_mark", "steer"} => call[c].run \in Run

\* create_run and mark_running are one step.
NeverPending == \A r \in Run : runs[r] # "pending"

\* A task that is past its execution has ended its run.
OverIsEnded ==
  \A r \in Run :
    task[r] \in {"timeout_hook", "cancel_hook", "backoff", "report", "done"}
      => runs[r] \notin Active

\* Only a live task is cancelled, and only by a tool that ends its run.
CancelHasReason ==
  \A r \in Run : cancel[r] =>
    /\ task[r] \notin {"none", "done", "dead"}
    /\ runs[r] \in Active => r \in lost \/ Pending(r, {"kill_mark"})
    /\ runs[r] \notin Active => r \in late \cup lost \/ runs[r] \in {"cancelled", "absent"}

\* A tool that is about to mark a killed run has cancelled its task.
KillReachesTask ==
  \A r \in Run \ (late \cup lost) : Pending(r, {"kill_mark"}) =>
    /\ task[r] # "none"
    /\ \/ runs[r] \in {"cancelled", "absent"}
       \/ runs[r] \in Active /\ (cancel[r] \/ task[r] = "dead")
    /\ task[r] \in Working => cancel[r]

\* With TypeOK, the inductive invariant.
Safe ==
  /\ BornOnce /\ OneLauncher /\ CallsNameRuns /\ NeverPending
  /\ OverIsEnded /\ CancelHasReason /\ KillReachesTask
  /\ AccountedFor /\ ReportIsOutcome /\ SessionMatchesRun

-----------------------------------------------------------------------------
(***************************************************************************)
(* The registry.                                                           *)
(***************************************************************************)

\* The statuses, spelled out.
LEMMA Statuses ==
  /\ Active = {"pending", "running"}
  /\ Terminal = {"completed", "failed", "cancelled", "timed_out"}
  /\ Stored = Active \cup Terminal \cup {"absent"}
BY DEF Active, Terminal, Stored, Ledger!Active, Ledger!Terminal, Ledger!Stored

\* A write keeps every run of the table but some terminal ones.
LEMMA StoreKeeps ==
  ASSUME NEW t \in [Run -> Stored], Store(t)
  PROVE  /\ runs' \in [Run -> Stored]
         /\ \A r \in Run : runs'[r] = t[r] \/ (t[r] \in Terminal /\ runs'[r] = "absent")
<1>1. PICK D \in SUBSET Ledger!Terminals(t) : runs' = Ledger!Without(t, D)
  BY DEF Store
<1> QED BY <1>1, Statuses DEF Ledger!Without, Ledger!Terminals, Terminal

\* A mark changes one run at most, and never one that is over.
LEMMA MarkedEnds ==
  ASSUME NEW t \in [Run -> Stored], NEW r \in Run, NEW s \in Terminal
  PROVE  /\ Marked(t, r, s) \in [Run -> Stored]
         /\ \A q \in Run \ {r} : Marked(t, r, s)[q] = t[q]
         /\ t[r] \notin Active => Marked(t, r, s)[r] = t[r]
         /\ t[r] = "running" => Marked(t, r, s)[r] = s
         /\ t[r] = "pending" => Marked(t, r, s)[r] \in {"pending", s}
<1>1. Ledger!From(s) \subseteq Active /\ "running" \in Ledger!From(s)
  BY Statuses DEF Ledger!From, Ledger!Active
<1> QED BY <1>1, Statuses DEF Marked

-----------------------------------------------------------------------------
(***************************************************************************)
(* Types.                                                                  *)
(***************************************************************************)
LEMMA StartType ==
  ASSUME TypeOK, NEW c \in Caller, NEW r \in Run, NEW p \in Run \cup {NoRun},
         NEW rt \in Run \cup {NoRun}, NEW n \in Nat, Start(c, r, p, rt, c, n)
  PROVE  /\ runs' \in [Run -> Stored]
         /\ parent' \in [Run -> Run \cup {NoRun}]
         /\ root' \in [Run -> Run \cup {NoRun}]
         /\ by' \in [Run -> Caller \cup {NoRun}]
         /\ call' \in [Caller -> Call]
<1>1. [runs EXCEPT ![r] = "running"] \in [Run -> Stored]
  BY Statuses DEF TypeOK
<1>2. runs' \in [Run -> Stored]
  BY <1>1, StoreKeeps DEF Start
<1>3. call' \in [Caller -> Call]
  <2>1. call[c] \in Call /\ [Idle EXCEPT !.op = "launch", !.run = r, !.left = n] \in Call
    BY DEF TypeOK, Idle, Call
  <2> QED BY <2>1 DEF Start, TypeOK
<1> QED BY <1>2, <1>3 DEF Start, TypeOK

LEMMA AnnounceType ==
  ASSUME TypeOK, NEW r \in Run, NEW t \in [Run -> Stored], NEW n \in Nat, Announce(r, t, n)
  PROVE  /\ runs' \in [Run -> Stored]
         /\ task' \in [Run -> Phase]
         /\ tries' \in [Run -> Nat]
         /\ announced' \in [Run -> Stored \cup {"none", "giveup"}]
         /\ ended' \in [Run -> Stored \cup {"none"}]
<1>1. runs' \in [Run -> Stored]
  BY StoreKeeps DEF Announce
<1> QED BY <1>1 DEF Announce, Report, TypeOK, Phase

LEMMA TypeOKNext == TypeOK /\ CallsNameRuns /\ [Next]_vars => TypeOK'
<1> SUFFICES ASSUME TypeOK, CallsNameRuns, [Next]_vars PROVE TypeOK'
  OBVIOUS
<1> USE DEF TypeOK, lineage, runner, history
<1>0. /\ Idle \in Call
      /\ \A c \in Caller : call[c] \in Call
      /\ \A r \in Run, s \in Terminal : Marked(runs, r, s) \in [Run -> Stored]
      /\ {"completed", "failed", "timed_out", "cancelled"} \subseteq Terminal
  BY MarkedEnds, Statuses DEF Idle, Call
<1>1. ASSUME NEW c \in Caller, NEW r \in Run, SessionsSpawn(c, r) PROVE TypeOK'
  BY <1>1, StartType, RetryAssumption DEF SessionsSpawn
<1>2. ASSUME NEW c \in Caller, NEW p \in Run, NEW r \in Run,
             SessionsSend(c, p, r) \/ CtrlSend(c, p, r)
      PROVE  TypeOK'
  <2>1. PICK n \in Nat : Start(c, r, p, root[p], c, n)
    BY <1>2, RetryAssumption DEF SessionsSend, CtrlSend
  <2> QED BY <1>2, <2>1, StartType DEF SessionsSend, CtrlSend
<1>3. ASSUME NEW c \in Caller, NEW r \in Run, Steer(c, r) PROVE TypeOK'
  BY <1>0, <1>3 DEF Steer, Idle, Call
<1>4. ASSUME NEW c \in Caller, SpawnFails(c) PROVE TypeOK'
  <2>1. call[c].run \in Run
    BY <1>4 DEF SpawnFails, CallsNameRuns
  <2>2. runs' \in [Run -> Stored]
    BY <1>0, <1>4, <2>1, StoreKeeps DEF SpawnFails
  <2>3. call' \in [Caller -> Call]
    <3>1. CASE call[c].left > 0
      <4>1. call[c].left - 1 \in Nat
        BY <1>0, <3>1 DEF Call
      <4>2. call' = [call EXCEPT ![c] = [@ EXCEPT !.left = call[c].left - 1]]
        BY <1>4, <3>1 DEF SpawnFails
      <4> QED BY <1>0, <4>1, <4>2 DEF Call
    <3>2. CASE ~(call[c].left > 0)
      BY <1>0, <1>4, <3>2 DEF SpawnFails
    <3> QED BY <3>1, <3>2
  <2> QED BY <1>4, <2>2, <2>3 DEF SpawnFails
<1>5. ASSUME NEW c \in Caller, LaunchSession(c) PROVE TypeOK'
  <2>1. call[c].run \in Run
    BY <1>5 DEF LaunchSession, CallsNameRuns
  <2>2. runs' \in [Run -> Stored]
    BY <1>5, StoreKeeps DEF LaunchSession
  <2> QED BY <1>0, <1>5, <2>1, <2>2 DEF LaunchSession, Late, Call, Phase
<1>6. ASSUME NEW c \in Caller, OpenGate(c) PROVE TypeOK'
  BY <1>0, <1>6 DEF OpenGate, Phase
<1>7. ASSUME NEW r \in Run, RunnerStarts(r) \/ AcquireLane(r) PROVE TypeOK'
  BY <1>7, StoreKeeps DEF RunnerStarts, AcquireLane, Phase
<1>8. ASSUME NEW r \in Run, NEW s, SessionEnds(r, s) PROVE TypeOK'
  <2>1. Marked(runs, r, s) \in [Run -> Stored]
    BY <1>0, <1>8 DEF SessionEnds
  <2> QED BY <1>8, <2>1, AnnounceType DEF SessionEnds
<1>9. ASSUME NEW r \in Run, SessionTimesOut(r) PROVE TypeOK'
  BY <1>0, <1>9, StoreKeeps DEF SessionTimesOut, Phase
<1>10. ASSUME NEW r \in Run, KilledHookEnds(r) PROVE TypeOK'
  <2>1. CASE task[r] = "timeout_hook"
    BY <1>10, <2>1, AnnounceType DEF KilledHookEnds
  <2>2. CASE task[r] = "cancel_hook"
    <3>1. runs' \in [Run -> Stored]
      BY <1>10, <2>2, StoreKeeps DEF KilledHookEnds
    <3> QED BY <1>10, <2>2, <3>1 DEF KilledHookEnds, Report, Phase
  <2> QED BY <1>10, <2>1, <2>2 DEF KilledHookEnds
<1>11. ASSUME NEW r \in Run, RetryAnnounce(r) PROVE TypeOK'
  BY <1>11, AnnounceType DEF RetryAnnounce
<1>12. ASSUME NEW r \in Run, SessionReported(r) PROVE TypeOK'
  BY <1>12 DEF SessionReported, Phase
<1>13. ASSUME NEW r \in Run, CancelDelivered(r) PROVE TypeOK'
  <2>1. runs' \in [Run -> Stored]
    BY <1>0, <1>13, StoreKeeps DEF CancelDelivered
  <2> QED BY <1>13, <2>1 DEF CancelDelivered, Phase
<1>14. ASSUME NEW c \in Caller, NEW Roots, Kill(c, Roots) PROVE TypeOK'
  BY <1>0, <1>14 DEF Kill, Idle, Call, ActiveRuns
<1>15. ASSUME NEW c \in Caller, NEW r \in Run, KillNext(c, r) PROVE TypeOK'
  <2>1. runs' \in [Run -> Stored]
    BY <1>0, <1>15, StoreKeeps DEF KillNext
  <2>2. cancel' \in [Run -> BOOLEAN] /\ late' \subseteq Run
    BY <1>15 DEF KillNext, Cancelled
  <2>3. call' \in [Caller -> Call]
    <3>1. PICK x \in Call : call' = [call EXCEPT ![c] = x]
      <4>1. /\ \A o \in {"idle", "kill", "kill_mark"}, q \in Run \cup {NoRun} :
                 [call[c] EXCEPT !.todo = call[c].todo \ {r}, !.op = o, !.run = q] \in Call
            /\ [call[c] EXCEPT !.op = "kill_mark", !.run = r, !.todo = call[c].todo \ {r}] \in Call
        BY <1>0 DEF Call
      <4> QED BY <1>15, <4>1 DEF KillNext
    <3> QED BY <3>1
  <2> QED BY <1>15, <2>1, <2>2, <2>3 DEF KillNext
<1>16. ASSUME NEW c \in Caller, KillMark(c) PROVE TypeOK'
  <2>1. call[c].run \in Run
    BY <1>16 DEF KillMark, CallsNameRuns
  <2>2. runs' \in [Run -> Stored]
    BY <1>0, <1>16, <2>1, StoreKeeps DEF KillMark
  <2> QED BY <1>0, <1>16, <2>2 DEF KillMark, Call
<1>17. ASSUME NEW c \in Caller, NEW r \in Run, NEW r2 \in Run, SteerRestarts(c, r, r2)
       PROVE  TypeOK'
  <2>1. [Marked(runs, r, "cancelled") EXCEPT ![r2] = "running"] \in [Run -> Stored]
    BY <1>0, Statuses
  <2>2. runs' \in [Run -> Stored]
    BY <1>17, <2>1, StoreKeeps DEF SteerRestarts
  <2>3. call' \in [Caller -> Call] /\ late' \subseteq Run
    BY <1>0, <1>17 DEF SteerRestarts, Late, Idle, Call
  <2>4. cancel' \in [Run -> BOOLEAN]
    BY <1>17 DEF SteerRestarts, Cancelled
  <2> QED BY <1>17, <2>2, <2>3, <2>4 DEF SteerRestarts
<1>18. ASSUME NEW c \in Caller, TurnCancelled(c) PROVE TypeOK'
  BY <1>0, <1>18 DEF TurnCancelled, CallsNameRuns
<1>19. CASE UNCHANGED vars
  BY <1>19 DEF vars
<1> QED
  BY <1>1, <1>2, <1>3, <1>4, <1>5, <1>6, <1>7, <1>8, <1>9, <1>10, <1>11, <1>12,
     <1>13, <1>14, <1>15, <1>16, <1>17, <1>18, <1>19
  DEF Next, ToolStep, RunnerStep, Ends

-----------------------------------------------------------------------------
(***************************************************************************)
(* Every step keeps the invariant.  One lemma per action: what the action   *)
(* changes, run by run and requester by requester, and then the parts of   *)
(* the invariant.                                                          *)
(***************************************************************************)

\* Writes drop at most terminal runs.
Kept(q) == runs'[q] = runs[q] \/ (runs[q] \in Terminal /\ runs'[q] = "absent")

LEMMA LaunchKeeps ==
  ASSUME TypeOK, Safe, NEW c \in Caller, LaunchSession(c)
  PROVE  Safe'
<1> DEFINE r == call[c].run
<1>1. /\ r \in Run /\ call[c].op = "launch" /\ task[r] = "none"
      /\ \A q \in Run : Kept(q)
      /\ \A q \in Run : task'[q] = IF q = r THEN "gated" ELSE task[q]
      /\ UNCHANGED <<root, cancel, ended, announced, lost>>
      /\ late' = late \cup ({r} \ ActiveRuns)
      /\ \A d \in Caller : /\ call'[d].run = call[d].run
                            /\ call'[d].op = IF d = c THEN "hooks" ELSE call[d].op
  <2>1. r \in Run /\ call[c].op = "launch" /\ task[r] = "none"
    BY DEF Safe, LaunchSession, CallsNameRuns, OneLauncher
  <2>2. \A q \in Run : Kept(q)
    BY StoreKeeps DEF LaunchSession, TypeOK, Kept
  <2>3. \A d \in Caller : /\ call'[d].run = call[d].run
                          /\ call'[d].op = IF d = c THEN "hooks" ELSE call[d].op
    BY DEF LaunchSession, TypeOK, Call
  <2> QED BY <2>1, <2>2, <2>3 DEF LaunchSession, TypeOK, Late, lineage
<1>2. BornOnce'
  BY <1>1, Statuses, NoRunAssumption DEF Safe, Kept, BornOnce, CallsNameRuns,
     Fresh
<1>3. OneLauncher'
  BY <1>1, Statuses, NoRunAssumption DEF Safe, Kept, OneLauncher, CallsNameRuns,
     BornOnce, Fresh
<1>4. CallsNameRuns'
  BY <1>1, Statuses, NoRunAssumption DEF Safe, Kept, CallsNameRuns
<1>5. NeverPending'
  BY <1>1, Statuses, NoRunAssumption DEF Safe, Kept, NeverPending
<1>6. OverIsEnded'
  BY <1>1, Statuses, NoRunAssumption DEF Safe, Kept, OverIsEnded, BornOnce,
     CallsNameRuns, OneLauncher, Fresh
<1>7. CancelHasReason'
  BY <1>1, Statuses, NoRunAssumption DEF Safe, Kept, CancelHasReason, BornOnce,
     CallsNameRuns, OneLauncher, OverIsEnded, KillReachesTask, ActiveRuns,
     Pending, Fresh, Working
<1>8. KillReachesTask'
  BY <1>1, Statuses, NoRunAssumption DEF Safe, Kept, KillReachesTask, BornOnce,
     CallsNameRuns, OneLauncher, CancelHasReason, OverIsEnded, ActiveRuns,
     Pending, Working, Fresh
<1>9. AccountedFor'
  BY <1>1, Statuses, NoRunAssumption DEF Safe, Kept, AccountedFor, BornOnce,
     CallsNameRuns, NeverPending, OverIsEnded, CancelHasReason, ActiveRuns,
     Pending, Working, Fresh
<1>10. ReportIsOutcome'
  BY <1>1, Statuses, NoRunAssumption DEF Safe, Kept, ReportIsOutcome, BornOnce,
     OverIsEnded, Fresh
<1>11. SessionMatchesRun'
  BY <1>1, Statuses, NoRunAssumption DEF Safe, Kept, SessionMatchesRun,
     KillReachesTask, BornOnce, CallsNameRuns, CancelHasReason, OverIsEnded,
     OneLauncher, ActiveRuns, Pending, Working, Fresh
<1> QED BY <1>2, <1>3, <1>4, <1>5, <1>6, <1>7, <1>8, <1>9, <1>10, <1>11 DEF Safe

LEMMA StartKeeps ==
  ASSUME TypeOK, Safe, NEW c \in Caller, NEW r \in Run, NEW p, NEW rt \in Run, NEW n,
         call[c].op = "idle", Start(c, r, p, rt, c, n), UNCHANGED <<runner, history>>
  PROVE  Safe'
<1>1. /\ root[r] = NoRun /\ rt # NoRun /\ runs'[r] = "running"
      /\ \A q \in Run \ {r} : Kept(q)
      /\ \A q \in Run : root'[q] = IF q = r THEN rt ELSE root[q]
      /\ UNCHANGED <<task, cancel, ended, announced, lost, late>>
      /\ (\A d \in Caller \ {c} : call'[d] = call[d]) /\ call'[c].run = r /\ call'[c].op = "launch"
  <2>1. PICK t \in [Run -> Stored] : t = [runs EXCEPT ![r] = "running"] /\ Store(t)
    BY Statuses DEF Start, TypeOK
  <2>2. runs'[r] = "running" /\ \A q \in Run \ {r} : Kept(q)
    <3>1. t[r] = "running" /\ \A q \in Run \ {r} : t[q] = runs[q]
      BY <2>1 DEF TypeOK
    <3> QED BY <2>1, <3>1, StoreKeeps, Statuses DEF Kept
  <2>3. (\A d \in Caller \ {c} : call'[d] = call[d]) /\ call'[c].run = r /\ call'[c].op = "launch"
    BY DEF Start, TypeOK, Call, Idle
  <2> QED BY <2>2, <2>3, NoRunAssumption DEF Start, Fresh, TypeOK, runner, history
<1>2. BornOnce'
  BY <1>1, Statuses, NoRunAssumption DEF Safe, Kept, BornOnce, CallsNameRuns,
     Fresh
<1>3. OneLauncher'
  BY <1>1, Statuses, NoRunAssumption DEF Safe, Kept, OneLauncher, CallsNameRuns,
     BornOnce, Fresh
<1>4. CallsNameRuns'
  BY <1>1, Statuses, NoRunAssumption DEF Safe, Kept, CallsNameRuns
<1>5. NeverPending'
  BY <1>1, Statuses, NoRunAssumption DEF Safe, Kept, NeverPending
<1>6. OverIsEnded'
  BY <1>1, Statuses, NoRunAssumption DEF Safe, Kept, OverIsEnded, BornOnce,
     CallsNameRuns, OneLauncher, Fresh
<1>7. CancelHasReason'
  BY <1>1, Statuses, NoRunAssumption DEF Safe, Kept, CancelHasReason, BornOnce,
     CallsNameRuns, OneLauncher, OverIsEnded, KillReachesTask, ActiveRuns,
     Pending, Fresh, Working
<1>8. KillReachesTask'
  BY <1>1, Statuses, NoRunAssumption DEF Safe, Kept, KillReachesTask, BornOnce,
     CallsNameRuns, OneLauncher, CancelHasReason, OverIsEnded, ActiveRuns,
     Pending, Working, Fresh
<1>9. AccountedFor'
  BY <1>1, Statuses, NoRunAssumption DEF Safe, Kept, AccountedFor, BornOnce,
     CallsNameRuns, NeverPending, OverIsEnded, CancelHasReason, ActiveRuns,
     Pending, Working, Fresh
<1>10. ReportIsOutcome'
  BY <1>1, Statuses, NoRunAssumption DEF Safe, Kept, ReportIsOutcome, BornOnce,
     OverIsEnded, Fresh
<1>11. SessionMatchesRun'
  BY <1>1, Statuses, NoRunAssumption DEF Safe, Kept, SessionMatchesRun,
     KillReachesTask, BornOnce, CallsNameRuns, CancelHasReason, OverIsEnded,
     OneLauncher, ActiveRuns, Pending, Working, Fresh
<1> QED BY <1>2, <1>3, <1>4, <1>5, <1>6, <1>7, <1>8, <1>9, <1>10, <1>11 DEF Safe

LEMMA SteerKeeps ==
  ASSUME TypeOK, Safe, NEW c \in Caller, NEW r \in Run, Steer(c, r)
  PROVE  Safe'
<1>1. /\ call[c].op = "idle" /\ runs[r] \in Active
      /\ UNCHANGED <<runs, root, task, cancel, ended, announced, lost, late>>
      /\ (\A d \in Caller \ {c} : call'[d] = call[d]) /\ call'[c].run = r /\ call'[c].op = "steer"
  <2>1. (\A d \in Caller \ {c} : call'[d] = call[d]) /\ call'[c].run = r /\ call'[c].op = "steer"
    BY DEF Steer, TypeOK, Call, Idle
  <2> QED BY <2>1 DEF Steer, lineage, runner, history
<1>2. BornOnce'
  BY <1>1, Statuses, NoRunAssumption DEF Safe, Kept, BornOnce, CallsNameRuns,
     Fresh
<1>3. OneLauncher'
  BY <1>1, Statuses, NoRunAssumption DEF Safe, Kept, OneLauncher, CallsNameRuns,
     BornOnce, Fresh
<1>4. CallsNameRuns'
  BY <1>1, Statuses, NoRunAssumption DEF Safe, Kept, CallsNameRuns
<1>5. NeverPending'
  BY <1>1, Statuses, NoRunAssumption DEF Safe, Kept, NeverPending
<1>6. OverIsEnded'
  BY <1>1, Statuses, NoRunAssumption DEF Safe, Kept, OverIsEnded, BornOnce,
     CallsNameRuns, OneLauncher, Fresh
<1>7. CancelHasReason'
  BY <1>1, Statuses, NoRunAssumption DEF Safe, Kept, CancelHasReason, BornOnce,
     CallsNameRuns, OneLauncher, OverIsEnded, KillReachesTask, ActiveRuns,
     Pending, Fresh, Working
<1>8. KillReachesTask'
  BY <1>1, Statuses, NoRunAssumption DEF Safe, Kept, KillReachesTask, BornOnce,
     CallsNameRuns, OneLauncher, CancelHasReason, OverIsEnded, ActiveRuns,
     Pending, Working, Fresh
<1>9. AccountedFor'
  BY <1>1, Statuses, NoRunAssumption DEF Safe, Kept, AccountedFor, BornOnce,
     CallsNameRuns, NeverPending, OverIsEnded, CancelHasReason, ActiveRuns,
     Pending, Working, Fresh
<1>10. ReportIsOutcome'
  BY <1>1, Statuses, NoRunAssumption DEF Safe, Kept, ReportIsOutcome, BornOnce,
     OverIsEnded, Fresh
<1>11. SessionMatchesRun'
  BY <1>1, Statuses, NoRunAssumption DEF Safe, Kept, SessionMatchesRun,
     KillReachesTask, BornOnce, CallsNameRuns, CancelHasReason, OverIsEnded,
     OneLauncher, ActiveRuns, Pending, Working, Fresh
<1> QED BY <1>2, <1>3, <1>4, <1>5, <1>6, <1>7, <1>8, <1>9, <1>10, <1>11 DEF Safe

LEMMA SpawnFailsKeeps ==
  ASSUME TypeOK, Safe, NEW c \in Caller, SpawnFails(c)
  PROVE  Safe'
<1> DEFINE r == call[c].run
<1>1. /\ r \in Run /\ call[c].op = "launch" /\ task[r] = "none"
      /\ \A q \in Run \ {r} : Kept(q)
      /\ UNCHANGED <<root, task, cancel, ended, announced, lost, late>>
      /\ \A d \in Caller \ {c} : call'[d] = call[d]
      /\ \/ Kept(r) /\ call'[c].op = "launch" /\ call'[c].run = r
         \/ /\ call'[c].op = "idle" /\ call'[c].run = NoRun
            /\ runs'[r] \notin Active /\ (Kept(r) \/ runs[r] \in Active)
  <2>1. r \in Run /\ call[c].op = "launch" /\ task[r] = "none"
    BY DEF Safe, SpawnFails, CallsNameRuns, OneLauncher
  <2>2. CASE call[c].left > 0
    <3>1. \A q \in Run : Kept(q)
      BY <2>2, StoreKeeps DEF SpawnFails, TypeOK, Kept
    <3>2. call' = [call EXCEPT ![c] = [@ EXCEPT !.left = call[c].left - 1]]
      BY <2>2 DEF SpawnFails
    <3>3. call'[c].op = "launch" /\ call'[c].run = r
      BY <2>1, <3>2 DEF TypeOK, Call
    <3> QED BY <2>1, <3>1, <3>2, <3>3 DEF SpawnFails, TypeOK, lineage, runner, history
  <2>3. CASE ~(call[c].left > 0)
    <3>1. Store(Marked(runs, r, "failed")) /\ call' = [call EXCEPT ![c] = Idle]
      BY <2>3 DEF SpawnFails
    <3>2. /\ \A q \in Run \ {r} : Kept(q)
          /\ runs'[r] \notin Active /\ (Kept(r) \/ runs[r] \in Active)
      <4>1. "failed" \in Terminal /\ runs \in [Run -> Stored] /\ runs[r] # "pending"
        BY <2>1, Statuses DEF TypeOK, Safe, NeverPending
      <4> QED BY <2>1, <3>1, <4>1, StoreKeeps, MarkedEnds, Statuses DEF Kept
    <3> QED BY <2>1, <3>1, <3>2 DEF SpawnFails, TypeOK, Idle, lineage, runner, history
  <2> QED BY <2>2, <2>3
<1>2. BornOnce'
  BY <1>1, Statuses, NoRunAssumption DEF Safe, Kept, BornOnce, CallsNameRuns,
     Fresh
<1>3. OneLauncher'
  BY <1>1, Statuses, NoRunAssumption DEF Safe, Kept, OneLauncher, CallsNameRuns,
     BornOnce, Fresh
<1>4. CallsNameRuns'
  BY <1>1, Statuses, NoRunAssumption DEF Safe, Kept, CallsNameRuns
<1>5. NeverPending'
  BY <1>1, Statuses, NoRunAssumption DEF Safe, Kept, NeverPending
<1>6. OverIsEnded'
  BY <1>1, Statuses, NoRunAssumption DEF Safe, Kept, OverIsEnded, BornOnce,
     CallsNameRuns, OneLauncher, Fresh
<1>7. CancelHasReason'
  BY <1>1, Statuses, NoRunAssumption DEF Safe, Kept, CancelHasReason, BornOnce,
     CallsNameRuns, OneLauncher, OverIsEnded, KillReachesTask, ActiveRuns,
     Pending, Fresh, Working
<1>8. KillReachesTask'
  BY <1>1, Statuses, NoRunAssumption DEF Safe, Kept, KillReachesTask, BornOnce,
     CallsNameRuns, OneLauncher, CancelHasReason, OverIsEnded, ActiveRuns,
     Pending, Working, Fresh
<1>9. AccountedFor'
  BY <1>1, Statuses, NoRunAssumption DEF Safe, Kept, AccountedFor, BornOnce,
     CallsNameRuns, NeverPending, OverIsEnded, CancelHasReason, ActiveRuns,
     Pending, Working, Fresh
<1>10. ReportIsOutcome'
  BY <1>1, Statuses, NoRunAssumption DEF Safe, Kept, ReportIsOutcome, BornOnce,
     OverIsEnded, Fresh
<1>11. SessionMatchesRun'
  BY <1>1, Statuses, NoRunAssumption DEF Safe, Kept, SessionMatchesRun,
     KillReachesTask, BornOnce, CallsNameRuns, CancelHasReason, OverIsEnded,
     OneLauncher, ActiveRuns, Pending, Working, Fresh
<1> QED BY <1>2, <1>3, <1>4, <1>5, <1>6, <1>7, <1>8, <1>9, <1>10, <1>11 DEF Safe

LEMMA OpenGateKeeps ==
  ASSUME TypeOK, Safe, NEW c \in Caller, OpenGate(c)
  PROVE  Safe'
<1> DEFINE r == call[c].run
<1>1. /\ r \in Run /\ call[c].op = "hooks"
      /\ \A q \in Run : task'[q] = IF q = r /\ task[q] = "gated" THEN "ready" ELSE task[q]
      /\ UNCHANGED <<runs, root, cancel, ended, announced, lost, late>>
      /\ (\A d \in Caller \ {c} : call'[d] = call[d]) /\ call'[c].run = NoRun /\ call'[c].op = "idle"
  <2>1. r \in Run /\ call[c].op = "hooks"
    BY DEF Safe, OpenGate, CallsNameRuns
  <2> QED BY <2>1 DEF OpenGate, TypeOK, Idle, lineage, history
<1>2. BornOnce'
  BY <1>1, Statuses, NoRunAssumption DEF Safe, Kept, BornOnce, CallsNameRuns,
     Fresh
<1>3. OneLauncher'
  BY <1>1, Statuses, NoRunAssumption DEF Safe, Kept, OneLauncher, CallsNameRuns,
     BornOnce, Fresh
<1>4. CallsNameRuns'
  BY <1>1, Statuses, NoRunAssumption DEF Safe, Kept, CallsNameRuns
<1>5. NeverPending'
  BY <1>1, Statuses, NoRunAssumption DEF Safe, Kept, NeverPending
<1>6. OverIsEnded'
  BY <1>1, Statuses, NoRunAssumption DEF Safe, Kept, OverIsEnded, BornOnce,
     CallsNameRuns, OneLauncher, Fresh
<1>7. CancelHasReason'
  BY <1>1, Statuses, NoRunAssumption DEF Safe, Kept, CancelHasReason, BornOnce,
     CallsNameRuns, OneLauncher, OverIsEnded, KillReachesTask, ActiveRuns,
     Pending, Fresh, Working
<1>8. KillReachesTask'
  BY <1>1, Statuses, NoRunAssumption DEF Safe, Kept, KillReachesTask, BornOnce,
     CallsNameRuns, OneLauncher, CancelHasReason, OverIsEnded, ActiveRuns,
     Pending, Working, Fresh
<1>9. AccountedFor'
  BY <1>1, Statuses, NoRunAssumption DEF Safe, Kept, AccountedFor, BornOnce,
     CallsNameRuns, NeverPending, OverIsEnded, CancelHasReason, ActiveRuns,
     Pending, Working, Fresh
<1>10. ReportIsOutcome'
  BY <1>1, Statuses, NoRunAssumption DEF Safe, Kept, ReportIsOutcome, BornOnce,
     OverIsEnded, Fresh
<1>11. SessionMatchesRun'
  BY <1>1, Statuses, NoRunAssumption DEF Safe, Kept, SessionMatchesRun,
     KillReachesTask, BornOnce, CallsNameRuns, CancelHasReason, OverIsEnded,
     OneLauncher, ActiveRuns, Pending, Working, Fresh
<1> QED BY <1>2, <1>3, <1>4, <1>5, <1>6, <1>7, <1>8, <1>9, <1>10, <1>11 DEF Safe

LEMMA RunnerStartsKeeps ==
  ASSUME TypeOK, Safe, NEW r \in Run, RunnerStarts(r) \/ AcquireLane(r)
  PROVE  Safe'
<1>1. /\ task[r] \in {"ready", "queued"} /\ ~cancel[r]
      /\ \A q \in Run : Kept(q)
      /\ task'[r] \in {"queued", "lane"} /\ \A q \in Run \ {r} : task'[q] = task[q]
      /\ UNCHANGED <<root, cancel, ended, announced, lost, late, call>>
  <2>1. \A q \in Run : Kept(q)
    BY StoreKeeps DEF RunnerStarts, AcquireLane, TypeOK, Kept
  <2> QED BY <2>1 DEF RunnerStarts, AcquireLane, TypeOK, lineage, history
<1>2. BornOnce'
  BY <1>1, Statuses, NoRunAssumption DEF Safe, Kept, BornOnce, CallsNameRuns,
     Fresh
<1>3. OneLauncher'
  BY <1>1, Statuses, NoRunAssumption DEF Safe, Kept, OneLauncher, CallsNameRuns,
     BornOnce, Fresh
<1>4. CallsNameRuns'
  BY <1>1, Statuses, NoRunAssumption DEF Safe, Kept, CallsNameRuns
<1>5. NeverPending'
  BY <1>1, Statuses, NoRunAssumption DEF Safe, Kept, NeverPending
<1>6. OverIsEnded'
  BY <1>1, Statuses, NoRunAssumption DEF Safe, Kept, OverIsEnded, BornOnce,
     CallsNameRuns, OneLauncher, Fresh
<1>7. CancelHasReason'
  BY <1>1, Statuses, NoRunAssumption DEF Safe, Kept, CancelHasReason, BornOnce,
     CallsNameRuns, OneLauncher, OverIsEnded, KillReachesTask, ActiveRuns,
     Pending, Fresh, Working
<1>8. KillReachesTask'
  BY <1>1, Statuses, NoRunAssumption DEF Safe, Kept, KillReachesTask, BornOnce,
     CallsNameRuns, OneLauncher, CancelHasReason, OverIsEnded, ActiveRuns,
     Pending, Working, Fresh
<1>9. AccountedFor'
  BY <1>1, Statuses, NoRunAssumption DEF Safe, Kept, AccountedFor, BornOnce,
     CallsNameRuns, NeverPending, OverIsEnded, CancelHasReason, ActiveRuns,
     Pending, Working, Fresh
<1>10. ReportIsOutcome'
  BY <1>1, Statuses, NoRunAssumption DEF Safe, Kept, ReportIsOutcome, BornOnce,
     OverIsEnded, Fresh
<1>11. SessionMatchesRun'
  BY <1>1, Statuses, NoRunAssumption DEF Safe, Kept, SessionMatchesRun,
     KillReachesTask, BornOnce, CallsNameRuns, CancelHasReason, OverIsEnded,
     OneLauncher, ActiveRuns, Pending, Working, Fresh
<1> QED BY <1>2, <1>3, <1>4, <1>5, <1>6, <1>7, <1>8, <1>9, <1>10, <1>11 DEF Safe

LEMMA EndKeeps ==
  ASSUME TypeOK, Safe, NEW r \in Run, NEW t \in [Run -> Stored], NEW n \in Nat,
         task[r] \in {"lane", "timeout_hook", "backoff"}, task[r] = "lane" => ~cancel[r],
         \A q \in Run \ {r} : t[q] = runs[q],
         t[r] \notin Active, t[r] = runs[r] \/ runs[r] \in Active,
         cancel' \in {cancel, [cancel EXCEPT ![r] = FALSE]},
         Announce(r, t, n), UNCHANGED <<lineage, call, history>>
  PROVE  Safe'
<1>1. /\ \A q \in Run \ {r} : Kept(q)
      /\ runs'[r] \in {t[r], "absent"}
      /\ runs'[r] \notin Active /\ (Kept(r) \/ runs[r] \in Active)
      /\ task'[r] \in {"report", "backoff"} /\ \A q \in Run \ {r} : task'[q] = task[q]
      /\ cancel'[r] => cancel[r]
      /\ \A q \in Run \ {r} : cancel'[q] = cancel[q]
      /\ ended'[r] \in {ended[r], runs'[r]} /\ \A q \in Run \ {r} : ended'[q] = ended[q]
      /\ announced'[r] \in {announced[r], t[r], "giveup"}
      /\ \A q \in Run \ {r} : announced'[q] = announced[q]
      /\ UNCHANGED <<root, lost, late, call>>
  <2>1. Store(t)
    BY DEF Announce
  <2>2. /\ \A q \in Run \ {r} : Kept(q)
        /\ runs'[r] \in {t[r], "absent"}
        /\ runs'[r] \notin Active /\ (Kept(r) \/ runs[r] \in Active)
    BY <2>1, StoreKeeps, Statuses DEF Kept
  <2>3. /\ task'[r] \in {"report", "backoff"} /\ \A q \in Run \ {r} : task'[q] = task[q]
        /\ ended'[r] \in {ended[r], runs'[r]} /\ \A q \in Run \ {r} : ended'[q] = ended[q]
        /\ announced'[r] \in {announced[r], t[r], "giveup"}
        /\ \A q \in Run \ {r} : announced'[q] = announced[q]
    BY DEF Announce, Report, TypeOK
  <2> QED BY <2>2, <2>3 DEF TypeOK, lineage, history
<1>2. BornOnce'
  BY <1>1, Statuses, NoRunAssumption DEF Safe, Kept, BornOnce, CallsNameRuns,
     Fresh
<1>3. OneLauncher'
  BY <1>1, Statuses, NoRunAssumption DEF Safe, Kept, OneLauncher, CallsNameRuns,
     BornOnce, Fresh
<1>4. CallsNameRuns'
  BY <1>1, Statuses, NoRunAssumption DEF Safe, Kept, CallsNameRuns
<1>5. NeverPending'
  BY <1>1, Statuses, NoRunAssumption DEF Safe, Kept, NeverPending
<1>6. OverIsEnded'
  BY <1>1, Statuses, NoRunAssumption DEF Safe, Kept, OverIsEnded, BornOnce,
     CallsNameRuns, OneLauncher, Fresh
<1>7. CancelHasReason'
  BY <1>1, Statuses, NoRunAssumption DEF Safe, Kept, CancelHasReason, BornOnce,
     CallsNameRuns, OneLauncher, OverIsEnded, KillReachesTask, ActiveRuns,
     Pending, Fresh, Working
<1>8. KillReachesTask'
  BY <1>1, Statuses, NoRunAssumption DEF Safe, Kept, KillReachesTask, BornOnce,
     CallsNameRuns, OneLauncher, CancelHasReason, OverIsEnded, ActiveRuns,
     Pending, Working, Fresh
<1>9. AccountedFor'
  BY <1>1, Statuses, NoRunAssumption DEF Safe, Kept, AccountedFor, BornOnce,
     CallsNameRuns, NeverPending, OverIsEnded, CancelHasReason, ActiveRuns,
     Pending, Working, Fresh
<1>10. ReportIsOutcome'
  BY <1>1, Statuses, NoRunAssumption DEF Safe, Kept, ReportIsOutcome, BornOnce,
     OverIsEnded, Fresh
<1>11. SessionMatchesRun'
  BY <1>1, Statuses, NoRunAssumption DEF Safe, Kept, SessionMatchesRun,
     KillReachesTask, BornOnce, CallsNameRuns, CancelHasReason, OverIsEnded,
     OneLauncher, ActiveRuns, Pending, Working, Fresh
<1> QED BY <1>2, <1>3, <1>4, <1>5, <1>6, <1>7, <1>8, <1>9, <1>10, <1>11 DEF Safe

LEMMA TimesOutKeeps ==
  ASSUME TypeOK, Safe, NEW r \in Run, SessionTimesOut(r)
  PROVE  Safe'
<1>1. /\ task[r] = "lane" /\ ~cancel[r]
      /\ \A q \in Run \ {r} : Kept(q)
      /\ runs'[r] \notin Active /\ (Kept(r) \/ runs[r] \in Active)
      /\ \A q \in Run : task'[q] = IF q = r THEN "timeout_hook" ELSE task[q]
      /\ UNCHANGED <<root, cancel, ended, announced, lost, late, call>>
  <2>1. "timed_out" \in Terminal /\ runs \in [Run -> Stored] /\ runs[r] # "pending"
    BY Statuses DEF TypeOK, Safe, NeverPending
  <2>2. /\ \A q \in Run \ {r} : Kept(q)
        /\ runs'[r] \notin Active /\ (Kept(r) \/ runs[r] \in Active)
    BY <2>1, StoreKeeps, MarkedEnds, Statuses DEF SessionTimesOut, Kept
  <2> QED BY <2>2 DEF SessionTimesOut, TypeOK, lineage, history
<1>2. BornOnce'
  BY <1>1, Statuses, NoRunAssumption DEF Safe, Kept, BornOnce, CallsNameRuns,
     Fresh
<1>3. OneLauncher'
  BY <1>1, Statuses, NoRunAssumption DEF Safe, Kept, OneLauncher, CallsNameRuns,
     BornOnce, Fresh
<1>4. CallsNameRuns'
  BY <1>1, Statuses, NoRunAssumption DEF Safe, Kept, CallsNameRuns
<1>5. NeverPending'
  BY <1>1, Statuses, NoRunAssumption DEF Safe, Kept, NeverPending
<1>6. OverIsEnded'
  BY <1>1, Statuses, NoRunAssumption DEF Safe, Kept, OverIsEnded, BornOnce,
     CallsNameRuns, OneLauncher, Fresh
<1>7. CancelHasReason'
  BY <1>1, Statuses, NoRunAssumption DEF Safe, Kept, CancelHasReason, BornOnce,
     CallsNameRuns, OneLauncher, OverIsEnded, KillReachesTask, ActiveRuns,
     Pending, Fresh, Working
<1>8. KillReachesTask'
  BY <1>1, Statuses, NoRunAssumption DEF Safe, Kept, KillReachesTask, BornOnce,
     CallsNameRuns, OneLauncher, CancelHasReason, OverIsEnded, ActiveRuns,
     Pending, Working, Fresh
<1>9. AccountedFor'
  BY <1>1, Statuses, NoRunAssumption DEF Safe, Kept, AccountedFor, BornOnce,
     CallsNameRuns, NeverPending, OverIsEnded, CancelHasReason, ActiveRuns,
     Pending, Working, Fresh
<1>10. ReportIsOutcome'
  BY <1>1, Statuses, NoRunAssumption DEF Safe, Kept, ReportIsOutcome, BornOnce,
     OverIsEnded, Fresh
<1>11. SessionMatchesRun'
  BY <1>1, Statuses, NoRunAssumption DEF Safe, Kept, SessionMatchesRun,
     KillReachesTask, BornOnce, CallsNameRuns, CancelHasReason, OverIsEnded,
     OneLauncher, ActiveRuns, Pending, Working, Fresh
<1> QED BY <1>2, <1>3, <1>4, <1>5, <1>6, <1>7, <1>8, <1>9, <1>10, <1>11 DEF Safe

LEMMA HookEndsKeeps ==
  ASSUME TypeOK, Safe, NEW r \in Run, KilledHookEnds(r), task[r] = "cancel_hook"
  PROVE  Safe'
<1>1. /\ runs[r] \notin Active /\ \A q \in Run : Kept(q)
      /\ task'[r] = "report" /\ ~cancel'[r] /\ ended'[r] = runs'[r]
      /\ \A q \in Run \ {r} :
           task'[q] = task[q] /\ cancel'[q] = cancel[q] /\ ended'[q] = ended[q]
      /\ UNCHANGED <<root, announced, lost, late, call>>
  <2>1. runs[r] \notin Active /\ \A q \in Run : Kept(q)
    BY StoreKeeps DEF KilledHookEnds, TypeOK, Kept, Safe, OverIsEnded
  <2> QED BY <2>1 DEF KilledHookEnds, Report, TypeOK, lineage, history
<1>2. BornOnce'
  BY <1>1, Statuses, NoRunAssumption DEF Safe, Kept, BornOnce, CallsNameRuns,
     Fresh
<1>3. OneLauncher'
  BY <1>1, Statuses, NoRunAssumption DEF Safe, Kept, OneLauncher, CallsNameRuns,
     BornOnce, Fresh
<1>4. CallsNameRuns'
  BY <1>1, Statuses, NoRunAssumption DEF Safe, Kept, CallsNameRuns
<1>5. NeverPending'
  BY <1>1, Statuses, NoRunAssumption DEF Safe, Kept, NeverPending
<1>6. OverIsEnded'
  BY <1>1, Statuses, NoRunAssumption DEF Safe, Kept, OverIsEnded, BornOnce,
     CallsNameRuns, OneLauncher, Fresh
<1>7. CancelHasReason'
  BY <1>1, Statuses, NoRunAssumption DEF Safe, Kept, CancelHasReason, BornOnce,
     CallsNameRuns, OneLauncher, OverIsEnded, KillReachesTask, ActiveRuns,
     Pending, Fresh, Working
<1>8. KillReachesTask'
  BY <1>1, Statuses, NoRunAssumption DEF Safe, Kept, KillReachesTask, BornOnce,
     CallsNameRuns, OneLauncher, CancelHasReason, OverIsEnded, ActiveRuns,
     Pending, Working, Fresh
<1>9. AccountedFor'
  BY <1>1, Statuses, NoRunAssumption DEF Safe, Kept, AccountedFor, BornOnce,
     CallsNameRuns, NeverPending, OverIsEnded, CancelHasReason, ActiveRuns,
     Pending, Working, Fresh
<1>10. ReportIsOutcome'
  BY <1>1, Statuses, NoRunAssumption DEF Safe, Kept, ReportIsOutcome, BornOnce,
     OverIsEnded, Fresh
<1>11. SessionMatchesRun'
  BY <1>1, Statuses, NoRunAssumption DEF Safe, Kept, SessionMatchesRun,
     KillReachesTask, BornOnce, CallsNameRuns, CancelHasReason, OverIsEnded,
     OneLauncher, ActiveRuns, Pending, Working, Fresh
<1> QED BY <1>2, <1>3, <1>4, <1>5, <1>6, <1>7, <1>8, <1>9, <1>10, <1>11 DEF Safe

LEMMA ReportedKeeps ==
  ASSUME TypeOK, Safe, NEW r \in Run, SessionReported(r)
  PROVE  Safe'
<1>1. /\ task[r] = "report" /\ ~cancel[r]
      /\ \A q \in Run : task'[q] = IF q = r THEN "done" ELSE task[q]
      /\ UNCHANGED <<runs, root, cancel, ended, announced, lost, late, call>>
  BY DEF SessionReported, TypeOK, lineage, history
<1>2. BornOnce'
  BY <1>1, Statuses, NoRunAssumption DEF Safe, Kept, BornOnce, CallsNameRuns,
     Fresh
<1>3. OneLauncher'
  BY <1>1, Statuses, NoRunAssumption DEF Safe, Kept, OneLauncher, CallsNameRuns,
     BornOnce, Fresh
<1>4. CallsNameRuns'
  BY <1>1, Statuses, NoRunAssumption DEF Safe, Kept, CallsNameRuns
<1>5. NeverPending'
  BY <1>1, Statuses, NoRunAssumption DEF Safe, Kept, NeverPending
<1>6. OverIsEnded'
  BY <1>1, Statuses, NoRunAssumption DEF Safe, Kept, OverIsEnded, BornOnce,
     CallsNameRuns, OneLauncher, Fresh
<1>7. CancelHasReason'
  BY <1>1, Statuses, NoRunAssumption DEF Safe, Kept, CancelHasReason, BornOnce,
     CallsNameRuns, OneLauncher, OverIsEnded, KillReachesTask, ActiveRuns,
     Pending, Fresh, Working
<1>8. KillReachesTask'
  BY <1>1, Statuses, NoRunAssumption DEF Safe, Kept, KillReachesTask, BornOnce,
     CallsNameRuns, OneLauncher, CancelHasReason, OverIsEnded, ActiveRuns,
     Pending, Working, Fresh
<1>9. AccountedFor'
  BY <1>1, Statuses, NoRunAssumption DEF Safe, Kept, AccountedFor, BornOnce,
     CallsNameRuns, NeverPending, OverIsEnded, CancelHasReason, ActiveRuns,
     Pending, Working, Fresh
<1>10. ReportIsOutcome'
  BY <1>1, Statuses, NoRunAssumption DEF Safe, Kept, ReportIsOutcome, BornOnce,
     OverIsEnded, Fresh
<1>11. SessionMatchesRun'
  BY <1>1, Statuses, NoRunAssumption DEF Safe, Kept, SessionMatchesRun,
     KillReachesTask, BornOnce, CallsNameRuns, CancelHasReason, OverIsEnded,
     OneLauncher, ActiveRuns, Pending, Working, Fresh
<1> QED BY <1>2, <1>3, <1>4, <1>5, <1>6, <1>7, <1>8, <1>9, <1>10, <1>11 DEF Safe

LEMMA DeliveredKeeps ==
  ASSUME TypeOK, Safe, NEW r \in Run, CancelDelivered(r)
  PROVE  Safe'
<1>1. /\ cancel[r] /\ ~cancel'[r] /\ \A q \in Run \ {r} : cancel'[q] = cancel[q]
      /\ \A q \in Run \ {r} : Kept(q) /\ task'[q] = task[q]
      /\ \/ /\ task[r] \in {"queued", "lane"} /\ task'[r] = "cancel_hook"
            /\ runs'[r] \notin Active
            /\ Kept(r) \/ (runs[r] \in Active /\ runs'[r] \in {"cancelled", "absent"})
         \/ /\ task[r] \in {"gated", "ready", "backoff", "report"} /\ task'[r] = "dead"
            /\ runs'[r] = runs[r]
      /\ UNCHANGED <<root, ended, announced, lost, late, call>>
  <2>1. "cancelled" \in Terminal /\ runs \in [Run -> Stored] /\ runs[r] # "pending"
    BY Statuses DEF TypeOK, Safe, NeverPending
  <2>2. /\ \A q \in Run \ {r} : Kept(q)
        /\ \/ /\ task[r] \in {"queued", "lane"} /\ task' = [task EXCEPT ![r] = "cancel_hook"]
              /\ runs'[r] \notin Active
              /\ Kept(r) \/ (runs[r] \in Active /\ runs'[r] \in {"cancelled", "absent"})
           \/ /\ task[r] \in {"gated", "ready", "backoff", "report"}
              /\ task' = [task EXCEPT ![r] = "dead"]
              /\ runs' = runs
    BY <2>1, StoreKeeps, MarkedEnds, Statuses DEF CancelDelivered, Kept
  <2> QED BY <2>2 DEF CancelDelivered, TypeOK, lineage, history
<1>2. BornOnce'
  BY <1>1, Statuses, NoRunAssumption DEF Safe, Kept, BornOnce, CallsNameRuns,
     Fresh
<1>3. OneLauncher'
  BY <1>1, Statuses, NoRunAssumption DEF Safe, Kept, OneLauncher, CallsNameRuns,
     BornOnce, Fresh
<1>4. CallsNameRuns'
  BY <1>1, Statuses, NoRunAssumption DEF Safe, Kept, CallsNameRuns
<1>5. NeverPending'
  BY <1>1, Statuses, NoRunAssumption DEF Safe, Kept, NeverPending
<1>6. OverIsEnded'
  BY <1>1, Statuses, NoRunAssumption DEF Safe, Kept, OverIsEnded, BornOnce,
     CallsNameRuns, OneLauncher, Fresh
<1>7. CancelHasReason'
  BY <1>1, Statuses, NoRunAssumption DEF Safe, Kept, CancelHasReason, BornOnce,
     CallsNameRuns, OneLauncher, OverIsEnded, KillReachesTask, ActiveRuns,
     Pending, Fresh, Working
<1>8. KillReachesTask'
  BY <1>1, Statuses, NoRunAssumption DEF Safe, Kept, KillReachesTask, BornOnce,
     CallsNameRuns, OneLauncher, CancelHasReason, OverIsEnded, ActiveRuns,
     Pending, Working, Fresh
<1>9. AccountedFor'
  BY <1>1, Statuses, NoRunAssumption DEF Safe, Kept, AccountedFor, BornOnce,
     CallsNameRuns, NeverPending, OverIsEnded, CancelHasReason, ActiveRuns,
     Pending, Working, Fresh
<1>10. ReportIsOutcome'
  BY <1>1, Statuses, NoRunAssumption DEF Safe, Kept, ReportIsOutcome, BornOnce,
     OverIsEnded, Fresh
<1>11. SessionMatchesRun'
  BY <1>1, Statuses, NoRunAssumption DEF Safe, Kept, SessionMatchesRun,
     KillReachesTask, BornOnce, CallsNameRuns, CancelHasReason, OverIsEnded,
     OneLauncher, ActiveRuns, Pending, Working, Fresh
<1> QED BY <1>2, <1>3, <1>4, <1>5, <1>6, <1>7, <1>8, <1>9, <1>10, <1>11 DEF Safe

LEMMA KillKeeps ==
  ASSUME TypeOK, Safe, NEW c \in Caller, NEW Roots, Kill(c, Roots)
  PROVE  Safe'
<1>1. /\ call[c].op = "idle"
      /\ UNCHANGED <<runs, root, task, cancel, ended, announced, lost, late>>
      /\ (\A d \in Caller \ {c} : call'[d] = call[d]) /\ call'[c].run = NoRun /\ call'[c].op = "kill"
  <2>1. (\A d \in Caller \ {c} : call'[d] = call[d]) /\ call'[c].run = NoRun /\ call'[c].op = "kill"
    BY DEF Kill, TypeOK, Call, Idle
  <2> QED BY <2>1 DEF Kill, lineage, runner, history
<1>2. BornOnce'
  BY <1>1, Statuses, NoRunAssumption DEF Safe, Kept, BornOnce, CallsNameRuns,
     Fresh
<1>3. OneLauncher'
  BY <1>1, Statuses, NoRunAssumption DEF Safe, Kept, OneLauncher, CallsNameRuns,
     BornOnce, Fresh
<1>4. CallsNameRuns'
  BY <1>1, Statuses, NoRunAssumption DEF Safe, Kept, CallsNameRuns
<1>5. NeverPending'
  BY <1>1, Statuses, NoRunAssumption DEF Safe, Kept, NeverPending
<1>6. OverIsEnded'
  BY <1>1, Statuses, NoRunAssumption DEF Safe, Kept, OverIsEnded, BornOnce,
     CallsNameRuns, OneLauncher, Fresh
<1>7. CancelHasReason'
  BY <1>1, Statuses, NoRunAssumption DEF Safe, Kept, CancelHasReason, BornOnce,
     CallsNameRuns, OneLauncher, OverIsEnded, KillReachesTask, ActiveRuns,
     Pending, Fresh, Working
<1>8. KillReachesTask'
  BY <1>1, Statuses, NoRunAssumption DEF Safe, Kept, KillReachesTask, BornOnce,
     CallsNameRuns, OneLauncher, CancelHasReason, OverIsEnded, ActiveRuns,
     Pending, Working, Fresh
<1>9. AccountedFor'
  BY <1>1, Statuses, NoRunAssumption DEF Safe, Kept, AccountedFor, BornOnce,
     CallsNameRuns, NeverPending, OverIsEnded, CancelHasReason, ActiveRuns,
     Pending, Working, Fresh
<1>10. ReportIsOutcome'
  BY <1>1, Statuses, NoRunAssumption DEF Safe, Kept, ReportIsOutcome, BornOnce,
     OverIsEnded, Fresh
<1>11. SessionMatchesRun'
  BY <1>1, Statuses, NoRunAssumption DEF Safe, Kept, SessionMatchesRun,
     KillReachesTask, BornOnce, CallsNameRuns, CancelHasReason, OverIsEnded,
     OneLauncher, ActiveRuns, Pending, Working, Fresh
<1> QED BY <1>2, <1>3, <1>4, <1>5, <1>6, <1>7, <1>8, <1>9, <1>10, <1>11 DEF Safe

LEMMA KillNextKeeps ==
  ASSUME TypeOK, Safe, NEW c \in Caller, NEW r \in Run, KillNext(c, r)
  PROVE  Safe'
<1>1. /\ call[c].op = "kill" /\ \A d \in Caller \ {c} : call'[d] = call[d]
      /\ \A q \in Run \ {r} : Kept(q) /\ cancel'[q] = cancel[q]
      /\ UNCHANGED <<root, task, ended, announced, lost>>
      /\ \/ /\ runs' = runs /\ cancel' = cancel /\ late' = late
            /\ call'[c].op \in {"idle", "kill"} /\ call'[c].run = NoRun
         \/ /\ runs[r] \in Active
            /\ task[r] \notin {"none", "done", "dead"} => cancel'[r]
            /\ task[r] \in {"none", "done", "dead"} => cancel'[r] = cancel[r]
            /\ late' = late \cup (IF task[r] = "none" THEN {r} ELSE {})
            /\ \/ runs' = runs /\ call'[c].op = "kill_mark" /\ call'[c].run = r
               \/ /\ runs'[r] \in {"cancelled", "absent"}
                  /\ call'[c].op \in {"idle", "kill"} /\ call'[c].run = NoRun
  <2>1. "cancelled" \in Terminal /\ runs \in [Run -> Stored] /\ runs[r] # "pending"
    BY Statuses DEF TypeOK, Safe, NeverPending
  <2> DEFINE rest == call[c].todo \ {r}
             next == [call[c] EXCEPT !.todo = rest, !.op = IF rest = {} THEN "idle" ELSE "kill",
                                     !.run = NoRun]
             mark == [call[c] EXCEPT !.op = "kill_mark", !.run = r, !.todo = rest]
  <2>2. /\ next.op \in {"idle", "kill"} /\ next.run = NoRun
        /\ mark.op = "kill_mark" /\ mark.run = r
    BY DEF TypeOK, Call
  <2> HIDE DEF next, mark
  <2>3. call[c].op = "kill" /\ UNCHANGED <<root, task, ended, announced, lost>>
    BY DEF KillNext, lineage
  <2>4. CASE runs[r] \notin Active
    <3>1. call' = [call EXCEPT ![c] = next] /\ runs' = runs /\ cancel' = cancel /\ late' = late
      BY <2>4 DEF KillNext, next
    <3> QED BY <2>2, <2>3, <3>1 DEF TypeOK, Kept
  <2>5. CASE runs[r] \in Active
    <3>1. cancel' = Cancelled(r) /\ late' = late \cup (IF task[r] = "none" THEN {r} ELSE {})
      BY <2>5 DEF KillNext
    <3>2. \/ runs' = runs /\ call' = [call EXCEPT ![c] = mark]
          \/ Store(Marked(runs, r, "cancelled")) /\ call' = [call EXCEPT ![c] = next]
      BY <2>5 DEF KillNext, next, mark
    <3>3. CASE runs' = runs /\ call' = [call EXCEPT ![c] = mark]
      BY <2>2, <2>3, <2>5, <3>1, <3>3 DEF TypeOK, Kept, Cancelled
    <3>4. CASE Store(Marked(runs, r, "cancelled")) /\ call' = [call EXCEPT ![c] = next]
      <4>1. (\A q \in Run \ {r} : Kept(q)) /\ runs'[r] \in {"cancelled", "absent"}
        BY <2>1, <2>5, <3>4, StoreKeeps, MarkedEnds, Statuses DEF Kept
      <4> QED BY <2>2, <2>3, <2>5, <3>1, <3>4, <4>1 DEF TypeOK, Cancelled
    <3> QED BY <3>2, <3>3, <3>4
  <2> QED BY <2>4, <2>5
<1>2. BornOnce'
  BY <1>1, Statuses, NoRunAssumption DEF Safe, Kept, BornOnce, CallsNameRuns,
     Fresh
<1>3. OneLauncher'
  BY <1>1, Statuses, NoRunAssumption DEF Safe, Kept, OneLauncher, CallsNameRuns,
     BornOnce, Fresh
<1>4. CallsNameRuns'
  BY <1>1, Statuses, NoRunAssumption DEF Safe, Kept, CallsNameRuns
<1>5. NeverPending'
  BY <1>1, Statuses, NoRunAssumption DEF Safe, Kept, NeverPending
<1>6. OverIsEnded'
  BY <1>1, Statuses, NoRunAssumption DEF Safe, Kept, OverIsEnded, BornOnce,
     CallsNameRuns, OneLauncher, Fresh
<1>7. CancelHasReason'
  BY <1>1, Statuses, NoRunAssumption DEF Safe, Kept, CancelHasReason, BornOnce,
     CallsNameRuns, OneLauncher, OverIsEnded, KillReachesTask, ActiveRuns,
     Pending, Fresh, Working
<1>8. KillReachesTask'
  BY <1>1, Statuses, NoRunAssumption DEF Safe, Kept, KillReachesTask, BornOnce,
     CallsNameRuns, OneLauncher, CancelHasReason, OverIsEnded, ActiveRuns,
     Pending, Working, Fresh
<1>9. AccountedFor'
  BY <1>1, Statuses, NoRunAssumption DEF Safe, Kept, AccountedFor, BornOnce,
     CallsNameRuns, NeverPending, OverIsEnded, CancelHasReason, ActiveRuns,
     Pending, Working, Fresh
<1>10. ReportIsOutcome'
  BY <1>1, Statuses, NoRunAssumption DEF Safe, Kept, ReportIsOutcome, BornOnce,
     OverIsEnded, Fresh
<1>11. SessionMatchesRun'
  BY <1>1, Statuses, NoRunAssumption DEF Safe, Kept, SessionMatchesRun,
     KillReachesTask, BornOnce, CallsNameRuns, CancelHasReason, OverIsEnded,
     OneLauncher, ActiveRuns, Pending, Working, Fresh
<1> QED BY <1>2, <1>3, <1>4, <1>5, <1>6, <1>7, <1>8, <1>9, <1>10, <1>11 DEF Safe

LEMMA KillMarkKeeps ==
  ASSUME TypeOK, Safe, NEW c \in Caller, KillMark(c)
  PROVE  Safe'
<1> DEFINE r == call[c].run
<1>1. /\ r \in Run /\ call[c].op = "kill_mark"
      /\ \A q \in Run \ {r} : Kept(q)
      /\ runs'[r] \notin Active
      /\ Kept(r) \/ (runs[r] \in Active /\ runs'[r] \in {"cancelled", "absent"})
      /\ UNCHANGED <<root, task, cancel, ended, announced, lost, late>>
      /\ \A d \in Caller \ {c} : call'[d] = call[d]
      /\ call'[c].op \in {"idle", "kill"} /\ call'[c].run = NoRun
  <2>1. r \in Run /\ call[c].op = "kill_mark"
    BY DEF Safe, KillMark, CallsNameRuns
  <2>2. "cancelled" \in Terminal /\ runs \in [Run -> Stored] /\ runs[r] # "pending"
    BY <2>1, Statuses DEF TypeOK, Safe, NeverPending
  <2>3. /\ \A q \in Run \ {r} : Kept(q)
        /\ runs'[r] \notin Active
        /\ Kept(r) \/ (runs[r] \in Active /\ runs'[r] \in {"cancelled", "absent"})
    BY <2>1, <2>2, StoreKeeps, MarkedEnds, Statuses DEF KillMark, Kept
  <2>4. /\ \A d \in Caller \ {c} : call'[d] = call[d]
        /\ call'[c].op \in {"idle", "kill"} /\ call'[c].run = NoRun
    BY DEF KillMark, TypeOK, Call
  <2> QED BY <2>1, <2>3, <2>4 DEF KillMark, lineage, runner, history
<1>2. BornOnce'
  BY <1>1, Statuses, NoRunAssumption DEF Safe, Kept, BornOnce, CallsNameRuns,
     Fresh
<1>3. OneLauncher'
  BY <1>1, Statuses, NoRunAssumption DEF Safe, Kept, OneLauncher, CallsNameRuns,
     BornOnce, Fresh
<1>4. CallsNameRuns'
  BY <1>1, Statuses, NoRunAssumption DEF Safe, Kept, CallsNameRuns
<1>5. NeverPending'
  BY <1>1, Statuses, NoRunAssumption DEF Safe, Kept, NeverPending
<1>6. OverIsEnded'
  BY <1>1, Statuses, NoRunAssumption DEF Safe, Kept, OverIsEnded, BornOnce,
     CallsNameRuns, OneLauncher, Fresh
<1>7. CancelHasReason'
  BY <1>1, Statuses, NoRunAssumption DEF Safe, Kept, CancelHasReason, BornOnce,
     CallsNameRuns, OneLauncher, OverIsEnded, KillReachesTask, ActiveRuns,
     Pending, Fresh, Working
<1>8. KillReachesTask'
  BY <1>1, Statuses, NoRunAssumption DEF Safe, Kept, KillReachesTask, BornOnce,
     CallsNameRuns, OneLauncher, CancelHasReason, OverIsEnded, ActiveRuns,
     Pending, Working, Fresh
<1>9. AccountedFor'
  BY <1>1, Statuses, NoRunAssumption DEF Safe, Kept, AccountedFor, BornOnce,
     CallsNameRuns, NeverPending, OverIsEnded, CancelHasReason, ActiveRuns,
     Pending, Working, Fresh
<1>10. ReportIsOutcome'
  BY <1>1, Statuses, NoRunAssumption DEF Safe, Kept, ReportIsOutcome, BornOnce,
     OverIsEnded, Fresh
<1>11. SessionMatchesRun'
  BY <1>1, Statuses, NoRunAssumption DEF Safe, Kept, SessionMatchesRun,
     KillReachesTask, BornOnce, CallsNameRuns, CancelHasReason, OverIsEnded,
     OneLauncher, ActiveRuns, Pending, Working, Fresh
<1> QED BY <1>2, <1>3, <1>4, <1>5, <1>6, <1>7, <1>8, <1>9, <1>10, <1>11 DEF Safe

LEMMA RestartKeeps ==
  ASSUME TypeOK, Safe, NEW c \in Caller, NEW r \in Run, NEW r2 \in Run,
         SteerRestarts(c, r, r2)
  PROVE  Safe'
<1>1. /\ call[c].op \in {"idle", "steer"} /\ root[r2] = NoRun /\ root[r] # NoRun
      /\ \A q \in Run \ {r, r2} : Kept(q)
      /\ runs'[r] \notin Active
      /\ Kept(r) \/ (runs[r] \in Active /\ runs'[r] \in {"cancelled", "absent"})
      /\ runs'[r2] = "running"
      /\ \A q \in Run : root'[q] = IF q = r2 THEN root[r] ELSE root[q]
      /\ \A q \in Run \ {r} : cancel'[q] = cancel[q]
      /\ task[r] \notin {"none", "done", "dead"} => cancel'[r]
      /\ task[r] \in {"none", "done", "dead"} => cancel'[r] = cancel[r]
      /\ late' = late \cup ({r} \ ActiveRuns)
      /\ UNCHANGED <<task, ended, announced, lost>>
      /\ (\A d \in Caller \ {c} : call'[d] = call[d]) /\ call'[c].run = r2 /\ call'[c].op = "launch"
  <2>1. call[c].op \in {"idle", "steer"} /\ root[r2] = NoRun /\ root[r] # NoRun
    BY Statuses DEF SteerRestarts, Fresh, Safe, BornOnce
  <2>2. "cancelled" \in Terminal /\ runs \in [Run -> Stored] /\ runs[r] # "pending"
    BY Statuses DEF TypeOK, Safe, NeverPending
  <2> DEFINE m == Marked(runs, r, "cancelled")
             t == [m EXCEPT ![r2] = "running"]
  <2>3. /\ m \in [Run -> Stored] /\ \A q \in Run \ {r} : m[q] = runs[q]
        /\ (m[r] = runs[r] /\ m[r] \notin Active) \/ (runs[r] \in Active /\ m[r] = "cancelled")
    BY <2>2, MarkedEnds, Statuses
  <2>4. Store(t)
    BY DEF SteerRestarts
  <2> HIDE DEF m
  <2>5. t \in [Run -> Stored] /\ r # r2
    BY <2>1, <2>3, Statuses
  <2>6. /\ \A q \in Run \ {r, r2} : Kept(q)
        /\ runs'[r] \notin Active
        /\ Kept(r) \/ (runs[r] \in Active /\ runs'[r] \in {"cancelled", "absent"})
        /\ runs'[r2] = "running"
    BY <2>3, <2>4, <2>5, StoreKeeps, Statuses DEF Kept
  <2>7. (\A d \in Caller \ {c} : call'[d] = call[d]) /\ call'[c].run = r2 /\ call'[c].op = "launch"
    BY DEF SteerRestarts, TypeOK, Call, Idle
  <2> QED BY <2>1, <2>6, <2>7 DEF SteerRestarts, TypeOK, Cancelled, Late
<1>2. BornOnce'
  BY <1>1, Statuses, NoRunAssumption DEF Safe, Kept, BornOnce, CallsNameRuns,
     Fresh
<1>3. OneLauncher'
  BY <1>1, Statuses, NoRunAssumption DEF Safe, Kept, OneLauncher, CallsNameRuns,
     BornOnce, Fresh
<1>4. CallsNameRuns'
  BY <1>1, Statuses, NoRunAssumption DEF Safe, Kept, CallsNameRuns
<1>5. NeverPending'
  BY <1>1, Statuses, NoRunAssumption DEF Safe, Kept, NeverPending
<1>6. OverIsEnded'
  BY <1>1, Statuses, NoRunAssumption DEF Safe, Kept, OverIsEnded, BornOnce,
     CallsNameRuns, OneLauncher, Fresh
<1>7. CancelHasReason'
  BY <1>1, Statuses, NoRunAssumption DEF Safe, Kept, CancelHasReason, BornOnce,
     CallsNameRuns, OneLauncher, OverIsEnded, KillReachesTask, ActiveRuns,
     Pending, Fresh, Working
<1>8. KillReachesTask'
  BY <1>1, Statuses, NoRunAssumption DEF Safe, Kept, KillReachesTask, BornOnce,
     CallsNameRuns, OneLauncher, CancelHasReason, OverIsEnded, ActiveRuns,
     Pending, Working, Fresh
<1>9. AccountedFor'
  BY <1>1, Statuses, NoRunAssumption DEF Safe, Kept, AccountedFor, BornOnce,
     CallsNameRuns, NeverPending, OverIsEnded, CancelHasReason, ActiveRuns,
     Pending, Working, Fresh
<1>10. ReportIsOutcome'
  BY <1>1, Statuses, NoRunAssumption DEF Safe, Kept, ReportIsOutcome, BornOnce,
     OverIsEnded, Fresh
<1>11. SessionMatchesRun'
  BY <1>1, Statuses, NoRunAssumption DEF Safe, Kept, SessionMatchesRun,
     KillReachesTask, BornOnce, CallsNameRuns, CancelHasReason, OverIsEnded,
     OneLauncher, ActiveRuns, Pending, Working, Fresh
<1> QED BY <1>2, <1>3, <1>4, <1>5, <1>6, <1>7, <1>8, <1>9, <1>10, <1>11 DEF Safe

LEMMA TurnCancelledKeeps ==
  ASSUME TypeOK, Safe, NEW c \in Caller, TurnCancelled(c)
  PROVE  Safe'
<1>1. /\ UNCHANGED <<runs, root, task, cancel, ended, announced, late>>
      /\ lost \subseteq lost'
      /\ call[c].op \in {"launch", "hooks", "kill_mark"} => call[c].run \in lost'
      /\ (\A d \in Caller \ {c} : call'[d] = call[d]) /\ call'[c].run = NoRun /\ call'[c].op = "idle"
  BY DEF TurnCancelled, TypeOK, Idle, lineage, runner
<1>2. BornOnce'
  BY <1>1, Statuses, NoRunAssumption DEF Safe, Kept, BornOnce, CallsNameRuns,
     Fresh
<1>3. OneLauncher'
  BY <1>1, Statuses, NoRunAssumption DEF Safe, Kept, OneLauncher, CallsNameRuns,
     BornOnce, Fresh
<1>4. CallsNameRuns'
  BY <1>1, Statuses, NoRunAssumption DEF Safe, Kept, CallsNameRuns
<1>5. NeverPending'
  BY <1>1, Statuses, NoRunAssumption DEF Safe, Kept, NeverPending
<1>6. OverIsEnded'
  BY <1>1, Statuses, NoRunAssumption DEF Safe, Kept, OverIsEnded, BornOnce,
     CallsNameRuns, OneLauncher, Fresh
<1>7. CancelHasReason'
  BY <1>1, Statuses, NoRunAssumption DEF Safe, Kept, CancelHasReason, BornOnce,
     CallsNameRuns, OneLauncher, OverIsEnded, KillReachesTask, ActiveRuns,
     Pending, Fresh, Working
<1>8. KillReachesTask'
  BY <1>1, Statuses, NoRunAssumption DEF Safe, Kept, KillReachesTask, BornOnce,
     CallsNameRuns, OneLauncher, CancelHasReason, OverIsEnded, ActiveRuns,
     Pending, Working, Fresh
<1>9. AccountedFor'
  BY <1>1, Statuses, NoRunAssumption DEF Safe, Kept, AccountedFor, BornOnce,
     CallsNameRuns, NeverPending, OverIsEnded, CancelHasReason, ActiveRuns,
     Pending, Working, Fresh
<1>10. ReportIsOutcome'
  BY <1>1, Statuses, NoRunAssumption DEF Safe, Kept, ReportIsOutcome, BornOnce,
     OverIsEnded, Fresh
<1>11. SessionMatchesRun'
  BY <1>1, Statuses, NoRunAssumption DEF Safe, Kept, SessionMatchesRun,
     KillReachesTask, BornOnce, CallsNameRuns, CancelHasReason, OverIsEnded,
     OneLauncher, ActiveRuns, Pending, Working, Fresh
<1> QED BY <1>2, <1>3, <1>4, <1>5, <1>6, <1>7, <1>8, <1>9, <1>10, <1>11 DEF Safe

-----------------------------------------------------------------------------
LEMMA SafeNext == TypeOK /\ Safe /\ [Next]_vars => Safe'
<1> SUFFICES ASSUME TypeOK, Safe, [Next]_vars PROVE Safe'
  OBVIOUS
<1>0. /\ runs \in [Run -> Stored] /\ "completed" \in Terminal /\ "failed" \in Terminal
      /\ \A r \in Run : runs[r] # "pending" /\ tries[r] \in Nat
  BY Statuses DEF TypeOK, Safe, NeverPending
<1>1. ASSUME NEW c \in Caller, NEW r \in Run, SessionsSpawn(c, r) PROVE Safe'
  BY <1>1, StartKeeps DEF SessionsSpawn
<1>2. ASSUME NEW c \in Caller, NEW p \in Run, NEW r \in Run,
             SessionsSend(c, p, r) \/ CtrlSend(c, p, r)
      PROVE  Safe'
  <2>1. root[p] \in Run
    BY <1>2 DEF SessionsSend, CtrlSend, Safe, BornOnce, Fresh, TypeOK
  <2>2. PICK n : Start(c, r, p, root[p], c, n)
    BY <1>2 DEF SessionsSend, CtrlSend
  <2> QED BY <1>2, <2>1, <2>2, StartKeeps DEF SessionsSend, CtrlSend
<1>3. ASSUME NEW r \in Run, NEW s, SessionEnds(r, s) PROVE Safe'
  <2> DEFINE t == Marked(runs, r, s)
  <2>1. s \in Terminal
    BY <1>0, <1>3 DEF SessionEnds
  <2>2. /\ t \in [Run -> Stored] /\ \A q \in Run \ {r} : t[q] = runs[q]
        /\ t[r] \notin Active /\ (t[r] = runs[r] \/ runs[r] \in Active)
    BY <1>0, <2>1, MarkedEnds, Statuses
  <2>3. /\ task[r] = "lane" /\ ~cancel[r] /\ Announce(r, t, 0)
        /\ cancel' = cancel /\ UNCHANGED <<lineage, call, history>>
    BY <1>3 DEF SessionEnds
  <2> QED BY <2>2, <2>3, EndKeeps
<1>4. ASSUME NEW r \in Run, KilledHookEnds(r) PROVE Safe'
  <2>1. CASE task[r] = "timeout_hook"
    <3>1. runs[r] \notin Active
      BY <2>1 DEF Safe, OverIsEnded
    <3> QED BY <1>0, <1>4, <2>1, <3>1, EndKeeps DEF KilledHookEnds
  <2>2. CASE task[r] = "cancel_hook"
    BY <1>4, <2>2, HookEndsKeeps
  <2> QED BY <1>4, <2>1, <2>2 DEF KilledHookEnds
<1>5. ASSUME NEW r \in Run, RetryAnnounce(r) PROVE Safe'
  <2>1. runs[r] \notin Active /\ task[r] = "backoff"
    BY <1>5 DEF RetryAnnounce, Safe, OverIsEnded
  <2> QED BY <1>0, <1>5, <2>1, EndKeeps DEF RetryAnnounce
<1>6. CASE UNCHANGED vars
  <2>1. /\ BornOnce' /\ OneLauncher' /\ CallsNameRuns' /\ NeverPending'
        /\ OverIsEnded' /\ CancelHasReason' /\ KillReachesTask'
    BY <1>6 DEF vars, Safe, BornOnce, OneLauncher, CallsNameRuns, NeverPending, OverIsEnded,
                CancelHasReason, KillReachesTask, Fresh, Pending, Working
  <2>2. AccountedFor' /\ ReportIsOutcome' /\ SessionMatchesRun'
    BY <1>6 DEF vars, Safe, AccountedFor, ReportIsOutcome, SessionMatchesRun,
                ActiveRuns, Pending, Working
  <2> QED BY <2>1, <2>2 DEF Safe
<1> QED
  BY <1>1, <1>2, <1>3, <1>4, <1>5, <1>6, LaunchKeeps, SteerKeeps, SpawnFailsKeeps,
     OpenGateKeeps, RunnerStartsKeeps, TimesOutKeeps, ReportedKeeps, DeliveredKeeps,
     KillKeeps, KillNextKeeps, KillMarkKeeps, RestartKeeps, TurnCancelledKeeps
  DEF Next, ToolStep, RunnerStep, Ends

LEMMA InitIInv == Init => TypeOK /\ Safe
<1> SUFFICES ASSUME Init PROVE TypeOK /\ Safe
  OBVIOUS
<1>1. TypeOK
  BY Statuses DEF Init, TypeOK, Idle, Call, Phase
<1>2. /\ BornOnce /\ OneLauncher /\ CallsNameRuns /\ NeverPending
      /\ OverIsEnded /\ CancelHasReason /\ KillReachesTask
  BY Statuses, NoRunAssumption
  DEF Init, Idle, BornOnce, OneLauncher, CallsNameRuns, NeverPending, OverIsEnded,
      CancelHasReason, KillReachesTask, Fresh, Pending, Working
<1>3. AccountedFor /\ ReportIsOutcome /\ SessionMatchesRun
  BY Statuses
  DEF Init, AccountedFor, ReportIsOutcome, SessionMatchesRun, ActiveRuns, Working
<1> QED BY <1>1, <1>2, <1>3 DEF Safe

LEMMA SpecIInv == Spec => [](TypeOK /\ Safe)
<1>1. TypeOK /\ Safe /\ [Next]_vars => (TypeOK /\ Safe)'
  BY TypeOKNext, SafeNext DEF Safe
<1> QED BY InitIInv, <1>1, PTL DEF Spec

-----------------------------------------------------------------------------
(***************************************************************************)
(* Theorems.                                                               *)
(***************************************************************************)

\* Every variable of the tools and the session tasks keeps its type.
THEOREM SessionsTypeCorrect == Spec => []TypeOK
BY SpecIInv, PTL

\* Whichever tools spawn, follow up, kill and steer sessions of a conversation
\* at once, an active run always has somebody bound to end it, but for the runs
\* whose tool call was abandoned.
THEOREM ActiveRunsAccountedFor == Spec => []AccountedFor
<1>1. Safe => AccountedFor
  BY DEF Safe
<1> QED BY SpecIInv, <1>1, PTL

\* What runner_finalize announces and reports is the outcome the registry keeps.
THEOREM ReportsAreOutcomes == Spec => []ReportIsOutcome
<1>1. Safe => ReportIsOutcome
  BY DEF Safe
<1> QED BY SpecIInv, <1>1, PTL

\* A session task works only for an active run or for one whose cancellation is
\* on its way to the task, unless the run ended before its task existed.
THEOREM SessionsMatchRuns == Spec => []SessionMatchesRun
<1>1. Safe => SessionMatchesRun
  BY DEF Safe
<1> QED BY SpecIInv, <1>1, PTL
=============================================================================
