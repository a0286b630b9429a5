-------------------------- MODULE SandboxLifecycle --------------------------
(***************************************************************************)
(* The sandbox of one project: a row of project_sandboxes, Docker          *)
(* containers labelled with the project, and what each process remembers.  *)
(*                                                                         *)
(*   - ProjectSandboxLifecycleService: get_or_create, terminate, restart,  *)
(*     health check, status sync, sync-and-repair;                         *)
(*   - SandboxIdleReaper: one candidate of a sweep;                        *)
(*   - SqlProjectSandboxRepository: save, find_by_project, delete and the  *)
(*     advisory lock; RedisDistributedLock: the lock of the API servers;   *)
(*   - MCPSandboxAdapter: create, terminate, clean up, look up.            *)
(*                                                                         *)
(* Every database statement and every Docker call that changes something   *)
(* is a step of its own; the lookup of a container to adopt is one step    *)
(* with the check that it runs.  A call works on the copy of the row it    *)
(* read (mine), and its save writes that copy, or the columns in which it  *)
(* differs from what the session loaded.  The service object, and with it  *)
(* the dictionary of asyncio.Locks it keeps, is built anew for each        *)
(* request, so these locks exclude nobody and are not modelled.            *)
(***************************************************************************)
EXTENDS Integers, FiniteSets

CONSTANTS Caller,    \* tasks that run one service call at a time
          Process,   \* server and worker processes
          Home,      \* the process of each caller
          Redis,     \* requests to API servers, which have a Redis lock; the
                     \* other callers are agent workers, which use PostgreSQL's
          Keeper,    \* bound: requests that may be other than get_or_create
          MaxBorn,   \* bound: sandbox rows ever inserted
          MaxCalls,  \* bound: calls in progress at a time
          MaxFaults, \* bound: terminate and restart calls, sandboxes reaped,
                     \* containers lost, Docker and Redis calls failed, leases
                     \* lost, processes crashed
          NoRow, Free, Lost

Ops == {"get", "terminate", "restart", "reap", "sync", "health", "repair"}

ASSUME HomeAssumption == Home \in [Caller -> Process] /\ Redis \subseteq Caller
                                               /\ Keeper \subseteq Redis
ASSUME BoundAssumption == MaxBorn \in Nat \ {0} /\ MaxCalls \in Nat \ {0} /\ MaxFaults \in Nat
ASSUME MarkAssumption == Free \notin Caller /\ Lost \notin Caller /\ Free # Lost

VARIABLES
  row,     \* the project's row, or NoRow
  born,    \* how many rows have been inserted
  docker,  \* the state of each container
  tracked, \* MCPSandboxAdapter._active_sandboxes of each process
  lock,    \* who holds sandbox:create:<project> in Redis, in PostgreSQL
  call,    \* what each caller is doing
  loaded,  \* the row as each caller's session last read or wrote it
  faults,  \* how many of these have happened
  alone,   \* history: the call that nobody has interrupted since it began
  stirred  \* history: something happened that get_or_create's lock cannot see

vars == <<row, born, docker, tracked, lock, call, loaded, faults, alone, stirred>>

(***************************************************************************)
(* Row n is inserted with the placeholder id proj-sb-..., here -n; the     *)
(* container created for it is named n.  0: not inserted yet.  No call     *)
(* treats an ERROR row and a TERMINATED one differently: both are "down".  *)
(***************************************************************************)
Name   == (-MaxBorn .. MaxBorn) \ {0}
Status == {"creating", "running", "down"}
Row    == [id : 1 .. MaxBorn, box : Name, status : Status]
Draft  == [id : {0}, box : -MaxBorn .. MaxBorn, status : Status]

ASSUME NoRowAssumption == NoRow \notin Row \cup Draft

Pc == {"rest", "lock", "missed", "find", "exists", "adopt", "insert", "run",
       "save", "terminate", "sweep", "delete", "release", "conflict"}

Call == [op : Ops \cup {"none"}, pc : Pc, mine : Row \cup Draft \cup {NoRow}]

Rest == [op |-> "none", pc |-> "rest", mine |-> NoRow]

Family(c) == IF c \in Redis THEN "redis" ELSE "advisory"

Running == {n \in Name : docker[n] = "running"}
Present == {n \in Name : docker[n] # "none"}

At(c, op, pc) == call[c].op = op /\ call[c].pc = pc

\* the calls between their lock and their last Docker call
Inside(c) ==
  /\ call[c].op = "get"
  /\ call[c].pc \in {"find", "exists", "adopt", "terminate", "sweep", "delete", "insert", "run"}

Goto(c, pc) == call' = [call EXCEPT ![c].pc = pc] /\ UNCHANGED loaded

GotoWith(c, pc, r) ==
  call' = [call EXCEPT ![c].pc = pc, ![c].mine = r] /\ UNCHANGED loaded

\* the session has read r, or has just written it
Load(c, pc, r) ==
  /\ call' = [call EXCEPT ![c].pc = pc, ![c].mine = r]
  /\ loaded' = [loaded EXCEPT ![c] = r]

Unload(c) == loaded' = [loaded EXCEPT ![c] = NoRow]

\* mutant: an early return outside the try block keeps the lock
LeaveQuietly(c) == call' = [call EXCEPT ![c] = Rest] /\ Unload(c)

\* a call that holds, or asked for, the lock leaves through its finally clause
Leave(c) ==
  /\ call' = [call EXCEPT ![c] =
               IF @.op = "get" THEN [Rest EXCEPT !.op = "get", !.pc = "release"] ELSE Rest]
  /\ Unload(c)

\* sync_and_repair_sandbox goes on as get_or_create_sandbox
BecomeGet(c) ==
  call' = [call EXCEPT ![c] = [Rest EXCEPT !.op = "get", !.pc = "lock"]] /\ Unload(c)

\* the call's own step: it stays uninterrupted, the others' calls do not
Own(c) == alone' = (IF alone = c THEN c ELSE Free) /\ UNCHANGED <<faults, stirred>>

Interrupt == alone' = Free /\ UNCHANGED <<faults, stirred>>

CountFault == faults < MaxFaults /\ faults' = faults + 1 /\ alone' = Free

Stir == CountFault /\ stirred' = TRUE

Blip == CountFault /\ UNCHANGED stirred

\* get_sandbox: memory follows Docker, except for a container that has exited
Seen(p, n) ==
  tracked' = [tracked EXCEPT ![p] = IF docker[n] = "running" THEN @ \cup {n}
                                    ELSE IF docker[n] = "none" THEN @ \ {n}
                                    ELSE @]

Init ==
  /\ row = NoRow
  /\ born = 0
  /\ docker = [n \in Name |-> "none"]
  /\ tracked = [p \in Process |-> {}]
  /\ lock = [f \in {"redis", "advisory"} |-> Free]
  /\ call = [c \in Caller |-> Rest]
  /\ loaded = [c \in Caller |-> NoRow]
  /\ faults = 0
  /\ alone = Free
  /\ stirred = FALSE

-----------------------------------------------------------------------------
(* A request, an agent start, the reaper's timer.                          *)

Idle(c) == call[c] = Rest /\ Cardinality({d \in Caller : call[d] # Rest}) < MaxCalls

Begin(c) ==
  /\ Idle(c) /\ c \in Redis
  /\ BecomeGet(c)
  /\ alone' = c
  /\ UNCHANGED <<row, born, docker, tracked, lock, faults, stirred>>

(***************************************************************************)
(* An agent worker asks for a sandbox only to replace the one in the row,  *)
(* once neither it nor any other container of the project is running.      *)
(***************************************************************************)
RecoverExistingProjectSandbox(c) ==
  /\ Idle(c) /\ c \notin Redis
  /\ row # NoRow
  /\ Running = {}
  /\ tracked' = [tracked EXCEPT ![Home[c]] = @ \ {row.box}]
  /\ BecomeGet(c)
  /\ alone' = c
  /\ UNCHANGED <<row, born, docker, lock, faults, stirred>>

-----------------------------------------------------------------------------
(* The distributed lock of get_or_create_sandbox.  What neither lock can   *)
(* see is recorded as stirred: a call that enters beside another although  *)
(* not both of them hold the Redis lock.                                   *)

Beside(c) == \E d \in Caller \ {c} : Inside(d) /\ ~(c \in Redis /\ d \in Redis)

\* mutant: SET without NX takes the lock from its holder
AcquireAnyway(c) ==
  /\ call[c].pc = "lock"
  /\ lock' = [lock EXCEPT ![Family(c)] = c]
  /\ Goto(c, "find")
  /\ alone' = (IF alone = c THEN c ELSE Free)
  /\ stirred' = (stirred \/ Beside(c))
  /\ UNCHANGED <<row, born, docker, tracked, faults>>

Acquire(c) ==
  /\ call[c].pc = "lock"
  /\ lock[Family(c)] = Free
  /\ lock' = [lock EXCEPT ![Family(c)] = c]
  /\ Goto(c, "find")
  /\ alone' = (IF alone = c THEN c ELSE Free)
  /\ stirred' = (stirred \/ Beside(c))
  /\ UNCHANGED <<row, born, docker, tracked, faults>>

\* the lock is held for too long, an advisory one perhaps by a connection that
\* lies in a pool; a Redis error, after which the key may have been set all the
\* same, counts as held too
AcquireTimesOut(c) ==
  /\ call[c].pc = "lock"
  /\ \/ (lock[Family(c)] # Free \/ c \notin Redis) /\ UNCHANGED lock /\ Interrupt
     \/ c \in Redis /\ UNCHANGED lock /\ Blip
     \/ lock["redis"] = Free /\ c \in Redis /\ lock' = [lock EXCEPT !["redis"] = Lost] /\ Blip
  /\ Goto(c, "missed")
  /\ UNCHANGED <<row, born, docker, tracked>>

HandleLockNotAcquired(c) ==
  /\ call[c].pc = "missed"
  /\ IF row # NoRow /\ row.status = "running"
     THEN Load(c, "save", row)
     ELSE Goto(c, "conflict")
  /\ Own(c)
  /\ UNCHANGED <<row, born, docker, tracked, lock>>

(***************************************************************************)
(* The advisory lock belongs to a database connection, which the session   *)
(* hands back whenever its transaction ends.  Closed (NullPool), the       *)
(* connection frees the lock.  In a pool it keeps it, for whichever session*)
(* checks it out next, and refuses it to the others.  Which of the two is  *)
(* the case is left open: either way the caller has it no longer, another  *)
(* may be granted it, and another may find it taken (AcquireTimesOut).     *)
(***************************************************************************)
EndTransaction(c) ==
  lock' = [lock EXCEPT !["advisory"] = IF @ = c THEN Free ELSE @]

(***************************************************************************)
(* The finally clause, and the retry of get_or_create_sandbox after a      *)
(* conflict; when the last of max_retries has been used is left open.  Only*)
(* the owner's token deletes the Redis key, and an error leaves it to its  *)
(* TTL.  release_project_lock rolls back first, and so hands back the      *)
(* connection that it means to unlock.                                     *)
(***************************************************************************)
Release(c) ==
  /\ call[c].pc \in {"release", "conflict"}
  /\ \/ c \notin Redis /\ EndTransaction(c) /\ Interrupt
     \/ /\ c \in Redis
        /\ lock' = [lock EXCEPT !["redis"] = IF @ = c THEN Free ELSE @]
        /\ Interrupt
     \/ lock["redis"] = c /\ lock' = [lock EXCEPT !["redis"] = Lost] /\ Blip
  /\ \/ call' = [call EXCEPT ![c] = Rest] /\ Unload(c)
     \/ call[c].pc = "conflict" /\ BecomeGet(c)
  /\ UNCHANGED <<row, born, docker, tracked>>

-----------------------------------------------------------------------------
(* find_by_project, find_stale: the first read of each operation.  An      *)
(* operation that finds no row ends there.                                 *)

FindExisting(c) ==
  /\ call[c].pc = "find"
  /\ Load(c, IF row # NoRow /\ row.status \in {"running", "creating"}
             THEN "exists" ELSE "adopt", row)
  /\ Own(c)
  /\ UNCHANGED <<row, born, docker, tracked, lock>>

Start(c, op, pc) ==
  /\ Idle(c) /\ c \in Keeper
  /\ row # NoRow
  /\ call' = [call EXCEPT ![c].op = op, ![c].pc = pc, ![c].mine = row]
  /\ loaded' = [loaded EXCEPT ![c] = row]
  /\ UNCHANGED <<row, born, docker, tracked, lock>>

FindToReplace(c) ==
  /\ Start(c, "terminate", "terminate") \/ Start(c, "restart", "terminate")
  /\ Stir

FindToCheck(c) ==
  /\ \E op \in {"sync", "health", "repair"} : Start(c, op, "exists")
  /\ Interrupt

\* sync_and_repair_sandbox without a row is get_or_create_sandbox: Begin

(***************************************************************************)
(* Whether the row has been idle for too long is left open.  A stale row   *)
(* is spared, and touched, when this process has just used the sandbox.    *)
(***************************************************************************)
FindStale(c) ==
  /\ row # NoRow /\ row.status \in {"running", "creating"}
  /\ \/ Start(c, "reap", "terminate") /\ Blip
     \/ Start(c, "reap", "save") /\ row.box \in tracked[Home[c]] /\ Interrupt

-----------------------------------------------------------------------------
(* container_exists, get_sandbox, health_check.                            *)

\* mutant: a RUNNING row is believed without asking Docker
CheckContainerTrusting(c) ==
  /\ At(c, "get", "exists")
  /\ IF call[c].mine.status = "running"
     THEN Goto(c, "save") /\ UNCHANGED tracked
     ELSE IF docker[call[c].mine.box] # "running"
          THEN Goto(c, "adopt") /\ UNCHANGED tracked
          ELSE Leave(c) /\ Seen(Home[c], call[c].mine.box)
  /\ Own(c)
  /\ UNCHANGED <<row, born, docker, lock>>

\* container_exists: a Docker error counts as absence, an executor that is
\* being shut down as presence
ContainerExists(c, n, answer) ==
  \/ (answer <=> docker[n] = "running") /\ Own(c)
  \/ ~(answer <=> docker[n] = "running") /\ Blip

CheckContainer(c) ==
  /\ At(c, "get", "exists")
  /\ LET mine == call[c].mine IN
     \E up \in BOOLEAN :
       /\ ContainerExists(c, mine.box, up)
       /\ IF ~up
          THEN Goto(c, "adopt") /\ UNCHANGED tracked
          ELSE IF mine.status = "running"
               THEN Goto(c, "save") /\ UNCHANGED tracked
               ELSE Leave(c) /\ Seen(Home[c], mine.box)
  /\ UNCHANGED <<row, born, docker, lock>>

CheckRepair(c) ==
  /\ At(c, "repair", "exists")
  /\ LET mine == call[c].mine IN
     \E up \in BOOLEAN :
       /\ ContainerExists(c, mine.box, up)
       /\ IF ~up
          THEN Goto(c, "adopt") /\ UNCHANGED tracked
          ELSE IF mine.status = "running"
               THEN Leave(c) /\ Seen(Home[c], mine.box)
               ELSE GotoWith(c, "save", [mine EXCEPT !.status = "running"])
                    /\ UNCHANGED tracked
  /\ UNCHANGED <<row, born, docker, lock>>

SyncStatus(c) ==
  /\ At(c, "sync", "exists")
  /\ LET mine   == call[c].mine
         exited == docker[mine.box] = "exited" /\ mine.box \in tracked[Home[c]]
     IN IF docker[mine.box] = "running"
        THEN GotoWith(c, "save", [mine EXCEPT !.status = "running"])
        ELSE IF exited
        THEN GotoWith(c, "save", [mine EXCEPT !.status = "down"])
        ELSE IF mine.status = "down"
        THEN Leave(c)
        ELSE GotoWith(c, "save", [mine EXCEPT !.status = "down"])
  /\ Seen(Home[c], call[c].mine.box)
  /\ Own(c)
  /\ UNCHANGED <<row, born, docker, lock>>

\* only a container this process tracks can be healthy; MCP may not answer
HealthCheck(c) ==
  /\ At(c, "health", "exists")
  /\ \E ok \in BOOLEAN :
       LET mine == call[c].mine IN
       /\ ok => /\ mine.box \in tracked[Home[c]]
                /\ docker[mine.box] = "running"
       /\ GotoWith(c, "save", [mine EXCEPT !.status = IF ok THEN "running" ELSE "down"])
  /\ Own(c)
  /\ UNCHANGED <<row, born, docker, tracked, lock>>

-----------------------------------------------------------------------------
(* _adopt_running_project_sandbox: memory is asked first, and what it names*)
(* is believed to be the project's sandbox even when it is gone.  A lookup *)
(* or a check that fails finds nothing.                                    *)

Candidates(p) == IF tracked[p] # {} THEN tracked[p] ELSE Running

Adopt(c) ==
  /\ call[c].pc = "adopt"
  /\ \E n \in Candidates(Home[c]) \cap Running :
       LET mine == call[c].mine IN
       IF mine = NoRow
       THEN GotoWith(c, "insert", [id |-> 0, box |-> n, status |-> "running"])
       ELSE GotoWith(c, "save", [mine EXCEPT !.box = n, !.status = "running"])
  /\ Own(c)
  /\ UNCHANGED <<row, born, docker, tracked, lock>>

NothingToAdopt(c) ==
  /\ call[c].pc = "adopt"
  /\ \/ Candidates(Home[c]) = {} /\ Own(c)
     \/ \E n \in Candidates(Home[c]) : n \notin Running /\ Own(c)
     \/ Blip
  /\ CASE call[c].op = "repair" -> BecomeGet(c)
       [] call[c].op = "get" /\ call[c].mine = NoRow ->
            GotoWith(c, "insert", [id |-> 0, box |-> 0, status |-> "creating"])
       [] OTHER -> Goto(c, "terminate")
  /\ UNCHANGED <<row, born, docker, tracked, lock>>

-----------------------------------------------------------------------------
(* Writes, each of which ends the transaction.  An INSERT fails on         *)
(* project_id's unique constraint; the retry that follows needs the        *)
(* rollback which only the advisory lock's acquisition performs.  What a   *)
(* save does depends on whether the session still has the object it loaded *)
(* (it keeps weak references).  If so, the changed columns are updated,    *)
(* and a row that is gone raises.  If not, it reads the row again, writes  *)
(* the call's copy over it, and inserts that copy where no row is left.    *)

\* mutant: the row is committed before its id is assigned
InsertUnnamed(c) ==
  /\ call[c].pc = "insert"
  /\ row = NoRow /\ born < MaxBorn
  /\ born' = born + 1
  /\ row' = call[c].mine
  /\ Leave(c)
  /\ EndTransaction(c)
  /\ Own(c)
  /\ UNCHANGED <<docker, tracked>>

Insert(c) ==
  /\ call[c].pc = "insert"
  /\ IF row # NoRow
     THEN /\ IF c \in Redis THEN Leave(c) ELSE Goto(c, "conflict")
          /\ UNCHANGED <<row, born, tracked>>
     ELSE /\ born < MaxBorn
          /\ born' = born + 1
          /\ LET draft == call[c].mine
                 new   == [draft EXCEPT !.id = born + 1,
                             !.box = IF @ = 0 THEN -(born + 1) ELSE @]
             IN /\ row' = new
                /\ IF draft.status = "creating"
                   THEN Load(c, "run", new) /\ UNCHANGED tracked
                   ELSE Leave(c) /\ Seen(Home[c], new.box)
  /\ EndTransaction(c)
  /\ Own(c)
  /\ UNCHANGED docker

\* the row after the columns that the call has changed are written to it
Written(c) ==
  LET mine == call[c].mine IN
  [row EXCEPT !.box    = IF mine.box = loaded[c].box THEN @ ELSE mine.box,
              !.status = IF mine.status = loaded[c].status THEN @ ELSE mine.status]

Save(c) ==
  /\ call[c].pc = "save"
  /\ LET mine  == call[c].mine
         op    == call[c].op
         found == row # NoRow /\ row.id = mine.id
     IN \/ /\ \/ found /\ row' \in {mine, Written(c)}
              \/ row = NoRow /\ row' = mine
           /\ CASE op = "restart" /\ mine.status = "creating" -> Load(c, "run", mine)
                [] op = "terminate" -> Load(c, "delete", mine)
                [] OTHER -> Leave(c)
           /\ IF mine.status = "running" /\ op \notin {"health", "reap"}
              THEN Seen(Home[c], mine.box) ELSE UNCHANGED tracked
        \/ /\ ~found
           /\ \/ Leave(c)
              \/ /\ row # NoRow /\ op = "get" /\ c \notin Redis
                 /\ GotoWith(c, "conflict", NoRow)
           /\ UNCHANGED <<row, tracked>>
  /\ EndTransaction(c)
  /\ Own(c)
  /\ UNCHANGED <<born, docker>>

Delete(c) ==
  /\ call[c].pc = "delete"
  /\ IF row # NoRow /\ row.id = call[c].mine.id
     THEN row' = NoRow /\ EndTransaction(c)
     ELSE UNCHANGED row /\ (EndTransaction(c) \/ UNCHANGED lock)
  /\ IF call[c].op = "get" THEN Load(c, "adopt", NoRow) ELSE Leave(c)
  /\ Own(c)
  /\ UNCHANGED <<born, docker, tracked>>

-----------------------------------------------------------------------------
(* Docker.  A failing removal is logged and the call goes on: the process  *)
(* forgets the container all the same.  While another call of the process  *)
(* is at removing the container, nothing is done.                          *)

TerminateSandbox(c) ==
  /\ call[c].pc = "terminate"
  /\ LET mine == call[c].mine
         busy == \E d \in Caller \ {c} : /\ Home[d] = Home[c]
                                        /\ call[d].pc = "terminate"
                                        /\ call[d].mine.box = mine.box
     IN
     /\ \/ /\ docker' = [docker EXCEPT ![mine.box] = "none"] /\ Own(c)
           /\ tracked' = [tracked EXCEPT ![Home[c]] = @ \ {mine.box}]
        \/ /\ UNCHANGED docker /\ Stir
           /\ tracked' = [tracked EXCEPT ![Home[c]] = @ \ {mine.box}]
        \/ busy /\ UNCHANGED <<docker, tracked>> /\ Own(c)
     /\ IF call[c].op \in {"terminate", "reap"}
        THEN GotoWith(c, "save", [mine EXCEPT !.status = "down"])
        ELSE Goto(c, "sweep")
  /\ UNCHANGED <<row, born, lock>>

CleanupProjectContainers(c) ==
  /\ call[c].pc = "sweep"
  /\ \/ docker' = [n \in Name |-> "none"] /\ Own(c)
     \/ UNCHANGED docker /\ Stir
  /\ tracked' = [tracked EXCEPT ![Home[c]] = @ \ Present]
  /\ IF call[c].op = "get" THEN Goto(c, "delete")
     ELSE GotoWith(c, "save", [call[c].mine EXCEPT !.status = "creating"])
  /\ UNCHANGED <<row, born, lock>>

\* restart reuses the sandbox id as container name
NewName(c) == IF call[c].op = "restart" THEN call[c].mine.box ELSE call[c].mine.id

CreateSandbox(c) ==
  /\ call[c].pc = "run"
  /\ docker[NewName(c)] = "none"
  /\ docker' = [docker EXCEPT ![NewName(c)] = "running"]
  /\ tracked' = [tracked EXCEPT ![Home[c]] = @ \cup {NewName(c)}]
  /\ GotoWith(c, "save", [call[c].mine EXCEPT !.box = NewName(c), !.status = "running"])
  /\ Own(c)
  /\ UNCHANGED <<row, born, lock>>

\* a taken name, or any failure: whatever bears the name is removed
CreateFails(c) ==
  /\ call[c].pc = "run"
  /\ docker' = [docker EXCEPT ![NewName(c)] = "none"]
  /\ GotoWith(c, "save", [call[c].mine EXCEPT !.status = "down"])
  /\ Stir
  /\ UNCHANGED <<row, born, tracked, lock>>

-----------------------------------------------------------------------------
(* The world around: containers die or are removed, time passes, adapters  *)
(* re-read Docker, leases and connections run out, processes die.          *)

ContainerDies(n) ==
  /\ docker[n] # "none"
  /\ \E s \in {"exited", "none"} \ {docker[n]} : docker' = [docker EXCEPT ![n] = s]
  /\ Blip
  /\ UNCHANGED <<row, born, tracked, lock, call, loaded>>

SyncFromDocker(p) ==
  /\ tracked' = [tracked EXCEPT ![p] = @ \cup Running]
  /\ Interrupt
  /\ UNCHANGED <<row, born, docker, lock, call, loaded>>

\* nobody answers for this key any more: its TTL ends
LostLockEnds ==
  /\ lock["redis"] = Lost
  /\ lock' = [lock EXCEPT !["redis"] = Free]
  /\ Interrupt
  /\ UNCHANGED <<row, born, docker, tracked, call, loaded>>

\* the holder needs more than the 120 s TTL, which nobody extends
LockExpires ==
  /\ lock["redis"] \in Caller
  /\ lock' = [lock EXCEPT !["redis"] = Free]
  /\ Stir
  /\ UNCHANGED <<row, born, docker, tracked, call, loaded>>

\* PostgreSQL frees the advisory lock with the connection, Redis keeps the key
Crash(p) ==
  /\ call' = [c \in Caller |-> IF Home[c] = p THEN Rest ELSE call[c]]
  /\ loaded' = [c \in Caller |-> IF Home[c] = p THEN NoRow ELSE loaded[c]]
  /\ tracked' = [tracked EXCEPT ![p] = {}]
  /\ lock' = [f \in {"redis", "advisory"} |->
                IF lock[f] \in Caller /\ Home[lock[f]] = p
                THEN IF f = "redis" THEN Lost ELSE Free
                ELSE lock[f]]
  /\ Stir
  /\ UNCHANGED <<row, born, docker>>

-----------------------------------------------------------------------------
Find(c) == FindExisting(c) \/ FindToReplace(c) \/ FindToCheck(c) \/ FindStale(c)

Check(c) == CheckContainer(c) \/ CheckRepair(c) \/ SyncStatus(c) \/ HealthCheck(c)

Step(c) ==
  \/ Acquire(c) \/ AcquireTimesOut(c) \/ HandleLockNotAcquired(c) \/ Release(c)
  \/ Find(c) \/ Check(c) \/ Adopt(c) \/ NothingToAdopt(c)
  \/ Insert(c) \/ Save(c) \/ Delete(c)
  \/ TerminateSandbox(c) \/ CleanupProjectContainers(c)
  \/ CreateSandbox(c) \/ CreateFails(c)

Next ==
  \/ \E c \in Caller : Begin(c) \/ RecoverExistingProjectSandbox(c) \/ Step(c)
  \/ \E n \in Name : ContainerDies(n)
  \/ \E p \in Process : SyncFromDocker(p) \/ Crash(p)
  \/ LostLockEnds \/ LockExpires

Spec == Init /\ [][Next]_vars

-----------------------------------------------------------------------------
\* every variable holds values of the kind its declaration says
TypeOK ==
  /\ row \in Row \cup {NoRow}
  /\ born \in 0 .. MaxBorn
  /\ docker \in [Name -> {"none", "running", "exited"}]
  /\ tracked \in [Process -> SUBSET Name]
  /\ lock \in [{"redis", "advisory"} -> Caller \cup {Free, Lost}]
  /\ call \in [Caller -> Call]
  /\ loaded \in [Caller -> Row \cup {NoRow}]
  /\ faults \in 0 .. MaxFaults
  /\ alone \in Caller \cup {Free}
  /\ stirred \in BOOLEAN

(***************************************************************************)
(* One sandbox per project: however the get_or_create calls of the API     *)
(* servers, repairs, health checks, status syncs and the reaper interleave,*)
(* and whichever processes remember containers that are gone, no second    *)
(* container is started next to a running one.  The Redis lock earns this  *)
(* alone: it is not claimed once a call has entered beside one of an agent *)
(* worker, whose advisory lock excludes no Redis holder and is given up    *)
(* with the first commit; once terminate or restart, which take no lock,   *)
(* were called; or once a lease ran out, Docker failed or a process died.  *)
(***************************************************************************)
OneSandbox == ~stirred => Cardinality(Running) <= 1

(***************************************************************************)
(* get_or_create heals: whatever races, crashes and failures have left     *)
(* behind, a call that nobody interrupts ends with a row that names a      *)
(* running container.                                                      *)
(***************************************************************************)
Heals ==
  \A c \in Caller :
    alone = c /\ call[c].pc = "release" =>
      /\ row # NoRow
      /\ row.status \in {"running", "creating"}
      /\ docker[row.box] = "running"

(***************************************************************************)
(* Every path out of get_or_create passes the finally clause: a lock that  *)
(* names a caller is held for a call that is still under way and will      *)
(* release it, through conflicts, retries, crashes and expired leases.     *)
(***************************************************************************)
LockIsReleased ==
  \A f \in {"redis", "advisory"}, c \in Caller :
    lock[f] = c => /\ f = Family(c)
                   /\ call[c].op = "get"
                   /\ call[c].pc \notin {"lock", "missed"}

=============================================================================
