------------------------------ MODULE RunRegistry ------------------------------
(***************************************************************************)
(* SubAgentRunRegistry: the table of delegated sub-agent runs that every   *)
(* process of the deployment keeps in memory and synchronises through one  *)
(* persisted snapshot.  Each call takes a file lock, loads the whole       *)
(* snapshot, changes one run, evicts, and writes the whole snapshot back:  *)
(*                                                                         *)
(*   db     the snapshot in the JSON file, SQLite or PostgreSQL row        *)
(*   written  whether that snapshot was ever stored                        *)
(*   cache  its copy in Redis, when HybridSubAgentRunRepository is used    *)
(*   mem    the _runs_by_conversation of each process                      *)
(*   job    the call each process has in progress                          *)
(*   up     the processes whose registry is constructed                    *)
(*   owner  the process that created, and executes, a run                  *)
(*   told   what the caller of the last successful transition was told     *)
(*                                                                         *)
(* The runs of one conversation are modelled; buckets of conversations     *)
(* share nothing but the snapshot they are written in.                     *)
(***************************************************************************)
EXTENDS Naturals, FiniteSets

CONSTANTS
  Process,     \* processes that use the registry
  Run,         \* run ids
  MaxRuns,     \* max_runs_per_conversation
  Mark,        \* the statuses whose mark_* method is called
  Backend,     \* "json" file, "db" (SQLite or PostgreSQL), or "hybrid" (db + Redis)
  SharedLock,  \* one lock file for all: the processes share a machine
  Fault,       \* the failures this instance may meet
  NoCache,     \* nothing cached, or expired
  Fresh,       \* owner of a run not created yet
  Gone,        \* owner of a run whose process died
  NoRun        \* no run in particular: a query or a boot

Faults == {"crash", "load", "save", "cache_read", "cache_write"}

ASSUME MaxRunsAssumption == MaxRuns \in Nat \ {0}
ASSUME MarkAssumption ==
  Mark \subseteq {"running", "completed", "failed", "cancelled", "timed_out"}
ASSUME BackendAssumption == Backend \in {"json", "db", "hybrid"}
ASSUME LockAssumption == SharedLock \in BOOLEAN
ASSUME RegistryFaultAssumption == Fault \subseteq Faults
ASSUME NamesAssumption ==
  Fresh # Gone /\ {Fresh, Gone} \cap Process = {} /\ NoRun \notin Run

VARIABLES db, written, cache, mem, job, up, owner, told

vars == <<db, written, cache, mem, job, up, owner, told>>

Ledger == INSTANCE RunLedger WITH runs <- db

Active == Ledger!Active
Terminal == Ledger!Terminal
Stored == Ledger!Stored

Snapshot == [Run -> Stored]
Empty == [r \in Run |-> "absent"]

ASSUME NoCacheAssumption == NoCache \notin Snapshot

\* kind: create_run; mark_* and attach_metadata/set_trace_context ("touch");
\* a query; the constructor.  exp are the statuses the call accepts.
Call == [kind : {"create", "mark", "touch", "query", "boot"}, run : Run \cup {NoRun},
         to : Stored, exp : SUBSET Stored]

Job == [pc : {"idle", "load", "fill", "save", "save_cache"}, call : Call]

TypeOK ==
  /\ db \in Snapshot
  /\ written \in BOOLEAN
  /\ cache \in Snapshot \cup {NoCache}
  /\ mem \in [Process -> Snapshot]
  /\ job \in [Process -> Job]
  /\ up \in [Process -> BOOLEAN]
  /\ owner \in [Run -> Process \cup {Fresh, Gone}]
  /\ told \in Snapshot

NoCall == [kind |-> "query", run |-> NoRun, to |-> "absent", exp |-> {}]
Idle == [pc |-> "idle", call |-> NoCall]

\* Every process has constructed its registry over an empty store.
Init ==
  /\ db = Empty
  /\ written = FALSE
  /\ cache = NoCache
  /\ mem = [p \in Process |-> Empty]
  /\ job = [p \in Process |-> Idle]
  /\ up = [p \in Process |-> TRUE]
  /\ owner = [r \in Run |-> Fresh]
  /\ told = Empty

-----------------------------------------------------------------------------
\* Mutant: the lock of a query is taken for every call.
FreeShared(p, kind) == TRUE

\* _with_registry_lock: flock on a file of the process's own machine, shared
\* for queries.
Free(p, kind) ==
  SharedLock => \A q \in Process \ {p} :
                  \/ job[q].pc = "idle"
                  \/ kind = "query" /\ job[q].call.kind = "query"

Begin(p, call) ==
  /\ job[p].pc = "idle"
  /\ Free(p, call.kind)
  /\ job' = [job EXCEPT ![p] = [pc |-> "load", call |-> call]]

\* create_run, with a run id of its own.
CreateRun(p, r) ==
  /\ up[p] /\ owner[r] = Fresh
  /\ Begin(p, [kind |-> "create", run |-> r, to |-> "pending", exp |-> {}])
  /\ owner' = [owner EXCEPT ![r] = p]
  /\ UNCHANGED <<db, written, cache, mem, up, told>>

\* mark_running, mark_completed, mark_failed, mark_cancelled, mark_timed_out:
\* the mutator's own condition, possibly narrowed by expected_statuses.
MarkRun(p, r, s) ==
  /\ up[p] /\ owner[r] # Fresh
  /\ \E exp \in SUBSET Ledger!From(s) \ {{}} :
       Begin(p, [kind |-> "mark", run |-> r, to |-> s, exp |-> exp])
  /\ UNCHANGED <<db, written, cache, mem, up, owner, told>>

\* attach_metadata, set_trace_context: a write that moves no status.
TouchRun(p, r) ==
  /\ up[p] /\ owner[r] # Fresh
  /\ \E exp \in {Active \cup Terminal, {"pending"}} :
       Begin(p, [kind |-> "touch", run |-> r, to |-> "absent", exp |-> exp])
  /\ UNCHANGED <<db, written, cache, mem, up, owner, told>>

\* get_run, list_*, count_*: a synchronisation under the shared lock.
QueryRuns(p) ==
  /\ up[p]
  /\ Begin(p, NoCall)
  /\ UNCHANGED <<db, written, cache, mem, up, owner, told>>

\* A process (re)starts and constructs its registry.
BootRegistry(p) ==
  /\ ~up[p]
  /\ Begin(p, [NoCall EXCEPT !.kind = "boot"])
  /\ UNCHANGED <<db, written, cache, mem, up, owner, told>>

-----------------------------------------------------------------------------
\* The end of a call; told is what its return value says.
Return(p, tell) ==
  /\ job' = [job EXCEPT ![p] = Idle]
  /\ up' = [up EXCEPT ![p] = TRUE]
  /\ told' = IF tell THEN [told EXCEPT ![job[p].call.run] = job[p].call.to]
                     ELSE told

\* What the database gives: a failing load is an empty table, whereas a JSON
\* file that is missing or unreadable leaves the process's table alone.
Loaded(p) ==
  IF Backend = "json"
  THEN (IF written THEN {db} ELSE {mem[p]})
         \cup (IF "load" \in Fault THEN {mem[p]} ELSE {})
  ELSE {db} \cup (IF "load" \in Fault THEN {Empty} ELSE {})

Proceed(p) ==
  IF job[p].call.kind = "query" THEN Return(p, FALSE)
  ELSE /\ job' = [job EXCEPT ![p].pc = "save"]
       /\ UNCHANGED <<up, told>>

\* load_runs of the cache: a hit is taken for the snapshot.
LoadCached(p) ==
  /\ job[p].pc = "load" /\ Backend = "hybrid" /\ cache # NoCache
  /\ mem' = [mem EXCEPT ![p] = cache]
  /\ Proceed(p)
  /\ UNCHANGED <<db, written, cache, owner>>

\* load_runs of the database, in the hybrid repository after a cache miss.
LoadRuns(p) ==
  /\ job[p].pc = "load"
  /\ Backend = "hybrid" => cache = NoCache \/ "cache_read" \in Fault
  /\ \E s \in Loaded(p) : mem' = [mem EXCEPT ![p] = s]
  /\ IF Backend = "hybrid"
     THEN job' = [job EXCEPT ![p].pc = "fill"] /\ UNCHANGED <<up, told>>
     ELSE Proceed(p)
  /\ UNCHANGED <<db, written, cache, owner>>

Cached(s) == {s} \cup (IF "cache_write" \in Fault THEN {cache} ELSE {})

\* The cache is filled with what the database gave.
FillCache(p) ==
  /\ job[p].pc = "fill"
  /\ cache' \in Cached(mem[p])
  /\ Proceed(p)
  /\ UNCHANGED <<db, written, mem, owner>>

\* Mutant: the transition does not check the status it starts from.
AppliesUnchecked(s, call) ==
  CASE call.kind = "create" -> TRUE
    [] call.kind = "boot" -> \E r \in Run : s[r] \in Active
    [] OTHER -> s[call.run] # "absent"

\* The table after the call's mutator, which does not apply (None) when the
\* run is missing, its status unexpected, or nothing is in flight at boot.
Applies(s, call) ==
  CASE call.kind = "create" -> TRUE
    [] call.kind = "boot" -> \E r \in Run : s[r] \in Active
    [] OTHER -> s[call.run] \in call.exp

\* Mutant: recovery stores a status the lifecycle does not know.
MutatedUnknownStatus(s, call) ==
  CASE call.kind \in {"create", "mark"} -> [s EXCEPT ![call.run] = call.to]
    [] call.kind = "boot" ->
         [r \in Run |-> IF s[r] \in Active THEN "recovered" ELSE s[r]]
    [] OTHER -> s

\* Mutant: recovery forgets the runs that had not started.
MutatedRunningOnly(s, call) ==
  CASE call.kind \in {"create", "mark"} -> [s EXCEPT ![call.run] = call.to]
    [] call.kind = "boot" ->
         [r \in Run |-> IF s[r] = "running" THEN "timed_out" ELSE s[r]]
    [] OTHER -> s

Mutated(s, call) ==
  CASE call.kind \in {"create", "mark"} -> [s EXCEPT ![call.run] = call.to]
    [] call.kind = "boot" ->
         [r \in Run |-> IF s[r] \in Active THEN "timed_out" ELSE s[r]]
    [] OTHER -> s

\* _evict_if_needed: terminal runs past their retention, then the oldest
\* ones above the capacity.  Of their order only this is kept: the run that
\* ended just now is the last to go.  The constructor does not evict.
Evictable(s, call) ==
  IF call.kind = "boot" THEN {{}}
  ELSE {D \in SUBSET Ledger!Terminals(s) :
          /\ \/ D = Ledger!Terminals(s)
             \/ Cardinality({r \in Run \ D : s[r] # "absent"}) <= MaxRuns
          /\ call.kind = "mark" /\ call.run \in D =>
               /\ D = Ledger!Terminals(s)
               /\ Cardinality({r \in Run : s[r] \in Active}) >= MaxRuns}

\* save_runs, or its swallowed failure.
Persist(s) ==
  \/ db' = s /\ written' = TRUE
  \/ "save" \in Fault /\ UNCHANGED <<db, written>>

\* _mutate_run / _upsert_locked / _recover_inflight_runs, after the load.
SaveRuns(p) ==
  LET call == job[p].call
      s    == Mutated(mem[p], call)
  IN /\ job[p].pc = "save"
     /\ Applies(mem[p], call)
     /\ \E D \in Evictable(s, call) :
          /\ mem' = [mem EXCEPT ![p] = Ledger!Without(s, D)]
          /\ Persist(Ledger!Without(s, D))
     /\ IF Backend = "hybrid"
        THEN job' = [job EXCEPT ![p].pc = "save_cache"] /\ UNCHANGED <<up, told>>
        ELSE Return(p, call.kind = "mark")
     /\ UNCHANGED <<cache, owner>>

SkipSave(p) ==
  /\ job[p].pc = "save" /\ ~Applies(mem[p], job[p].call)
  /\ Return(p, FALSE)
  /\ UNCHANGED <<db, written, cache, mem, owner>>

\* Mutant: a save leaves the cache to its TTL.
SaveCacheNot(p) ==
  /\ job[p].pc = "save_cache"
  /\ Return(p, job[p].call.kind = "mark")
  /\ UNCHANGED <<db, written, cache, mem, owner>>

\* HybridSubAgentRunRepository.save_runs: the cache follows the database.
SaveCache(p) ==
  /\ job[p].pc = "save_cache"
  /\ cache' \in Cached(mem[p])
  /\ Return(p, job[p].call.kind = "mark")
  /\ UNCHANGED <<db, written, mem, owner>>

-----------------------------------------------------------------------------
\* The kernel drops a dead process's lock.
Crash(p) ==
  /\ "crash" \in Fault
  /\ up[p] \/ job[p].pc # "idle"
  /\ up' = [up EXCEPT ![p] = FALSE]
  /\ job' = [job EXCEPT ![p] = Idle]
  /\ mem' = [mem EXCEPT ![p] = Empty]
  /\ owner' = [r \in Run |-> IF owner[r] = p THEN Gone ELSE owner[r]]
  /\ UNCHANGED <<db, written, cache, told>>

\* SETEX's TTL passes.
CacheExpires ==
  /\ cache # NoCache
  /\ cache' = NoCache
  /\ UNCHANGED <<db, written, mem, job, up, owner, told>>

Step(p) ==
  \/ LoadCached(p) \/ LoadRuns(p) \/ FillCache(p)
  \/ SaveRuns(p) \/ SkipSave(p) \/ SaveCache(p)

Next ==
  \/ \E p \in Process, r \in Run :
       CreateRun(p, r) \/ TouchRun(p, r) \/ \E s \in Mark : MarkRun(p, r, s)
  \/ \E p \in Process : QueryRuns(p) \/ BootRegistry(p) \/ Step(p) \/ Crash(p)
  \/ CacheExpires

Spec == Init /\ [][Next]_vars

\* A call that has its lock ends, and a crashed process is restarted.
FairSpec ==
  /\ Spec
  /\ \A p \in Process : WF_vars(Step(p)) /\ SF_vars(BootRegistry(p))

-----------------------------------------------------------------------------
(***************************************************************************)
(* Properties.                                                             *)
(***************************************************************************)

\* The registry implements its promise: under one lock file, with loads that
\* succeed, the interleaved calls, crashes and failing saves of all the
\* processes are a sequence of atomic calls on one table.
LedgerSpec == Ledger!Spec

\* A run that ended keeps its outcome in the store, or is evicted: no call of
\* any process brings it back or changes how it ended, even when loads fail.
TerminalIsFinal ==
  [][\A r \in Run : db[r] \in Terminal => db'[r] \in {db[r], "absent"}]_vars

\* A caller that was told its run ended finds that outcome later, unless the
\* run is evicted: no other process's write undoes it.
ToldIsStored ==
  \A r \in Run : told[r] \in Terminal => db[r] \in {told[r], "absent"}

\* While no write is under way the cache holds what the database holds.
CacheAgrees ==
  (\A p \in Process : job[p].pc # "save_cache") => cache \in {NoCache, db}

\* Once every process is up for good, no run whose process died stays active.
OrphansEnd ==
  <>[](\A p \in Process : up[p]) =>
    \A r \in Run : (owner[r] = Gone /\ db[r] \in Active) ~> db[r] \notin Active

=============================================================================
