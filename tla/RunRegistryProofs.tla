--------------------------- MODULE RunRegistryProofs ---------------------------
(***************************************************************************)
(* Theorems of RunRegistry for any number of processes and runs, one lock  *)
(* file for all the processes, and any of the three stores behind it, each *)
(* with the failures it can stand.                                         *)
(***************************************************************************)
EXTENDS RunRegistry, TLAPS

\* The statuses, spelled out.
LEMMA Statuses ==
  /\ Active = {"pending", "running"}
  /\ Terminal = {"completed", "failed", "cancelled", "timed_out"}
  /\ Stored = Active \cup Terminal \cup {"absent"}
BY DEF Active, Terminal, Stored, Ledger!Active, Ledger!Terminal, Ledger!Stored

-----------------------------------------------------------------------------
(***************************************************************************)
(* Types.                                                                  *)
(***************************************************************************)
LEMMA CallType ==
  /\ NoCall \in Call /\ [NoCall EXCEPT !.kind = "boot"] \in Call
  /\ Idle \in Job
BY Statuses DEF NoCall, Call, Idle, Job

LEMMA BeginType ==
  ASSUME TypeOK, NEW p \in Process, NEW call \in Call, Begin(p, call)
  PROVE  job' \in [Process -> Job]
BY DEF Begin, TypeOK, Job

LEMMA ReturnType ==
  ASSUME TypeOK, NEW p \in Process, NEW tell \in BOOLEAN, Return(p, tell)
  PROVE  /\ job' \in [Process -> Job]
         /\ up' \in [Process -> BOOLEAN]
         /\ told' \in Snapshot
<1>1. job[p].call.to \in Stored
  BY DEF TypeOK, Job, Call
<1>2. told' \in Snapshot
  BY <1>1 DEF Return, TypeOK, Snapshot
<1> QED BY <1>2, CallType DEF Return, TypeOK

LEMMA ProceedType ==
  ASSUME TypeOK, NEW p \in Process, Proceed(p)
  PROVE  /\ job' \in [Process -> Job]
         /\ up' \in [Process -> BOOLEAN]
         /\ told' \in Snapshot
<1>1. CASE job[p].call.kind = "query"
  BY <1>1, ReturnType DEF Proceed
<1>2. CASE job[p].call.kind # "query"
  BY <1>2 DEF Proceed, TypeOK, Job
<1> QED BY <1>1, <1>2

LEMMA MutatedType ==
  ASSUME NEW s \in Snapshot, NEW call \in Call, NEW D
  PROVE  /\ Mutated(s, call) \in Snapshot
         /\ Ledger!Without(Mutated(s, call), D) \in Snapshot
<1>1. Mutated(s, call) \in Snapshot
  BY Statuses DEF Mutated, Snapshot, Call
<1> QED BY <1>1, Statuses DEF Ledger!Without, Snapshot

LEMMA TypeOKNext == TypeOK /\ [Next]_vars => TypeOK'
<1> SUFFICES ASSUME TypeOK, [Next]_vars PROVE TypeOK'
  OBVIOUS
<1> USE DEF TypeOK
<1>1. ASSUME NEW p \in Process, NEW r \in Run,
             CreateRun(p, r) \/ TouchRun(p, r) \/ \E s \in Mark : MarkRun(p, r, s)
      PROVE  TypeOK'
  <2>1. job' \in [Process -> Job]
    <3>1. [kind |-> "create", run |-> r, to |-> "pending", exp |-> {}] \in Call
      BY Statuses DEF Call
    <3>2. \A exp \in {Active \cup Terminal, {"pending"}} :
            [kind |-> "touch", run |-> r, to |-> "absent", exp |-> exp] \in Call
      BY Statuses DEF Call
    <3>3. \A s \in Mark : \A exp \in SUBSET Ledger!From(s) :
            [kind |-> "mark", run |-> r, to |-> s, exp |-> exp] \in Call
      BY Statuses, MarkAssumption DEF Call, Ledger!From, Ledger!Active
    <3> QED BY <1>1, <3>1, <3>2, <3>3, BeginType DEF CreateRun, TouchRun, MarkRun
  <2> QED BY <1>1, <2>1 DEF CreateRun, TouchRun, MarkRun
<1>2. ASSUME NEW p \in Process, QueryRuns(p) \/ BootRegistry(p) PROVE TypeOK'
  BY <1>2, CallType, BeginType DEF QueryRuns, BootRegistry
<1>3. ASSUME NEW p \in Process, Step(p) PROVE TypeOK'
  <2>0. Empty \in Snapshot /\ job[p].call \in Call /\ mem[p] \in Snapshot
    BY Statuses DEF Empty, Snapshot, Job
  <2>1. CASE LoadCached(p)
    BY <2>1, ProceedType DEF LoadCached
  <2>2. CASE LoadRuns(p)
    <3>1. mem' \in [Process -> Snapshot]
      BY <2>0, <2>2 DEF LoadRuns, Loaded
    <3>2. CASE Backend = "hybrid"
      BY <2>2, <3>1, <3>2 DEF LoadRuns, Job
    <3>3. CASE Backend # "hybrid"
      BY <2>2, <3>1, <3>3, ProceedType DEF LoadRuns
    <3> QED BY <3>2, <3>3
  <2>3. CASE FillCache(p)
    <3>1. cache' \in Snapshot \cup {NoCache}
      BY <2>0, <2>3 DEF FillCache, Cached
    <3> QED BY <2>3, <3>1, ProceedType DEF FillCache
  <2>4. CASE SaveRuns(p)
    <3>1. PICK D : /\ mem' = [mem EXCEPT ![p] =
                          Ledger!Without(Mutated(mem[p], job[p].call), D)]
                   /\ Persist(Ledger!Without(Mutated(mem[p], job[p].call), D))
      BY <2>4 DEF SaveRuns
    <3>2. /\ mem' \in [Process -> Snapshot]
          /\ db' \in Snapshot /\ written' \in BOOLEAN
      BY <2>0, <3>1, MutatedType DEF Persist
    <3>3. CASE Backend = "hybrid"
      BY <2>4, <3>2, <3>3 DEF SaveRuns, Job
    <3>4. CASE Backend # "hybrid"
      BY <2>4, <3>2, <3>4, ReturnType DEF SaveRuns
    <3> QED BY <3>3, <3>4
  <2>5. CASE SkipSave(p)
    BY <2>5, ReturnType DEF SkipSave
  <2>6. CASE SaveCache(p)
    <3>1. cache' \in Snapshot \cup {NoCache}
      BY <2>0, <2>6 DEF SaveCache, Cached
    <3> QED BY <2>6, <3>1, ReturnType DEF SaveCache
  <2> QED BY <1>3, <2>1, <2>2, <2>3, <2>4, <2>5, <2>6 DEF Step
<1>4. ASSUME NEW p \in Process, Crash(p) PROVE TypeOK'
  <2>1. Empty \in Snapshot
    BY Statuses DEF Empty, Snapshot
  <2> QED BY <1>4, <2>1, CallType DEF Crash
<1>5. CASE CacheExpires
  BY <1>5 DEF CacheExpires
<1>6. CASE UNCHANGED vars
  BY <1>6 DEF vars
<1> QED BY <1>1, <1>2, <1>3, <1>4, <1>5, <1>6 DEF Next

LEMMA TypeOKInit == Init => TypeOK
<1> SUFFICES ASSUME Init PROVE TypeOK
  OBVIOUS
<1>1. Empty \in Snapshot
  BY Statuses DEF Empty, Snapshot
<1>2. job \in [Process -> Job] /\ mem \in [Process -> Snapshot]
  BY <1>1, CallType DEF Init
<1> QED BY <1>1, <1>2 DEF Init, TypeOK

\* Every call of every process keeps the types of the store and the jobs.
THEOREM RegistryTypeCorrect == Spec => []TypeOK
BY TypeOKInit, TypeOKNext, PTL DEF Spec

-----------------------------------------------------------------------------
(***************************************************************************)
(* The failures under which a call still works on the stored table.  A     *)
(* database stands all of them: a failing load gives the empty table, on   *)
(* which no transition applies.  A JSON file that cannot be read or        *)
(* written leaves the process with a table of its own, so neither may      *)
(* fail.  With the Redis cache in front, a crash between the two writes,   *)
(* or a failure of either, would leave the copies apart; only the reading  *)
(* of the cache may fail.                                                  *)
(***************************************************************************)
Dependable ==
  \/ Backend = "db"
  \/ Backend = "json" /\ Fault \cap {"load", "save"} = {}
  \/ Backend = "hybrid" /\ Fault \subseteq {"cache_read"}

(***************************************************************************)
(* The lock, and what it protects.  Two calls overlap only when both are   *)
(* queries, so a call that is about to write still holds the snapshot it   *)
(* loaded (or the empty one a failing load gave it).                       *)
(***************************************************************************)
LockInv ==
  \A p, q \in Process :
    p # q /\ job[p].pc # "idle" /\ job[q].pc # "idle"
      => job[p].call.kind = "query" /\ job[q].call.kind = "query"

LoadedInv ==
  \A p \in Process :
    /\ job[p].pc \in {"fill", "save_cache"} => Backend = "hybrid" /\ mem[p] = db
    /\ job[p].pc \in {"save", "save_cache"} => job[p].call.kind # "query"
    /\ job[p].pc = "save" =>
         /\ mem[p] \in {db, Empty}
         /\ "load" \notin Fault => mem[p] = db

\* A process that has no JSON file to load has not changed its table either.
FileInv ==
  Backend = "json" /\ ~written => db = Empty /\ \A p \in Process : mem[p] = Empty

\* A transition only starts from a status of the lifecycle; a run being
\* created is nowhere until it is saved; an outcome about to be reported is
\* in the store.
CallInv ==
  \A p \in Process : job[p].pc # "idle" =>
    /\ job[p].call.kind \in {"create", "mark"} =>
         job[p].call.run \in Run /\ owner[job[p].call.run] # Fresh
    /\ job[p].call.kind = "mark" =>
         /\ job[p].call.exp \subseteq Ledger!From(job[p].call.to)
         /\ job[p].pc = "save_cache" => db[job[p].call.run] \in {job[p].call.to, "absent"}
    /\ job[p].call.kind = "create" =>
         /\ job[p].call.to = "pending"
         /\ told[job[p].call.run] = "absent"
         /\ job[p].pc # "save_cache" => db[job[p].call.run] = "absent"

FreshInv ==
  \A r \in Run : owner[r] = Fresh => db[r] = "absent" /\ told[r] = "absent"

RegistryInv ==
  /\ TypeOK /\ LockInv /\ LoadedInv /\ FileInv /\ CallInv /\ FreshInv
  /\ CacheAgrees
  /\ Backend # "hybrid" => cache = NoCache

LEMMA FromActive == \A s : Ledger!From(s) \subseteq Active
BY Statuses DEF Ledger!From, Ledger!Active

\* What one write does to a run.
SaveEffect(p, r) ==
  LET call == job[p].call IN
  \/ db'[r] \in {db[r], "absent"}
  \/ call.kind = "create" /\ r = call.run /\ db'[r] = "pending"
  \/ call.kind = "mark" /\ r = call.run /\ db[r] \in Ledger!From(call.to)
       /\ db'[r] = call.to
  \/ call.kind = "boot" /\ db[r] \in Active /\ db'[r] = "timed_out"

LEMMA SaveLemma ==
  ASSUME RegistryInv, NEW p \in Process, SaveRuns(p), NEW r \in Run
  PROVE  SaveEffect(p, r)
<1> DEFINE call == job[p].call
           s == Mutated(mem[p], call)
<1>1. PICK D \in Evictable(s, call) : Persist(Ledger!Without(s, D))
  BY DEF SaveRuns
<1>2. CASE UNCHANGED db
  BY <1>2 DEF SaveEffect
<1>3. CASE db' = Ledger!Without(s, D)
  <2>1. db'[r] \in {s[r], "absent"}
    BY <1>3 DEF Ledger!Without
  <2>2. /\ mem[p] \in Snapshot /\ call \in Call /\ call.kind # "query"
        /\ mem[p][r] \in {db[r], "absent"}
    BY DEF RegistryInv, TypeOK, LoadedInv, SaveRuns, Job, Empty
  <2>3. Applies(mem[p], call)
    BY DEF SaveRuns
  <2>4. CASE call.kind = "create"
    BY <2>1, <2>2, <2>4 DEF SaveEffect, Mutated, Snapshot, RegistryInv, CallInv, SaveRuns
  <2>5. CASE call.kind = "mark"
    <3>1. /\ call.exp \subseteq Ledger!From(call.to) /\ call.run \in Run
      BY <2>5 DEF RegistryInv, CallInv, SaveRuns
    <3>2. mem[p][call.run] \in Ledger!From(call.to)
      BY <2>3, <2>5, <3>1 DEF Applies
    <3>3. CASE r = call.run
      <4>1. db[r] = mem[p][r]
        BY <2>2, <3>2, <3>3, FromActive, Statuses
      <4>2. s[r] = call.to
        BY <2>2, <2>5, <3>3 DEF Mutated, Snapshot
      <4> QED BY <2>1, <2>5, <3>2, <3>3, <4>1, <4>2 DEF SaveEffect
    <3>4. CASE r # call.run
      BY <2>1, <2>2, <2>5, <3>4 DEF SaveEffect, Mutated, Snapshot
    <3> QED BY <3>3, <3>4
  <2>6. CASE call.kind = "boot"
    BY <2>1, <2>2, <2>6, Statuses DEF SaveEffect, Mutated
  <2>7. CASE call.kind = "touch"
    BY <2>1, <2>2, <2>7 DEF SaveEffect, Mutated
  <2> QED BY <2>2, <2>4, <2>5, <2>6, <2>7 DEF Call
<1> QED BY <1>1, <1>2, <1>3 DEF Persist

\* A step that ends a call, or lets it go on with the same arguments, keeps
\* the lock.
LEMMA LockKept ==
  ASSUME TypeOK, LockInv, NEW p \in Process, job' \in [Process -> Job],
         \A q \in Process \ {p} : job'[q] = job[q],
         job'[p].pc = "idle" \/ (job[p].pc # "idle" /\ job'[p].call = job[p].call)
  PROVE  LockInv'
BY DEF LockInv

LEMMA BeginLock ==
  ASSUME TypeOK, LockInv, SharedLock, NEW p \in Process, NEW call \in Call,
         Begin(p, call)
  PROVE  LockInv'
<1>1. \A q \in Process \ {p} : job'[q] = job[q]
  BY DEF Begin, TypeOK
<1>2. job'[p].call = call
  BY DEF Begin, TypeOK
<1>3. \A q \in Process \ {p} :
        job[q].pc = "idle" \/ (call.kind = "query" /\ job[q].call.kind = "query")
  BY DEF Begin, Free
<1> QED BY <1>1, <1>2, <1>3 DEF LockInv

LEMMA BeginLoaded ==
  ASSUME TypeOK, LoadedInv, FileInv, NEW p \in Process, NEW call \in Call,
         Begin(p, call), UNCHANGED <<db, written, mem>>
  PROVE  LoadedInv' /\ FileInv'
BY DEF LoadedInv, FileInv, Begin, TypeOK

\* A step of a call that is not between its two writes, and that writes
\* nothing, leaves the cache as good as it was.
LEMMA CacheKept ==
  ASSUME CacheAgrees, UNCHANGED <<db, cache>>, NEW p \in Process,
         job[p].pc # "save_cache",
         \A q \in Process \ {p} : job'[q] = job[q]
  PROVE  CacheAgrees'
BY DEF CacheAgrees

LEMMA BeginCache ==
  ASSUME TypeOK, CacheAgrees, NEW p \in Process, NEW call \in Call,
         Begin(p, call), UNCHANGED <<db, cache>>
  PROVE  CacheAgrees'
BY CacheKept DEF Begin, TypeOK

\* What Begin needs of the call it starts.
LEMMA BeginCall ==
  ASSUME TypeOK, CallInv, NEW p \in Process, NEW call \in Call, Begin(p, call),
         UNCHANGED <<db, told>>,
         call.kind \in {"create", "mark"} =>
           call.run \in Run /\ owner'[call.run] # Fresh,
         call.kind = "mark" => call.exp \subseteq Ledger!From(call.to),
         call.kind = "create" =>
           /\ call.to = "pending" /\ db[call.run] = "absent"
           /\ told[call.run] = "absent",
         \A r \in Run : owner'[r] = Fresh => owner[r] = Fresh
  PROVE  CallInv'
<1>1. job'[p] = [pc |-> "load", call |-> call]
  BY DEF Begin, TypeOK
<1>2. \A q \in Process \ {p} : job'[q] = job[q]
  BY DEF Begin, TypeOK
<1> SUFFICES ASSUME NEW q \in Process
             PROVE  CallInv!(q)'
  BY DEF CallInv
<1>3. CASE q = p
  BY <1>1, <1>3
<1>4. CASE q # p
  BY <1>2, <1>4 DEF CallInv
<1> QED BY <1>3, <1>4

\* A call that starts, other than create_run, disturbs nothing.
LEMMA BeginInv ==
  ASSUME SharedLock, RegistryInv, TypeOK', NEW p \in Process, NEW call \in Call,
         Begin(p, call), UNCHANGED <<db, written, cache, mem, owner, told>>,
         call.kind # "create",
         call.kind = "mark" => /\ call.run \in Run /\ owner[call.run] # Fresh
                               /\ call.exp \subseteq Ledger!From(call.to)
  PROVE  RegistryInv'
<1> USE DEF RegistryInv
<1>1. LockInv' /\ LoadedInv' /\ FileInv' /\ CacheAgrees'
  BY BeginLock, BeginLoaded, BeginCache
<1>2. CallInv'
  BY BeginCall
<1>3. FreshInv' /\ (Backend # "hybrid" => cache' = NoCache)
  BY DEF FreshInv
<1> QED BY <1>1, <1>2, <1>3

\* A call that loads, is answered, or goes from one write to the next.
LEMMA GoOn ==
  ASSUME RegistryInv, TypeOK', NEW p \in Process,
         UNCHANGED <<db, written, owner>>,
         \A q \in Process \ {p} : job'[q] = job[q] /\ mem'[q] = mem[q],
         \/ job'[p] = Idle
         \/ /\ job[p].pc \in {"load", "fill"} /\ job'[p].pc \in {"fill", "save"}
            /\ job'[p].call = job[p].call
            /\ job'[p].pc = "fill" => Backend = "hybrid" /\ mem'[p] = db
            /\ job'[p].pc = "save" =>
                 /\ job[p].call.kind # "query" /\ mem'[p] \in {db, Empty}
                 /\ "load" \notin Fault => mem'[p] = db,
         FileInv',
         \A r \in Run : told'[r] = told[r] \/ (job[p].call.kind = "mark" /\ r = job[p].call.run
                                               /\ job[p].pc # "idle"),
         CacheAgrees',
         Backend # "hybrid" => cache' = NoCache
  PROVE  RegistryInv'
<1> USE DEF RegistryInv
<1>1. LockInv'
  BY LockKept DEF Idle, TypeOK
<1>2. LoadedInv'
  BY DEF LoadedInv, Idle
<1>3. \A r \in Run : owner[r] = Fresh => told'[r] = told[r]
  BY DEF CallInv
<1>4. FreshInv'
  BY <1>3 DEF FreshInv
<1>5. ASSUME NEW q \in Process, job'[q].pc # "idle" PROVE CallInv!(q)'
  <2>1. job[q].pc # "idle" /\ job'[q].call = job[q].call
        /\ (job'[q].pc = "save_cache" <=> job[q].pc = "save_cache")
    BY <1>5 DEF Idle
  <2>2. ASSUME job[q].call.kind = "create" PROVE told'[job[q].call.run] = "absent"
    <3>1. job[q].call.run \in Run /\ told[job[q].call.run] = "absent"
      BY <2>1, <2>2 DEF CallInv
    <3>2. p = q => job[p].call.kind # "mark"
      BY <2>2
    <3>3. p # q => job[p].pc = "idle"
      BY <2>1, <2>2 DEF LockInv
    <3> QED BY <3>1, <3>2, <3>3
  <2>3. CallInv!(q)
    BY DEF CallInv
  <2> QED BY <2>1, <2>2, <2>3
<1>6. CallInv'
  BY <1>5 DEF CallInv
<1> QED BY <1>1, <1>2, <1>4, <1>6

LEMMA RegistryInvNext ==
  ASSUME Dependable, SharedLock, RegistryInv, [Next]_vars
  PROVE  RegistryInv'
<1> USE DEF RegistryInv
<1>0. TypeOK'
  BY TypeOKNext
<1>1. ASSUME NEW p \in Process, NEW r \in Run, CreateRun(p, r) PROVE RegistryInv'
  <2> DEFINE call == [kind |-> "create", run |-> r, to |-> "pending", exp |-> {}]
  <2>1. call \in Call /\ Begin(p, call)
    BY <1>1, Statuses DEF CreateRun, Call
  <2>2. owner'[r] # Fresh /\ \A q \in Run : owner'[q] = Fresh => owner[q] = Fresh
    BY <1>1, NamesAssumption DEF CreateRun, TypeOK
  <2>3. LockInv' /\ LoadedInv' /\ FileInv' /\ CacheAgrees'
    BY <1>1, <2>1, BeginLock, BeginLoaded, BeginCache DEF CreateRun
  <2>4. db[r] = "absent" /\ told[r] = "absent"
    BY <1>1 DEF CreateRun, FreshInv
  <2>5. CallInv'
    BY <1>1, <2>1, <2>2, <2>4, BeginCall DEF CreateRun
  <2>6. FreshInv' /\ (Backend # "hybrid" => cache' = NoCache)
    BY <1>1, <2>2 DEF CreateRun, FreshInv
  <2> QED BY <1>0, <2>3, <2>5, <2>6
<1>3. ASSUME NEW p \in Process, NEW r \in Run, TouchRun(p, r) PROVE RegistryInv'
  <2>1. \A exp \in {Active \cup Terminal, {"pending"}} :
          [kind |-> "touch", run |-> r, to |-> "absent", exp |-> exp] \in Call
    BY Statuses DEF Call
  <2> QED BY <1>0, <1>3, <2>1, BeginInv DEF TouchRun
<1>4. ASSUME NEW p \in Process, NEW r \in Run, NEW s \in Mark, MarkRun(p, r, s)
      PROVE  RegistryInv'
  <2>1. PICK exp \in SUBSET Ledger!From(s) :
          Begin(p, [kind |-> "mark", run |-> r, to |-> s, exp |-> exp])
    BY <1>4 DEF MarkRun
  <2>2. [kind |-> "mark", run |-> r, to |-> s, exp |-> exp] \in Call
    BY Statuses, FromActive, MarkAssumption DEF Call
  <2>3. owner[r] # Fresh /\ UNCHANGED <<db, written, cache, mem, owner, told>>
    BY <1>4 DEF MarkRun
  <2> QED BY <1>0, <2>1, <2>2, <2>3, BeginInv
<1>5. ASSUME NEW p \in Process, QueryRuns(p) \/ BootRegistry(p) PROVE RegistryInv'
  <2>1. /\ NoCall \in Call /\ [NoCall EXCEPT !.kind = "boot"] \in Call
        /\ NoCall.kind = "query" /\ [NoCall EXCEPT !.kind = "boot"].kind = "boot"
    BY CallType DEF NoCall
  <2> QED BY <1>0, <1>5, <2>1, BeginInv DEF QueryRuns, BootRegistry
<1>6. ASSUME NEW p \in Process, LoadRuns(p) PROVE RegistryInv'
  <2>1. job[p].pc = "load" /\ UNCHANGED <<db, written, cache, owner, told>>
    BY <1>6 DEF LoadRuns, Proceed, Return
  <2>2. \A q \in Process \ {p} : job'[q] = job[q] /\ mem'[q] = mem[q]
    BY <1>6 DEF LoadRuns, Proceed, Return, TypeOK
  <2>3. \/ job'[p] = Idle
        \/ /\ job'[p].pc = "save" /\ job'[p].call = job[p].call
           /\ job[p].call.kind # "query"
        \/ /\ job'[p].pc = "fill" /\ job'[p].call = job[p].call
           /\ Backend = "hybrid"
    BY <1>6 DEF LoadRuns, Proceed, Return, TypeOK, Job
  <2>4. PICK s \in Loaded(p) : mem' = [mem EXCEPT ![p] = s]
    BY <1>6 DEF LoadRuns
  <2>5. mem'[p] = s
    BY <2>4 DEF TypeOK
  <2>6. s \in {db, Empty} /\ ("load" \notin Fault => s = db)
        /\ (Backend = "hybrid" => s = db)
    BY DEF Loaded, Dependable, FileInv
  <2>7. FileInv'
    BY <2>1, <2>2, <2>5, <2>6 DEF FileInv, Dependable
  <2>8. CacheAgrees'
    BY <2>1, <2>2, CacheKept
  <2> QED BY <1>0, <2>1, <2>2, <2>3, <2>5, <2>6, <2>7, <2>8, GoOn
<1>7. ASSUME NEW p \in Process, SkipSave(p) PROVE RegistryInv'
  <2>1. job[p].pc = "save" /\ UNCHANGED <<db, written, cache, mem, owner, told>>
    BY <1>7 DEF SkipSave, Return
  <2>2. job'[p] = Idle /\ \A q \in Process \ {p} : job'[q] = job[q]
    BY <1>7 DEF SkipSave, Return, TypeOK
  <2>3. FileInv' /\ CacheAgrees'
    BY <2>1, <2>2, CacheKept DEF FileInv
  <2> QED BY <1>0, <2>1, <2>2, <2>3, GoOn
<1>8. ASSUME NEW p \in Process, SaveRuns(p) PROVE RegistryInv'
  <2>1. job[p].pc = "save" /\ UNCHANGED <<cache, owner>>
    BY <1>8 DEF SaveRuns
  <2>2. /\ \A q \in Process \ {p} : job'[q] = job[q]
        /\ \/ job'[p] = Idle /\ Backend # "hybrid"
           \/ /\ job'[p].pc = "save_cache" /\ job'[p].call = job[p].call
              /\ Backend = "hybrid" /\ UNCHANGED told
    BY <1>8 DEF SaveRuns, Return, TypeOK, Job
  <2>3. LockInv'
    BY <1>0, <2>1, <2>2, LockKept DEF Idle, TypeOK
  <2>4. job[p].call.kind # "query" /\ \A q \in Process \ {p} : job[q].pc = "idle"
    BY <2>1 DEF LockInv, LoadedInv
  <2>5. PICK D : /\ mem' = [mem EXCEPT ![p] =
                        Ledger!Without(Mutated(mem[p], job[p].call), D)]
                 /\ Persist(Ledger!Without(Mutated(mem[p], job[p].call), D))
    BY <1>8 DEF SaveRuns
  <2>6. Backend # "db" => mem'[p] = db' /\ written'
    BY <2>5 DEF Persist, Dependable, TypeOK
  <2>7. LoadedInv' /\ FileInv'
    BY <2>2, <2>4, <2>6, BackendAssumption DEF LoadedInv, FileInv, Idle
  <2>8. CacheAgrees' /\ (Backend # "hybrid" => cache' = NoCache)
    BY <2>1, <2>2 DEF CacheAgrees
  <2>9. ASSUME NEW r \in Run, owner'[r] = Fresh
        PROVE  db'[r] = "absent" /\ told'[r] = "absent"
    <3>1. owner[r] = Fresh /\ db[r] = "absent" /\ told[r] = "absent"
      BY <2>1, <2>9 DEF FreshInv
    <3>2. SaveEffect(p, r)
      BY <1>8, SaveLemma
    <3>3. ~(job[p].call.kind \in {"create", "mark"} /\ r = job[p].call.run)
      BY <2>1, <3>1 DEF CallInv
    <3>4. db'[r] = "absent"
      BY <3>1, <3>2, <3>3, FromActive, Statuses DEF SaveEffect
    <3>6. told'[r] = "absent"
      BY <1>8, <3>1, <3>3 DEF SaveRuns, Return, TypeOK, Snapshot
    <3> QED BY <3>4, <3>6
  <2>10. FreshInv'
    BY <2>9 DEF FreshInv
  <2>11. ASSUME job'[p].pc # "idle" PROVE CallInv!(p)'
    <3>1. /\ job'[p].pc = "save_cache" /\ job'[p].call = job[p].call
          /\ Backend = "hybrid" /\ UNCHANGED told
      BY <2>2, <2>11 DEF Idle
    <3>2. CallInv!(p)
      BY DEF CallInv
    <3>3. ASSUME job[p].call.kind = "mark"
          PROVE  db'[job[p].call.run] \in {job[p].call.to, "absent"}
      <4>1. mem[p] \in Snapshot /\ job[p].call.run \in Run
        BY <2>1, <3>2, <3>3 DEF TypeOK
      <4>2. Mutated(mem[p], job[p].call)[job[p].call.run] = job[p].call.to
        BY <3>3, <4>1 DEF Mutated, Snapshot
      <4>3. db' = Ledger!Without(Mutated(mem[p], job[p].call), D)
        BY <2>5, <3>1 DEF Persist, Dependable
      <4> QED BY <4>1, <4>2, <4>3 DEF Ledger!Without
    <3> QED BY <2>1, <3>1, <3>2, <3>3
  <2>12. CallInv'
    <3>1. \A q \in Process \ {p} : job'[q].pc = "idle"
      BY <2>2, <2>4
    <3> QED BY <2>11, <3>1 DEF CallInv
  <2> QED BY <1>0, <2>3, <2>7, <2>8, <2>10, <2>12
<1>9. ASSUME NEW p \in Process, LoadCached(p) PROVE RegistryInv'
  <2>1. /\ job[p].pc = "load" /\ Backend = "hybrid" /\ cache # NoCache
        /\ UNCHANGED <<db, written, cache, owner, told>>
    BY <1>9 DEF LoadCached, Proceed, Return
  <2>2. \A q \in Process \ {p} : job'[q] = job[q] /\ mem'[q] = mem[q]
    BY <1>9 DEF LoadCached, Proceed, Return, TypeOK
  <2>3. \/ job'[p] = Idle
        \/ /\ job'[p].pc = "save" /\ job'[p].call = job[p].call
           /\ job[p].call.kind # "query"
    BY <1>9 DEF LoadCached, Proceed, Return, TypeOK, Job
  <2>4. \A q \in Process : job[q].pc # "save_cache"
    BY <2>1 DEF LockInv, LoadedInv
  <2>5. mem'[p] = db
    BY <1>9, <2>1, <2>4 DEF LoadCached, CacheAgrees, TypeOK
  <2>6. FileInv' /\ CacheAgrees'
    BY <2>1, <2>2, CacheKept DEF FileInv
  <2> QED BY <1>0, <2>1, <2>2, <2>3, <2>5, <2>6, GoOn
<1>10. ASSUME NEW p \in Process, FillCache(p) PROVE RegistryInv'
  <2>1. /\ job[p].pc = "fill" /\ Backend = "hybrid" /\ mem[p] = db
        /\ UNCHANGED <<db, written, mem, owner, told>>
    BY <1>10 DEF FillCache, Proceed, Return, LoadedInv
  <2>2. \A q \in Process \ {p} : job'[q] = job[q]
    BY <1>10 DEF FillCache, Proceed, Return, TypeOK
  <2>3. \/ job'[p] = Idle
        \/ /\ job'[p].pc = "save" /\ job'[p].call = job[p].call
           /\ job[p].call.kind # "query"
    BY <1>10 DEF FillCache, Proceed, Return, TypeOK, Job
  <2>4. cache' = db
    BY <1>10, <2>1 DEF FillCache, Cached, Dependable
  <2>5. FileInv' /\ CacheAgrees'
    BY <2>1, <2>4 DEF FileInv, CacheAgrees
  <2> QED BY <1>0, <2>1, <2>2, <2>3, <2>5, GoOn
<1>11. ASSUME NEW p \in Process, SaveCache(p) PROVE RegistryInv'
  <2>1. /\ job[p].pc = "save_cache" /\ Backend = "hybrid" /\ mem[p] = db
        /\ UNCHANGED <<db, written, mem, owner>>
    BY <1>11 DEF SaveCache, LoadedInv
  <2>2. job'[p] = Idle /\ \A q \in Process \ {p} : job'[q] = job[q]
    BY <1>11 DEF SaveCache, Return, TypeOK
  <2>3. \A r \in Run : told'[r] = told[r] \/ (job[p].call.kind = "mark" /\ r = job[p].call.run)
    BY <1>11 DEF SaveCache, Return, TypeOK, Snapshot
  <2>4. cache' = db
    BY <1>11, <2>1 DEF SaveCache, Cached, Dependable
  <2>5. FileInv' /\ CacheAgrees'
    BY <2>1, <2>4 DEF FileInv, CacheAgrees
  <2> QED BY <1>0, <2>1, <2>2, <2>3, <2>5, GoOn
<1>12. ASSUME NEW p \in Process, Crash(p) PROVE RegistryInv'
  <2>1. job'[p] = Idle /\ \A q \in Process \ {p} : job'[q] = job[q] /\ mem'[q] = mem[q]
    BY <1>12 DEF Crash, TypeOK
  <2>2. UNCHANGED <<db, written, cache, told>> /\ mem'[p] = Empty
    BY <1>12 DEF Crash, TypeOK
  <2>3. \A r \in Run : owner'[r] = Fresh <=> owner[r] = Fresh
    BY <1>12, NamesAssumption DEF Crash, TypeOK
  <2>4. LockInv'
    BY <1>0, <2>1, LockKept DEF Idle, TypeOK
  <2>5. LoadedInv' /\ FileInv'
    BY <2>1, <2>2 DEF LoadedInv, FileInv, Idle
  <2>6. CallInv' /\ FreshInv'
    BY <2>1, <2>2, <2>3 DEF CallInv, FreshInv, Idle
  <2>7. cache' = NoCache
    BY <1>12, <2>2, BackendAssumption DEF Crash, Dependable
  <2> QED BY <1>0, <2>4, <2>5, <2>6, <2>7 DEF CacheAgrees
<1>13. CASE CacheExpires \/ UNCHANGED vars
  BY <1>0, <1>13 DEF CacheExpires, vars, LockInv, LoadedInv, FileInv, CallInv, FreshInv,
                     CacheAgrees
<1> QED BY <1>1, <1>3, <1>4, <1>5, <1>6, <1>7, <1>8, <1>9, <1>10, <1>11, <1>12, <1>13
        DEF Next, Step

LEMMA RegistryInvInit == Init => RegistryInv
<1> SUFFICES ASSUME Init PROVE RegistryInv
  OBVIOUS
<1>1. TypeOK
  BY TypeOKInit
<1>2. \A p \in Process : job[p].pc = "idle"
  BY DEF Init, Idle
<1> QED BY <1>1, <1>2 DEF Init, RegistryInv, LockInv, LoadedInv, FileInv, CallInv,
             FreshInv, CacheAgrees, Empty

\* The database is written by one step only, and callers are told by it or by
\* the write of the cache that follows it.
LEMMA OnlySaveWrites ==
  ASSUME RegistryInv, [Next]_vars
  PROVE  \/ UNCHANGED <<db, told>>
         \/ \E p \in Process : SaveRuns(p) \/ SaveCache(p)
<1>1. ASSUME NEW p \in Process, LoadCached(p) \/ LoadRuns(p) \/ FillCache(p) \/ SkipSave(p)
      PROVE  UNCHANGED <<db, told>>
  BY <1>1 DEF LoadCached, LoadRuns, FillCache, SkipSave, Proceed, Return
<1> QED BY <1>1 DEF Next, Step, CreateRun, TouchRun, MarkRun, QueryRuns,
             BootRegistry, Crash, CacheExpires, vars

-----------------------------------------------------------------------------
(***************************************************************************)
(* Theorems.                                                               *)
(***************************************************************************)

\* No call of any process changes how a stored run ended, in any of the three
\* stores; with a database that holds though loads and saves fail and
\* processes crash at any step.
THEOREM EndedStaysEnded ==
  ASSUME Dependable, SharedLock
  PROVE  Spec => TerminalIsFinal
<1>1. ASSUME RegistryInv, [Next]_vars
      PROVE  [\A r \in Run : db[r] \in Terminal => db'[r] \in {db[r], "absent"}]_vars
  <2> SUFFICES ASSUME NEW r \in Run, db[r] \in Terminal
               PROVE  db'[r] \in {db[r], "absent"}
    OBVIOUS
  <2>1. CASE UNCHANGED <<db, told>>
    BY <2>1
  <2>2. ASSUME NEW p \in Process, SaveRuns(p) PROVE db'[r] \in {db[r], "absent"}
    <3>1. SaveEffect(p, r)
      BY <1>1, <2>2, SaveLemma
    <3>2. job[p].call.kind = "create" => db[job[p].call.run] = "absent"
      BY <1>1, <2>2 DEF RegistryInv, CallInv, SaveRuns
    <3> QED BY <3>1, <3>2, FromActive, Statuses DEF SaveEffect
  <2>3. ASSUME NEW p \in Process, SaveCache(p) PROVE db'[r] = db[r]
    BY <2>3 DEF SaveCache
  <2> QED BY <1>1, <2>1, <2>2, <2>3, OnlySaveWrites
<1> QED BY <1>1, RegistryInvInit, RegistryInvNext, PTL DEF Spec, TerminalIsFinal

\* What the caller of a mark_* method was told is what later callers find.
THEOREM ToldStaysStored ==
  ASSUME Dependable, SharedLock, "save" \notin Fault
  PROVE  Spec => []ToldIsStored
<1> DEFINE Inv == RegistryInv /\ ToldIsStored
<1>1. Init => Inv
  BY RegistryInvInit, Statuses DEF Init, ToldIsStored, Empty
<1>2. ASSUME Inv, [Next]_vars PROVE Inv'
  <2>1. RegistryInv'
    BY <1>2, RegistryInvNext
  <2>2. CASE UNCHANGED <<db, told>>
    BY <1>2, <2>1, <2>2 DEF ToldIsStored
  <2>3. ASSUME NEW p \in Process, SaveRuns(p), NEW r \in Run, told'[r] \in Terminal
        PROVE  db'[r] \in {told'[r], "absent"}
    <3> DEFINE call == job[p].call
    <3>1. SaveEffect(p, r) /\ job[p].pc = "save"
      BY <1>2, <2>3, SaveLemma DEF SaveRuns
    <3>2. CASE told'[r] # told[r]
      <4>1. call.kind = "mark" /\ r = call.run /\ told'[r] = call.to
        BY <1>2, <2>3, <3>2 DEF SaveRuns, Return, RegistryInv, TypeOK, Snapshot
      <4>2. PICK D : db' = Ledger!Without(Mutated(mem[p], call), D)
        BY <2>3 DEF SaveRuns, Persist
      <4>3. mem[p] \in Snapshot
        BY <1>2 DEF RegistryInv, TypeOK
      <4>4. Mutated(mem[p], call)[r] = call.to
        BY <4>1, <4>3 DEF Mutated, Snapshot
      <4> QED BY <4>1, <4>2, <4>4 DEF Ledger!Without
    <3>3. CASE told'[r] = told[r]
      <4>1. db[r] \in {told[r], "absent"}
        BY <1>2, <2>3, <3>3 DEF ToldIsStored
      <4>2. ~(call.kind = "create" /\ r = call.run)
        BY <1>2, <2>3, <3>1, <3>3, Statuses DEF RegistryInv, CallInv
      <4> QED BY <2>3, <3>1, <3>3, <4>1, <4>2, FromActive, Statuses DEF SaveEffect
    <3> QED BY <3>2, <3>3
  <2>4. ASSUME NEW p \in Process, SaveCache(p), NEW r \in Run, told'[r] \in Terminal
        PROVE  db'[r] \in {told'[r], "absent"}
    <3>1. db' = db /\ job[p].pc = "save_cache"
      BY <2>4 DEF SaveCache
    <3>2. CASE told'[r] = told[r]
      BY <1>2, <2>4, <3>1, <3>2 DEF ToldIsStored
    <3>3. CASE told'[r] # told[r]
      <4>1. job[p].call.kind = "mark" /\ r = job[p].call.run /\ told'[r] = job[p].call.to
        BY <1>2, <2>4, <3>3 DEF SaveCache, Return, RegistryInv, TypeOK, Snapshot
      <4> QED BY <1>2, <3>1, <4>1 DEF RegistryInv, CallInv
    <3> QED BY <3>2, <3>3
  <2>5. ToldIsStored'
    BY <1>2, <2>2, <2>3, <2>4, OnlySaveWrites DEF ToldIsStored
  <2> QED BY <2>1, <2>5
<1>3. Inv => ToldIsStored
  OBVIOUS
<1> QED BY <1>1, <1>2, <1>3, PTL DEF Spec

\* A write is one atomic call on the table that callers see.
LEMMA SaveRefines ==
  ASSUME RegistryInv, "load" \notin Fault, NEW p \in Process, SaveRuns(p)
  PROVE  Ledger!Next \/ UNCHANGED db
<1> DEFINE call == job[p].call
           s == Mutated(db, call)
<1>1. mem[p] = db /\ db \in Snapshot /\ call \in Call /\ call.kind # "query"
  BY DEF RegistryInv, LoadedInv, TypeOK, SaveRuns, Job
<1>2. PICK D \in Evictable(s, call) : Persist(Ledger!Without(s, D))
  BY <1>1 DEF SaveRuns
<1>3. CASE UNCHANGED db
  BY <1>3
<1>4. CASE db' = Ledger!Without(s, D)
  <2>1. call.kind # "boot" => Ledger!Write(s)
    BY <1>2, <1>4 DEF Evictable, Ledger!Write
  <2>2. CASE call.kind = "create"
    <3>1. s = [db EXCEPT ![call.run] = "pending"] /\ call.run \in Run
          /\ db[call.run] = "absent"
      BY <2>2 DEF RegistryInv, CallInv, SaveRuns, Mutated
    <3>2. Ledger!Create(call.run)
      BY <2>1, <2>2, <3>1 DEF Ledger!Create
    <3> QED BY <3>1, <3>2 DEF Ledger!Next
  <2>3. CASE call.kind = "mark"
    <3>1. s = [db EXCEPT ![call.run] = call.to] /\ call.run \in Run
          /\ call.to \in Stored
      BY <1>1, <2>3 DEF RegistryInv, CallInv, SaveRuns, Mutated, Call
    <3>2. db[call.run] \in Ledger!From(call.to)
      BY <1>1, <2>3 DEF RegistryInv, CallInv, SaveRuns, Applies
    <3>3. Ledger!Move(call.run, call.to)
      BY <2>1, <2>3, <3>1, <3>2 DEF Ledger!Move
    <3> QED BY <3>1, <3>3 DEF Ledger!Next, Stored
  <2>4. CASE call.kind = "touch"
    BY <2>1, <2>4 DEF Mutated, Ledger!Touch, Ledger!Next
  <2>5. CASE call.kind = "boot"
    <3>1. D = {}
      BY <1>2, <2>5 DEF Evictable
    <3>2. Ledger!Recover
      BY <1>4, <2>5, <3>1 DEF Mutated, Ledger!Without, Ledger!Recover, Active
    <3> QED BY <3>2 DEF Ledger!Next
  <2> QED BY <1>1, <2>2, <2>3, <2>4, <2>5 DEF Call
<1> QED BY <1>2, <1>3, <1>4 DEF Persist

\* With one lock file and loads that succeed, all the processes together
\* behave as one table changed by one call at a time: crashes between load
\* and save, and swallowed save failures, lose calls whole.
THEOREM RegistryImplementsLedger ==
  ASSUME Dependable, SharedLock, "load" \notin Fault
  PROVE  Spec => LedgerSpec
<1>1. Init => Ledger!Init
  BY DEF Init, Ledger!Init, Empty
<1>2. ASSUME RegistryInv, [Next]_vars PROVE [Ledger!Next]_db
  <2>1. \A p \in Process : SaveCache(p) => UNCHANGED db
    BY DEF SaveCache
  <2> QED BY <1>2, <2>1, OnlySaveWrites, SaveRefines
<1> QED BY <1>1, <1>2, RegistryInvInit, RegistryInvNext, PTL
        DEF Spec, LedgerSpec, Ledger!Spec

\* Behind the Redis cache, as long as both stores can be written and no process
\* dies between the two writes, no interleaving of loads, fills, expiries and
\* saves leaves a cached snapshot that the database does not hold.
THEOREM CacheStaysTrue ==
  ASSUME Dependable, SharedLock
  PROVE  Spec => []CacheAgrees
<1>1. RegistryInv => CacheAgrees
  BY DEF RegistryInv
<1> QED BY <1>1, RegistryInvInit, RegistryInvNext, PTL DEF Spec
=============================================================================
