------------------------ MODULE SandboxLifecycleProofs ------------------------
(***************************************************************************)
(* Theorems of SandboxLifecycle for any number of callers, processes, rows *)
(* and faults.                                                             *)
(***************************************************************************)
EXTENDS SandboxLifecycle, FiniteSetTheorems, TLAPS

(***************************************************************************)
(* What a call can be doing, operation by operation, and which of its      *)
(* steps work on a stored row, a draft, or none.                           *)
(***************************************************************************)
Shape(k) ==
  /\ k \in Call
  /\ k.op = "none" => k = Rest
  /\ k.op = "get" => k.pc # "rest"
  /\ k.op = "terminate" => k.pc \in {"terminate", "save", "delete"}
  /\ k.op = "restart" => k.pc \in {"terminate", "sweep", "save", "run"}
  /\ k.op = "reap" => k.pc \in {"terminate", "save"}
  /\ k.op \in {"sync", "health"} => k.pc \in {"exists", "save"}
  /\ k.op = "repair" => k.pc \in {"exists", "adopt", "save"} /\ k.mine \in Row
  /\ k.pc \in {"exists", "run", "save", "terminate", "sweep", "delete"} => k.mine \in Row
  /\ k.pc = "adopt" => k.mine \in Row \cup {NoRow}
  /\ k.pc = "insert" => /\ k.mine \in Draft
                        /\ \/ k.mine.box = 0 /\ k.mine.status = "creating"
                           \/ k.mine.box \in Name /\ k.mine.status = "running"

ShapeInv == \A c \in Caller : Shape(call[c])

(***************************************************************************)
(* Until something stirs, one caller at most is between its lock and its   *)
(* last Docker call: the Redis lock excludes the others of its kind, and a *)
(* caller without it that enters beside another stirs.                     *)
(***************************************************************************)
Critical(k) ==
  /\ k.op = "get"
  /\ k.pc \in {"find", "exists", "adopt", "terminate", "sweep", "delete", "insert", "run"}

HoldInv ==
  ~stirred =>
    /\ \A c \in Caller : call[c].op \notin {"terminate", "restart"}
    /\ \A c, d \in Caller : Critical(call[c]) /\ Critical(call[d]) => c = d
    /\ \A c \in Redis : Critical(call[c]) => lock["redis"] = c

(***************************************************************************)
(* Then a container that runs has a row, and a caller that is about to     *)
(* start one has seen to it that none runs.                                *)
(***************************************************************************)
Making(k) ==
  /\ k.op = "get"
  /\ \/ k.pc \in {"delete", "insert", "run"}
     \/ k.pc = "adopt" /\ k.mine = NoRow

SoleInv ==
  ~stirred =>
    /\ row = NoRow => Running = {}
    /\ \A c \in Caller : Making(call[c]) => Running = {}
    /\ \A c \in Caller : call[c].pc = "run" => row # NoRow
    /\ \A m, n \in Running : m = n

(***************************************************************************)
(* A call that nobody interrupts works on the row as it is, and its        *)
(* session's view of the row is current, so that its save writes what the  *)
(* call means to write.                                                    *)
(***************************************************************************)
Healed ==
  /\ row # NoRow
  /\ row.status \in {"running", "creating"}
  /\ docker[row.box] = "running"

Undisturbed(k) ==
  /\ k.op = "get"
  /\ k.pc \notin {"missed", "conflict"}
  /\ k.pc \in {"exists", "adopt", "terminate", "sweep", "delete"} => k.mine = row
  /\ k.pc = "exists" => k.mine.status \in {"running", "creating"}
  /\ k.pc = "insert" =>
       /\ row = NoRow
       /\ k.mine.status = "running" => docker[k.mine.box] = "running"
  /\ k.pc \in {"run", "save"} => row # NoRow /\ row.id = k.mine.id
  /\ k.pc = "save" => k.mine.status = "running" /\ docker[k.mine.box] = "running"
  /\ k.pc = "release" => Healed

Current(c) ==
  call[c].pc \in {"exists", "adopt", "terminate", "sweep", "delete", "run", "save"}
    => loaded[c] = row

AloneInv == \A c \in Caller : alone = c => Undisturbed(call[c]) /\ Current(c)

-----------------------------------------------------------------------------
(***************************************************************************)
(* Rows and calls.                                                         *)
(***************************************************************************)
Mine == Row \cup Draft \cup {NoRow}

LEMMA RowFields ==
  ASSUME NEW r \in Row
  PROVE  r.id \in 1 .. MaxBorn /\ r.id \in Name /\ r.box \in Name /\ r.status \in Status
BY BoundAssumption DEF Row, Name

LEMMA RowUpdate ==
  ASSUME NEW r \in Row, NEW s \in Status, NEW n \in Name
  PROVE  /\ [r EXCEPT !.status = s] \in Row
         /\ [r EXCEPT !.box = n, !.status = s] \in Row
         /\ [r EXCEPT !.status = s].id = r.id
         /\ [r EXCEPT !.status = s].status = s
         /\ [r EXCEPT !.status = s].box = r.box
         /\ [r EXCEPT !.box = n, !.status = s].id = r.id
         /\ [r EXCEPT !.box = n, !.status = s].box = n
         /\ [r EXCEPT !.box = n, !.status = s].status = s
BY DEF Row

LEMMA NoRowIsNoRow == NoRow \notin Row /\ NoRow \notin Draft
BY NoRowAssumption

K(op, pc, mine) == [op |-> op, pc |-> pc, mine |-> mine]

LEMMA KFields ==
  \A op, pc, mine : /\ K(op, pc, mine).op = op
                    /\ K(op, pc, mine).pc = pc
                    /\ K(op, pc, mine).mine = mine
BY DEF K

\* The call records that the steps below produce.
LEMMA Shapes ==
  /\ Shape(Rest)
  /\ \A pc \in {"release", "lock"} : Shape(K("get", pc, NoRow))
  /\ \A pc \in {"find", "missed", "conflict"}, m \in Mine : Shape(K("get", pc, m))
  /\ \A m \in Row, pc \in {"exists", "adopt", "save", "terminate", "sweep", "delete", "run"} :
       Shape(K("get", pc, m))
  /\ Shape(K("get", "adopt", NoRow))
  /\ \A m \in Row, pc \in {"terminate", "save", "delete"} : Shape(K("terminate", pc, m))
  /\ \A m \in Row, pc \in {"terminate", "save", "sweep", "run"} : Shape(K("restart", pc, m))
  /\ \A m \in Row, pc \in {"terminate", "save"} : Shape(K("reap", pc, m))
  /\ \A m \in Row, pc \in {"exists", "save"}, op \in {"sync", "health"} : Shape(K(op, pc, m))
  /\ \A m \in Row, pc \in {"exists", "save", "adopt"} : Shape(K("repair", pc, m))
  /\ \A m \in Draft :
       \/ m.box = 0 /\ m.status = "creating"
       \/ m.box \in Name /\ m.status = "running"
       => Shape(K("get", "insert", m))
<1> USE NoRowIsNoRow DEF Shape, K, Call, Ops, Pc, Rest, Mine
<1>1. Shape(Rest)
  OBVIOUS
<1>2. \A pc \in {"release", "lock"} : Shape(K("get", pc, NoRow))
  OBVIOUS
<1>3. \A pc \in {"find", "missed", "conflict"}, m \in Mine : Shape(K("get", pc, m))
  OBVIOUS
<1>4. \A m \in Row, pc \in {"exists", "adopt", "save", "terminate", "sweep", "delete", "run"} :
       Shape(K("get", pc, m))
  OBVIOUS
<1>5. Shape(K("get", "adopt", NoRow))
  OBVIOUS
<1>6. \A m \in Row, pc \in {"terminate", "save", "delete"} : Shape(K("terminate", pc, m))
  OBVIOUS
<1>7. \A m \in Row, pc \in {"terminate", "save", "sweep", "run"} : Shape(K("restart", pc, m))
  OBVIOUS
<1>8. \A m \in Row, pc \in {"terminate", "save"} : Shape(K("reap", pc, m))
  OBVIOUS
<1>9. \A m \in Row, pc \in {"exists", "save"}, op \in {"sync", "health"} : Shape(K(op, pc, m))
  OBVIOUS
<1>10. \A m \in Row, pc \in {"exists", "save", "adopt"} : Shape(K("repair", pc, m))
  OBVIOUS
<1>11. \A m \in Draft :
       \/ m.box = 0 /\ m.status = "creating"
       \/ m.box \in Name /\ m.status = "running"
       => Shape(K("get", "insert", m))
  OBVIOUS
<1> QED BY <1>1, <1>2, <1>3, <1>4, <1>5, <1>6, <1>7, <1>8, <1>9, <1>10, <1>11

(***************************************************************************)
(* A step of c moves its call to k and nobody else's.                      *)
(***************************************************************************)
Moved(c, k) ==
  /\ Shape(k)
  /\ call' = [call EXCEPT ![c] = k]
  /\ call'[c] = k
  /\ \A d \in Caller \ {c} : call'[d] = call[d]

LEMMA CallFields ==
  ASSUME TypeOK, ShapeInv, NEW c \in Caller
  PROVE  /\ call[c] = K(call[c].op, call[c].pc, call[c].mine)
         /\ call[c].op \in Ops \cup {"none"} /\ call[c].pc \in Pc /\ call[c].mine \in Mine
         /\ Shape(call[c])
BY DEF TypeOK, ShapeInv, Call, K, Mine

LEMMA MovedIntro ==
  ASSUME TypeOK, NEW c \in Caller, NEW k, Shape(k), call' = [call EXCEPT ![c] = k]
  PROVE  Moved(c, k)
BY DEF Moved, TypeOK

LEMMA CallForm == \A k \in Call : k = K(k.op, k.pc, k.mine)
BY DEF Call, K

LEMMA GotoMoves ==
  ASSUME TypeOK, ShapeInv, NEW c \in Caller, NEW pc, NEW m
  PROVE  /\ (GotoWith(c, pc, m) \/ Load(c, pc, m)) /\ Shape(K(call[c].op, pc, m))
              => Moved(c, K(call[c].op, pc, m))
         /\ Goto(c, pc) /\ Shape(K(call[c].op, pc, call[c].mine))
              => Moved(c, K(call[c].op, pc, call[c].mine))
<1>0. call[c] \in Call
  BY DEF TypeOK
<1>1. ASSUME GotoWith(c, pc, m) \/ Load(c, pc, m), Shape(K(call[c].op, pc, m))
      PROVE  call' = [call EXCEPT ![c] = K(call[c].op, pc, m)]
  <2>1. call' = [call EXCEPT ![c] = [call[c] EXCEPT !.pc = pc, !.mine = m]]
    BY <1>1 DEF GotoWith, Load, TypeOK
  <2>2. pc \in Pc /\ m \in Mine
    BY <1>1 DEF Shape, Call, K, Mine
  <2>3. [call[c] EXCEPT !.pc = pc, !.mine = m] = K(call[c].op, pc, m)
    <3> DEFINE k == [call[c] EXCEPT !.pc = pc, !.mine = m]
    <3>1. k \in Call /\ k.op = call[c].op /\ k.pc = pc /\ k.mine = m
      BY <1>0, <2>2 DEF Call, Mine
    <3> QED BY <3>1, CallForm
  <2> QED BY <2>1, <2>3
<1>2. ASSUME Goto(c, pc) PROVE call' = [call EXCEPT ![c] = K(call[c].op, pc, call[c].mine)]
  <2>1. call' = [call EXCEPT ![c] = [call[c] EXCEPT !.pc = pc]]
    BY <1>2 DEF Goto, TypeOK
  <2>2. [call[c] EXCEPT !.pc = pc] = K(call[c].op, pc, call[c].mine)
    BY <1>0 DEF Call, K
  <2> QED BY <2>1, <2>2
<1> QED BY <1>1, <1>2, MovedIntro

LEMMA LeaveMoves ==
  ASSUME TypeOK, NEW c \in Caller
  PROVE  /\ BecomeGet(c) => Moved(c, K("get", "lock", NoRow))
         /\ Leave(c) /\ call[c].op = "get" => Moved(c, K("get", "release", NoRow))
         /\ Leave(c) /\ call[c].op # "get" => Moved(c, Rest)
         /\ call' = [call EXCEPT ![c] = Rest] => Moved(c, Rest)
<1>0. Rest \in Call /\ Rest.mine = NoRow /\ "get" \in Ops /\ {"lock", "release"} \subseteq Pc
  BY DEF Rest, Call, Ops, Pc
<1>1. [Rest EXCEPT !.op = "get", !.pc = "lock"] = K("get", "lock", NoRow)
  <2> DEFINE k == [Rest EXCEPT !.op = "get", !.pc = "lock"]
  <2>1. k \in Call /\ k.op = "get" /\ k.pc = "lock" /\ k.mine = NoRow
    BY <1>0 DEF Call
  <2> QED BY <2>1, CallForm
<1>2. [Rest EXCEPT !.op = "get", !.pc = "release"] = K("get", "release", NoRow)
  <2> DEFINE k == [Rest EXCEPT !.op = "get", !.pc = "release"]
  <2>1. k \in Call /\ k.op = "get" /\ k.pc = "release" /\ k.mine = NoRow
    BY <1>0 DEF Call
  <2> QED BY <2>1, CallForm
<1>3. ASSUME Leave(c), call[c].op = "get"
      PROVE  call' = [call EXCEPT ![c] = K("get", "release", NoRow)]
  BY <1>2, <1>3 DEF Leave, TypeOK
<1>4. ASSUME Leave(c), call[c].op # "get" PROVE call' = [call EXCEPT ![c] = Rest]
  BY <1>4 DEF Leave, TypeOK
<1> QED BY <1>1, <1>3, <1>4, Shapes, MovedIntro DEF BecomeGet

-----------------------------------------------------------------------------
(***************************************************************************)
(* What each step does: where the call goes, and with which row.           *)
(***************************************************************************)
LEMMA OpOfPc ==
  ASSUME ShapeInv, NEW c \in Caller
  PROVE  /\ call[c].pc \in {"lock", "missed", "find", "insert", "release", "conflict"}
              => call[c].op = "get"
         /\ call[c].pc = "adopt" => call[c].op \in {"get", "repair"}
         /\ call[c].pc = "delete" => call[c].op \in {"get", "terminate"}
         /\ call[c].pc = "run" => call[c].op \in {"get", "restart"}
         /\ call[c].pc = "sweep" => call[c].op \in {"get", "restart"}
         /\ call[c].pc = "terminate" => call[c].op \in {"get", "terminate", "restart", "reap"}
         /\ call[c].pc \in {"exists", "run", "save", "terminate", "sweep", "delete"}
              => call[c].mine \in Row
BY DEF ShapeInv, Shape, Call, Ops, Rest

LEMMA SeenType ==
  ASSUME TypeOK, NEW p \in Process, NEW n \in Name, Seen(p, n)
  PROVE  tracked' \in [Process -> SUBSET Name]
BY DEF Seen, TypeOK

LEMMA HomeType == \A c \in Caller : Home[c] \in Process
BY HomeAssumption

LEMMA AcquireFacts ==
  ASSUME TypeOK, ShapeInv, NEW c \in Caller
  PROVE  /\ Acquire(c) => Moved(c, K("get", "find", call[c].mine))
         /\ AcquireTimesOut(c) => Moved(c, K("get", "missed", call[c].mine))
<1>1. \A pc \in {"find", "missed"} : Shape(K("get", pc, call[c].mine))
  BY Shapes, CallFields
<1> QED BY <1>1, OpOfPc, GotoMoves DEF Acquire, AcquireTimesOut

LEMMA MissedFacts ==
  ASSUME TypeOK, ShapeInv, NEW c \in Caller, HandleLockNotAcquired(c)
  PROVE  \/ row \in Row /\ Moved(c, K("get", "save", row))
         \/ Moved(c, K("get", "conflict", call[c].mine))
<1>1. Shape(K("get", "conflict", call[c].mine)) /\ (row # NoRow => row \in Row)
  BY Shapes, CallFields DEF TypeOK
<1>2. row # NoRow => Shape(K("get", "save", row))
  BY <1>1, Shapes
<1>3. call[c].op = "get"
  BY OpOfPc DEF HandleLockNotAcquired
<1>4. CASE row # NoRow /\ row.status = "running"
  BY <1>1, <1>2, <1>3, <1>4, GotoMoves DEF HandleLockNotAcquired
<1>5. CASE ~(row # NoRow /\ row.status = "running")
  BY <1>1, <1>3, <1>5, GotoMoves DEF HandleLockNotAcquired
<1> QED BY <1>4, <1>5

LEMMA ReleaseFacts ==
  ASSUME TypeOK, ShapeInv, NEW c \in Caller, Release(c)
  PROVE  /\ call[c].op = "get"
         /\ Moved(c, Rest) \/ Moved(c, K("get", "lock", NoRow))
BY OpOfPc, LeaveMoves DEF Release

LEMMA FindFacts ==
  ASSUME TypeOK, ShapeInv, NEW c \in Caller, FindExisting(c)
  PROVE  /\ call[c].op = "get"
         /\ \/ /\ row \in Row /\ row.status \in {"running", "creating"}
               /\ Moved(c, K("get", "exists", row))
            \/ row \in Row \cup {NoRow} /\ Moved(c, K("get", "adopt", row))
<1>1. row # NoRow => row \in Row
  BY DEF TypeOK
<1>2. /\ row # NoRow => Shape(K("get", "exists", row))
      /\ Shape(K("get", "adopt", row))
  BY <1>1, Shapes
<1>3. call[c].op = "get"
  BY OpOfPc DEF FindExisting
<1>4. CASE row # NoRow /\ row.status \in {"running", "creating"}
  <2>1. Load(c, "exists", row)
    BY <1>4 DEF FindExisting
  <2> QED BY <1>1, <1>2, <1>3, <1>4, <2>1, GotoMoves
<1>5. CASE ~(row # NoRow /\ row.status \in {"running", "creating"})
  <2>1. Load(c, "adopt", row)
    BY <1>5 DEF FindExisting
  <2> QED BY <1>1, <1>2, <1>3, <2>1, GotoMoves
<1> QED BY <1>4, <1>5

LEMMA StartFacts ==
  ASSUME TypeOK, ShapeInv, NEW c \in Caller, NEW op \in Ops \ {"get"}, NEW pc \in Pc,
         Start(c, op, pc),
         \A m \in Row : Shape(K(op, pc, m))
  PROVE  /\ call[c] = Rest /\ row \in Row
         /\ Moved(c, K(op, pc, row))
<1>1. call[c] = Rest /\ row \in Row /\ call[c] \in Call
  BY DEF Start, Idle, TypeOK
<1>2. call' = [call EXCEPT ![c] = [call[c] EXCEPT !.op = op, !.pc = pc, !.mine = row]]
  BY DEF Start, TypeOK
<1>3. [call[c] EXCEPT !.op = op, !.pc = pc, !.mine = row] = K(op, pc, row)
  <2> DEFINE k == [call[c] EXCEPT !.op = op, !.pc = pc, !.mine = row]
  <2>1. k \in Call /\ k.op = op /\ k.pc = pc /\ k.mine = row
    BY <1>1 DEF Call
  <2> QED BY <2>1, CallForm
<1> QED BY <1>1, <1>2, <1>3, MovedIntro

\* FindToReplace, FindToCheck and FindStale: an operation begins.
LEMMA StartShapes ==
  ASSUME TypeOK, ShapeInv, NEW c \in Caller
  PROVE  /\ FindToReplace(c) =>
              /\ call[c] = Rest /\ row \in Row
              /\ \E op \in {"terminate", "restart"} : Moved(c, K(op, "terminate", row))
         /\ FindToCheck(c) =>
              /\ call[c] = Rest /\ row \in Row
              /\ \E op \in {"sync", "health", "repair"} : Moved(c, K(op, "exists", row))
         /\ FindStale(c) =>
              /\ call[c] = Rest /\ row \in Row
              /\ \E pc \in {"terminate", "save"} : Moved(c, K("reap", pc, row))
<1>1. /\ {"terminate", "restart", "sync", "health", "repair", "reap"} \subseteq Ops \ {"get"}
      /\ {"terminate", "exists", "save"} \subseteq Pc
  BY DEF Ops, Pc
<1>2. ASSUME FindToReplace(c)
      PROVE  /\ call[c] = Rest /\ row \in Row
             /\ \E op \in {"terminate", "restart"} : Moved(c, K(op, "terminate", row))
  BY <1>1, <1>2, Shapes, StartFacts DEF FindToReplace
<1>3. ASSUME FindToCheck(c)
      PROVE  /\ call[c] = Rest /\ row \in Row
             /\ \E op \in {"sync", "health", "repair"} : Moved(c, K(op, "exists", row))
  <2>1. PICK op \in {"sync", "health", "repair"} : Start(c, op, "exists")
    BY <1>3 DEF FindToCheck
  <2>2. \A m \in Row : Shape(K(op, "exists", m))
    BY Shapes
  <2> QED BY <1>1, <2>1, <2>2, StartFacts
<1>4. ASSUME FindStale(c)
      PROVE  /\ call[c] = Rest /\ row \in Row
             /\ \E pc \in {"terminate", "save"} : Moved(c, K("reap", pc, row))
  BY <1>1, <1>4, Shapes, StartFacts DEF FindStale
<1> QED BY <1>2, <1>3, <1>4

Left(c) == IF call[c].op = "get" THEN K("get", "release", NoRow) ELSE Rest

LEMMA LeftMoves ==
  ASSUME TypeOK, NEW c \in Caller, Leave(c)
  PROVE  Moved(c, Left(c))
BY LeaveMoves DEF Left

LEMMA CheckContainerFacts ==
  ASSUME TypeOK, ShapeInv, NEW c \in Caller, CheckContainer(c)
  PROVE  /\ call[c].op = "get" /\ call[c].mine \in Row
         /\ tracked' \in [Process -> SUBSET Name]
         /\ Own(c) \/ Blip
         /\ \/ Moved(c, K("get", "adopt", call[c].mine))
            \/ /\ docker[call[c].mine.box] = "running" \/ Blip
               /\ call[c].mine.status = "running"
               /\ Moved(c, K("get", "save", call[c].mine))
            \/ /\ docker[call[c].mine.box] = "running" \/ Blip
               /\ Moved(c, K("get", "release", NoRow))
<1> DEFINE mine == call[c].mine
<1>1. call[c].op = "get" /\ mine \in Row
  BY OpOfPc DEF CheckContainer, At
<1>2. Shape(K("get", "adopt", mine)) /\ Shape(K("get", "save", mine))
  BY <1>1, Shapes
<1>3. mine.box \in Name /\ Home[c] \in Process
  BY <1>1, RowFields, HomeType
<1>4. PICK up \in BOOLEAN :
        /\ ContainerExists(c, mine.box, up)
        /\ IF ~up
           THEN Goto(c, "adopt") /\ UNCHANGED tracked
           ELSE IF mine.status = "running"
                THEN Goto(c, "save") /\ UNCHANGED tracked
                ELSE Leave(c) /\ Seen(Home[c], mine.box)
  BY DEF CheckContainer
<1>5. (Own(c) \/ Blip) /\ (up => docker[mine.box] = "running" \/ Blip)
  BY <1>4 DEF ContainerExists
<1>6. CASE ~up
  BY <1>1, <1>2, <1>4, <1>5, <1>6, GotoMoves DEF TypeOK
<1>7. CASE up /\ mine.status = "running"
  BY <1>1, <1>2, <1>4, <1>5, <1>7, GotoMoves DEF TypeOK
<1>8. CASE up /\ mine.status # "running"
  BY <1>1, <1>3, <1>4, <1>5, <1>8, LeaveMoves, SeenType
<1> QED BY <1>6, <1>7, <1>8

\* Status sync, health check and the first half of a repair end, or go on to
\* adopt or save a row.
LEMMA OtherCheckFacts ==
  ASSUME TypeOK, ShapeInv, NEW c \in Caller,
         CheckRepair(c) \/ SyncStatus(c) \/ HealthCheck(c)
  PROVE  /\ call[c].op \in {"repair", "sync", "health"}
         /\ tracked' \in [Process -> SUBSET Name]
         /\ Own(c) \/ Blip
         /\ \/ Moved(c, Rest)
            \/ \E pc \in {"adopt", "save"}, m \in Row : Moved(c, K(call[c].op, pc, m))
<1> DEFINE mine == call[c].mine
           op == call[c].op
<1>1. op \in {"repair", "sync", "health"} /\ mine \in Row
  BY OpOfPc DEF CheckRepair, SyncStatus, HealthCheck, At
<1>2. /\ \A m \in Row : Shape(K(op, "save", m))
      /\ op = "repair" => Shape(K(op, "adopt", mine))
  BY <1>1, Shapes
<1>3. mine.box \in Name /\ Home[c] \in Process
  BY <1>1, RowFields, HomeType
<1>4. \A s \in Status : [mine EXCEPT !.status = s] \in Row
  BY <1>1, <1>3, RowUpdate
<1>5. ASSUME NEW m \in Row, GotoWith(c, "save", m) PROVE Moved(c, K(op, "save", m))
  BY <1>2, <1>5, GotoMoves
<1>6. Leave(c) => Moved(c, Rest)
  BY <1>1, LeaveMoves
<1>7. ASSUME CheckRepair(c)
      PROVE  /\ tracked' \in [Process -> SUBSET Name]
             /\ \/ Moved(c, Rest)
                \/ \E pc \in {"adopt", "save"}, m \in Row : Moved(c, K(op, pc, m))
  <2>0. op = "repair" /\ "running" \in Status
    BY <1>7 DEF CheckRepair, At, Status
  <2>p. PICK up \in BOOLEAN :
          IF ~up
          THEN Goto(c, "adopt") /\ UNCHANGED tracked
          ELSE IF mine.status = "running"
               THEN Leave(c) /\ Seen(Home[c], mine.box)
               ELSE GotoWith(c, "save", [mine EXCEPT !.status = "running"])
                    /\ UNCHANGED tracked
    BY <1>7 DEF CheckRepair
  <2>1. CASE ~up
    <3>1. Goto(c, "adopt") /\ UNCHANGED tracked
      BY <2>p, <2>1
    <3>2. Moved(c, K(op, "adopt", mine))
      BY <1>2, <2>0, <3>1, GotoMoves
    <3> QED BY <1>1, <3>1, <3>2 DEF TypeOK
  <2>2. CASE up /\ mine.status = "running"
    <3>1. Leave(c) /\ Seen(Home[c], mine.box)
      BY <2>p, <2>2
    <3> QED BY <1>3, <1>6, <3>1, SeenType
  <2>3. CASE up /\ mine.status # "running"
    <3>1. GotoWith(c, "save", [mine EXCEPT !.status = "running"]) /\ UNCHANGED tracked
      BY <2>p, <2>3
    <3>2. [mine EXCEPT !.status = "running"] \in Row
      BY <1>4, <2>0
    <3> QED BY <1>5, <3>1, <3>2 DEF TypeOK
  <2> QED BY <2>1, <2>2, <2>3
<1>8. ASSUME SyncStatus(c)
      PROVE  /\ tracked' \in [Process -> SUBSET Name]
             /\ \/ Moved(c, Rest)
                \/ \E pc \in {"adopt", "save"}, m \in Row : Moved(c, K(op, pc, m))
  <2>1. tracked' \in [Process -> SUBSET Name]
    BY <1>3, <1>8, SeenType DEF SyncStatus
  <2>2. [mine EXCEPT !.status = "running"] \in Row /\ [mine EXCEPT !.status = "down"] \in Row
    BY <1>4 DEF Status
  <2>3. \/ Leave(c)
        \/ GotoWith(c, "save", [mine EXCEPT !.status = "running"])
        \/ GotoWith(c, "save", [mine EXCEPT !.status = "down"])
    BY <1>8 DEF SyncStatus
  <2> QED BY <1>5, <1>6, <2>1, <2>2, <2>3
<1>9. ASSUME HealthCheck(c)
      PROVE  /\ tracked' \in [Process -> SUBSET Name]
             /\ \/ Moved(c, Rest)
                \/ \E pc \in {"adopt", "save"}, m \in Row : Moved(c, K(op, pc, m))
  <2>1. PICK ok \in BOOLEAN :
          GotoWith(c, "save", [mine EXCEPT !.status = IF ok THEN "running" ELSE "down"])
    BY <1>9 DEF HealthCheck
  <2>2. [mine EXCEPT !.status = IF ok THEN "running" ELSE "down"] \in Row
    BY <1>4 DEF Status
  <2> QED BY <1>5, <1>9, <2>1, <2>2 DEF HealthCheck, TypeOK
<1>10. Own(c) \/ Blip
  BY DEF CheckRepair, SyncStatus, HealthCheck, ContainerExists
<1> QED BY <1>1, <1>7, <1>8, <1>9, <1>10

LEMMA AdoptFacts ==
  ASSUME TypeOK, ShapeInv, NEW c \in Caller, Adopt(c)
  PROVE  \E n \in Running :
           \/ /\ call[c].op = "get" /\ call[c].mine = NoRow
              /\ Moved(c, K("get", "insert", [id |-> 0, box |-> n, status |-> "running"]))
           \/ /\ call[c].op \in {"get", "repair"} /\ call[c].mine \in Row
              /\ Moved(c, K(call[c].op, "save",
                            [call[c].mine EXCEPT !.box = n, !.status = "running"]))
<1> DEFINE mine == call[c].mine
           op == call[c].op
<1>1. PICK n \in Running :
        IF mine = NoRow
        THEN GotoWith(c, "insert", [id |-> 0, box |-> n, status |-> "running"])
        ELSE GotoWith(c, "save", [mine EXCEPT !.box = n, !.status = "running"])
  BY DEF Adopt
<1>2. /\ op \in {"get", "repair"} /\ mine \in Row \cup {NoRow}
      /\ mine = NoRow => op = "get"
  BY NoRowIsNoRow, OpOfPc, CallFields DEF Adopt, Shape
<1>3. n \in Name /\ n \in -MaxBorn .. MaxBorn
  BY DEF Running, Name
<1>4. CASE mine = NoRow
  <2>1. [id |-> 0, box |-> n, status |-> "running"] \in Draft
    BY <1>3 DEF Draft, Status
  <2>2. Shape(K("get", "insert", [id |-> 0, box |-> n, status |-> "running"]))
    BY <1>3, <2>1, Shapes
  <2> QED BY <1>1, <1>2, <1>4, <2>2, GotoMoves
<1>5. CASE mine \in Row
  <2>1. [mine EXCEPT !.box = n, !.status = "running"] \in Row
    BY <1>3, <1>5, RowUpdate DEF Status
  <2>2. Shape(K(op, "save", [mine EXCEPT !.box = n, !.status = "running"]))
    BY <1>2, <2>1, Shapes
  <2> QED BY <1>1, <1>2, <1>5, <2>2, GotoMoves, NoRowIsNoRow
<1> QED BY <1>2, <1>4, <1>5

LEMMA NothingFacts ==
  ASSUME TypeOK, ShapeInv, NEW c \in Caller, NothingToAdopt(c)
  PROVE  \/ call[c].op = "repair" /\ Moved(c, K("get", "lock", NoRow))
         \/ /\ call[c].op = "get" /\ call[c].mine = NoRow
            /\ Moved(c, K("get", "insert", [id |-> 0, box |-> 0, status |-> "creating"]))
         \/ /\ call[c].op = "get" /\ call[c].mine \in Row
            /\ Moved(c, K("get", "terminate", call[c].mine))
<1> DEFINE mine == call[c].mine
<1>1. call[c].op \in {"get", "repair"} /\ mine \in Row \cup {NoRow}
  BY OpOfPc, CallFields DEF NothingToAdopt, Shape
<1>2. CASE call[c].op = "repair"
  BY <1>2, LeaveMoves DEF NothingToAdopt
<1>3. CASE call[c].op = "get" /\ mine = NoRow
  <2>1. [id |-> 0, box |-> 0, status |-> "creating"] \in Draft
    BY BoundAssumption DEF Draft, Status
  <2>2. Shape(K("get", "insert", [id |-> 0, box |-> 0, status |-> "creating"]))
    BY <2>1, Shapes
  <2>3. GotoWith(c, "insert", [id |-> 0, box |-> 0, status |-> "creating"])
    BY <1>3 DEF NothingToAdopt
  <2> QED BY <1>3, <2>2, <2>3, GotoMoves
<1>4. CASE call[c].op = "get" /\ mine # NoRow
  <2>1. Shape(K("get", "terminate", mine))
    BY <1>1, <1>4, Shapes
  <2>2. Goto(c, "terminate")
    BY <1>4 DEF NothingToAdopt
  <2> QED BY <1>1, <1>4, <2>1, <2>2, GotoMoves
<1> QED BY <1>1, <1>2, <1>3, <1>4

LEMMA InsertFacts ==
  ASSUME TypeOK, ShapeInv, NEW c \in Caller, Insert(c)
  PROVE  /\ call[c].op = "get"
         /\ tracked' \in [Process -> SUBSET Name]
         /\ \/ /\ row # NoRow /\ UNCHANGED <<row, born>>
               /\ \/ Moved(c, K("get", "release", NoRow))
                  \/ Moved(c, K("get", "conflict", call[c].mine))
            \/ /\ row = NoRow /\ born' \in 0 .. MaxBorn /\ row' \in Row
               /\ row'.status = call[c].mine.status
               /\ \/ /\ call[c].mine.status = "creating"
                     /\ Moved(c, K("get", "run", row'))
                  \/ /\ call[c].mine.status = "running" /\ row'.box = call[c].mine.box
                     /\ Moved(c, K("get", "release", NoRow))
<1> DEFINE draft == call[c].mine
           new == [draft EXCEPT !.id = born + 1, !.box = IF @ = 0 THEN -(born + 1) ELSE @]
<1>1. /\ call[c].op = "get" /\ draft \in Draft
      /\ \/ draft.box = 0 /\ draft.status = "creating"
         \/ draft.box \in Name /\ draft.status = "running"
  BY OpOfPc, CallFields DEF Insert, Shape
<1>2. CASE row # NoRow
  <2>1. Shape(K("get", "conflict", draft))
    BY Shapes, CallFields
  <2>2. UNCHANGED <<row, born, tracked>> /\ (Leave(c) \/ Goto(c, "conflict"))
    BY <1>2 DEF Insert
  <2> QED BY <1>1, <1>2, <2>1, <2>2, GotoMoves, LeaveMoves DEF TypeOK
<1>3. CASE row = NoRow
  <2>1. /\ born < MaxBorn /\ born' = born + 1 /\ row' = new
        /\ IF draft.status = "creating"
           THEN Load(c, "run", new) /\ UNCHANGED tracked
           ELSE Leave(c) /\ Seen(Home[c], new.box)
    BY <1>3 DEF Insert
  <2>2. /\ born + 1 \in 1 .. MaxBorn /\ -(born + 1) \in Name /\ born + 1 \in 0 .. MaxBorn
    BY <2>1, BoundAssumption DEF TypeOK, Name
  <2>3. /\ new.id = born + 1 /\ new.status = draft.status
        /\ new.box = IF draft.box = 0 THEN -(born + 1) ELSE draft.box
    BY <1>1 DEF Draft
  <2>4. new.box \in Name
    BY <1>1, <2>2, <2>3
  <2>5. new \in Row
    <3>1. new = [id |-> new.id, box |-> new.box, status |-> new.status]
      <4> DEFINE i == born + 1
                 b == IF draft.box = 0 THEN -(born + 1) ELSE draft.box
      <4>1. i \in Int /\ b \in Int /\ draft \in [id : Int, box : Int, status : Status]
        BY <1>1, <2>2 DEF Draft, Name
      <4>2. new = [draft EXCEPT !.id = i, !.box = b]
        OBVIOUS
      <4> HIDE DEF i, b
      <4>3. new \in [id : Int, box : Int, status : Status]
        BY <4>1, <4>2
      <4> HIDE DEF new
      <4> QED BY <4>3
    <3>2. new.status \in Status
      BY <1>1, <2>3 DEF Draft
    <3> HIDE DEF new
    <3> QED BY <2>2, <2>3, <2>4, <3>1, <3>2 DEF Row
  <2>6. CASE draft.status = "creating"
    <3>1. Shape(K("get", "run", new))
      BY <2>5, Shapes
    <3>2. Moved(c, K("get", "run", new)) /\ UNCHANGED tracked
      BY <1>1, <2>1, <2>6, <3>1, GotoMoves
    <3> HIDE DEF new
    <3> QED BY <1>1, <1>3, <2>1, <2>2, <2>3, <2>5, <2>6, <3>2 DEF TypeOK
  <2>7. CASE draft.status = "running"
    <3>1. Leave(c) /\ Seen(Home[c], new.box)
      BY <2>1, <2>7
    <3>2. new.box = draft.box /\ 0 \notin Name
      BY <1>1, <2>3, <2>7 DEF Name
    <3> HIDE DEF new
    <3>3. Moved(c, K("get", "release", NoRow)) /\ tracked' \in [Process -> SUBSET Name]
      BY <1>1, <2>4, <3>1, LeaveMoves, SeenType, HomeType
    <3> QED BY <1>1, <1>3, <2>1, <2>2, <2>3, <2>5, <2>7, <3>2, <3>3
  <2> QED BY <1>1, <2>6, <2>7
<1> QED BY <1>2, <1>3

\* A save keeps the row's id, and writes all that the call changed.
LEMMA WrittenRow ==
  ASSUME NEW c, row \in Row, call[c].mine \in Row
  PROVE  /\ Written(c) \in Row
         /\ Written(c).id = row.id
         /\ loaded[c] = row => Written(c).box = call[c].mine.box
         /\ loaded[c] = row => Written(c).status = call[c].mine.status
<1> DEFINE mine == call[c].mine
           b == IF mine.box = loaded[c].box THEN row.box ELSE mine.box
           t == IF mine.status = loaded[c].status THEN row.status ELSE mine.status
<1>1. b \in Name /\ t \in Status
  BY RowFields
<1>2. Written(c) = [row EXCEPT !.box = b, !.status = t]
  BY DEF Written
<1>3. loaded[c] = row => b = mine.box /\ t = mine.status
  OBVIOUS
<1> HIDE DEF b, t
<1>4. /\ Written(c) \in Row /\ Written(c).id = row.id
      /\ Written(c).box = b /\ Written(c).status = t
  <2> DEFINE w == [row EXCEPT !.box = b, !.status = t]
  <2>1. w \in Row /\ w.id = row.id /\ w.box = b /\ w.status = t
    BY <1>1 DEF Row
  <2>2. Written(c) = w
    BY <1>2
  <2> HIDE DEF w
  <2> QED BY <2>1, <2>2
<1> QED BY <1>3, <1>4

LEMMA SaveFacts ==
  ASSUME TypeOK, ShapeInv, NEW c \in Caller, Save(c)
  PROVE  /\ call[c].mine \in Row
         /\ tracked' \in [Process -> SUBSET Name]
         /\ \/ row' \in {call[c].mine, Written(c)} /\ row' \in Row
            \/ ~(row # NoRow /\ row.id = call[c].mine.id) /\ row' = row
         /\ \/ Moved(c, Left(c))
            \/ /\ ~(row # NoRow /\ row.id = call[c].mine.id) /\ call[c].op = "get"
               /\ Moved(c, K("get", "conflict", NoRow))
            \/ call[c].op = "restart" /\ Moved(c, K("restart", "run", call[c].mine))
            \/ call[c].op = "terminate" /\ Moved(c, K("terminate", "delete", call[c].mine))
<1> DEFINE mine == call[c].mine
           op == call[c].op
<1>1. mine \in Row /\ mine.box \in Name /\ Home[c] \in Process
  BY OpOfPc, RowFields, HomeType DEF Save
<1>2. tracked' \in [Process -> SUBSET Name]
  <2>1. Seen(Home[c], mine.box) \/ UNCHANGED tracked
    BY DEF Save
  <2> QED BY <1>1, <2>1, SeenType DEF TypeOK
<1>3. \/ Leave(c)
      \/ ~(row # NoRow /\ row.id = mine.id) /\ op = "get" /\ GotoWith(c, "conflict", NoRow)
      \/ op = "restart" /\ Load(c, "run", mine)
      \/ op = "terminate" /\ Load(c, "delete", mine)
  BY DEF Save
<1>4. /\ Shape(K("restart", "run", mine)) /\ Shape(K("terminate", "delete", mine))
      /\ Shape(K("get", "conflict", NoRow))
  BY <1>1, Shapes DEF Mine
<1>5. \/ Moved(c, Left(c))
      \/ /\ ~(row # NoRow /\ row.id = mine.id) /\ op = "get"
         /\ Moved(c, K("get", "conflict", NoRow))
      \/ op = "restart" /\ Moved(c, K("restart", "run", mine))
      \/ op = "terminate" /\ Moved(c, K("terminate", "delete", mine))
  BY <1>3, <1>4, GotoMoves, LeftMoves
<1>6. \/ row' \in {mine, Written(c)} /\ row' \in Row
      \/ ~(row # NoRow /\ row.id = mine.id) /\ row' = row
  <2>1. row # NoRow => Written(c) \in Row
    BY <1>1, WrittenRow DEF TypeOK
  <2> QED BY <1>1, <2>1 DEF Save
<1> QED BY <1>1, <1>2, <1>5, <1>6

LEMMA DeleteFacts ==
  ASSUME TypeOK, ShapeInv, NEW c \in Caller, Delete(c)
  PROVE  /\ row' = IF row # NoRow /\ row.id = call[c].mine.id THEN NoRow ELSE row
         /\ \/ call[c].op = "get" /\ Moved(c, K("get", "adopt", NoRow))
            \/ call[c].op = "terminate" /\ Moved(c, Rest)
BY OpOfPc, Shapes, GotoMoves, LeaveMoves DEF Delete

LEMMA TerminateFacts ==
  ASSUME TypeOK, ShapeInv, NEW c \in Caller, TerminateSandbox(c)
  PROVE  /\ call[c].mine \in Row
         /\ tracked' \in [Process -> SUBSET Name]
         /\ \/ docker' = [docker EXCEPT ![call[c].mine.box] = "none"] /\ Own(c)
            \/ docker' = docker /\ (Own(c) \/ Stir)
         /\ \/ /\ call[c].op \in {"terminate", "reap"}
               /\ Moved(c, K(call[c].op, "save", [call[c].mine EXCEPT !.status = "down"]))
            \/ /\ call[c].op \in {"get", "restart"}
               /\ Moved(c, K(call[c].op, "sweep", call[c].mine))
<1> DEFINE mine == call[c].mine
           op == call[c].op
<1>1. mine \in Row /\ mine.box \in Name /\ Home[c] \in Process
  BY OpOfPc, RowFields, HomeType DEF TerminateSandbox
<1>2. op \in {"get", "terminate", "restart", "reap"}
  BY OpOfPc DEF TerminateSandbox
<1>3. tracked' \in [Process -> SUBSET Name]
  BY <1>1 DEF TerminateSandbox, TypeOK
<1>4. [mine EXCEPT !.status = "down"] \in Row
  BY <1>1, RowUpdate DEF Status
<1>5. CASE op \in {"terminate", "reap"}
  <2>1. Shape(K(op, "save", [mine EXCEPT !.status = "down"]))
    BY <1>4, <1>5, Shapes
  <2>2. GotoWith(c, "save", [mine EXCEPT !.status = "down"])
    BY <1>5 DEF TerminateSandbox
  <2>3. Moved(c, K(op, "save", [mine EXCEPT !.status = "down"]))
    BY <2>1, <2>2, GotoMoves
  <2> QED BY <1>1, <1>3, <1>5, <2>3 DEF TerminateSandbox
<1>6. CASE op \in {"get", "restart"}
  <2>1. Shape(K(op, "sweep", mine))
    BY <1>1, <1>6, Shapes
  <2>2. Goto(c, "sweep")
    BY <1>6 DEF TerminateSandbox
  <2>3. Moved(c, K(op, "sweep", mine))
    BY <2>1, <2>2, GotoMoves
  <2> QED BY <1>1, <1>3, <1>6, <2>3 DEF TerminateSandbox
<1> QED BY <1>2, <1>5, <1>6

LEMMA CleanupFacts ==
  ASSUME TypeOK, ShapeInv, NEW c \in Caller, CleanupProjectContainers(c)
  PROVE  /\ call[c].mine \in Row
         /\ tracked' \in [Process -> SUBSET Name]
         /\ \/ call[c].op = "get" /\ Moved(c, K("get", "delete", call[c].mine))
            \/ /\ call[c].op = "restart"
               /\ Moved(c, K("restart", "save", [call[c].mine EXCEPT !.status = "creating"]))
<1> DEFINE mine == call[c].mine
<1>1. mine \in Row /\ mine.box \in Name /\ Home[c] \in Process
      /\ call[c].op \in {"get", "restart"}
  BY OpOfPc, RowFields, HomeType DEF CleanupProjectContainers
<1>2. tracked' \in [Process -> SUBSET Name]
  BY <1>1 DEF CleanupProjectContainers, TypeOK
<1>3. [mine EXCEPT !.status = "creating"] \in Row
  BY <1>1, RowUpdate DEF Status
<1>4. /\ Shape(K("get", "delete", mine))
      /\ Shape(K("restart", "save", [mine EXCEPT !.status = "creating"]))
  BY <1>1, <1>3, Shapes
<1>5. CASE call[c].op = "get"
  BY <1>1, <1>2, <1>4, <1>5, GotoMoves DEF CleanupProjectContainers
<1>6. CASE call[c].op = "restart"
  <2>1. GotoWith(c, "save", [mine EXCEPT !.status = "creating"])
    BY <1>6 DEF CleanupProjectContainers
  <2> QED BY <1>1, <1>2, <1>4, <1>6, <2>1, GotoMoves
<1> QED BY <1>1, <1>5, <1>6

LEMMA CreateFacts ==
  ASSUME TypeOK, ShapeInv, NEW c \in Caller, call[c].pc = "run"
  PROVE  /\ call[c].mine \in Row /\ NewName(c) \in Name
         /\ call[c].op \in {"get", "restart"}
         /\ CreateSandbox(c) =>
              /\ tracked' \in [Process -> SUBSET Name]
              /\ Moved(c, K(call[c].op, "save",
                            [call[c].mine EXCEPT !.box = NewName(c), !.status = "running"]))
         /\ CreateFails(c) =>
              Moved(c, K(call[c].op, "save", [call[c].mine EXCEPT !.status = "down"]))
<1> DEFINE mine == call[c].mine
           up == [mine EXCEPT !.box = NewName(c), !.status = "running"]
           down == [mine EXCEPT !.status = "down"]
<1>1. mine \in Row /\ Home[c] \in Process /\ call[c].op \in {"get", "restart"}
  BY OpOfPc, HomeType
<1>2. NewName(c) \in Name
  BY <1>1, RowFields DEF NewName
<1>3. up \in Row /\ down \in Row
  BY <1>1, <1>2, RowUpdate DEF Status
<1>4. Shape(K(call[c].op, "save", up)) /\ Shape(K(call[c].op, "save", down))
  <2> HIDE DEF up, down
  <2> QED BY <1>1, <1>3, Shapes
<1>5. ASSUME CreateSandbox(c)
      PROVE  tracked' \in [Process -> SUBSET Name] /\ Moved(c, K(call[c].op, "save", up))
  <2>1. tracked' \in [Process -> SUBSET Name]
    BY <1>1, <1>2, <1>5 DEF CreateSandbox, TypeOK
  <2>2. GotoWith(c, "save", up)
    BY <1>5 DEF CreateSandbox
  <2> HIDE DEF up
  <2> QED BY <1>4, <2>1, <2>2, GotoMoves
<1>6. ASSUME CreateFails(c) PROVE Moved(c, K(call[c].op, "save", down))
  <2>1. GotoWith(c, "save", down)
    BY <1>6 DEF CreateFails
  <2> HIDE DEF down
  <2> QED BY <1>4, <2>1, GotoMoves
<1> QED BY <1>1, <1>2, <1>5, <1>6

-----------------------------------------------------------------------------
(***************************************************************************)
(* Types.                                                                  *)
(***************************************************************************)
LEMMA BeginFacts ==
  ASSUME TypeOK, NEW c \in Caller, Begin(c) \/ RecoverExistingProjectSandbox(c)
  PROVE  /\ call[c] = Rest /\ Moved(c, K("get", "lock", NoRow)) /\ alone' = c
         /\ tracked' \in [Process -> SUBSET Name]
         /\ loaded' \in [Caller -> Row \cup {NoRow}]
         /\ UNCHANGED <<row, born, docker, lock, faults, stirred>>
<1>1. BecomeGet(c)
  BY DEF Begin, RecoverExistingProjectSandbox
<1>2. loaded' \in [Caller -> Row \cup {NoRow}]
  BY <1>1 DEF BecomeGet, Unload, TypeOK
<1> QED
  BY <1>1, <1>2, LeaveMoves DEF Begin, RecoverExistingProjectSandbox, Idle, TypeOK

LEMMA StepMoves ==
  ASSUME TypeOK, ShapeInv, NEW c \in Caller, Step(c)
  PROVE  \E k : Moved(c, k)
<1>1. ASSUME Find(c) PROVE \E k : Moved(c, k)
  BY <1>1, FindFacts, StartShapes DEF Find
<1>2. ASSUME Check(c) PROVE \E k : Moved(c, k)
  BY <1>2, CheckContainerFacts, OtherCheckFacts DEF Check
<1>3. ASSUME Adopt(c) \/ NothingToAdopt(c) PROVE \E k : Moved(c, k)
  BY <1>3, AdoptFacts, NothingFacts
<1>4. ASSUME Insert(c) \/ Save(c) \/ Delete(c) PROVE \E k : Moved(c, k)
  BY <1>4, InsertFacts, SaveFacts, DeleteFacts
<1>5. ASSUME TerminateSandbox(c) \/ CleanupProjectContainers(c) PROVE \E k : Moved(c, k)
  BY <1>5, TerminateFacts, CleanupFacts
<1>6. ASSUME CreateSandbox(c) \/ CreateFails(c) PROVE \E k : Moved(c, k)
  BY <1>6, CreateFacts DEF CreateSandbox, CreateFails
<1>7. ASSUME Acquire(c) \/ AcquireTimesOut(c) \/ HandleLockNotAcquired(c) \/ Release(c)
      PROVE  \E k : Moved(c, k)
  BY <1>7, AcquireFacts, MissedFacts, ReleaseFacts
<1> QED BY <1>1, <1>2, <1>3, <1>4, <1>5, <1>6, <1>7 DEF Step

LEMMA MovedType ==
  ASSUME TypeOK, ShapeInv, NEW c \in Caller, NEW k, Moved(c, k)
  PROVE  call' \in [Caller -> Call] /\ ShapeInv'
<1>1. k \in Call
  BY DEF Moved, Shape
<1>2. call' \in [Caller -> Call]
  BY <1>1 DEF Moved, TypeOK
<1>3. ASSUME NEW d \in Caller PROVE Shape(call'[d])
  BY <1>3 DEF Moved, ShapeInv
<1>4. ASSUME NEW d \in Caller PROVE Shape(call[d])'
  BY <1>3 DEF Shape
<1> QED BY <1>2, <1>4 DEF ShapeInv

\* What a session has loaded is a stored row, or nothing.
LEMMA LoadedType ==
  ASSUME TypeOK, ShapeInv, NEW c \in Caller, Step(c)
  PROVE  loaded' \in [Caller -> Row \cup {NoRow}]
<1> DEFINE T == loaded' \in [Caller -> Row \cup {NoRow}]
<1>1. UNCHANGED loaded \/ Unload(c) => T
  BY DEF Unload, TypeOK
<1>2. ASSUME NEW pc, NEW m \in Row \cup {NoRow}, Load(c, pc, m) PROVE T
  BY <1>2 DEF Load, TypeOK
<1>3. row \in Row \cup {NoRow}
  BY DEF TypeOK
<1>4. CASE Acquire(c) \/ AcquireTimesOut(c) \/ Release(c)
  BY <1>1, <1>4 DEF Acquire, AcquireTimesOut, Release, Goto, BecomeGet
<1>5. CASE HandleLockNotAcquired(c)
  BY <1>1, <1>2, <1>3, <1>5 DEF HandleLockNotAcquired, Goto
<1>6. CASE FindExisting(c)
  BY <1>2, <1>3, <1>6 DEF FindExisting
<1>7. CASE FindToReplace(c) \/ FindToCheck(c) \/ FindStale(c)
  <2>1. loaded' = [loaded EXCEPT ![c] = row]
    BY <1>7 DEF FindToReplace, FindToCheck, FindStale, Start
  <2> QED BY <1>3, <2>1 DEF TypeOK
<1>8. CASE Check(c)
  BY <1>1, <1>8 DEF Check, CheckContainer, CheckRepair, SyncStatus, HealthCheck,
       Goto, GotoWith, Leave
<1>9. CASE Adopt(c) \/ NothingToAdopt(c)
  <2>1. UNCHANGED loaded \/ Unload(c)
    BY <1>9 DEF Adopt, NothingToAdopt, Goto, GotoWith, BecomeGet
  <2> QED BY <1>1, <2>1
<1>10. CASE Insert(c)
  <2>1. Unload(c) \/ UNCHANGED loaded \/ (row = NoRow /\ Load(c, "run", row'))
    BY <1>10 DEF Insert, Goto, Leave
  <2> QED BY <1>1, <1>2, <1>10, <2>1, InsertFacts
<1>11. CASE Save(c)
  <2>1. Unload(c) \/ UNCHANGED loaded \/ \E pc : Load(c, pc, call[c].mine)
    BY <1>11 DEF Save, Leave, GotoWith
  <2> QED BY <1>1, <1>2, <1>11, <2>1, SaveFacts
<1>12. CASE Delete(c)
  BY <1>1, <1>2, <1>12 DEF Delete, Leave
<1>13. CASE TerminateSandbox(c) \/ CleanupProjectContainers(c) \/ CreateSandbox(c) \/ CreateFails(c)
  BY <1>1, <1>13 DEF TerminateSandbox, CleanupProjectContainers, CreateSandbox, CreateFails,
       Goto, GotoWith
<1> QED BY <1>4, <1>5, <1>6, <1>7, <1>8, <1>9, <1>10, <1>11, <1>12, <1>13 DEF Step, Find

\* The lock that a commit or a release may leave behind.
LEMMA EndType ==
  ASSUME TypeOK, NEW c \in Caller, EndTransaction(c)
  PROVE  /\ lock' \in [{"redis", "advisory"} -> Caller \cup {Free, Lost}]
         /\ lock'["redis"] = lock["redis"]
         /\ lock'["advisory"] # c
         /\ lock'["advisory"] = lock["advisory"] \/ lock'["advisory"] \in {Free, Lost}
BY MarkAssumption DEF EndTransaction, TypeOK

LEMMA HistoryType ==
  ASSUME TypeOK, NEW c \in Caller, Own(c) \/ Interrupt \/ Stir \/ Blip
  PROVE  faults' \in 0 .. MaxFaults /\ alone' \in Caller \cup {Free} /\ stirred' \in BOOLEAN
<1>1. CountFault => faults' \in 0 .. MaxFaults
  BY BoundAssumption DEF CountFault, TypeOK
<1>2. faults' \in 0 .. MaxFaults
  BY <1>1 DEF Own, Interrupt, Stir, Blip, TypeOK
<1>3. alone' \in Caller \cup {Free}
  BY DEF Own, Interrupt, Stir, Blip, CountFault, TypeOK
<1>4. stirred' \in BOOLEAN
  BY DEF Own, Interrupt, Stir, Blip, TypeOK
<1> QED BY <1>2, <1>3, <1>4

\* The variables other than call, step by step.
LEMMA StepType ==
  ASSUME TypeOK, ShapeInv, NEW c \in Caller, Step(c)
  PROVE  /\ row' \in Row \cup {NoRow}
         /\ born' \in 0 .. MaxBorn
         /\ docker' \in [Name -> {"none", "running", "exited"}]
         /\ tracked' \in [Process -> SUBSET Name]
         /\ lock' \in [{"redis", "advisory"} -> Caller \cup {Free, Lost}]
         /\ faults' \in 0 .. MaxFaults
         /\ alone' \in Caller \cup {Free}
         /\ stirred' \in BOOLEAN
<1> DEFINE Others ==
             /\ row' \in Row \cup {NoRow}
             /\ born' \in 0 .. MaxBorn
             /\ docker' \in [Name -> {"none", "running", "exited"}]
             /\ tracked' \in [Process -> SUBSET Name]
             /\ lock' \in [{"redis", "advisory"} -> Caller \cup {Free, Lost}]
             /\ faults' \in 0 .. MaxFaults
             /\ alone' \in Caller \cup {Free}
             /\ stirred' \in BOOLEAN
<1>1. CASE Acquire(c)
  BY <1>1 DEF Acquire, TypeOK
<1>2. CASE AcquireTimesOut(c) \/ HandleLockNotAcquired(c)
  <2>1. lock' \in [{"redis", "advisory"} -> Caller \cup {Free, Lost}]
    BY <1>2 DEF AcquireTimesOut, HandleLockNotAcquired, TypeOK
  <2>2. Own(c) \/ Interrupt \/ Blip
    BY <1>2 DEF AcquireTimesOut, HandleLockNotAcquired
  <2> QED BY <1>2, <2>1, <2>2, HistoryType DEF AcquireTimesOut, HandleLockNotAcquired, TypeOK
<1>3. CASE Release(c)
  <2>1. lock' \in [{"redis", "advisory"} -> Caller \cup {Free, Lost}]
    BY <1>3, EndType DEF Release, TypeOK
  <2>2. faults' \in 0 .. MaxFaults /\ alone' \in Caller \cup {Free} /\ stirred' \in BOOLEAN
    BY <1>3, HistoryType DEF Release
  <2> QED BY <1>3, <2>1, <2>2 DEF Release, TypeOK
<1>4. CASE Find(c)
  <2>1. UNCHANGED <<row, born, docker, tracked, lock>>
    BY <1>4 DEF Find, FindExisting, FindToReplace, FindToCheck, FindStale, Start
  <2>2. Own(c) \/ Interrupt \/ Stir \/ Blip
    BY <1>4 DEF Find, FindExisting, FindToReplace, FindToCheck, FindStale
  <2> QED BY <2>1, <2>2, HistoryType DEF TypeOK
<1>5. CASE Check(c)
  <2>1. UNCHANGED <<row, born, docker, lock>>
    BY <1>5 DEF Check, CheckContainer, CheckRepair, SyncStatus, HealthCheck
  <2>2. tracked' \in [Process -> SUBSET Name] /\ (Own(c) \/ Blip)
    BY <1>5, CheckContainerFacts, OtherCheckFacts DEF Check
  <2> QED BY <2>1, <2>2, HistoryType DEF TypeOK
<1>6. CASE Adopt(c) \/ NothingToAdopt(c)
  BY <1>6, HistoryType DEF Adopt, NothingToAdopt, TypeOK
<1>7. CASE Insert(c)
  <2>1. UNCHANGED docker /\ EndTransaction(c) /\ Own(c)
    BY <1>7 DEF Insert
  <2>2. row' \in Row \cup {NoRow} /\ born' \in 0 .. MaxBorn
    BY <1>7, InsertFacts DEF TypeOK
  <2> QED BY <1>7, <2>1, <2>2, InsertFacts, EndType, HistoryType DEF TypeOK
<1>8. CASE Save(c)
  <2>1. UNCHANGED <<born, docker>> /\ EndTransaction(c) /\ Own(c)
    BY <1>8 DEF Save
  <2>2. row' \in Row \cup {NoRow}
    BY <1>8, SaveFacts DEF TypeOK
  <2> QED BY <1>8, <2>1, <2>2, SaveFacts, EndType, HistoryType DEF TypeOK
<1>9. CASE Delete(c)
  BY <1>9, EndType, HistoryType DEF Delete, TypeOK
<1>10. CASE TerminateSandbox(c)
  <2>1. UNCHANGED <<row, born, lock>>
    BY <1>10 DEF TerminateSandbox
  <2>2. docker' \in [Name -> {"none", "running", "exited"}]
    BY <1>10, TerminateFacts DEF TypeOK
  <2>3. Own(c) \/ Stir
    BY <1>10 DEF TerminateSandbox
  <2> QED BY <1>10, <2>1, <2>2, <2>3, TerminateFacts, HistoryType DEF TypeOK
<1>11. CASE CleanupProjectContainers(c)
  <2>1. UNCHANGED <<row, born, lock>>
    BY <1>11 DEF CleanupProjectContainers
  <2>2. docker' \in [Name -> {"none", "running", "exited"}] /\ (Own(c) \/ Stir)
    BY <1>11 DEF CleanupProjectContainers, TypeOK
  <2> QED BY <1>11, <2>1, <2>2, CleanupFacts, HistoryType DEF TypeOK
<1>12. CASE CreateSandbox(c)
  <2>1. UNCHANGED <<row, born, lock>> /\ Own(c) /\ call[c].pc = "run"
    BY <1>12 DEF CreateSandbox
  <2>2. docker' \in [Name -> {"none", "running", "exited"}]
    BY <1>12, <2>1, CreateFacts DEF CreateSandbox, TypeOK
  <2> QED BY <1>12, <2>1, <2>2, CreateFacts, HistoryType DEF TypeOK
<1>13. CASE CreateFails(c)
  <2>1. UNCHANGED <<row, born, lock, tracked>> /\ Stir /\ call[c].pc = "run"
    BY <1>13 DEF CreateFails
  <2>2. docker' \in [Name -> {"none", "running", "exited"}]
    BY <1>13, <2>1, CreateFacts DEF CreateFails, TypeOK
  <2> QED BY <2>1, <2>2, HistoryType DEF TypeOK
<1> QED BY <1>1, <1>2, <1>3, <1>4, <1>5, <1>6, <1>7, <1>8, <1>9, <1>10, <1>11, <1>12, <1>13
        DEF Step

\* The world around.
LEMMA WorldType ==
  ASSUME TypeOK, ShapeInv,
         \/ \E n \in Name : ContainerDies(n)
         \/ \E p \in Process : SyncFromDocker(p) \/ Crash(p)
         \/ LostLockEnds
         \/ LockExpires
  PROVE  TypeOK' /\ ShapeInv'
<1>1. ASSUME NEW n \in Name, ContainerDies(n) PROVE TypeOK' /\ ShapeInv'
  <2>1. docker' \in [Name -> {"none", "running", "exited"}]
    BY <1>1 DEF ContainerDies, TypeOK
  <2>2. /\ UNCHANGED <<row, born, tracked, lock, call, loaded, stirred>>
        /\ faults' \in 0 .. MaxFaults /\ alone' = Free
    BY <1>1, BoundAssumption DEF ContainerDies, Blip, CountFault, TypeOK
  <2> QED BY <2>1, <2>2 DEF TypeOK, ShapeInv, Shape
<1>2. ASSUME NEW p \in Process, SyncFromDocker(p) PROVE TypeOK' /\ ShapeInv'
  BY <1>2 DEF SyncFromDocker, Interrupt, TypeOK, ShapeInv, Shape, Running
<1>3. ASSUME NEW p \in Process, Crash(p) PROVE TypeOK' /\ ShapeInv'
  <2>1. UNCHANGED <<row, born, docker>> /\ Stir
    BY <1>3 DEF Crash
  <2>2. faults' \in 0 .. MaxFaults /\ alone' = Free /\ stirred' = TRUE
    BY <2>1, BoundAssumption DEF Stir, CountFault, TypeOK
  <2>3. tracked' \in [Process -> SUBSET Name]
    BY <1>3 DEF Crash, TypeOK
  <2>4. lock' \in [{"redis", "advisory"} -> Caller \cup {Free, Lost}]
    BY <1>3 DEF Crash, TypeOK
  <2>5. ASSUME NEW d \in Caller PROVE call'[d] \in {Rest, call[d]}
    BY <1>3, <2>5 DEF Crash
  <2>6. Rest \in Call /\ Shape(Rest)
    BY Shapes DEF Shape
  <2>7. call' \in [Caller -> Call]
    BY <1>3, <2>6 DEF Crash, TypeOK
  <2>8. ASSUME NEW d \in Caller PROVE Shape(call[d])'
    BY <2>5, <2>6, <2>8 DEF ShapeInv, Shape
  <2>9. loaded' \in [Caller -> Row \cup {NoRow}]
    BY <1>3 DEF Crash, TypeOK
  <2> QED BY <2>1, <2>2, <2>3, <2>4, <2>7, <2>8, <2>9 DEF TypeOK, ShapeInv
<1>4. ASSUME LostLockEnds PROVE TypeOK' /\ ShapeInv'
  BY <1>4 DEF LostLockEnds, Interrupt, TypeOK, ShapeInv, Shape
<1>5. ASSUME LockExpires PROVE TypeOK' /\ ShapeInv'
  BY <1>5, BoundAssumption DEF LockExpires, Stir, CountFault, TypeOK, ShapeInv, Shape
<1> QED BY <1>1, <1>2, <1>3, <1>4, <1>5

LEMMA TypeNext ==
  ASSUME TypeOK, ShapeInv, [Next]_vars
  PROVE  TypeOK' /\ ShapeInv'
<1>1. ASSUME NEW c \in Caller, Begin(c) \/ RecoverExistingProjectSandbox(c)
      PROVE  TypeOK' /\ ShapeInv'
  BY <1>1, BeginFacts, MovedType DEF TypeOK
<1>2. ASSUME NEW c \in Caller, Step(c) PROVE TypeOK' /\ ShapeInv'
  <2>1. call' \in [Caller -> Call] /\ ShapeInv'
    BY <1>2, StepMoves, MovedType
  <2> QED BY <1>2, <2>1, StepType, LoadedType DEF TypeOK
<1>3. CASE UNCHANGED vars
  BY <1>3 DEF vars, TypeOK, ShapeInv, Shape
<1> QED BY <1>1, <1>2, <1>3, WorldType DEF Next

LEMMA TypeInit == Init => TypeOK /\ ShapeInv
<1> SUFFICES ASSUME Init PROVE TypeOK /\ ShapeInv
  OBVIOUS
<1>1. Rest \in Call /\ Shape(Rest)
  BY Shapes DEF Shape
<1>2. call \in [Caller -> Call] /\ ShapeInv
  BY <1>1 DEF Init, ShapeInv
<1>3. 0 \in 0 .. MaxBorn /\ 0 \in 0 .. MaxFaults
  BY BoundAssumption
<1>4. /\ docker \in [Name -> {"none", "running", "exited"}]
      /\ tracked \in [Process -> SUBSET Name]
      /\ lock \in [{"redis", "advisory"} -> Caller \cup {Free, Lost}]
      /\ loaded \in [Caller -> Row \cup {NoRow}]
  BY DEF Init
<1> QED BY <1>2, <1>3, <1>4 DEF Init, TypeOK

\* Every service call, reaper sweep, failure and crash keeps the row, the
\* containers, the locks and the calls in progress of their types.
THEOREM SandboxTypeCorrect == Spec => []TypeOK
BY TypeInit, TypeNext, PTL DEF Spec

-----------------------------------------------------------------------------
(***************************************************************************)
(* The locks.  Apart from Acquire and Release, a step gives nobody a lock  *)
(* and takes from nobody the Redis lock, takes no call out of the critical *)
(* section's path but through its finally clause, and takes none into it.  *)
(***************************************************************************)
Secured(k) == k.op = "get" /\ k.pc \notin {"lock", "missed"}

Loosened ==
  \A f \in {"redis", "advisory"} :
    \/ lock'[f] = lock[f]
    \/ lock'[f] \in {Free, Lost} /\ (lock[f] = Free \/ f = "advisory")

Onward(c, k) ==
  /\ Moved(c, k)
  /\ Loosened
  /\ stirred => stirred'
  /\ Secured(call[c]) => Secured(k)
  /\ Critical(k) => Critical(call[c])
  /\ k.op \in {"terminate", "restart"} => k.op = call[c].op \/ stirred'

\* Each caller has its lock, and the two marks are nobody.
LEMMA Families ==
  /\ \A c \in Caller : Family(c) \in {"redis", "advisory"}
  /\ Free \notin Caller /\ Lost \notin Caller /\ Free # Lost
BY MarkAssumption DEF Family

LEMMA StepOnward ==
  ASSUME TypeOK, ShapeInv, NEW c \in Caller, Step(c), ~Acquire(c), ~Release(c)
  PROVE  \E k : Onward(c, k)
<1> USE KFields DEF Onward, Secured, Critical
<1>0. Own(c) \/ Interrupt \/ Stir \/ Blip => (stirred => stirred')
  BY DEF Own, Interrupt, Stir, Blip
<1>l. (lock' = lock => Loosened) /\ (EndTransaction(c) => Loosened)
  BY EndType DEF Loosened
<1>r. Rest.op = "none"
  BY DEF Rest
<1>1. CASE AcquireTimesOut(c)
  <2>1. (stirred => stirred') /\ call[c].pc = "lock"
    BY <1>0, <1>l, <1>1 DEF AcquireTimesOut
  <2>3. Loosened
    BY <1>1, Families DEF AcquireTimesOut, Loosened, TypeOK
  <2>2. Moved(c, K("get", "missed", call[c].mine))
    BY <1>1, AcquireFacts
  <2> QED BY <2>1, <2>2, <2>3
<1>2. CASE HandleLockNotAcquired(c)
  <2>1. Loosened /\ (stirred => stirred') /\ call[c].pc = "missed"
    BY <1>0, <1>l, <1>2 DEF HandleLockNotAcquired
  <2> QED BY <1>2, <2>1, MissedFacts
<1>3. CASE FindExisting(c)
  <2>1. Loosened /\ (stirred => stirred') /\ call[c].pc = "find"
    BY <1>0, <1>l, <1>3 DEF FindExisting
  <2> QED BY <1>3, <2>1, FindFacts
<1>4. CASE FindToReplace(c) \/ FindToCheck(c) \/ FindStale(c)
  <2>1. Loosened /\ (stirred => stirred') /\ call[c].op = "none"
        /\ (FindToReplace(c) => stirred')
    BY <1>0, <1>l, <1>4, <1>r, StartShapes DEF FindToReplace, FindToCheck, FindStale, Start, Stir
  <2> QED BY <1>4, <2>1, StartShapes
<1>5. CASE CheckContainer(c)
  <2>1. Loosened /\ (stirred => stirred') /\ call[c].pc = "exists"
    BY <1>0, <1>l, <1>5, CheckContainerFacts DEF CheckContainer, At
  <2> QED BY <1>5, <2>1, CheckContainerFacts
<1>6. CASE CheckRepair(c) \/ SyncStatus(c) \/ HealthCheck(c)
  <2>1. Loosened /\ (stirred => stirred')
    BY <1>0, <1>l, <1>6, OtherCheckFacts DEF CheckRepair, SyncStatus, HealthCheck
  <2> QED BY <1>6, <1>r, <2>1, OtherCheckFacts
<1>7. CASE Adopt(c)
  <2>1. Loosened /\ (stirred => stirred') /\ call[c].pc = "adopt"
    BY <1>0, <1>l, <1>7 DEF Adopt
  <2>2. PICK n \in Running :
           \/ /\ call[c].op = "get" /\ call[c].mine = NoRow
              /\ Moved(c, K("get", "insert", [id |-> 0, box |-> n, status |-> "running"]))
           \/ /\ call[c].op \in {"get", "repair"} /\ call[c].mine \in Row
              /\ Moved(c, K(call[c].op, "save",
                            [call[c].mine EXCEPT !.box = n, !.status = "running"]))
    BY <1>7, AdoptFacts
  <2> QED BY <2>1, <2>2
<1>8. CASE NothingToAdopt(c)
  <2>1. Loosened /\ (stirred => stirred') /\ call[c].pc = "adopt"
    BY <1>0, <1>l, <1>8 DEF NothingToAdopt
  <2> QED BY <1>8, <2>1, NothingFacts
<1>9. CASE Insert(c)
  <2>1. Loosened /\ (stirred => stirred') /\ call[c].pc = "insert"
    BY <1>0, <1>l, <1>9 DEF Insert
  <2> QED BY <1>9, <2>1, InsertFacts
<1>10. CASE Save(c)
  <2>1. Loosened /\ (stirred => stirred') /\ call[c].pc = "save"
    BY <1>0, <1>l, <1>10 DEF Save
  <2>2. \/ Moved(c, K("get", "release", NoRow)) \/ Moved(c, K("get", "conflict", NoRow))
        \/ call[c].op # "get" /\ Moved(c, Rest)
        \/ call[c].op = "restart" /\ Moved(c, K("restart", "run", call[c].mine))
        \/ call[c].op = "terminate" /\ Moved(c, K("terminate", "delete", call[c].mine))
    BY <1>10, SaveFacts DEF Left
  <2> QED BY <1>r, <2>1, <2>2
<1>11. CASE Delete(c)
  <2>1. Loosened /\ (stirred => stirred') /\ call[c].pc = "delete"
    BY <1>0, <1>l, <1>11 DEF Delete
  <2> QED BY <1>11, <1>r, <2>1, DeleteFacts
<1>12. CASE TerminateSandbox(c)
  <2>1. Loosened /\ (stirred => stirred') /\ call[c].pc = "terminate"
    BY <1>0, <1>l, <1>12 DEF TerminateSandbox
  <2>2. PICK k : Moved(c, k) /\ k.op = call[c].op /\ k.pc \in {"save", "sweep"}
    <3> DEFINE a == K(call[c].op, "save", [call[c].mine EXCEPT !.status = "down"])
               b == K(call[c].op, "sweep", call[c].mine)
    <3>1. (Moved(c, a) /\ a.op = call[c].op) \/ (Moved(c, b) /\ b.op = call[c].op)
      BY <1>12, <2>1, TerminateFacts
    <3>2. a.pc \in {"save", "sweep"} /\ b.pc \in {"save", "sweep"}
      OBVIOUS
    <3> HIDE DEF a, b
    <3> QED BY <3>1, <3>2
  <2>3. Onward(c, k)
    BY <2>1, <2>2
  <2> QED BY <2>3
<1>13. CASE CleanupProjectContainers(c)
  <2>1. Loosened /\ (stirred => stirred') /\ call[c].pc = "sweep"
    BY <1>0, <1>l, <1>13 DEF CleanupProjectContainers
  <2>2. PICK k : Moved(c, k) /\ k.op = call[c].op /\ k.pc \in {"delete", "save"}
    <3> DEFINE a == K("get", "delete", call[c].mine)
               b == K("restart", "save", [call[c].mine EXCEPT !.status = "creating"])
    <3>1. (Moved(c, a) /\ a.op = call[c].op) \/ (Moved(c, b) /\ b.op = call[c].op)
      BY <1>13, <2>1, CleanupFacts
    <3>2. a.pc \in {"delete", "save"} /\ b.pc \in {"delete", "save"}
      OBVIOUS
    <3> HIDE DEF a, b
    <3> QED BY <3>1, <3>2
  <2>3. Onward(c, k)
    BY <2>1, <2>2
  <2> QED BY <2>3
<1>14. CASE CreateSandbox(c) \/ CreateFails(c)
  <2>1. Loosened /\ (stirred => stirred') /\ call[c].pc = "run"
    BY <1>0, <1>l, <1>14 DEF CreateSandbox, CreateFails
  <2>2. PICK k : Moved(c, k) /\ k.op = call[c].op /\ k.pc \in {"save"}
    <3> DEFINE a == K(call[c].op, "save", [call[c].mine EXCEPT !.box = NewName(c), !.status = "running"])
               b == K(call[c].op, "save", [call[c].mine EXCEPT !.status = "down"])
    <3>1. (Moved(c, a) /\ a.op = call[c].op) \/ (Moved(c, b) /\ b.op = call[c].op)
      <4>1. CreateSandbox(c) => Moved(c, a)
        BY <2>1, CreateFacts
      <4>2. CreateFails(c) => Moved(c, b)
        BY <2>1, CreateFacts
      <4>3. a.op = call[c].op /\ b.op = call[c].op
        OBVIOUS
      <4> HIDE DEF a, b
      <4> QED BY <1>14, <4>1, <4>2, <4>3
    <3>2. a.pc \in {"save"} /\ b.pc \in {"save"}
      OBVIOUS
    <3> HIDE DEF a, b
    <3> QED BY <3>1, <3>2
  <2>3. Onward(c, k)
    BY <2>1, <2>2
  <2> QED BY <2>3
<1> QED BY <1>1, <1>2, <1>3, <1>4, <1>5, <1>6, <1>7, <1>8, <1>9, <1>10, <1>11, <1>12, <1>13, <1>14
        DEF Step, Find, Check

LEMMA LockNext ==
  ASSUME TypeOK, ShapeInv, LockIsReleased, [Next]_vars
  PROVE  LockIsReleased'
<1> DEFINE Good(f, d) == lock'[f] = d => f = Family(d) /\ Secured(call'[d])
<1>0. SUFFICES ASSUME NEW f \in {"redis", "advisory"}, NEW d \in Caller PROVE Good(f, d)
  BY DEF LockIsReleased, Secured, Family
<1>u. lock[f] = d => f = Family(d) /\ Secured(call[d])
  BY DEF LockIsReleased, Secured
<1>1. ASSUME NEW c \in Caller, Begin(c) \/ RecoverExistingProjectSandbox(c) PROVE Good(f, d)
  <2>1. call[c] = Rest /\ Moved(c, K("get", "lock", NoRow)) /\ lock' = lock
    BY <1>1, BeginFacts
  <2> QED BY <1>u, <2>1 DEF Moved, Secured, Rest
<1>2. ASSUME NEW c \in Caller, Acquire(c) PROVE Good(f, d)
  <2>1. Moved(c, K("get", "find", call[c].mine)) /\ call[c].pc = "lock"
    BY <1>2, AcquireFacts DEF Acquire
  <2>2. Secured(K("get", "find", call[c].mine))
    BY KFields DEF Secured
  <2>3. lock' = [lock EXCEPT ![Family(c)] = c]
    BY <1>2 DEF Acquire
  <2>4. CASE f = Family(c)
    BY <2>1, <2>2, <2>3, <2>4 DEF Moved, TypeOK
  <2>5. CASE f # Family(c)
    BY <1>u, <2>1, <2>2, <2>3, <2>5 DEF Moved, TypeOK
  <2> QED BY <2>4, <2>5
<1>3. ASSUME NEW c \in Caller, Release(c) PROVE Good(f, d)
  <2>1. PICK k : Moved(c, k)
    BY <1>3, ReleaseFacts
  <2>2. lock'[f] # c /\ lock'[f] \in {lock[f], Free, Lost}
    <3>1. CASE c \notin Redis /\ EndTransaction(c)
      BY <1>u, <3>1, EndType DEF LockIsReleased, Family
    <3>2. CASE c \in Redis /\ lock' = [lock EXCEPT !["redis"] = IF @ = c THEN Free ELSE @]
      BY <1>u, <3>2, Families DEF TypeOK, LockIsReleased, Family
    <3>3. CASE lock["redis"] = c /\ lock' = [lock EXCEPT !["redis"] = Lost]
      BY <1>u, <3>3, Families DEF TypeOK, LockIsReleased, Family
    <3> QED BY <1>3, <3>1, <3>2, <3>3 DEF Release
  <2> QED BY <1>u, <2>1, <2>2, Families DEF Moved
<1>4. ASSUME NEW c \in Caller, Step(c), ~Acquire(c), ~Release(c) PROVE Good(f, d)
  <2>1. PICK k : Onward(c, k)
    BY <1>4, StepOnward
  <2>2. lock'[f] = d => lock[f] = d
    BY <2>1, Families DEF Onward, Loosened
  <2> QED BY <1>u, <2>1, <2>2 DEF Onward, Moved
<1>5. ASSUME NEW n \in Name, ContainerDies(n) PROVE Good(f, d)
  BY <1>5, <1>u DEF ContainerDies
<1>6. ASSUME NEW p \in Process, SyncFromDocker(p) PROVE Good(f, d)
  BY <1>6, <1>u DEF SyncFromDocker
<1>7. ASSUME NEW p \in Process, Crash(p) PROVE Good(f, d)
  <2>1. lock'[f] = d => lock[f] = d /\ Home[d] # p
    BY <1>7, Families DEF Crash
  <2>2. Home[d] # p => call'[d] = call[d]
    BY <1>7 DEF Crash
  <2> QED BY <1>u, <2>1, <2>2
<1>8. ASSUME LockExpires \/ LostLockEnds PROVE Good(f, d)
  <2>1. lock'[f] \in {lock[f], Free} /\ call' = call
    BY <1>8 DEF LockExpires, LostLockEnds, TypeOK
  <2> QED BY <1>u, <2>1, Families
<1>9. CASE UNCHANGED vars
  BY <1>9, <1>u DEF vars
<1> QED BY <1>1, <1>2, <1>3, <1>4, <1>5, <1>6, <1>7, <1>8, <1>9 DEF Next

\* Whatever conflicts, retries, crashes and expiries happen, a lock names only
\* a get_or_create call that is still under way past its acquisition.
THEOREM LockAlwaysReleased == Spec => []LockIsReleased
<1> DEFINE Inv == TypeOK /\ ShapeInv /\ LockIsReleased
<1>1. Init => Inv
  BY TypeInit, Families DEF Init, LockIsReleased
<1>2. ASSUME Inv, [Next]_vars PROVE Inv'
  BY <1>2, TypeNext, LockNext
<1>3. Inv => LockIsReleased
  OBVIOUS
<1> QED BY <1>1, <1>2, <1>3, PTL DEF Spec

-----------------------------------------------------------------------------
(***************************************************************************)
(* Mutual exclusion, as long as nothing stirred.                           *)
(***************************************************************************)

\* Nothing that stirred is forgotten.
LEMMA StirredStays ==
  ASSUME TypeOK, ShapeInv, [Next]_vars
  PROVE  stirred => stirred'
<1>1. ASSUME NEW c \in Caller, Step(c) PROVE stirred => stirred'
  <2>1. Acquire(c) \/ Release(c) => (stirred => stirred')
    BY DEF Acquire, Release, Interrupt, Blip
  <2> QED BY <1>1, <2>1, StepOnward DEF Onward
<1> QED BY <1>1, BeginFacts DEF Next, ContainerDies, SyncFromDocker, Crash, LostLockEnds,
             LockExpires, Interrupt, Stir, Blip, vars

LEMMA HoldNext ==
  ASSUME TypeOK, ShapeInv, LockIsReleased, HoldInv, [Next]_vars
  PROVE  HoldInv'
<1> DEFINE Quiet == \A c \in Caller : call'[c].op \notin {"terminate", "restart"}
           Sole == \A c, d \in Caller : Critical(call'[c]) /\ Critical(call'[d]) => c = d
           Held == \A c \in Redis : Critical(call'[c]) => lock'["redis"] = c
           Goal == Quiet /\ Sole /\ Held
<1> SUFFICES ASSUME ~stirred' PROVE Goal
  BY DEF HoldInv, Critical
<1>0. /\ ~stirred
      /\ \A c \in Caller : call[c].op \notin {"terminate", "restart"}
      /\ \A c, d \in Caller : Critical(call[c]) /\ Critical(call[d]) => c = d
      /\ \A c \in Redis : Critical(call[c]) => lock["redis"] = c
  BY StirredStays DEF HoldInv
<1>c. Redis \subseteq Caller
  BY HomeAssumption
<1>m. ASSUME NEW c \in Caller, NEW k, Moved(c, k), k.op \notin {"terminate", "restart"},
             Critical(k) => Critical(call[c]),
             \A d \in Redis : Critical(call'[d]) /\ lock["redis"] = d => lock'["redis"] = d
      PROVE  Goal
  <2>1. \A d \in Caller : Critical(call'[d]) => Critical(call[d])
    BY <1>m DEF Moved
  <2>2. Quiet
    BY <1>0, <1>m DEF Moved
  <2> QED BY <1>0, <1>c, <1>m, <2>1, <2>2
<1>1. ASSUME NEW c \in Caller, Begin(c) \/ RecoverExistingProjectSandbox(c) PROVE Goal
  <2>1. Moved(c, K("get", "lock", NoRow)) /\ lock' = lock
    BY <1>1, BeginFacts
  <2>2. ~Critical(K("get", "lock", NoRow)) /\ K("get", "lock", NoRow).op = "get"
    BY KFields DEF Critical
  <2> QED BY <1>m, <2>1, <2>2
<1>2. ASSUME NEW c \in Caller, Acquire(c) PROVE Goal
  <2>1. Moved(c, K("get", "find", call[c].mine)) /\ K("get", "find", call[c].mine).op = "get"
    BY <1>2, AcquireFacts, KFields
  <2>2. ~Beside(c)
    BY <1>2 DEF Acquire
  <2>3. ASSUME NEW d \in Caller \ {c}, Critical(call[d]) PROVE FALSE
    <3>1. c \in Redis /\ d \in Redis
      BY <2>2, <2>3 DEF Beside, Inside, Critical
    <3>2. lock["redis"] = Free
      BY <1>2, <3>1 DEF Acquire, Family
    <3> QED BY <1>0, <2>3, <3>1, <3>2, Families
  <2>4. \A d \in Caller : Critical(call'[d]) => d = c
    BY <2>1, <2>3 DEF Moved
  <2>5. c \in Redis => lock'["redis"] = c
    BY <1>2 DEF Acquire, Family, TypeOK
  <2>6. Quiet
    BY <1>0, <2>1 DEF Moved
  <2> QED BY <1>c, <2>4, <2>5, <2>6
<1>3. ASSUME NEW c \in Caller, Release(c) PROVE Goal
  <2>1. PICK k : Moved(c, k) /\ ~Critical(k) /\ k.op \notin {"terminate", "restart"}
    <3>1. /\ ~Critical(Rest) /\ Rest.op \notin {"terminate", "restart"}
          /\ ~Critical(K("get", "lock", NoRow))
          /\ K("get", "lock", NoRow).op \notin {"terminate", "restart"}
      BY KFields DEF Critical, Rest
    <3> QED BY <1>3, <3>1, ReleaseFacts
  <2>2. lock'["redis"] = lock["redis"] \/ lock["redis"] = c
    BY <1>3, EndType DEF Release, TypeOK
  <2>3. ~Critical(call'[c])
    BY <2>1 DEF Moved
  <2> QED BY <1>m, <2>1, <2>2, <2>3
<1>4. ASSUME NEW c \in Caller, Step(c), ~Acquire(c), ~Release(c) PROVE Goal
  <2>1. PICK k : Onward(c, k)
    BY <1>4, StepOnward
  <2>2. \A d \in Caller : lock["redis"] = d => lock'["redis"] = d
    BY <2>1, Families DEF Onward, Loosened
  <2>3. Moved(c, k) /\ (Critical(k) => Critical(call[c])) /\ k.op \notin {"terminate", "restart"}
    BY <1>0, <2>1 DEF Onward
  <2> QED BY <1>c, <1>m, <2>2, <2>3
<1>5. ASSUME LostLockEnds PROVE Goal
  <2>1. call' = call /\ \A g \in {"redis", "advisory"} :
          lock'[g] = lock[g] \/ (lock[g] = Lost /\ lock'[g] = Free)
    BY <1>5 DEF LostLockEnds, TypeOK
  <2> QED BY <1>0, <1>c, <2>1, Families
<1>6. ASSUME NEW n \in Name, ContainerDies(n) PROVE Goal
  BY <1>0, <1>6 DEF ContainerDies
<1>7. ASSUME NEW p \in Process, SyncFromDocker(p) PROVE Goal
  BY <1>0, <1>7 DEF SyncFromDocker
<1>8. ASSUME LockExpires \/ \E p \in Process : Crash(p) PROVE FALSE
  BY <1>8 DEF LockExpires, Crash, Stir
<1>9. CASE UNCHANGED vars
  BY <1>0, <1>9 DEF vars
<1> QED BY <1>1, <1>2, <1>3, <1>4, <1>5, <1>6, <1>7, <1>8, <1>9 DEF Next

LEMMA Exclusion ==
  ASSUME HoldInv, ~stirred, NEW c \in Caller, NEW d \in Caller,
         Critical(call[c]), Critical(call[d])
  PROVE  c = d
BY DEF HoldInv

-----------------------------------------------------------------------------
(***************************************************************************)
(* One sandbox.                                                            *)
(***************************************************************************)

\* A step that starts no container.
LEMMA SoleKept ==
  ASSUME SoleInv, ~stirred, NEW c \in Caller, NEW k, Moved(c, k),
         Running' \subseteq Running,
         row' = NoRow => row = NoRow \/ Running' = {},
         Making(k) => Making(call[c]) \/ Running' = {},
         k.pc = "run" => row' # NoRow,
         \A d \in Caller \ {c} : call[d].pc = "run" => row' # NoRow
  PROVE  SoleInv'
<1>1. /\ row = NoRow => Running = {}
      /\ \A d \in Caller : Making(call[d]) => Running = {}
      /\ \A m, n \in Running : m = n
  BY DEF SoleInv
<1>2. row' = NoRow => Running' = {}
  BY <1>1
<1>3. ASSUME NEW d \in Caller, Making(call'[d]) PROVE Running' = {}
  BY <1>1, <1>3 DEF Moved
<1>4. ASSUME NEW d \in Caller, call'[d].pc = "run" PROVE row' # NoRow
  BY <1>4 DEF Moved
<1>5. \A m, n \in Running' : m = n
  BY <1>1
<1>6. ASSUME NEW d \in Caller, Making(call[d])' PROVE Running' = {}
  BY <1>3, <1>6 DEF Making
<1> QED BY <1>2, <1>4, <1>5, <1>6 DEF SoleInv

LEMMA SoleStep ==
  ASSUME TypeOK, ShapeInv, LockIsReleased, HoldInv, SoleInv, ~stirred, ~stirred',
         NEW c \in Caller, Step(c)
  PROVE  SoleInv'
<1> USE KFields, NoRowIsNoRow DEF Making
<1>h. call[c].op \notin {"terminate", "restart"}
  BY DEF HoldInv
<1>s. /\ row = NoRow => Running = {}
      /\ \A d \in Caller : Making(call[d]) => Running = {}
      /\ \A d \in Caller : call[d].pc = "run" => row # NoRow
      /\ \A m, n \in Running : m = n
  BY DEF SoleInv
<1>r. Rest.op = "none" /\ Rest.pc = "rest"
  BY DEF Rest
<1>d. docker' = docker => Running' = Running
  BY DEF Running
<1>k. ASSUME NEW k, Moved(c, k), docker' = docker, row' = row \/ row' \in Row,
             Making(k) => Making(call[c]) \/ Running = {},
             k.pc = "run" => row' # NoRow
      PROVE  SoleInv'
  <2>1. \A d \in Caller \ {c} : call[d].pc = "run" => row' # NoRow
    BY <1>s, <1>k
  <2>2. Running' = Running
    BY <1>d, <1>k
  <2>3. row' = NoRow => row = NoRow
    BY <1>k
  <2> QED BY <1>k, <2>1, <2>2, <2>3, SoleKept
<1>1. CASE Acquire(c) \/ AcquireTimesOut(c)
  BY <1>1, <1>k, AcquireFacts DEF Acquire, AcquireTimesOut
<1>2. CASE HandleLockNotAcquired(c)
  BY <1>2, <1>k, MissedFacts DEF HandleLockNotAcquired
<1>3. CASE Release(c)
  BY <1>3, <1>k, <1>r, ReleaseFacts DEF Release
<1>4. CASE FindExisting(c)
  <2>1. docker' = docker /\ row' = row
    BY <1>4 DEF FindExisting
  <2>2. \/ row \in Row /\ Moved(c, K("get", "exists", row))
        \/ Moved(c, K("get", "adopt", row))
    BY <1>4, FindFacts
  <2> QED BY <1>k, <1>s, <2>1, <2>2
<1>5. CASE FindToReplace(c)
  BY <1>5 DEF FindToReplace, Stir
<1>6. CASE FindToCheck(c) \/ FindStale(c)
  <2>1. docker' = docker /\ row' = row
    BY <1>6 DEF FindToCheck, FindStale, Start
  <2>2. PICK k : Moved(c, k) /\ k.op # "get" /\ k.pc # "run"
    BY <1>6, StartShapes
  <2> QED BY <1>k, <2>1, <2>2
<1>7. CASE CheckContainer(c)
  <2>1. docker' = docker /\ row' = row
    BY <1>7 DEF CheckContainer
  <2> QED BY <1>7, <1>k, <2>1, CheckContainerFacts
<1>8. CASE CheckRepair(c) \/ SyncStatus(c) \/ HealthCheck(c)
  <2>1. docker' = docker /\ row' = row
    BY <1>8 DEF CheckRepair, SyncStatus, HealthCheck
  <2>2. PICK k : Moved(c, k) /\ k.op # "get" /\ k.pc # "run"
    BY <1>8, <1>r, OtherCheckFacts
  <2> QED BY <1>k, <2>1, <2>2
<1>9. CASE Adopt(c)
  <2>1. docker' = docker /\ row' = row /\ call[c].pc = "adopt"
    BY <1>9 DEF Adopt
  <2>2. PICK k : Moved(c, k) /\ k.pc # "run" /\ (Making(k) => Making(call[c]))
    <3>1. PICK n \in Running :
           \/ /\ call[c].op = "get" /\ call[c].mine = NoRow
              /\ Moved(c, K("get", "insert", [id |-> 0, box |-> n, status |-> "running"]))
           \/ /\ call[c].op \in {"get", "repair"} /\ call[c].mine \in Row
              /\ Moved(c, K(call[c].op, "save",
                            [call[c].mine EXCEPT !.box = n, !.status = "running"]))
      BY <1>9, AdoptFacts
    <3>2. CASE call[c].mine = NoRow
      BY <2>1, <3>1, <3>2
    <3>3. CASE call[c].mine # NoRow
      <4> DEFINE k == K(call[c].op, "save",
                        [call[c].mine EXCEPT !.box = n, !.status = "running"])
      <4>1. Moved(c, k) /\ k.pc = "save"
        BY <3>1, <3>3
      <4> HIDE DEF k
      <4> QED BY <4>1
    <3> QED BY <3>2, <3>3
  <2> QED BY <1>k, <2>1, <2>2
<1>10. CASE NothingToAdopt(c)
  <2>1. docker' = docker /\ row' = row /\ call[c].pc = "adopt"
    BY <1>10 DEF NothingToAdopt
  <2> QED BY <1>10, <1>k, <2>1, NothingFacts
<1>11. CASE Insert(c)
  <2>1. docker' = docker /\ call[c].pc = "insert" /\ Making(call[c])
    BY <1>11, InsertFacts DEF Insert
  <2>2. row' = row \/ row' \in Row
    BY <1>11, InsertFacts
  <2>3. PICK k : Moved(c, k) /\ (k.pc = "run" => row' # NoRow)
    BY <1>11, InsertFacts
  <2> QED BY <1>k, <2>1, <2>2, <2>3
<1>12. CASE Save(c)
  <2>1. docker' = docker /\ (row' = row \/ row' \in Row)
    BY <1>12, SaveFacts DEF Save
  <2>2. \/ Moved(c, K("get", "release", NoRow)) \/ Moved(c, Rest)
        \/ Moved(c, K("get", "conflict", NoRow))
    BY <1>12, <1>h, SaveFacts DEF Left
  <2> QED BY <1>k, <1>r, <2>1, <2>2
<1>13. CASE Delete(c)
  <2>1. docker' = docker /\ call[c].pc = "delete" /\ call[c].op = "get"
    BY <1>13, <1>h, DeleteFacts DEF Delete
  <2>2. Moved(c, K("get", "adopt", NoRow)) /\ Making(call[c])
    BY <1>13, <2>1, DeleteFacts
  <2>3. Running' = Running /\ Running = {}
    BY <1>d, <1>s, <2>1, <2>2
  <2>4. ASSUME NEW d \in Caller \ {c}, call[d].pc = "run" PROVE FALSE
    <3>1. call[d].op = "get"
      BY <2>4, OpOfPc DEF HoldInv
    <3>2. Critical(call[c]) /\ Critical(call[d])
      BY <2>1, <2>4, <3>1 DEF Critical
    <3> QED BY <2>4, <3>2, Exclusion
  <2> QED BY <2>2, <2>3, <2>4, SoleKept
<1>14. CASE TerminateSandbox(c)
  <2>1. row' = row
    BY <1>14 DEF TerminateSandbox
  <2>2. Running' \subseteq Running
    BY <1>14, TerminateFacts DEF Running, TypeOK
  <2>3. PICK k : Moved(c, k) /\ k.pc \in {"save", "sweep"}
    <3> DEFINE a == K(call[c].op, "save", [call[c].mine EXCEPT !.status = "down"])
               b == K(call[c].op, "sweep", call[c].mine)
    <3>1. Moved(c, a) \/ Moved(c, b)
      BY <1>14, TerminateFacts
    <3>2. a.pc = "save" /\ b.pc = "sweep"
      OBVIOUS
    <3> HIDE DEF a, b
    <3> QED BY <3>1, <3>2
  <2> QED BY <1>s, <2>1, <2>2, <2>3, SoleKept
<1>15. CASE CleanupProjectContainers(c)
  <2>1. row' = row /\ docker' = [n \in Name |-> "none"]
    BY <1>15 DEF CleanupProjectContainers, Stir
  <2>2. Running' = {}
    BY <2>1 DEF Running
  <2>3. Moved(c, K("get", "delete", call[c].mine))
    BY <1>15, <1>h, CleanupFacts
  <2> QED BY <1>s, <2>1, <2>2, <2>3, SoleKept
<1>16. CASE CreateSandbox(c)
  <2>1. /\ row' = row /\ call[c].pc = "run"
        /\ docker' = [docker EXCEPT ![NewName(c)] = "running"]
    BY <1>16 DEF CreateSandbox
  <2>2. call[c].op = "get" /\ NewName(c) \in Name
    BY <1>h, <2>1, CreateFacts
  <2>3. Running = {} /\ row # NoRow
    BY <1>s, <2>1, <2>2
  <2>4. \A n \in Running' : n = NewName(c)
    BY <2>1, <2>2, <2>3 DEF Running, TypeOK
  <2>5. PICK k : Moved(c, k) /\ k.pc = "save"
    <3> DEFINE a == K(call[c].op, "save",
                      [call[c].mine EXCEPT !.box = NewName(c), !.status = "running"])
    <3>1. Moved(c, a)
      BY <1>16, <2>1, CreateFacts
    <3>2. a.pc = "save"
      OBVIOUS
    <3> HIDE DEF a
    <3> QED BY <3>1, <3>2
  <2>6. ASSUME NEW d \in Caller, Making(call'[d]) PROVE FALSE
    <3>1. d # c /\ Making(call[d])
      BY <2>5, <2>6 DEF Moved
    <3>2. Critical(call[c]) /\ Critical(call[d])
      BY <2>1, <2>2, <3>1 DEF Critical
    <3> QED BY <3>1, <3>2, Exclusion
  <2>7. row' # NoRow
    BY <2>1, <2>3
  <2> QED BY <2>4, <2>6, <2>7 DEF SoleInv
<1>17. CASE CreateFails(c)
  BY <1>17 DEF CreateFails, Stir
<1> QED BY <1>1, <1>2, <1>3, <1>4, <1>5, <1>6, <1>7, <1>8, <1>9, <1>10, <1>11, <1>12, <1>13,
           <1>14, <1>15, <1>16, <1>17 DEF Step, Find, Check

LEMMA SoleNext ==
  ASSUME TypeOK, ShapeInv, LockIsReleased, HoldInv, SoleInv, [Next]_vars
  PROVE  SoleInv'
<1>0. SUFFICES ASSUME ~stirred' PROVE SoleInv'
  BY DEF SoleInv
<1>s. ~stirred
  BY <1>0, StirredStays
<1>1. ASSUME NEW c \in Caller, Begin(c) \/ RecoverExistingProjectSandbox(c) PROVE SoleInv'
  <2>1. Moved(c, K("get", "lock", NoRow)) /\ docker' = docker /\ row' = row
    BY <1>1, BeginFacts
  <2>2. ~Making(K("get", "lock", NoRow)) /\ K("get", "lock", NoRow).pc = "lock"
    BY KFields DEF Making
  <2>3. Running' = Running
    BY <2>1 DEF Running
  <2>4. \A d \in Caller : call[d].pc = "run" => row' # NoRow
    BY <1>s, <2>1 DEF SoleInv
  <2> QED BY <1>s, <2>1, <2>2, <2>3, <2>4, SoleKept
<1>2. ASSUME NEW c \in Caller, Step(c) PROVE SoleInv'
  BY <1>0, <1>2, <1>s, SoleStep
<1>3. ASSUME call' = call, row' = row, Running' \subseteq Running PROVE SoleInv'
  BY <1>3, <1>s DEF SoleInv, Making
<1>4. ASSUME NEW n \in Name, ContainerDies(n) PROVE SoleInv'
  <2>1. Running' \subseteq Running
    BY <1>4 DEF ContainerDies, Running, TypeOK
  <2> QED BY <1>3, <1>4, <2>1 DEF ContainerDies
<1>5. ASSUME docker' = docker PROVE Running' = Running
  BY <1>5 DEF Running
<1>6. ASSUME NEW p \in Process, SyncFromDocker(p) PROVE SoleInv'
  BY <1>3, <1>5, <1>6 DEF SyncFromDocker
<1>7. ASSUME LockExpires \/ \E p \in Process : Crash(p) PROVE FALSE
  BY <1>0, <1>7 DEF LockExpires, Crash, Stir
<1>8. ASSUME LostLockEnds PROVE SoleInv'
  BY <1>3, <1>5, <1>8 DEF LostLockEnds
<1>9. CASE UNCHANGED vars
  BY <1>3, <1>5, <1>9 DEF vars
<1> QED BY <1>1, <1>2, <1>4, <1>6, <1>7, <1>8, <1>9 DEF Next

LEMMA AtMostOne ==
  ASSUME NEW S, \A m, n \in S : m = n
  PROVE  Cardinality(S) <= 1
<1>1. CASE S = {}
  BY <1>1, FS_EmptySet
<1>2. ASSUME NEW x \in S PROVE Cardinality(S) <= 1
  <2>1. S = {x}
    BY <1>2
  <2> QED BY <2>1, FS_Singleton
<1> QED BY <1>1, <1>2

\* However many get_or_create calls under the Redis lock, repairs, status syncs,
\* health checks and sweeps interleave, and whatever processes remember, no second
\* container is started next to a running one.  Agent workers are covered while
\* no two calls, one of them a worker's, are inside the critical section: their
\* advisory lock ends with the first commit.  Terminate and restart, lost
\* leases, failing Docker calls and crashes are excepted.
THEOREM OneSandboxPerProject == Spec => []OneSandbox
<1> DEFINE Inv == TypeOK /\ ShapeInv /\ LockIsReleased /\ HoldInv /\ SoleInv
<1>1. Init => Inv
  <2> SUFFICES ASSUME Init PROVE Inv
    OBVIOUS
  <2>1. TypeOK /\ ShapeInv
    BY TypeInit
  <2>2. \A c \in Caller : call[c].op = "none" /\ call[c].pc = "rest"
    BY DEF Init, Rest
  <2>3. LockIsReleased
    BY Families DEF Init, LockIsReleased
  <2>4. HoldInv
    BY <2>2, HomeAssumption DEF HoldInv, Critical
  <2>5. Running = {}
    BY DEF Init, Running
  <2>6. SoleInv
    BY <2>2, <2>5 DEF SoleInv, Making
  <2> QED BY <2>1, <2>3, <2>4, <2>6
<1>2. ASSUME Inv, [Next]_vars PROVE Inv'
  BY <1>2, TypeNext, LockNext, HoldNext, SoleNext
<1>3. Inv => OneSandbox
  BY AtMostOne DEF SoleInv, OneSandbox
<1> QED BY <1>1, <1>2, <1>3, PTL DEF Spec

-----------------------------------------------------------------------------
(***************************************************************************)
(* An uninterrupted get_or_create.                                         *)
(***************************************************************************)

\* Undisturbed, of a call that is at k after the step.
UndisturbedNext(k) ==
  /\ k.op = "get"
  /\ k.pc \notin {"missed", "conflict"}
  /\ k.pc \in {"exists", "adopt", "terminate", "sweep", "delete"} => k.mine = row'
  /\ k.pc = "exists" => k.mine.status \in {"running", "creating"}
  /\ k.pc = "insert" =>
       /\ row' = NoRow
       /\ k.mine.status = "running" => docker'[k.mine.box] = "running"
  /\ k.pc \in {"run", "save"} => row' # NoRow /\ row'.id = k.mine.id
  /\ k.pc = "save" => k.mine.status = "running" /\ docker'[k.mine.box] = "running"
  /\ k.pc = "release" => Healed'

LEMMA AloneStep ==
  ASSUME TypeOK, ShapeInv, AloneInv, NEW c \in Caller, Step(c), alone' = c
  PROVE  UndisturbedNext(call'[c])
<1> USE KFields, NoRowIsNoRow
<1>0. ASSUME NEW k, Moved(c, k), UndisturbedNext(k) PROVE UndisturbedNext(call'[c])
  BY <1>0 DEF Moved
<1>a. Own(c) \/ Acquire(c) => alone = c
  BY MarkAssumption DEF Own, Acquire
<1>f. ~(Interrupt \/ Stir \/ Blip)
  BY MarkAssumption DEF Interrupt, Stir, Blip, CountFault
<1>u. alone = c => Undisturbed(call[c]) /\ Current(c)
  BY DEF AloneInv
<1>1. CASE Acquire(c)
  <2>1. Moved(c, K("get", "find", call[c].mine))
    BY <1>1, AcquireFacts
  <2> QED BY <1>0, <2>1 DEF UndisturbedNext
<1>2. CASE AcquireTimesOut(c) \/ Release(c) \/ FindToReplace(c) \/ FindToCheck(c) \/ FindStale(c)
             \/ CreateFails(c)
  BY <1>2, <1>f DEF AcquireTimesOut, Release, FindToReplace, FindToCheck, FindStale, CreateFails
<1>3. CASE HandleLockNotAcquired(c)
  BY <1>3, <1>a, <1>u DEF HandleLockNotAcquired, Undisturbed
<1>4. CASE FindExisting(c)
  <2>1. row' = row
    BY <1>4 DEF FindExisting
  <2> QED BY <1>0, <1>4, <2>1, FindFacts DEF UndisturbedNext
<1>5. CASE CheckContainer(c)
  <2>1. row' = row /\ docker' = docker /\ alone = c /\ call[c].pc = "exists"
    BY <1>5, <1>a, <1>f, CheckContainerFacts DEF CheckContainer, At
  <2>2. call[c].mine = row /\ row.status \in {"running", "creating"} /\ row \in Row
    BY <1>5, <1>u, <2>1, CheckContainerFacts DEF Undisturbed
  <2>3. docker[row.box] = "running" => Healed'
    BY <2>1, <2>2 DEF Healed
  <2> QED BY <1>0, <1>5, <1>f, <2>1, <2>2, <2>3, CheckContainerFacts DEF UndisturbedNext
<1>6. CASE CheckRepair(c) \/ SyncStatus(c) \/ HealthCheck(c)
  <2>1. alone = c
    BY <1>6, <1>a, <1>f, OtherCheckFacts
  <2> QED BY <1>6, <1>u, <2>1, OtherCheckFacts DEF Undisturbed
<1>7. CASE Adopt(c)
  <2>1. row' = row /\ docker' = docker /\ alone = c /\ call[c].pc = "adopt"
    BY <1>7, <1>a DEF Adopt
  <2>2. call[c].op = "get" /\ call[c].mine = row
    BY <1>u, <2>1 DEF Undisturbed
  <2>3. PICK n \in Running :
           \/ /\ call[c].op = "get" /\ call[c].mine = NoRow
              /\ Moved(c, K("get", "insert", [id |-> 0, box |-> n, status |-> "running"]))
           \/ /\ call[c].op \in {"get", "repair"} /\ call[c].mine \in Row
              /\ Moved(c, K(call[c].op, "save",
                            [call[c].mine EXCEPT !.box = n, !.status = "running"]))
    BY <1>7, AdoptFacts
  <2>4. docker[n] = "running" /\ n \in Name
    BY DEF Running
  <2>5. CASE row = NoRow
    <3> DEFINE k == K("get", "insert", [id |-> 0, box |-> n, status |-> "running"])
    <3>1. Moved(c, k)
      BY <2>2, <2>3, <2>5
    <3>2. k.op = "get" /\ k.pc = "insert" /\ k.mine.box = n
      OBVIOUS
    <3> HIDE DEF k
    <3>3. UndisturbedNext(k)
      BY <2>1, <2>4, <2>5, <3>2 DEF UndisturbedNext
    <3> QED BY <1>0, <3>1, <3>3
  <2>6. CASE row # NoRow
    <3> DEFINE m == [row EXCEPT !.box = n, !.status = "running"]
    <3>1. Moved(c, K("get", "save", m)) /\ row \in Row
      BY <2>2, <2>3, <2>6
    <3>2. m.id = row.id /\ m.box = n /\ m.status = "running"
      BY <3>1 DEF Row
    <3> HIDE DEF m
    <3>3. UndisturbedNext(K("get", "save", m))
      BY <2>1, <2>4, <2>6, <3>2 DEF UndisturbedNext
    <3> QED BY <1>0, <3>1, <3>3
  <2> QED BY <2>5, <2>6
<1>8. CASE NothingToAdopt(c)
  <2>1. row' = row /\ alone = c /\ call[c].pc = "adopt"
    BY <1>8, <1>a, <1>f DEF NothingToAdopt
  <2>2. call[c].op = "get" /\ call[c].mine = row
    BY <1>u, <2>1 DEF Undisturbed
  <2>3. \/ row = NoRow /\ Moved(c, K("get", "insert", [id |-> 0, box |-> 0, status |-> "creating"]))
        \/ Moved(c, K("get", "terminate", row))
    BY <1>8, <2>2, NothingFacts
  <2>4. row = NoRow => UndisturbedNext(K("get", "insert", [id |-> 0, box |-> 0, status |-> "creating"]))
    BY <2>1 DEF UndisturbedNext
  <2>5. UndisturbedNext(K("get", "terminate", row))
    BY <2>1 DEF UndisturbedNext
  <2> QED BY <1>0, <2>3, <2>4, <2>5
<1>9. CASE Insert(c)
  <2>1. docker' = docker /\ alone = c /\ call[c].pc = "insert"
    BY <1>9, <1>a DEF Insert
  <2>2. /\ row = NoRow
        /\ call[c].mine.status = "running" => docker[call[c].mine.box] = "running"
    BY <1>u, <2>1 DEF Undisturbed
  <2>3. row' \in Row /\ row'.status = call[c].mine.status
    BY <1>9, <2>2, InsertFacts
  <2>4. \/ Moved(c, K("get", "run", row'))
        \/ /\ call[c].mine.status = "running" /\ row'.box = call[c].mine.box
           /\ Moved(c, K("get", "release", NoRow))
    BY <1>9, <2>2, InsertFacts
  <2>5. UndisturbedNext(K("get", "run", row'))
    BY <2>3 DEF UndisturbedNext
  <2>6. ASSUME call[c].mine.status = "running", row'.box = call[c].mine.box
        PROVE  UndisturbedNext(K("get", "release", NoRow))
    BY <2>1, <2>2, <2>3, <2>6 DEF UndisturbedNext, Healed
  <2> QED BY <1>0, <2>4, <2>5, <2>6
<1>10. CASE Save(c)
  <2>1. docker' = docker /\ alone = c /\ call[c].pc = "save"
    BY <1>10, <1>a DEF Save
  <2>2. /\ call[c].op = "get" /\ row # NoRow /\ row.id = call[c].mine.id
        /\ call[c].mine.status = "running" /\ docker[call[c].mine.box] = "running"
    BY <1>u, <2>1 DEF Undisturbed
  <2>5. row' \in {call[c].mine, Written(c)} /\ row' \in Row /\ Moved(c, K("get", "release", NoRow))
    BY <1>10, <2>2, SaveFacts DEF Left
  <2>6. loaded[c] = row /\ row \in Row /\ call[c].mine \in Row
    BY <1>10, <1>u, <2>1, <2>2, SaveFacts DEF Current, TypeOK
  <2>3. /\ row' \in Row /\ row'.box = call[c].mine.box /\ row'.status = call[c].mine.status
        /\ Moved(c, K("get", "release", NoRow))
    BY <2>5, <2>6, WrittenRow
  <2>4. UndisturbedNext(K("get", "release", NoRow))
    BY <2>1, <2>2, <2>3 DEF UndisturbedNext, Healed
  <2> QED BY <1>0, <2>3, <2>4
<1>11. CASE Delete(c)
  <2>1. alone = c /\ call[c].pc = "delete" /\ call[c].mine \in Row
    BY <1>11, <1>a, OpOfPc DEF Delete
  <2>2. call[c].op = "get" /\ call[c].mine = row
    BY <1>u, <2>1 DEF Undisturbed
  <2>3. row' = NoRow /\ Moved(c, K("get", "adopt", NoRow))
    BY <1>11, <2>1, <2>2, DeleteFacts
  <2> QED BY <1>0, <2>3 DEF UndisturbedNext
<1>12. CASE TerminateSandbox(c)
  <2>1. row' = row /\ alone = c /\ call[c].pc = "terminate"
    BY <1>12, <1>a, <1>f DEF TerminateSandbox
  <2>2. call[c].op = "get" /\ call[c].mine = row
    BY <1>u, <2>1 DEF Undisturbed
  <2>3. Moved(c, K("get", "sweep", row))
    BY <1>12, <2>2, TerminateFacts
  <2> QED BY <1>0, <2>1, <2>3 DEF UndisturbedNext
<1>13. CASE CleanupProjectContainers(c)
  <2>1. row' = row /\ alone = c /\ call[c].pc = "sweep"
    BY <1>13, <1>a, <1>f DEF CleanupProjectContainers
  <2>2. call[c].op = "get" /\ call[c].mine = row
    BY <1>u, <2>1 DEF Undisturbed
  <2>3. Moved(c, K("get", "delete", row))
    BY <1>13, <2>2, CleanupFacts
  <2> QED BY <1>0, <2>1, <2>3 DEF UndisturbedNext
<1>14. CASE CreateSandbox(c)
  <2> DEFINE m == [call[c].mine EXCEPT !.box = NewName(c), !.status = "running"]
  <2>1. /\ row' = row /\ alone = c /\ call[c].pc = "run"
        /\ docker' = [docker EXCEPT ![NewName(c)] = "running"]
    BY <1>14, <1>a DEF CreateSandbox
  <2>2. call[c].op = "get" /\ row # NoRow /\ row.id = call[c].mine.id
    BY <1>u, <2>1 DEF Undisturbed
  <2>3. Moved(c, K("get", "save", m)) /\ call[c].mine \in Row /\ NewName(c) \in Name
    BY <1>14, <2>1, <2>2, CreateFacts
  <2>4. m.id = row.id /\ m.box = NewName(c) /\ m.status = "running"
    BY <2>2, <2>3 DEF Row
  <2>5. docker'[NewName(c)] = "running"
    BY <2>1, <2>3 DEF TypeOK
  <2> HIDE DEF m
  <2>6. UndisturbedNext(K("get", "save", m))
    BY <2>1, <2>2, <2>4, <2>5 DEF UndisturbedNext
  <2> QED BY <1>0, <2>3, <2>6
<1> QED BY <1>1, <1>2, <1>3, <1>4, <1>5, <1>6, <1>7, <1>8, <1>9, <1>10, <1>11, <1>12, <1>13,
           <1>14 DEF Step, Find, Check

LEMMA CurrentStep ==
  ASSUME TypeOK, ShapeInv, AloneInv, NEW c \in Caller, Step(c), alone' = c
  PROVE  Current(c)'
<1> USE KFields, NoRowIsNoRow
<1>a. Own(c) \/ Acquire(c) => alone = c
  BY MarkAssumption DEF Own, Acquire
<1>f. ~(Interrupt \/ Stir \/ Blip)
  BY MarkAssumption DEF Interrupt, Stir, Blip, CountFault
<1>u. alone = c => Undisturbed(call[c]) /\ Current(c)
  BY DEF AloneInv
<1>k. ASSUME loaded' = loaded, row' = row, alone = c,
             call[c].pc \in {"exists", "adopt", "terminate", "sweep", "delete", "run", "save"}
      PROVE  Current(c)'
  BY <1>k, <1>u DEF Current
<1>o. ASSUME NEW k, Moved(c, k), k.pc \in {"find", "release"} PROVE Current(c)'
  BY <1>o DEF Moved, Current
<1>1. CASE Acquire(c)
  BY <1>1, <1>o, AcquireFacts
<1>2. CASE AcquireTimesOut(c) \/ Release(c) \/ FindToReplace(c) \/ FindToCheck(c) \/ FindStale(c)
             \/ CreateFails(c)
  BY <1>2, <1>f DEF AcquireTimesOut, Release, FindToReplace, FindToCheck, FindStale, CreateFails
<1>3. CASE HandleLockNotAcquired(c)
  BY <1>3, <1>a, <1>u DEF HandleLockNotAcquired, Undisturbed
<1>4. CASE FindExisting(c)
  BY <1>4 DEF FindExisting, Load, Current, TypeOK
<1>5. CASE CheckContainer(c)
  <2>1. row' = row /\ alone = c /\ call[c].pc = "exists" /\ call[c].op = "get"
    BY <1>5, <1>a, <1>f, CheckContainerFacts DEF CheckContainer, At
  <2>2. loaded' = loaded \/ Leave(c)
    BY <1>5 DEF CheckContainer, Goto
  <2> QED BY <1>k, <1>o, <2>1, <2>2, LeaveMoves
<1>6. CASE CheckRepair(c) \/ SyncStatus(c) \/ HealthCheck(c)
  <2>1. alone = c
    BY <1>6, <1>a, <1>f, OtherCheckFacts
  <2> QED BY <1>6, <1>u, <2>1, OtherCheckFacts DEF Undisturbed
<1>7. CASE Adopt(c)
  <2>1. row' = row /\ alone = c /\ call[c].pc = "adopt"
    BY <1>7, <1>a DEF Adopt
  <2>2. loaded' = loaded
    BY <1>7 DEF Adopt, GotoWith
  <2> QED BY <1>k, <2>1, <2>2
<1>8. CASE NothingToAdopt(c)
  <2>1. row' = row /\ alone = c /\ call[c].pc = "adopt"
    BY <1>8, <1>a, <1>f DEF NothingToAdopt
  <2>2. call[c].op = "get"
    BY <1>u, <2>1 DEF Undisturbed
  <2>3. loaded' = loaded
    BY <1>8, <2>2 DEF NothingToAdopt, Goto, GotoWith
  <2> QED BY <1>k, <2>1, <2>3
<1>9. CASE Insert(c)
  <2>1. alone = c /\ call[c].pc = "insert"
    BY <1>9, <1>a DEF Insert
  <2>2. row = NoRow /\ call[c].op = "get"
    BY <1>u, <2>1 DEF Undisturbed
  <2>3. Load(c, "run", row') \/ Leave(c)
    BY <1>9, <2>2 DEF Insert
  <2>4. Load(c, "run", row') => Current(c)'
    BY DEF Load, Current, TypeOK
  <2> QED BY <1>o, <2>2, <2>3, <2>4, LeaveMoves
<1>10. CASE Save(c)
  <2>1. alone = c /\ call[c].pc = "save"
    BY <1>10, <1>a DEF Save
  <2>2. call[c].op = "get" /\ row # NoRow /\ row.id = call[c].mine.id
    BY <1>u, <2>1 DEF Undisturbed
  <2>3. Leave(c)
    BY <1>10, <2>2 DEF Save
  <2> QED BY <1>o, <2>2, <2>3, LeaveMoves
<1>11. CASE Delete(c)
  <2>1. alone = c /\ call[c].pc = "delete" /\ call[c].mine \in Row
    BY <1>11, <1>a, OpOfPc DEF Delete
  <2>2. call[c].op = "get" /\ call[c].mine = row
    BY <1>u, <2>1 DEF Undisturbed
  <2>3. row' = NoRow /\ loaded' = [loaded EXCEPT ![c] = NoRow]
    BY <1>11, <2>1, <2>2 DEF Delete, Load
  <2> QED BY <2>3 DEF Current, TypeOK
<1>12. CASE TerminateSandbox(c) \/ CleanupProjectContainers(c) \/ CreateSandbox(c)
  <2>1. row' = row /\ alone = c /\ call[c].pc \in {"terminate", "sweep", "run"}
    BY <1>12, <1>a, <1>f DEF TerminateSandbox, CleanupProjectContainers, CreateSandbox
  <2>2. loaded' = loaded
    BY <1>12 DEF TerminateSandbox, CleanupProjectContainers, CreateSandbox, Goto, GotoWith
  <2> QED BY <1>k, <2>1, <2>2
<1> QED BY <1>1, <1>2, <1>3, <1>4, <1>5, <1>6, <1>7, <1>8, <1>9, <1>10, <1>11, <1>12
        DEF Step, Find, Check

LEMMA AloneNext ==
  ASSUME TypeOK, ShapeInv, AloneInv, [Next]_vars
  PROVE  AloneInv'
<1>0. SUFFICES ASSUME NEW d \in Caller, alone' = d
               PROVE  UndisturbedNext(call'[d]) /\ Current(d)'
  BY DEF AloneInv, Undisturbed, UndisturbedNext, Healed
<1>1. ASSUME NEW c \in Caller, Begin(c) \/ RecoverExistingProjectSandbox(c)
      PROVE  UndisturbedNext(call'[d]) /\ Current(d)'
  <2>1. Moved(c, K("get", "lock", NoRow)) /\ d = c
    BY <1>0, <1>1, BeginFacts
  <2> QED BY <2>1, KFields DEF Moved, UndisturbedNext, Current
<1>2. ASSUME NEW c \in Caller, Step(c) PROVE UndisturbedNext(call'[d]) /\ Current(d)'
  <2>1. \/ alone' = IF alone = c THEN c ELSE Free
        \/ alone' = Free
    BY <1>2 DEF Step, Find, Check, Acquire, AcquireTimesOut, HandleLockNotAcquired, Release,
         FindExisting, FindToReplace, FindToCheck, FindStale, CheckContainer, CheckRepair,
         SyncStatus, HealthCheck, Adopt, NothingToAdopt, Insert, Save, Delete,
         TerminateSandbox, CleanupProjectContainers, CreateSandbox, CreateFails,
         ContainerExists, Own, Interrupt, Stir, Blip, CountFault
  <2>2. d = c
    BY <1>0, <2>1, MarkAssumption
  <2> QED BY <1>0, <1>2, <2>2, AloneStep, CurrentStep
<1>3. ASSUME \/ \E n \in Name : ContainerDies(n)
             \/ \E p \in Process : SyncFromDocker(p) \/ Crash(p)
             \/ LostLockEnds
             \/ LockExpires
      PROVE  FALSE
  BY <1>0, <1>3, MarkAssumption DEF ContainerDies, SyncFromDocker, Crash, LostLockEnds,
     LockExpires, Interrupt, Stir, Blip, CountFault
<1>4. CASE UNCHANGED vars
  BY <1>0, <1>4 DEF vars, AloneInv, Undisturbed, UndisturbedNext, Healed, Current
<1> QED BY <1>1, <1>2, <1>3, <1>4 DEF Next

\* Whatever earlier races, crashes and failures left in the row, in Docker and
\* in the processes' memories, a get_or_create call that nobody interrupts
\* ends with a row that names a running container.
THEOREM GetOrCreateHeals == Spec => []Heals
<1> DEFINE Inv == TypeOK /\ ShapeInv /\ AloneInv
<1>1. Init => Inv
  BY TypeInit, MarkAssumption DEF Init, AloneInv
<1>2. ASSUME Inv, [Next]_vars PROVE Inv'
  BY <1>2, TypeNext, AloneNext
<1>3. Inv => Heals
  BY DEF AloneInv, Undisturbed, Healed, Heals
<1> QED BY <1>1, <1>2, <1>3, PTL DEF Spec

=============================================================================
