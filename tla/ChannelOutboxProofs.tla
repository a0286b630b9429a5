------------------------- MODULE ChannelOutboxProofs -------------------------
(***************************************************************************)
(* Proofs about ChannelOutbox: the bound on duplicate deliveries and the   *)
(* soundness of a row's verdict hold for every number of messages, workers,*)
(* attempts and faults, and every batch size.                              *)
(***************************************************************************)
EXTENDS ChannelOutbox, FiniteSetTheorems, SequenceTheorems, TLAPS

Distinct(s) == \A i, j \in 1..Len(s) : s[i] = s[j] => i = j

Has(s, m) == \E i \in 1..Len(s) : s[i] = m

(***************************************************************************)
(* The workers that have tried m and not recorded it yet, those of them    *)
(* whose session can still record it, and those that have yet to try it.   *)
(***************************************************************************)
Flying(m)  == {w \in Workers : WorkerTried(w) /\ Item(w) = m}
Able(m)    == {w \in Flying(m) : ~broken[w]}
Waiting(m) == {w \in Workers : Has(batch[w], m) /\ w \notin Flying(m)}

SenderCount(m) == IF SenderTried(m) THEN 1 ELSE 0

BatchOK(w) ==
  /\ pc[w] = "idle" <=> batch[w] = <<>>
  /\ Distinct(batch[w])
  /\ \A m \in Messages : Has(batch[w], m) => row[m] \in {"failed"} \cup Settled
  /\ pc[w] = "sent" => Item(w) \in reached

DueOK ==
  /\ Distinct(due)
  /\ \A m \in Messages : Has(due, m) => row[m] = "failed"

RowOK(m) ==
  /\ sender[m] \in {"recorded", "sent", "raised"} => row[m] = "pending"
  /\ sender[m] \in {"new", "streamed"} => row[m] = "none"
  /\ sender[m] = "unrecorded" => row[m] \in {"none", "pending"}
  /\ row[m] \in {"none", "pending"} => attempts[m] = 0
  /\ row[m] = "failed" => attempts[m] < MaxAttempts
  /\ sender[m] \in {"new", "unrecorded", "recorded"} => tries[m] = 0
  /\ sender[m] = "streamed" => tries[m] = 1
  /\ sender[m] = "streamed" => m \in carded
  /\ sender[m] = "sent" => m \in reached \cup carded
  /\ row[m] = "sent" => m \in reached \cup carded

Upper(m) ==
  /\ row[m] \in {"none", "pending"} => tries[m] <= 1
  /\ row[m] = "failed" => tries[m] <= attempts[m] + lost[m] + Cardinality(Flying(m))
  /\ row[m] \in Settled => tries[m] + Cardinality(Waiting(m))
                             <= MaxAttempts - 1 + Cardinality(Workers) + lost[m]

Lower(m) ==
  /\ IsOpen(m) => attempts[m] + SenderCount(m) + Cardinality(Able(m)) <= tries[m]
  /\ row[m] = "dead_letter" => MaxAttempts <= tries[m]

Safe ==
  /\ \A w \in Workers : BatchOK(w)
  /\ DueOK
  /\ \A m \in Messages : RowOK(m) /\ Upper(m) /\ Lower(m)

IInv == TypeOK /\ Safe

-----------------------------------------------------------------------------
(***************************************************************************)
(* Sequences without repetition.                                           *)
(***************************************************************************)

\* RemoveAt drops one element and keeps the others in order
LEMMA RemoveAtFacts ==
  ASSUME NEW S, NEW s \in Seq(S), NEW k \in 1..Len(s)
  PROVE  /\ RemoveAt(s, k) \in Seq(S)
         /\ Len(RemoveAt(s, k)) = Len(s) - 1
         /\ \A i \in 1..Len(s) - 1 :
              RemoveAt(s, k)[i] = IF i < k THEN s[i] ELSE s[i + 1]
<1> DEFINE a == SubSeq(s, 1, k - 1)
           b == SubSeq(s, k + 1, Len(s))
<1>1. a \in Seq(S) /\ Len(a) = k - 1 /\ \A i \in 1..k-1 : a[i] = s[i]
  BY SubSeqProperties
<1>2. b \in Seq(S) /\ Len(b) = Len(s) - k
                   /\ \A i \in 1..Len(s) - k : b[i] = s[k + i]
  BY SubSeqProperties
<1>3. RemoveAt(s, k) = a \o b
  BY DEF RemoveAt
<1> HIDE DEF a, b
<1>4. /\ a \o b \in Seq(S)
      /\ Len(a \o b) = Len(s) - 1
      /\ \A i \in 1..Len(s) - 1 :
           (a \o b)[i] = IF i <= Len(a) THEN a[i] ELSE b[i - Len(a)]
  BY <1>1, <1>2, ConcatProperties
<1>5. ASSUME NEW i \in 1..Len(s) - 1
      PROVE  (a \o b)[i] = IF i < k THEN s[i] ELSE s[i + 1]
  <2>1. CASE i < k
    BY <1>1, <1>4, <2>1
  <2>2. CASE i >= k
    <3>1. i - Len(a) \in 1..Len(s) - k /\ b[i - Len(a)] = s[k + (i - Len(a))]
      BY <1>1, <1>2, <2>2
    <3>2. k + (i - Len(a)) = i + 1
      BY <1>1
    <3>3. (a \o b)[i] = b[i - Len(a)] /\ ~(i < k)
      BY <1>1, <1>4, <2>2
    <3>4. QED
      BY <3>1, <3>2, <3>3
  <2>3. i < k \/ i >= k
    OBVIOUS
  <2>4. QED
    BY <2>1, <2>2, <2>3
<1>6. QED
  BY <1>3, <1>4, <1>5

\* RemoveFirst takes m out of a sequence that holds it at most once
LEMMA RemoveFirstFacts ==
  ASSUME NEW S, NEW s \in Seq(S), NEW m, Distinct(s)
  PROVE  /\ RemoveFirst(s, m) \in Seq(S)
         /\ Distinct(RemoveFirst(s, m))
         /\ \A x : Has(RemoveFirst(s, m), x) => Has(s, x) /\ x # m
<1>1. CASE \E i \in 1..Len(s) : s[i] = m
  <2>1. PICK k \in 1..Len(s) : s[k] = m
    BY <1>1
  <2>2. {i \in 1..Len(s) : s[i] = m} = {k}
    BY <2>1 DEF Distinct
  <2>3. Min({k}) = k
    BY DEF Min
  <2>4. SelectInSeq(s, LAMBDA v : v = m) = k
    BY <2>2, <2>3 DEF SelectInSeq
  <2>5. RemoveFirst(s, m) = RemoveAt(s, k)
    BY <1>1, <2>4 DEF RemoveFirst
  <2> DEFINE r == RemoveAt(s, k)
  <2>6. /\ r \in Seq(S) /\ Len(r) = Len(s) - 1 /\ Len(s) \in Nat
        /\ \A i \in 1..Len(s) - 1 : r[i] = IF i < k THEN s[i] ELSE s[i + 1]
    BY RemoveAtFacts
  <2> HIDE DEF r
  <2>7. Distinct(r)
    BY <2>6 DEF Distinct
  <2>8. \A x : Has(r, x) => Has(s, x) /\ x # m
    BY <2>1, <2>6 DEF Distinct, Has
  <2>9. QED
    BY <2>5, <2>6, <2>7, <2>8 DEF r
<1>2. CASE ~ \E i \in 1..Len(s) : s[i] = m
  BY <1>2 DEF RemoveFirst, Has
<1>3. QED
  BY <1>1, <1>2

\* the first element of a batch and what is left after it
LEMMA TailFacts ==
  ASSUME NEW S, NEW s \in Seq(S), s # <<>>, Distinct(s)
  PROVE  /\ Head(s) \in S /\ Has(s, Head(s))
         /\ Tail(s) \in Seq(S) /\ Distinct(Tail(s))
         /\ Tail(s) = <<>> <=> ~(Len(s) > 1)
         /\ \A x : Has(Tail(s), x) <=> Has(s, x) /\ x # Head(s)
<1>1. /\ Len(s) \in Nat \ {0} /\ Head(s) = s[1] /\ s[1] \in S
      /\ Tail(s) \in Seq(S) /\ Len(Tail(s)) = Len(s) - 1
      /\ \A i \in 1..Len(s) - 1 : Tail(s)[i] = s[i + 1]
  BY HeadTailProperties, EmptySeq, LenProperties
<1> DEFINE t == Tail(s)
<1>2. t = <<>> <=> Len(t) = 0
  BY <1>1, EmptySeq
<1> HIDE DEF t
<1>3. Distinct(t)
  BY <1>1 DEF Distinct, t
<1>4. ASSUME NEW x PROVE Has(t, x) <=> Has(s, x) /\ x # Head(s)
  <2>1. ASSUME Has(t, x) PROVE Has(s, x) /\ x # Head(s)
    <3>1. PICK i \in 1..Len(s) - 1 : t[i] = x
      BY <1>1, <2>1 DEF Has, t
    <3>2. i + 1 \in 1..Len(s) /\ s[i + 1] = x /\ i + 1 # 1 /\ 1 \in 1..Len(s)
      BY <1>1, <3>1 DEF t
    <3>3. QED
      BY <1>1, <3>2 DEF Has, Distinct
  <2>2. ASSUME Has(s, x), x # Head(s) PROVE Has(t, x)
    <3>1. PICK i \in 1..Len(s) : s[i] = x
      BY <2>2 DEF Has
    <3>2. i - 1 \in 1..Len(s) - 1 /\ t[i - 1] = s[i]
      BY <1>1, <2>2, <3>1 DEF t
    <3>3. QED
      BY <1>1, <3>1, <3>2 DEF Has, t
  <2>3. QED
    BY <2>1, <2>2
<1>5. Has(s, Head(s))
  BY <1>1 DEF Has
<1>6. QED
  BY <1>1, <1>2, <1>3, <1>4, <1>5 DEF t

-----------------------------------------------------------------------------
(***************************************************************************)
(* Counting sets of workers.                                               *)
(***************************************************************************)

\* subsets of Workers are finite and no larger than a set that covers them
LEMMA Counting ==
  ASSUME NEW S \in SUBSET Workers, NEW T \in SUBSET Workers, NEW w \in Workers
  PROVE  /\ Cardinality(S) \in Nat
         /\ S \subseteq T => Cardinality(S) <= Cardinality(T)
         /\ S \subseteq T \cup {w} => Cardinality(S) <= Cardinality(T) + 1
         /\ S \subseteq T \ {w} /\ w \in T => Cardinality(S) <= Cardinality(T) - 1
         /\ S \cap T = {} => Cardinality(S) + Cardinality(T) <= Cardinality(Workers)
<1>1. IsFiniteSet(S) /\ IsFiniteSet(T) /\ Cardinality(S) \in Nat
                     /\ Cardinality(T) \in Nat /\ Cardinality(Workers) \in Nat
  BY WorkersAssumption, FS_Subset, FS_CardinalityType
<1>2. S \subseteq T => Cardinality(S) <= Cardinality(T)
  BY <1>1, FS_Subset
<1>3. /\ IsFiniteSet(T \cup {w})
      /\ Cardinality(T \cup {w}) <= Cardinality(T) + 1
  <2>1. /\ IsFiniteSet(T \cup {w})
        /\ Cardinality(T \cup {w}) = IF w \in T THEN Cardinality(T)
                                                ELSE Cardinality(T) + 1
    BY <1>1, FS_AddElement
  <2>2. QED
    BY <1>1, <2>1
<1>4. S \subseteq T \cup {w} => Cardinality(S) <= Cardinality(T \cup {w})
                                /\ Cardinality(T \cup {w}) \in Nat
  BY <1>3, FS_Subset, FS_CardinalityType
<1>5. w \in T => IsFiniteSet(T \ {w}) /\ Cardinality(T \ {w}) = Cardinality(T) - 1
  BY <1>1, FS_RemoveElement
<1>6. S \subseteq T \ {w} /\ w \in T => Cardinality(S) <= Cardinality(T \ {w})
  BY <1>5, FS_Subset
<1>7. S \cap T = {} => Cardinality(S \cup T) = Cardinality(S) + Cardinality(T)
  <2>1. Cardinality(S \cup T)
          = Cardinality(S) + Cardinality(T) - Cardinality(S \cap T)
    BY <1>1, FS_Union
  <2>2. Cardinality({}) = 0
    BY FS_EmptySet
  <2>3. ASSUME S \cap T = {}
        PROVE  Cardinality(S \cup T) = Cardinality(S) + Cardinality(T)
    <3>1. Cardinality(S \cap T) = 0
      BY <2>2, <2>3
    <3>2. QED
      BY <1>1, <2>1, <3>1
  <2>4. QED
    BY <2>3
<1>8. Cardinality(S \cup T) <= Cardinality(Workers)
  BY WorkersAssumption, FS_Subset
<1>9. QED
  BY <1>1, <1>2, <1>3, <1>4, <1>5, <1>6, <1>7, <1>8
-----------------------------------------------------------------------------
(***************************************************************************)
(* The steps.                                                              *)
(***************************************************************************)

\* the three sets hold workers, and a worker never waits for what it tried
LEMMA PartsAreWorkers ==
  ASSUME NEW m \in Messages
  PROVE  /\ Flying(m) \in SUBSET Workers /\ Able(m) \in SUBSET Flying(m)
         /\ Waiting(m) \in SUBSET Workers /\ Flying(m) \cap Waiting(m) = {}
         /\ Cardinality(Flying(m)) \in Nat /\ Cardinality(Able(m)) \in Nat
         /\ Cardinality(Waiting(m)) \in Nat /\ Cardinality(Workers) \in Nat \ {0}
<1>1. /\ Flying(m) \in SUBSET Workers /\ Able(m) \in SUBSET Flying(m)
      /\ Waiting(m) \in SUBSET Workers /\ Flying(m) \cap Waiting(m) = {}
  BY DEF Flying, Able, Waiting
<1>2. PICK w \in Workers : TRUE
  BY WorkersAssumption
<1>3. Cardinality(Workers) \in Nat /\ Cardinality(Workers) # 0
  BY WorkersAssumption, FS_CardinalityType, FS_EmptySet
<1>4. /\ Cardinality(Flying(m)) \in Nat /\ Cardinality(Able(m)) \in Nat
      /\ Cardinality(Waiting(m)) \in Nat
  BY <1>1, <1>2, Counting
<1>5. QED
  BY <1>1, <1>3, <1>4

\* a step that leaves the workers alone leaves the three sets alone
LEMMA WorkersStay ==
  ASSUME UNCHANGED workerVars, NEW m \in Messages
  PROVE  Flying(m)' = Flying(m) /\ Able(m)' = Able(m) /\ Waiting(m)' = Waiting(m)
  BY DEF workerVars, Flying, Able, Waiting, WorkerTried, Item

\* what mark_sent or mark_failed does to the table
LEMMA MarkFacts ==
  ASSUME TypeOK, DueOK, NEW m \in Messages, RowOK(m),
         MarkSent(m) \/ MarkFailed(m)
  PROVE  /\ row' \in [Messages -> Status]
         /\ attempts' \in [Messages -> 0..MaxAttempts]
         /\ due' \in Seq(Messages)
         /\ DueOK'
         /\ \A x \in Messages : x # m => row'[x] = row[x] /\ attempts'[x] = attempts[x]
         /\ ~IsOpen(m) => row'[m] = row[m] /\ attempts'[m] = attempts[m]
         /\ IsOpen(m) /\ MarkSent(m) => row'[m] = "sent" /\ attempts'[m] = attempts[m]
         /\ IsOpen(m) /\ ~MarkSent(m) =>
              /\ attempts'[m] = attempts[m] + 1
              /\ row'[m] = IF attempts[m] + 1 >= MaxAttempts THEN "dead_letter"
                                                             ELSE "failed"
<1>1. /\ row \in [Messages -> Status] /\ attempts \in [Messages -> 0..MaxAttempts]
      /\ due \in Seq(Messages) /\ Distinct(due) /\ MaxAttempts \in Nat \ {0}
  BY MaxAttemptsAssumption DEF TypeOK, DueOK
<1>2. CASE ~IsOpen(m)
  BY <1>1, <1>2 DEF MarkSent, MarkFailed, rowVars, DueOK, Has, Distinct
<1>3. CASE IsOpen(m)
  <2>1. due' = RemoveFirst(due, m)
    BY <1>3 DEF MarkSent, MarkFailed, Undue
  <2>2. /\ due' \in Seq(Messages) /\ Distinct(due')
        /\ \A x : Has(due', x) => Has(due, x) /\ x # m
    BY <1>1, <2>1, RemoveFirstFacts
  <2>3. CASE MarkSent(m)
    <3>1. row' = [row EXCEPT ![m] = "sent"] /\ attempts' = attempts
      BY <1>3, <2>3 DEF MarkSent
    <3>2. DueOK'
      BY <1>1, <2>2, <3>1 DEF DueOK
    <3>3. QED
      BY <1>1, <1>3, <2>2, <2>3, <3>1, <3>2 DEF Status, Settled
  <2>4. CASE ~MarkSent(m)
    <3>1. /\ attempts' = [attempts EXCEPT ![m] = attempts[m] + 1]
          /\ row' = [row EXCEPT ![m] = IF attempts[m] + 1 >= MaxAttempts
                                         THEN "dead_letter" ELSE "failed"]
      BY <1>3, <2>4 DEF MarkFailed
    <3>2. attempts[m] \in 0..MaxAttempts /\ attempts[m] < MaxAttempts
      BY <1>1, <1>3 DEF IsOpen, RowOK
    <3>3. attempts[m] + 1 \in 0..MaxAttempts
      BY <1>1, <3>2
    <3>4. DueOK'
      BY <1>1, <2>2, <3>1 DEF DueOK
    <3>5. row' \in [Messages -> Status]
      BY <1>1, <3>1 DEF Status, Settled
    <3>6. attempts' \in [Messages -> 0..MaxAttempts]
      BY <1>1, <3>1, <3>3
    <3>7. QED
      BY <1>1, <1>3, <2>2, <2>4, <3>1, <3>4, <3>5, <3>6
  <2>5. QED
    BY <2>3, <2>4
<1>4. QED
  BY <1>2, <1>3

\* the empty table satisfies the invariant
LEMMA InitSafe == Init => IInv
<1> SUFFICES ASSUME Init PROVE IInv
  OBVIOUS
<1>1. TypeOK
  BY MaxAttemptsAssumption DEF Init, TypeOK, Status, SenderAt, WorkerAt
<1>2. Len(<<>>) = 0
  OBVIOUS
<1>3. \A w \in Workers : BatchOK(w)
  BY <1>2 DEF Init, BatchOK, Distinct, Has
<1>4. DueOK
  BY <1>2 DEF Init, DueOK, Distinct, Has
<1>5. ASSUME NEW m \in Messages PROVE RowOK(m) /\ Upper(m) /\ Lower(m)
  BY <1>5, MaxAttemptsAssumption DEF Init, RowOK, Upper, Lower, Settled, IsOpen
<1>6. QED
  BY <1>1, <1>3, <1>4, <1>5 DEF IInv, Safe
\* an answer whose own fields and workers do not change keeps its invariants
LEMMA AnswerStays ==
  ASSUME NEW x \in Messages, RowOK(x), Upper(x), Lower(x),
         row'[x] = row[x], attempts'[x] = attempts[x], sender'[x] = sender[x],
         tries'[x] = tries[x], lost'[x] = lost[x],
         x \in reached => x \in reached', x \in carded => x \in carded',
         Flying(x)' = Flying(x), Able(x)' = Able(x), Waiting(x)' = Waiting(x)
  PROVE  RowOK(x)' /\ Upper(x)' /\ Lower(x)'
  BY DEF RowOK, Upper, Lower, IsOpen, SenderCount, SenderTried

\* no worker holds an answer whose row was never marked failed
LEMMA NobodyHolds ==
  ASSUME IInv, NEW m \in Messages, row[m] \in {"none", "pending"}
  PROVE  /\ \A w \in Workers : ~Has(batch[w], m)
         /\ Flying(m) = {} /\ Able(m) = {} /\ Waiting(m) = {}
         /\ Cardinality(Flying(m)) = 0 /\ Cardinality(Able(m)) = 0
         /\ Cardinality(Waiting(m)) = 0
<1>1. ASSUME NEW w \in Workers PROVE ~Has(batch[w], m)
  BY DEF IInv, Safe, BatchOK, Settled
<1>2. ASSUME NEW w \in Flying(m) PROVE FALSE
  <2>1. w \in Workers /\ pc[w] # "idle" /\ Item(w) = m
    BY <1>2 DEF Flying, WorkerTried
  <2>2. batch[w] # <<>> /\ batch[w] \in Seq(Messages) /\ Distinct(batch[w])
    BY <2>1 DEF IInv, Safe, BatchOK, TypeOK
  <2>3. Has(batch[w], m)
    BY <2>1, <2>2, TailFacts DEF Item
  <2>4. QED
    BY <1>1, <2>1, <2>3
<1>3. Flying(m) = {} /\ Able(m) = {} /\ Waiting(m) = {}
  BY <1>1, <1>2 DEF Able, Waiting
<1>4. QED
  BY <1>1, <1>3, FS_EmptySet

\* the steps before an answer has a row
LEMMA StartSafe ==
  ASSUME IInv, NEW m \in Messages, Refuse(m) \/ Stream(m)
  PROVE  IInv'
<1>1. TypeOK /\ DueOK /\ sender[m] = "new" /\ RowOK(m)
  BY DEF IInv, Safe, Refuse, Stream
<1>2. /\ UNCHANGED <<rowVars, workerVars, lost, faults>>
      /\ \A x \in Messages : x # m => sender'[x] = sender[x] /\ tries'[x] = tries[x]
      /\ reached \subseteq reached' /\ carded \subseteq carded'
  BY <1>1 DEF Refuse, Stream, TypeOK
<1>3. TypeOK'
  <2>1. sender' \in [Messages -> SenderAt]
    BY <1>1 DEF Refuse, Stream, TypeOK, SenderAt
  <2>2. tries' \in [Messages -> Nat] /\ reached' \subseteq Messages /\ carded' \subseteq Messages
    <3>1. tries \in [Messages -> Nat] /\ reached \subseteq Messages /\ carded \subseteq Messages
      BY <1>1 DEF TypeOK
    <3>2. QED
      BY <3>1 DEF Refuse, Stream
  <2>3. QED
    BY <1>1, <1>2, <2>1, <2>2 DEF TypeOK, rowVars, workerVars
<1>4. ASSUME NEW w \in Workers PROVE BatchOK(w)'
  BY <1>2 DEF IInv, Safe, BatchOK, rowVars, workerVars, Item
<1>5. DueOK'
  BY <1>1, <1>2 DEF DueOK, rowVars
<1>6. ASSUME NEW x \in Messages PROVE RowOK(x)' /\ Upper(x)' /\ Lower(x)'
  <2>1. Flying(x)' = Flying(x) /\ Able(x)' = Able(x) /\ Waiting(x)' = Waiting(x)
    BY <1>2, WorkersStay
  <2>2. CASE x # m
    BY <1>2, <2>1, <2>2, AnswerStays DEF IInv, Safe, rowVars
  <2>3. CASE x = m
    <3>1. /\ row'[m] = "none" /\ attempts'[m] = attempts[m] /\ attempts[m] = 0
          /\ tries[m] = 0
          /\ \/ sender'[m] = "done" /\ tries'[m] = 0
             \/ sender'[m] = "streamed" /\ tries'[m] = 1 /\ m \in carded'
      BY <1>1, <1>2 DEF RowOK, Refuse, Stream, TypeOK, rowVars
    <3>2. QED
      BY <2>3, <3>1, MaxAttemptsAssumption
      DEF RowOK, Upper, Lower, IsOpen, Settled
  <2>4. QED
    BY <2>2, <2>3
<1>7. QED
  BY <1>3, <1>4, <1>5, <1>6 DEF IInv, Safe

\* the row is inserted, or the insert fails
LEMMA CreateRecordSafe ==
  ASSUME IInv, NEW m \in Messages, CreateRecord(m)
  PROVE  IInv'
<1>1. TypeOK /\ DueOK /\ sender[m] \in {"new", "streamed"} /\ RowOK(m)
  BY DEF IInv, Safe, CreateRecord
<1>2. /\ UNCHANGED <<attempts, due, workerVars, tries, lost, reached, carded>>
      /\ \A x \in Messages : x # m => sender'[x] = sender[x] /\ row'[x] = row[x]
      /\ \/ /\ row'[m] = "pending"
            /\ sender'[m] = IF sender[m] = "new" THEN "recorded" ELSE "sent"
         \/ /\ row'[m] \in {"none", "pending"}
            /\ sender'[m] = IF sender[m] = "new" THEN "unrecorded" ELSE "done"
  BY <1>1 DEF CreateRecord, TypeOK, RowOK
<1>3. TypeOK'
  <2>1. sender' \in [Messages -> SenderAt]
    BY <1>1 DEF CreateRecord, TypeOK, SenderAt
  <2>2. row' \in [Messages -> Status]
    BY <1>1 DEF CreateRecord, TypeOK, Status
  <2>3. faults' \in Nat
    BY <1>1 DEF CreateRecord, TypeOK, FaultHappens
  <2>4. QED
    BY <1>1, <1>2, <2>1, <2>2, <2>3 DEF TypeOK, workerVars
<1>4. ASSUME NEW w \in Workers PROVE BatchOK(w)'
  <2>1. BatchOK(w) /\ ~Has(batch[w], m)
    BY <1>1 DEF IInv, Safe, BatchOK, RowOK, Settled
  <2>2. QED
    BY <1>2, <2>1 DEF BatchOK, workerVars, Item
<1>5. DueOK'
  <2>1. ~Has(due, m)
    BY <1>1 DEF DueOK, RowOK
  <2>2. QED
    BY <1>1, <1>2, <2>1 DEF DueOK
<1>6. ASSUME NEW x \in Messages PROVE RowOK(x)' /\ Upper(x)' /\ Lower(x)'
  <2>1. Flying(x)' = Flying(x) /\ Able(x)' = Able(x) /\ Waiting(x)' = Waiting(x)
    BY <1>2, WorkersStay
  <2>2. CASE x # m
    BY <1>2, <2>1, <2>2, AnswerStays DEF IInv, Safe
  <2>3. CASE x = m
    <3>1. /\ attempts[m] = 0 /\ lost[m] \in Nat
          /\ sender[m] = "new" => tries[m] = 0
          /\ sender[m] = "streamed" => tries[m] = 1 /\ m \in carded
      BY <1>1 DEF RowOK, TypeOK
    <3>3. Cardinality(Able(m)) = 0
      BY <1>1, NobodyHolds DEF RowOK
    <3>4. QED
      BY <1>1, <1>2, <2>1, <2>3, <3>1, <3>3, MaxAttemptsAssumption
      DEF RowOK, Upper, Lower, IsOpen, Settled, SenderCount, SenderTried
  <2>4. QED
    BY <2>2, <2>3
<1>7. QED
  BY <1>3, <1>4, <1>5, <1>6 DEF IInv, Safe
\* the send returns or raises
LEMMA SendSafe ==
  ASSUME IInv, NEW m \in Messages, Send(m)
  PROVE  IInv'
<1>1. TypeOK /\ DueOK /\ sender[m] \in {"recorded", "unrecorded"} /\ RowOK(m)
  BY DEF IInv, Safe, Send
<1>2. PICK got \in BOOLEAN, outcome \in {"sent", "raised"} :
        /\ outcome = "sent" => got
        /\ reached' = IF got THEN reached \cup {m} ELSE reached
        /\ sender' = [sender EXCEPT
                        ![m] = IF @ = "recorded" THEN outcome ELSE "done"]
  BY DEF Send
<1>3. /\ UNCHANGED <<rowVars, workerVars, lost, carded, faults>>
      /\ tries' = [tries EXCEPT ![m] = @ + 1]
  BY DEF Send
<1>4. TypeOK'
  <2>1. sender' \in [Messages -> SenderAt]
    BY <1>1, <1>2 DEF TypeOK, SenderAt
  <2>2. tries' \in [Messages -> Nat]
    <3>1. tries \in [Messages -> Nat]
      BY <1>1 DEF TypeOK
    <3>2. QED
      BY <1>3, <3>1
  <2>3. reached' \subseteq Messages
    BY <1>1, <1>2 DEF TypeOK
  <2>4. QED
    BY <1>1, <1>3, <2>1, <2>2, <2>3 DEF TypeOK, rowVars, workerVars
<1>5. ASSUME NEW w \in Workers PROVE BatchOK(w)'
  BY <1>2, <1>3 DEF IInv, Safe, BatchOK, rowVars, workerVars, Item
<1>6. DueOK'
  BY <1>1, <1>3 DEF DueOK, rowVars
<1>7. ASSUME NEW x \in Messages PROVE RowOK(x)' /\ Upper(x)' /\ Lower(x)'
  <2>1. Flying(x)' = Flying(x) /\ Able(x)' = Able(x) /\ Waiting(x)' = Waiting(x)
    BY <1>3, WorkersStay
  <2>2. CASE x # m
    <3>1. sender'[x] = sender[x] /\ tries'[x] = tries[x]
      BY <1>1, <1>2, <1>3, <2>2 DEF TypeOK
    <3>2. QED
      BY <1>2, <1>3, <2>1, <3>1, AnswerStays DEF IInv, Safe, rowVars
  <2>3. CASE x = m
    <3>1. /\ attempts[m] = 0 /\ attempts'[m] = 0 /\ lost'[m] = lost[m]
          /\ lost[m] \in Nat /\ tries'[m] = 1 /\ row'[m] = row[m]
      BY <1>1, <1>3 DEF RowOK, TypeOK, rowVars
    <3>2. Cardinality(Able(m)) = 0
      BY <1>1, NobodyHolds DEF RowOK
    <3>3. CASE sender[m] = "recorded"
      <4>1. /\ sender'[m] = outcome /\ row[m] = "pending"
            /\ outcome = "sent" => m \in reached'
        BY <1>1, <1>2, <3>3 DEF TypeOK, RowOK
      <4>2. QED
        BY <2>1, <2>3, <3>1, <3>2, <4>1
        DEF RowOK, Upper, Lower, IsOpen, Settled, SenderCount, SenderTried
    <3>4. CASE sender[m] = "unrecorded"
      <4>1. sender'[m] = "done" /\ row[m] \in {"none", "pending"}
        BY <1>1, <1>2, <3>4 DEF TypeOK, RowOK
      <4>2. QED
        BY <2>1, <2>3, <3>1, <3>2, <4>1
        DEF RowOK, Upper, Lower, IsOpen, Settled, SenderCount, SenderTried
    <3>5. QED
      BY <1>1, <3>3, <3>4
  <2>4. QED
    BY <2>2, <2>3
<1>8. QED
  BY <1>4, <1>5, <1>6, <1>7 DEF IInv, Safe

\* the sender records its outcome, or a fault keeps it from recording
LEMMA SenderMarksSafe ==
  ASSUME IInv, NEW m \in Messages, SenderMarks(m)
  PROVE  IInv'
<1>1. /\ TypeOK /\ DueOK /\ RowOK(m) /\ Upper(m) /\ Lower(m)
      /\ sender[m] \in {"sent", "raised"} /\ row[m] = "pending" /\ IsOpen(m)
  BY DEF IInv, Safe, SenderMarks, SenderTried, RowOK, IsOpen
<1>2. /\ sender' = [sender EXCEPT ![m] = "done"]
      /\ UNCHANGED <<workerVars, tries, reached, carded>>
  BY DEF SenderMarks
<1>3. /\ attempts[m] = 0 /\ tries[m] \in Nat /\ lost[m] \in Nat
      /\ 1 <= tries[m] /\ tries[m] <= 1
      /\ sender[m] = "sent" => m \in reached \cup carded
  <2>1. Cardinality(Able(m)) = 0
    BY <1>1, NobodyHolds
  <2>2. QED
    BY <1>1, <2>1
    DEF TypeOK, RowOK, Upper, Lower, IsOpen, SenderCount, SenderTried
<1>4. CASE /\ IF sender[m] = "sent" THEN MarkSent(m) ELSE MarkFailed(m)
           /\ UNCHANGED <<lost, faults>>
  <2>1. /\ row' \in [Messages -> Status]
        /\ attempts' \in [Messages -> 0..MaxAttempts]
        /\ due' \in Seq(Messages) /\ DueOK'
        /\ \A x \in Messages : x # m => row'[x] = row[x] /\ attempts'[x] = attempts[x]
        /\ \/ /\ row'[m] = "sent" /\ attempts'[m] = 0 /\ sender[m] = "sent"
           \/ /\ attempts'[m] = 1
              /\ row'[m] = IF 1 >= MaxAttempts THEN "dead_letter" ELSE "failed"
    <3>1. CASE sender[m] = "sent"
      BY <1>1, <1>3, <1>4, <3>1, MarkFacts
    <3>2. CASE sender[m] # "sent" /\ MarkSent(m)
      <4>1. row'[m] = "sent" /\ row'[m] \in {"dead_letter", "failed"}
        BY <1>1, <1>4, <3>2 DEF MarkSent, MarkFailed, TypeOK
      <4>2. QED
        BY <4>1
    <3>3. CASE sender[m] # "sent" /\ ~MarkSent(m)
      BY <1>1, <1>3, <1>4, <3>3, MarkFacts
    <3>4. QED
      BY <3>1, <3>2, <3>3
  <2>2. TypeOK'
    BY <1>1, <1>2, <1>4, <2>1 DEF TypeOK, SenderAt, workerVars
  <2>3. ASSUME NEW w \in Workers PROVE BatchOK(w)'
    <3>1. BatchOK(w) /\ ~Has(batch[w], m)
      BY <1>1, NobodyHolds DEF IInv, Safe
    <3>2. QED
      BY <1>2, <2>1, <3>1 DEF BatchOK, workerVars, Item
  <2>4. ASSUME NEW x \in Messages PROVE RowOK(x)' /\ Upper(x)' /\ Lower(x)'
    <3>1. Flying(x)' = Flying(x) /\ Able(x)' = Able(x) /\ Waiting(x)' = Waiting(x)
      BY <1>2, WorkersStay
    <3>2. CASE x # m
      <4>1. sender'[x] = sender[x]
        BY <1>1, <1>2, <3>2 DEF TypeOK
      <4>2. QED
        BY <1>2, <1>4, <2>1, <3>1, <3>2, <4>1, AnswerStays DEF IInv, Safe
    <3>3. CASE x = m
      <4>1. sender'[m] = "done" /\ tries'[m] = tries[m] /\ lost'[m] = lost[m]
                                /\ reached' = reached /\ carded' = carded
        BY <1>1, <1>2, <1>4 DEF TypeOK
      <4>2. /\ Cardinality(Able(m)) = 0 /\ Cardinality(Flying(m)) = 0
            /\ Cardinality(Waiting(m)) = 0
            /\ Cardinality(Workers) \in Nat \ {0}
        BY <1>1, NobodyHolds, PartsAreWorkers
      <4>3. RowOK(m)'
        BY <1>3, <2>1, <4>1, MaxAttemptsAssumption DEF RowOK
      <4>4. Upper(m)'
        BY <1>3, <2>1, <3>1, <3>3, <4>1, <4>2, MaxAttemptsAssumption
        DEF Upper, Settled
      <4>5. Lower(m)'
        BY <1>3, <2>1, <3>1, <3>3, <4>1, <4>2, MaxAttemptsAssumption
        DEF Lower, IsOpen, SenderCount, SenderTried
      <4>6. QED
        BY <3>3, <4>3, <4>4, <4>5
    <3>4. QED
      BY <3>2, <3>3
  <2>5. QED
    BY <2>1, <2>2, <2>3, <2>4 DEF IInv, Safe
<1>5. CASE /\ FaultHappens("db")
           /\ lost' = [lost EXCEPT ![m] = @ + 1]
           /\ UNCHANGED rowVars
  <2>1. TypeOK'
    <3>1. lost' \in [Messages -> Nat] /\ faults' \in Nat
      BY <1>1, <1>5 DEF TypeOK, FaultHappens
    <3>2. QED
      BY <1>1, <1>2, <1>5, <3>1 DEF TypeOK, SenderAt, workerVars, rowVars
  <2>2. ASSUME NEW w \in Workers PROVE BatchOK(w)'
    BY <1>2, <1>5 DEF IInv, Safe, BatchOK, workerVars, rowVars, Item
  <2>3. DueOK'
    BY <1>1, <1>5 DEF DueOK, rowVars
  <2>4. ASSUME NEW x \in Messages PROVE RowOK(x)' /\ Upper(x)' /\ Lower(x)'
    <3>1. Flying(x)' = Flying(x) /\ Able(x)' = Able(x) /\ Waiting(x)' = Waiting(x)
      BY <1>2, WorkersStay
    <3>2. CASE x # m
      <4>1. sender'[x] = sender[x] /\ lost'[x] = lost[x]
        BY <1>1, <1>2, <1>5, <3>2 DEF TypeOK
      <4>2. QED
        BY <1>2, <1>5, <3>1, <3>2, <4>1, AnswerStays DEF IInv, Safe, rowVars
    <3>3. CASE x = m
      <4>1. /\ sender'[m] = "done" /\ tries'[m] = tries[m] /\ row'[m] = "pending"
            /\ lost'[m] = lost[m] + 1 /\ attempts'[m] = 0
        BY <1>1, <1>2, <1>3, <1>5 DEF TypeOK, rowVars
      <4>2. Cardinality(Able(m)) = 0
        BY <1>1, NobodyHolds
      <4>3. QED
        BY <1>3, <3>1, <3>3, <4>1, <4>2
        DEF RowOK, Upper, Lower, IsOpen, Settled, SenderCount, SenderTried
    <3>4. QED
      BY <3>2, <3>3
  <2>5. QED
    BY <2>1, <2>2, <2>3, <2>4 DEF IInv, Safe
<1>6. QED
  BY <1>4, <1>5 DEF SenderMarks
\* the sender dies before it records its outcome
LEMMA SenderDiesSafe ==
  ASSUME IInv, NEW m \in Messages, SenderDies(m)
  PROVE  IInv'
<1>1. /\ TypeOK /\ DueOK /\ RowOK(m) /\ Upper(m) /\ Lower(m)
      /\ sender[m] \in SenderAt \ {"new", "done"}
      /\ row[m] \in {"none", "pending"}
  BY DEF IInv, Safe, SenderDies, RowOK, TypeOK, SenderAt
<1>2. /\ sender' = [sender EXCEPT ![m] = "done"]
      /\ lost' = [lost EXCEPT ![m] = IF SenderTried(m) THEN @ + 1 ELSE @]
      /\ UNCHANGED <<rowVars, workerVars, tries, reached, carded>>
      /\ faults' = faults + 1
  BY DEF SenderDies, FaultHappens
<1>3. TypeOK'
  <2>1. lost' \in [Messages -> Nat] /\ faults' \in Nat
    <3>1. lost \in [Messages -> Nat] /\ faults \in Nat
      BY <1>1 DEF TypeOK
    <3>2. QED
      BY <1>2, <3>1
  <2>2. QED
    BY <1>1, <1>2, <2>1 DEF TypeOK, SenderAt, workerVars, rowVars
<1>4. ASSUME NEW w \in Workers PROVE BatchOK(w)'
  BY <1>2 DEF IInv, Safe, BatchOK, workerVars, rowVars, Item
<1>5. DueOK'
  BY <1>1, <1>2 DEF DueOK, rowVars
<1>6. ASSUME NEW x \in Messages PROVE RowOK(x)' /\ Upper(x)' /\ Lower(x)'
  <2>1. Flying(x)' = Flying(x) /\ Able(x)' = Able(x) /\ Waiting(x)' = Waiting(x)
    BY <1>2, WorkersStay
  <2>2. CASE x # m
    <3>1. sender'[x] = sender[x] /\ lost'[x] = lost[x]
      BY <1>1, <1>2, <2>2 DEF TypeOK
    <3>2. QED
      BY <1>2, <2>1, <3>1, AnswerStays DEF IInv, Safe, rowVars
  <2>3. CASE x = m
    <3>1. /\ sender'[m] = "done" /\ tries'[m] = tries[m] /\ row'[m] = row[m]
          /\ lost'[m] = lost[m] + SenderCount(m) /\ attempts'[m] = 0
          /\ attempts[m] = 0 /\ lost[m] \in Nat /\ tries[m] \in Nat
      BY <1>1, <1>2 DEF TypeOK, rowVars, SenderCount, RowOK
    <3>2. Cardinality(Able(m)) = 0
      BY <1>1, NobodyHolds
    <3>3. QED
      BY <1>1, <2>1, <2>3, <3>1, <3>2
      DEF RowOK, Upper, Lower, IsOpen, Settled, SenderCount, SenderTried
  <2>4. QED
    BY <2>2, <2>3
<1>7. QED
  BY <1>3, <1>4, <1>5, <1>6 DEF IInv, Safe

\* a backoff runs out
LEMMA DueSafe ==
  ASSUME IInv, NEW m \in Messages, Due(m)
  PROVE  IInv'
<1>1. /\ TypeOK /\ DueOK /\ row[m] = "failed" /\ due \in Seq(Messages)
      /\ m \notin Range(due) /\ due' = Append(due, m)
      /\ UNCHANGED <<row, attempts, sender, pc, batch, broken, tries, lost,
                     reached, carded, faults>>
  BY DEF IInv, Safe, Due, TypeOK
<1>2. /\ due' \in Seq(Messages) /\ Len(due') = Len(due) + 1 /\ Len(due) \in Nat
      /\ \A i \in 1..Len(due) : due'[i] = due[i]
      /\ due'[Len(due) + 1] = m
  BY <1>1, AppendProperties
<1>3. ~Has(due, m)
  BY <1>1 DEF Has, Range
<1>4. DueOK'
  <2>1. Distinct(due')
    BY <1>1, <1>2, <1>3 DEF Distinct, Has, DueOK
  <2>2. \A x \in Messages : Has(due', x) => Has(due, x) \/ x = m
    BY <1>2 DEF Has
  <2>3. QED
    BY <1>1, <2>1, <2>2 DEF DueOK
<1>5. TypeOK'
  BY <1>1, <1>2 DEF TypeOK
<1>6. ASSUME NEW w \in Workers PROVE BatchOK(w)'
  BY <1>1 DEF IInv, Safe, BatchOK, Item
<1>7. ASSUME NEW x \in Messages PROVE RowOK(x)' /\ Upper(x)' /\ Lower(x)'
  <2>1. Flying(x)' = Flying(x) /\ Able(x)' = Able(x) /\ Waiting(x)' = Waiting(x)
    BY <1>1, WorkersStay DEF workerVars
  <2>2. QED
    BY <1>1, <2>1, AnswerStays DEF IInv, Safe
<1>8. QED
  BY <1>4, <1>5, <1>6, <1>7 DEF IInv, Safe

-----------------------------------------------------------------------------
(***************************************************************************)
(* The worker's steps.  Each changes one worker w.                         *)
(***************************************************************************)
OnlyWorker(w) ==
  \A v \in Workers : v # w => /\ pc'[v] = pc[v] /\ batch'[v] = batch[v]
                              /\ broken'[v] = broken[v]

\* the other workers hold what they held
LEMMA OthersStay ==
  ASSUME NEW w \in Workers, OnlyWorker(w), NEW x \in Messages
  PROVE  /\ Flying(x)' \ {w} = Flying(x) \ {w}
         /\ Able(x)' \ {w} = Able(x) \ {w}
         /\ Waiting(x)' \ {w} = Waiting(x) \ {w}
<1>1. ASSUME NEW v \in Workers, v # w
      PROVE  /\ v \in Flying(x)' <=> v \in Flying(x)
             /\ v \in Able(x)' <=> v \in Able(x)
             /\ v \in Waiting(x)' <=> v \in Waiting(x)
  BY <1>1 DEF OnlyWorker, Flying, Able, Waiting, WorkerTried, Item
<1>2. QED
  BY <1>1 DEF Flying, Able, Waiting

\* a step that changes nothing of w's holding of x leaves the sets alone
LEMMA HoldersStay ==
  ASSUME NEW w \in Workers, OnlyWorker(w), NEW x \in Messages,
         w \in Flying(x)' <=> w \in Flying(x),
         w \in Able(x)' <=> w \in Able(x),
         w \in Waiting(x)' <=> w \in Waiting(x)
  PROVE  /\ Flying(x)' = Flying(x) /\ Able(x)' = Able(x)
         /\ Waiting(x)' = Waiting(x)
<1>1. Flying(x)' = Flying(x)
  BY OthersStay
<1>2. Able(x)' = Able(x)
  BY OthersStay
<1>3. Waiting(x)' = Waiting(x)
  BY OthersStay
<1>4. QED
  BY <1>1, <1>2, <1>3

\* a worker that tried its item can record it, holds it, and no longer waits
LEMMA HoldsItem ==
  ASSUME IInv, NEW w \in Workers, pc[w] # "idle"
  PROVE  /\ batch[w] \in Seq(Messages) /\ batch[w] # <<>> /\ Distinct(batch[w])
         /\ Item(w) \in Messages /\ Has(batch[w], Item(w))
         /\ row[Item(w)] \in {"failed"} \cup Settled
         /\ sender[Item(w)] = "done"
         /\ WorkerTried(w) => w \in Flying(Item(w)) /\ w \notin Waiting(Item(w))
         /\ ~WorkerTried(w) => /\ w \in Waiting(Item(w))
                               /\ \A x \in Messages : w \notin Flying(x)
         /\ WorkerTried(w) /\ ~broken[w] => w \in Able(Item(w))
         /\ \A x \in Messages : x # Item(w) =>
              /\ w \notin Flying(x)
              /\ w \in Waiting(x) <=> Has(batch[w], x)
<1>1. batch[w] \in Seq(Messages) /\ batch[w] # <<>> /\ Distinct(batch[w])
  BY DEF IInv, Safe, TypeOK, BatchOK
<1>2. Item(w) \in Messages /\ Has(batch[w], Item(w))
  BY <1>1, TailFacts DEF Item
<1>3. row[Item(w)] \in {"failed"} \cup Settled
  BY <1>2 DEF IInv, Safe, BatchOK
<1>4. sender[Item(w)] = "done"
  BY <1>2, <1>3 DEF IInv, Safe, RowOK, TypeOK, SenderAt, Settled
<1>5. QED
  BY <1>1, <1>2, <1>3, <1>4 DEF Flying, Able, Waiting

(***************************************************************************)
(* A recorded outcome: the row's counter takes over from the worker that   *)
(* tried, and a row that settles has had every other holder counted.       *)
(***************************************************************************)
LEMMA Marked ==
  ASSUME NEW m \in Messages, NEW w \in Able(m), TypeOK, TypeOK',
         RowOK(m), Upper(m), Lower(m), row[m] = "failed", sender[m] = "done",
         \/ row'[m] = "sent" /\ attempts'[m] = attempts[m] /\ m \in reached'
         \/ /\ attempts'[m] = attempts[m] + 1
            /\ row'[m] = IF attempts[m] + 1 >= MaxAttempts THEN "dead_letter"
                                                           ELSE "failed",
         tries'[m] = tries[m], lost'[m] >= lost[m], sender'[m] = sender[m],
         Flying(m) \ {w} \subseteq Flying(m)', Able(m)' \subseteq Able(m) \ {w},
         Waiting(m)' \cap Flying(m) = {}
  PROVE  RowOK(m)' /\ Upper(m)' /\ Lower(m)'
<1> DEFINE F == Cardinality(Flying(m))
           A == Cardinality(Able(m))
           FF == Cardinality(Flying(m)')
           AA == Cardinality(Able(m)')
           WW == Cardinality(Waiting(m)')
           N == Cardinality(Workers)
<1>1. /\ w \in Workers /\ Flying(m) \in SUBSET Workers /\ Able(m) \in SUBSET Workers
      /\ Flying(m)' \in SUBSET Workers /\ Able(m)' \in SUBSET Workers
      /\ Waiting(m)' \in SUBSET Workers
  BY DEF Flying, Able, Waiting
<1>2. F \in Nat /\ A \in Nat /\ FF \in Nat /\ AA \in Nat /\ WW \in Nat
  BY <1>1, Counting
<1>3. N \in Nat \ {0}
  BY PartsAreWorkers
<1>4. F <= FF + 1
  <2>1. Flying(m) \subseteq Flying(m)' \cup {w}
    OBVIOUS
  <2>2. QED
    BY <1>1, <2>1, Counting
<1>5. AA <= A - 1
  BY <1>1, Counting
<1>6. WW + F <= N
  BY <1>1, Counting
<1>7. /\ attempts[m] \in Nat /\ tries[m] \in Nat /\ lost[m] \in Nat
      /\ lost'[m] \in Nat /\ attempts[m] < MaxAttempts /\ MaxAttempts \in Nat
  BY MaxAttemptsAssumption DEF TypeOK, RowOK
<1>8. tries[m] <= attempts[m] + lost[m] + F /\ attempts[m] + A <= tries[m]
  BY <1>2, <1>7 DEF Upper, Lower, IsOpen, SenderCount, SenderTried
<1> HIDE DEF F, A, FF, AA, WW, N
<1>9. RowOK(m)'
  BY <1>7 DEF RowOK
<1>10. /\ row'[m] = "failed" => tries'[m] <= attempts'[m] + lost'[m] + FF
       /\ row'[m] \in Settled => tries'[m] + WW <= MaxAttempts - 1 + N + lost'[m]
  <2>1. tries'[m] + WW <= MaxAttempts - 1 + N + lost'[m]
    BY <1>2, <1>3, <1>6, <1>7, <1>8
  <2>2. row'[m] = "failed" => tries'[m] <= attempts'[m] + lost'[m] + FF
    BY <1>2, <1>4, <1>7, <1>8
  <2>3. QED
    BY <2>1, <2>2
<1>11. Upper(m)'
  BY <1>10 DEF Upper, Settled, FF, WW, N
<1>12. /\ row'[m] = "failed" => attempts'[m] + AA <= tries'[m]
       /\ row'[m] = "dead_letter" => MaxAttempts <= tries'[m]
  BY <1>2, <1>5, <1>7, <1>8
<1>13. Lower(m)'
  <2>1. SenderCount(m)' = 0
    BY DEF SenderCount, SenderTried
  <2>2. row'[m] # "pending"
    OBVIOUS
  <2>3. attempts'[m] \in Nat
    BY <1>7
  <2>4. QED
    BY <1>2, <1>12, <2>1, <2>2, <2>3 DEF Lower, IsOpen, AA
<1>14. QED
  BY <1>9, <1>11, <1>13

\* an outcome that leaves the row alone: the try stays in flight, or is lost
LEMMA Unmarked ==
  ASSUME NEW m \in Messages, NEW w \in Workers, TypeOK, TypeOK',
         RowOK(m), Upper(m), Lower(m),
         row'[m] = row[m], attempts'[m] = attempts[m], sender'[m] = sender[m],
         tries'[m] = tries[m], lost'[m] >= lost[m],
         m \in reached => m \in reached', m \in carded => m \in carded',
         row[m] = "failed" =>
           \/ Flying(m) \subseteq Flying(m)'
           \/ lost'[m] >= lost[m] + 1 /\ Flying(m) \ {w} \subseteq Flying(m)',
         Able(m)' \subseteq Able(m),
         row[m] \in Settled => Waiting(m)' \subseteq Waiting(m)
  PROVE  RowOK(m)' /\ Upper(m)' /\ Lower(m)'
<1> DEFINE F == Cardinality(Flying(m))
           A == Cardinality(Able(m))
           W == Cardinality(Waiting(m))
           FF == Cardinality(Flying(m)')
           AA == Cardinality(Able(m)')
           WW == Cardinality(Waiting(m)')
           N == Cardinality(Workers)
<1>1. /\ Flying(m) \in SUBSET Workers /\ Able(m) \in SUBSET Workers
      /\ Flying(m)' \in SUBSET Workers /\ Able(m)' \in SUBSET Workers
      /\ Waiting(m)' \in SUBSET Workers /\ Waiting(m) \in SUBSET Workers
  BY DEF Flying, Able, Waiting
<1>2. /\ F \in Nat /\ A \in Nat /\ FF \in Nat /\ AA \in Nat /\ WW \in Nat
      /\ W \in Nat /\ N \in Nat
  BY <1>1, Counting, PartsAreWorkers
<1>3. /\ attempts[m] \in Nat /\ tries[m] \in Nat /\ lost[m] \in Nat
      /\ lost'[m] \in Nat /\ MaxAttempts \in Nat
  BY MaxAttemptsAssumption DEF TypeOK
<1>4. AA <= A
  BY <1>1, Counting
<1>5. row[m] \in Settled => WW <= W
  BY <1>1, Counting
<1>6. row[m] = "failed" => F <= FF \/ (F <= FF + 1 /\ lost'[m] >= lost[m] + 1)
  <2>1. CASE Flying(m) \subseteq Flying(m)'
    BY <1>1, <2>1, Counting
  <2>2. CASE lost'[m] >= lost[m] + 1 /\ Flying(m) \ {w} \subseteq Flying(m)'
    <3>1. Flying(m) \subseteq Flying(m)' \cup {w}
      BY <2>2
    <3>2. QED
      BY <1>1, <2>2, <3>1, Counting
  <2>3. QED
    BY <2>1, <2>2
<1> HIDE DEF F, A, W, FF, AA, WW, N
<1>7. SenderCount(m)' = SenderCount(m) /\ SenderCount(m) \in {0, 1}
  BY DEF SenderCount, SenderTried
<1>8. RowOK(m)'
  BY DEF RowOK
<1>9. /\ row[m] \in {"none", "pending"} => tries[m] <= 1
      /\ row[m] = "failed" => tries[m] <= attempts[m] + lost[m] + F
      /\ row[m] \in Settled => tries[m] + W <= MaxAttempts - 1 + N + lost[m]
  BY DEF Upper, F, W, N
<1>10. /\ row'[m] \in {"none", "pending"} => tries'[m] <= 1
       /\ row'[m] = "failed" => tries'[m] <= attempts'[m] + lost'[m] + FF
       /\ row'[m] \in Settled => tries'[m] + WW <= MaxAttempts - 1 + N + lost'[m]
  BY <1>2, <1>3, <1>5, <1>6, <1>7, <1>9
<1>11. Upper(m)'
  BY <1>10 DEF Upper, FF, WW, N
<1>12. IsOpen(m) => attempts[m] + SenderCount(m) + A <= tries[m]
  BY DEF Lower, A
<1>13. IsOpen(m)' => attempts'[m] + SenderCount(m)' + AA <= tries'[m]
  BY <1>2, <1>3, <1>4, <1>7, <1>12 DEF IsOpen
<1>14. Lower(m)'
  BY <1>13 DEF Lower, AA
<1>15. QED
  BY <1>8, <1>11, <1>14
\* the batch that list_pending_retry returns
LEMMA ListFacts ==
  ASSUME IInv, due # <<>>
  PROVE  /\ ListPendingRetry \in Seq(Messages) /\ ListPendingRetry # <<>>
         /\ Distinct(ListPendingRetry)
         /\ \A m \in Messages : Has(ListPendingRetry, m) => row[m] = "failed"
<1> DEFINE k == IF Len(due) < BatchSize THEN Len(due) ELSE BatchSize
           b == SubSeq(due, 1, k)
<1>1. due \in Seq(Messages) /\ Distinct(due) /\ Len(due) \in Nat \ {0}
  BY LenProperties, EmptySeq DEF IInv, Safe, TypeOK, DueOK
<1>2. k \in 1..Len(due)
  BY <1>1, BatchSizeAssumption
<1>3. ListPendingRetry = b
  BY DEF ListPendingRetry
<1> HIDE DEF k
<1>4. b \in Seq(Messages) /\ Len(b) = k /\ \A i \in 1..k : b[i] = due[i]
  BY <1>1, <1>2, SubSeqProperties
<1> HIDE DEF b
<1>5. b # <<>>
  BY <1>2, <1>4, EmptySeq
<1>6. Distinct(b)
  BY <1>1, <1>2, <1>4 DEF Distinct
<1>7. \A m \in Messages : Has(b, m) => Has(due, m)
  BY <1>1, <1>2, <1>4 DEF Has
<1>8. QED
  BY <1>3, <1>4, <1>5, <1>6, <1>7 DEF IInv, Safe, DueOK

\* a worker lists rows that are due
LEMMA PollSafe ==
  ASSUME IInv, NEW w \in Workers, Poll(w)
  PROVE  IInv'
<1>1. /\ pc[w] = "idle" /\ due # <<>> /\ TypeOK /\ BatchOK(w)
      /\ batch' = [batch EXCEPT ![w] = ListPendingRetry]
      /\ broken' = [broken EXCEPT ![w] = FALSE]
      /\ pc' = [pc EXCEPT ![w] = "look"]
      /\ UNCHANGED <<rowVars, sender, tries, lost, reached, carded, faults>>
  BY DEF Poll, IInv, Safe
<1>2. /\ pc'[w] = "look" /\ batch'[w] = ListPendingRetry /\ OnlyWorker(w)
  BY <1>1 DEF TypeOK, OnlyWorker
<1>3. TypeOK'
  BY <1>1, ListFacts DEF TypeOK, WorkerAt, rowVars
<1>4. ASSUME NEW v \in Workers PROVE BatchOK(v)'
  <2>1. CASE v = w
    BY <1>1, <1>2, <2>1, ListFacts DEF BatchOK, rowVars
  <2>2. CASE v # w
    BY <1>1, <1>2, <2>2 DEF IInv, Safe, BatchOK, OnlyWorker, rowVars, Item
  <2>3. QED
    BY <2>1, <2>2
<1>5. DueOK'
  BY <1>1 DEF IInv, Safe, DueOK, rowVars
<1>6. ASSUME NEW x \in Messages PROVE RowOK(x)' /\ Upper(x)' /\ Lower(x)'
  <2>1. w \notin Flying(x) /\ w \notin Flying(x)' /\ w \notin Able(x)'
    BY <1>1, <1>2 DEF Flying, Able, WorkerTried
  <2>2. w \in Waiting(x)' => row[x] = "failed"
    BY <1>1, <1>2, ListFacts DEF Waiting
  <2>3. Flying(x) \subseteq Flying(x)' /\ Able(x)' \subseteq Able(x)
    BY <1>2, <2>1, OthersStay
  <2>4. row[x] \in Settled => Waiting(x)' \subseteq Waiting(x)
    BY <1>2, <2>2, OthersStay DEF Settled
  <2>5. lost[x] \in Nat
    BY <1>1 DEF TypeOK
  <2>6. QED
    BY <1>1, <1>3, <2>3, <2>4, <2>5, Unmarked DEF IInv, Safe, rowVars
<1>7. QED
  BY <1>3, <1>4, <1>5, <1>6 DEF IInv, Safe

\* a worker tries its current item, whatever became of the row since
LEMMA RetrySafe ==
  ASSUME IInv, NEW w \in Workers, NEW m \in Messages, m = Item(w), Retry(w)
  PROVE  IInv'
<1>1. PICK got \in BOOLEAN, outcome \in {"sent", "unconnected", "raised"} :
        /\ outcome = "sent" => got
        /\ reached' = IF got THEN reached \cup {m} ELSE reached
        /\ pc' = [pc EXCEPT ![w] = outcome]
  BY DEF Retry
<1>2. /\ pc[w] = "look" /\ TypeOK /\ BatchOK(w)
      /\ tries' = [tries EXCEPT ![m] = @ + 1]
      /\ UNCHANGED <<rowVars, batch, broken, sender, lost, carded, faults>>
  BY DEF Retry, IInv, Safe
<1>3. /\ row[m] \in {"failed"} \cup Settled /\ sender[m] = "done"
      /\ w \in Waiting(m) /\ \A x \in Messages : w \notin Flying(x)
      /\ batch[w] # <<>> /\ Item(w)' = m
      /\ \A x \in Messages : x # m => (w \in Waiting(x) <=> Has(batch[w], x))
  BY <1>2, HoldsItem DEF WorkerTried, Item
<1>4. pc'[w] = outcome /\ OnlyWorker(w)
  BY <1>1, <1>2 DEF TypeOK, OnlyWorker
<1>5. TypeOK'
  <2>1. tries \in [Messages -> Nat]
    BY <1>2 DEF TypeOK
  <2>2. tries' \in [Messages -> Nat]
    BY <1>2, <1>3, <2>1
  <2>3. reached' \subseteq Messages /\ pc' \in [Workers -> WorkerAt]
    BY <1>1, <1>2, <1>3 DEF TypeOK, WorkerAt
  <2>4. QED
    BY <1>2, <2>2, <2>3 DEF TypeOK, rowVars
<1>6. ASSUME NEW v \in Workers PROVE BatchOK(v)'
  <2>1. BatchOK(v) /\ Item(v)' = Item(v) /\ reached \subseteq reached'
    BY <1>1, <1>2 DEF IInv, Safe, Item
  <2>2. CASE v = w
    BY <1>1, <1>2, <1>3, <1>4, <2>1, <2>2 DEF BatchOK, rowVars
  <2>3. CASE v # w
    BY <1>2, <1>4, <2>1, <2>3 DEF BatchOK, rowVars, OnlyWorker
  <2>4. QED
    BY <2>2, <2>3
<1>7. DueOK'
  BY <1>2 DEF IInv, Safe, DueOK, rowVars
<1>8. ASSUME NEW x \in Messages PROVE RowOK(x)' /\ Upper(x)' /\ Lower(x)'
  <2>1. CASE x # m
    <3>1. w \notin Flying(x)' /\ w \notin Able(x)' /\ w \notin Able(x)
      BY <1>2, <1>3, <2>1 DEF Flying, Able
    <3>2. w \in Waiting(x)' <=> w \in Waiting(x)
      <4>1. w \in Waiting(x)' <=> Has(batch[w], x)'
        BY <3>1 DEF Waiting
      <4>2. Has(batch[w], x)' <=> Has(batch[w], x)
        BY <1>2 DEF Has
      <4>3. QED
        BY <1>3, <2>1, <4>1, <4>2
    <3>3. /\ Flying(x)' = Flying(x) /\ Able(x)' = Able(x)
          /\ Waiting(x)' = Waiting(x)
      BY <1>3, <1>4, <3>1, <3>2, HoldersStay
    <3>4. tries'[x] = tries[x]
      BY <1>2, <2>1 DEF TypeOK
    <3>5. QED
      BY <1>1, <1>2, <3>3, <3>4, AnswerStays DEF IInv, Safe, rowVars
  <2>2. CASE x = m
    <3>1. w \in Flying(m)' /\ w \notin Waiting(m)'
      BY <1>1, <1>3, <1>4 DEF Flying, Waiting, WorkerTried
    <3>2. /\ Flying(m) \subseteq Flying(m)' \ {w}
          /\ Able(m)' \subseteq Able(m) \cup {w}
          /\ Waiting(m)' \subseteq Waiting(m) \ {w}
      BY <1>3, <1>4, <3>1, OthersStay
    <3>3. /\ Flying(m) \in SUBSET Workers /\ Flying(m)' \in SUBSET Workers
          /\ Able(m) \in SUBSET Workers /\ Able(m)' \in SUBSET Workers
          /\ Waiting(m) \in SUBSET Workers /\ Waiting(m)' \in SUBSET Workers
      BY DEF Flying, Able, Waiting
    <3> DEFINE F == Cardinality(Flying(m))
               A == Cardinality(Able(m))
               W == Cardinality(Waiting(m))
               FF == Cardinality(Flying(m)')
               AA == Cardinality(Able(m)')
               WW == Cardinality(Waiting(m)')
               N == Cardinality(Workers)
    <3>4. /\ F \in Nat /\ A \in Nat /\ W \in Nat
          /\ FF \in Nat /\ AA \in Nat /\ WW \in Nat
      BY <3>3, Counting
    <3>5. N \in Nat
      BY <1>3, PartsAreWorkers
    <3>6. F <= FF - 1 /\ AA <= A + 1 /\ WW <= W - 1
      BY <1>3, <3>1, <3>2, <3>3, Counting
    <3>7. /\ tries[m] \in Nat /\ tries'[m] = tries[m] + 1 /\ lost[m] \in Nat
          /\ attempts[m] \in Nat /\ MaxAttempts \in Nat
      BY <1>2, <1>3, MaxAttemptsAssumption DEF TypeOK
    <3>8. /\ row'[m] = row[m] /\ attempts'[m] = attempts[m]
          /\ sender'[m] = "done" /\ lost'[m] = lost[m] /\ reached \subseteq reached'
          /\ carded' = carded
      BY <1>1, <1>2, <1>3 DEF rowVars
    <3>9. /\ row[m] = "failed" => tries[m] <= attempts[m] + lost[m] + F
          /\ row[m] \in Settled => tries[m] + W <= MaxAttempts - 1 + N + lost[m]
          /\ row[m] = "failed" => attempts[m] + A <= tries[m]
          /\ row[m] = "dead_letter" => MaxAttempts <= tries[m]
      BY <1>3, <3>4, <3>7
      DEF IInv, Safe, Upper, Lower, IsOpen, SenderCount, SenderTried
    <3> HIDE DEF F, A, W, FF, AA, WW, N
    <3>10. /\ row[m] = "failed" => tries'[m] <= attempts[m] + lost[m] + FF
           /\ row[m] \in Settled => tries'[m] + WW <= MaxAttempts - 1 + N + lost[m]
           /\ row[m] = "failed" => attempts[m] + AA <= tries'[m]
           /\ row[m] = "dead_letter" => MaxAttempts <= tries'[m]
      BY <3>4, <3>5, <3>6, <3>7, <3>9
    <3>11. RowOK(m)'
      BY <1>3, <3>8 DEF IInv, Safe, RowOK, Settled
    <3>12. Upper(m)'
      BY <1>3, <3>8, <3>10 DEF Upper, FF, WW, N, Settled
    <3>13. Lower(m)'
      <4>1. SenderCount(m)' = 0 /\ row'[m] # "pending"
        BY <1>3, <3>8 DEF SenderCount, SenderTried, Settled
      <4>2. QED
        BY <3>4, <3>7, <3>8, <3>10, <4>1 DEF Lower, IsOpen, AA
    <3>14. QED
      BY <2>2, <3>11, <3>12, <3>13
  <2>3. QED
    BY <2>1, <2>2
<1>9. QED
  BY <1>5, <1>6, <1>7, <1>8 DEF IInv, Safe
\* after NextItem worker w holds the rest of its batch and not m
LEMMA NextItemFacts ==
  ASSUME IInv, NEW w \in Workers, NEW m \in Messages, m = Item(w),
         WorkerTried(w), NextItem(w), OnlyWorker(w)
  PROVE  /\ pc' \in [Workers -> WorkerAt] /\ batch' \in [Workers -> Seq(Messages)]
         /\ pc'[w] \in {"idle", "look"} /\ batch'[w] = Tail(batch[w])
         /\ pc'[w] = "idle" <=> batch'[w] = <<>>
         /\ Distinct(batch'[w])
         /\ \A x : Has(batch'[w], x) => Has(batch[w], x)
         /\ Flying(m)' = Flying(m) \ {w} /\ Able(m)' \subseteq Able(m) \ {w}
         /\ Waiting(m)' = Waiting(m)
         /\ \A x \in Messages : x # m =>
              /\ Flying(x)' = Flying(x) /\ Able(x)' = Able(x)
              /\ Waiting(x)' = Waiting(x)
<1>1. TypeOK /\ pc[w] # "idle"
  BY DEF IInv, WorkerTried
<1>2. /\ batch[w] \in Seq(Messages) /\ batch[w] # <<>> /\ Distinct(batch[w])
      /\ w \in Flying(m) /\ w \notin Waiting(m)
      /\ \A x \in Messages : x # m => /\ w \notin Flying(x)
                                      /\ w \in Waiting(x) <=> Has(batch[w], x)
  BY <1>1, HoldsItem
<1>3. /\ Tail(batch[w]) \in Seq(Messages) /\ Distinct(Tail(batch[w]))
      /\ Tail(batch[w]) = <<>> <=> ~(Len(batch[w]) > 1)
      /\ \A x : Has(Tail(batch[w]), x) <=> Has(batch[w], x) /\ x # m
  BY <1>2, TailFacts DEF Item
<1>4. /\ pc' = [pc EXCEPT ![w] = IF Len(batch[w]) > 1 THEN "look" ELSE "idle"]
      /\ batch' = [batch EXCEPT ![w] = Tail(batch[w])]
  BY DEF NextItem
<1>5. /\ pc' \in [Workers -> WorkerAt] /\ batch' \in [Workers -> Seq(Messages)]
      /\ pc'[w] = IF Len(batch[w]) > 1 THEN "look" ELSE "idle"
      /\ batch'[w] = Tail(batch[w])
  BY <1>1, <1>3, <1>4 DEF TypeOK, WorkerAt
<1>6. /\ pc'[w] \in {"idle", "look"} /\ pc'[w] = "idle" <=> batch'[w] = <<>>
      /\ Distinct(batch'[w]) /\ \A x : Has(batch'[w], x) => Has(batch[w], x)
  BY <1>3, <1>5
<1>7. ASSUME NEW x \in Messages PROVE w \notin Flying(x)' /\ w \notin Able(x)'
  <2>1. pc'[w] # "sent" /\ pc'[w] # "unconnected" /\ pc'[w] # "raised"
    BY <1>5
  <2>2. QED
    BY <2>1 DEF Flying, Able, WorkerTried
<1>8. ASSUME NEW x \in Messages PROVE w \in Waiting(x)' <=> Has(batch[w], x) /\ x # m
  <2>1. w \in Waiting(x)' <=> Has(batch'[w], x)
    BY <1>7 DEF Waiting
  <2>2. QED
    BY <1>3, <1>5, <2>1
<1>9. Flying(m)' = Flying(m) \ {w}
  BY <1>7, OthersStay
<1>10. Able(m)' \subseteq Able(m) \ {w}
  BY <1>7, OthersStay
<1>11. Waiting(m)' = Waiting(m)
  <2>1. w \notin Waiting(m)' /\ w \notin Waiting(m)
    BY <1>2, <1>8
  <2>2. Waiting(m)' \ {w} = Waiting(m) \ {w}
    BY OthersStay
  <2>3. QED
    BY <2>1, <2>2
<1>12. ASSUME NEW x \in Messages, x # m
       PROVE  /\ Flying(x)' = Flying(x) /\ Able(x)' = Able(x)
              /\ Waiting(x)' = Waiting(x)
  <2>1. w \notin Able(x) /\ w \notin Flying(x)
    BY <1>2, <1>12 DEF Able
  <2>2. w \in Waiting(x)' <=> w \in Waiting(x)
    BY <1>2, <1>8, <1>12
  <2>3. QED
    BY <1>7, <2>1, <2>2, HoldersStay
<1>13. QED
  BY <1>5, <1>6, <1>9, <1>10, <1>11, <1>12

\* what recording an outcome does to the table, from a worker's point of view
LEMMA WorkerMarkFacts ==
  ASSUME IInv, NEW w \in Workers, NEW m \in Messages, m = Item(w), WorkerTried(w),
         IF pc[w] = "sent" THEN MarkSent(m) ELSE MarkFailed(m)
  PROVE  /\ row' \in [Messages -> Status]
         /\ attempts' \in [Messages -> 0..MaxAttempts]
         /\ due' \in Seq(Messages) /\ DueOK'
         /\ \A x \in Messages : x # m => row'[x] = row[x] /\ attempts'[x] = attempts[x]
         /\ row'[m] \in {"failed"} \cup Settled
         /\ row[m] # "failed" => row'[m] = row[m] /\ attempts'[m] = attempts[m]
         /\ row[m] = "failed" =>
              \/ row'[m] = "sent" /\ attempts'[m] = attempts[m] /\ m \in reached
              \/ /\ attempts'[m] = attempts[m] + 1
                 /\ row'[m] = IF attempts[m] + 1 >= MaxAttempts THEN "dead_letter"
                                                                ELSE "failed"
<1>1. /\ TypeOK /\ DueOK /\ RowOK(m) /\ pc[w] # "idle"
      /\ pc[w] = "sent" => m \in reached
  BY DEF IInv, Safe, BatchOK, WorkerTried
<1>2. row[m] \in {"failed"} \cup Settled /\ (IsOpen(m) <=> row[m] = "failed")
  BY <1>1, HoldsItem DEF IsOpen, Settled
<1>3. MarkSent(m) \/ MarkFailed(m)
  OBVIOUS
<1>4. CASE pc[w] = "sent"
  BY <1>1, <1>2, <1>3, <1>4, MarkFacts DEF Settled
<1>5. CASE pc[w] # "sent" /\ ~(IsOpen(m) /\ MarkSent(m))
  BY <1>1, <1>2, <1>3, <1>5, MarkFacts DEF Settled
<1>6. CASE pc[w] # "sent" /\ IsOpen(m) /\ MarkSent(m)
  <2>1. row'[m] = "sent" /\ row'[m] \in {"dead_letter", "failed"}
    BY <1>1, <1>6 DEF MarkSent, MarkFailed, TypeOK
  <2>2. QED
    BY <2>1
<1>7. QED
  BY <1>4, <1>5, <1>6

\* a worker records its outcome
LEMMA WorkerMarksSafe ==
  ASSUME IInv, NEW w \in Workers, NEW m \in Messages, m = Item(w), WorkerMarks(w)
  PROVE  IInv'
<1>1. /\ TypeOK /\ WorkerTried(w) /\ ~broken[w] /\ NextItem(w) /\ pc[w] # "idle"
      /\ IF pc[w] = "sent" THEN MarkSent(m) ELSE MarkFailed(m)
      /\ UNCHANGED <<broken, sender, tries, lost, reached, carded, faults>>
  BY DEF WorkerMarks, IInv, WorkerTried
<1>2. OnlyWorker(w)
  BY <1>1 DEF NextItem, OnlyWorker, TypeOK
<1>3. /\ row' \in [Messages -> Status]
      /\ attempts' \in [Messages -> 0..MaxAttempts]
      /\ due' \in Seq(Messages) /\ DueOK'
      /\ \A x \in Messages : x # m => row'[x] = row[x] /\ attempts'[x] = attempts[x]
      /\ row'[m] \in {"failed"} \cup Settled
  BY <1>1, WorkerMarkFacts
<1>4. TypeOK'
  BY <1>1, <1>2, <1>3, NextItemFacts DEF TypeOK
<1>5. ASSUME NEW v \in Workers PROVE BatchOK(v)'
  <2>1. CASE v = w
    <3>1. BatchOK(w)
      BY DEF IInv, Safe
    <3>2. QED
      BY <1>1, <1>2, <1>3, <2>1, <3>1, NextItemFacts DEF BatchOK
  <2>2. CASE v # w
    BY <1>1, <1>2, <1>3, <2>2 DEF IInv, Safe, BatchOK, OnlyWorker, Item
  <2>3. QED
    BY <2>1, <2>2
<1>6. ASSUME NEW x \in Messages PROVE RowOK(x)' /\ Upper(x)' /\ Lower(x)'
  <2>1. CASE x # m
    BY <1>1, <1>2, <1>3, <2>1, NextItemFacts, AnswerStays DEF IInv, Safe
  <2>2. CASE x = m /\ row[m] = "failed"
    <3>1. w \in Able(m) /\ sender[m] = "done" /\ Flying(m) \cap Waiting(m) = {}
      BY <1>1, HoldsItem, PartsAreWorkers
    <3>2. /\ Flying(m) \ {w} \subseteq Flying(m)' /\ Able(m)' \subseteq Able(m) \ {w}
          /\ Waiting(m)' \cap Flying(m) = {}
      BY <1>1, <1>2, <3>1, NextItemFacts
    <3>3. \/ row'[m] = "sent" /\ attempts'[m] = attempts[m] /\ m \in reached'
          \/ /\ attempts'[m] = attempts[m] + 1
             /\ row'[m] = IF attempts[m] + 1 >= MaxAttempts THEN "dead_letter"
                                                            ELSE "failed"
      BY <1>1, <2>2, WorkerMarkFacts
    <3>4. tries'[m] = tries[m] /\ lost'[m] >= lost[m] /\ sender'[m] = sender[m]
      BY <1>1 DEF TypeOK
    <3>5. RowOK(m) /\ Upper(m) /\ Lower(m)
      BY DEF IInv, Safe
    <3>6. QED
      BY <1>1, <1>4, <2>2, <3>1, <3>2, <3>3, <3>4, <3>5, Marked
  <2>3. CASE x = m /\ row[m] # "failed"
    <3>1. row'[m] = row[m] /\ attempts'[m] = attempts[m]
      BY <1>1, <2>3, WorkerMarkFacts
    <3>2. Able(m)' \subseteq Able(m) /\ Waiting(m)' \subseteq Waiting(m)
      BY <1>1, <1>2, NextItemFacts
    <3>3. tries'[m] = tries[m] /\ lost'[m] >= lost[m] /\ sender'[m] = sender[m]
      BY <1>1 DEF TypeOK
    <3>4. QED
      BY <1>1, <1>4, <2>3, <3>1, <3>2, <3>3, Unmarked DEF IInv, Safe
  <2>4. QED
    BY <2>1, <2>2, <2>3
<1>7. QED
  BY <1>3, <1>4, <1>5, <1>6 DEF IInv, Safe

\* a statement raises: the row is as it was, or was written all the same
LEMMA RaisesFacts ==
  ASSUME IInv, NEW w \in Workers, NEW m \in Messages, m = Item(w), WorkerTried(w),
         DatabaseRaises(w)
  PROVE  /\ faults' \in Nat /\ broken' \in [Workers -> BOOLEAN]
         /\ \A v \in Workers : v # w => broken'[v] = broken[v]
         /\ broken[w] => broken'[w]
         /\ \/ UNCHANGED rowVars
            \/ /\ IF pc[w] = "sent" THEN MarkSent(m) ELSE MarkFailed(m)
               /\ ~broken[w] /\ broken'[w]
<1>1. TypeOK
  BY DEF IInv
<1>2. CASE broken[w] /\ UNCHANGED <<rowVars, broken, faults>>
  BY <1>1, <1>2 DEF TypeOK
<1>3. CASE /\ ~broken[w] /\ FaultHappens("db")
           /\ UNCHANGED <<rowVars, broken>>
  BY <1>1, <1>3 DEF TypeOK, FaultHappens
<1>4. CASE /\ ~broken[w] /\ FaultHappens("db")
           /\ broken' = [broken EXCEPT ![w] = TRUE]
           /\ \/ UNCHANGED rowVars
              \/ IF pc[w] = "sent" THEN MarkSent(Item(w)) ELSE MarkFailed(Item(w))
  BY <1>1, <1>4 DEF TypeOK, FaultHappens
<1>5. QED
  BY <1>2, <1>3, <1>4 DEF DatabaseRaises
\* recording raises, and the handler is about to record a failure instead
LEMMA MarkRaisesSafe ==
  ASSUME IInv, NEW w \in Workers, NEW m \in Messages, m = Item(w), MarkRaises(w)
  PROVE  IInv'
<1>1. /\ TypeOK /\ DueOK /\ WorkerTried(w) /\ pc[w] # "idle" /\ DatabaseRaises(w)
      /\ pc' = [pc EXCEPT ![w] = "raised"]
      /\ UNCHANGED <<batch, sender, tries, lost, reached, carded>>
  BY DEF MarkRaises, IInv, Safe, WorkerTried
<1>2. /\ faults' \in Nat /\ broken' \in [Workers -> BOOLEAN]
      /\ broken[w] => broken'[w]
      /\ \/ UNCHANGED rowVars
         \/ /\ IF pc[w] = "sent" THEN MarkSent(m) ELSE MarkFailed(m)
            /\ ~broken[w] /\ broken'[w]
  BY <1>1, RaisesFacts
<1>3. pc'[w] = "raised" /\ pc' \in [Workers -> WorkerAt] /\ OnlyWorker(w)
  BY <1>1, RaisesFacts DEF TypeOK, OnlyWorker, WorkerAt
<1>4. /\ row' \in [Messages -> Status]
      /\ attempts' \in [Messages -> 0..MaxAttempts]
      /\ due' \in Seq(Messages) /\ DueOK'
      /\ \A x \in Messages : x # m => row'[x] = row[x] /\ attempts'[x] = attempts[x]
      /\ row'[m] \in {"failed"} \cup Settled
  <2>1. CASE UNCHANGED rowVars
    BY <1>1, <2>1, HoldsItem DEF TypeOK, rowVars, DueOK
  <2>2. CASE IF pc[w] = "sent" THEN MarkSent(m) ELSE MarkFailed(m)
    BY <1>1, <2>2, WorkerMarkFacts
  <2>3. QED
    BY <1>2, <2>1, <2>2
<1>5. TypeOK'
  BY <1>1, <1>2, <1>3, <1>4 DEF TypeOK
<1>6. ASSUME NEW v \in Workers PROVE BatchOK(v)'
  BY <1>1, <1>3, <1>4 DEF IInv, Safe, BatchOK, OnlyWorker, Item
<1>7. ASSUME NEW x \in Messages
      PROVE  /\ w \in Flying(x)' <=> w \in Flying(x)
             /\ w \in Waiting(x)' <=> w \in Waiting(x)
             /\ w \in Able(x)' => w \in Able(x)
  BY <1>1, <1>2, <1>3 DEF Flying, Waiting, Able, WorkerTried, Item
<1>8. ASSUME NEW x \in Messages
      PROVE  /\ Flying(x)' = Flying(x) /\ Waiting(x)' = Waiting(x)
             /\ Able(x)' \subseteq Able(x)
  <2>1. Flying(x)' = Flying(x)
    <3>1. Flying(x)' \ {w} = Flying(x) \ {w}
      BY <1>3, OthersStay
    <3>2. w \in Flying(x)' <=> w \in Flying(x)
      BY <1>7
    <3>3. QED
      BY <3>1, <3>2
  <2>2. Waiting(x)' = Waiting(x)
    BY <1>3, <1>7, OthersStay
  <2>3. Able(x)' \subseteq Able(x)
    BY <1>3, <1>7, OthersStay
  <2>4. QED
    BY <2>1, <2>2, <2>3
<1>9. ASSUME NEW x \in Messages PROVE RowOK(x)' /\ Upper(x)' /\ Lower(x)'
  <2>1. RowOK(x) /\ Upper(x) /\ Lower(x)
    BY DEF IInv, Safe
  <2>2. /\ tries'[x] = tries[x] /\ lost'[x] >= lost[x] /\ sender'[x] = sender[x]
        /\ reached' = reached
    <3>1. lost[x] \in Nat
      BY <1>1 DEF TypeOK
    <3>2. QED
      BY <1>1, <3>1
  <2>3. CASE row'[x] = row[x] /\ attempts'[x] = attempts[x]
    BY <1>1, <1>5, <1>8, <2>1, <2>2, <2>3, Unmarked
  <2>4. CASE ~(row'[x] = row[x] /\ attempts'[x] = attempts[x])
    <3>1. /\ x = m /\ ~broken[w] /\ broken'[w]
          /\ IF pc[w] = "sent" THEN MarkSent(m) ELSE MarkFailed(m)
      BY <1>2, <1>4, <2>4 DEF rowVars
    <3>2. row[m] = "failed"
      BY <1>1, <2>4, <3>1, WorkerMarkFacts
    <3>3. \/ row'[m] = "sent" /\ attempts'[m] = attempts[m] /\ m \in reached'
          \/ /\ attempts'[m] = attempts[m] + 1
             /\ row'[m] = IF attempts[m] + 1 >= MaxAttempts THEN "dead_letter"
                                                            ELSE "failed"
      BY <1>1, <3>1, <3>2, WorkerMarkFacts
    <3>4. w \in Able(m) /\ sender[m] = "done" /\ Flying(m) \cap Waiting(m) = {}
      BY <1>1, <3>1, HoldsItem, PartsAreWorkers
    <3>5. w \notin Able(m)'
      BY <3>1 DEF Able
    <3>6. /\ Flying(m) \ {w} \subseteq Flying(m)' /\ Able(m)' \subseteq Able(m) \ {w}
          /\ Waiting(m)' \cap Flying(m) = {}
      BY <1>8, <3>4, <3>5
    <3>7. QED
      BY <1>1, <1>5, <2>1, <2>2, <3>1, <3>2, <3>3, <3>4, <3>6, Marked
  <2>5. QED
    BY <2>3, <2>4
<1>10. QED
  BY <1>4, <1>5, <1>6, <1>9 DEF IInv, Safe

\* the handler raises as well: this try's outcome is never recorded
LEMMA HandlerRaisesSafe ==
  ASSUME IInv, NEW w \in Workers, NEW m \in Messages, m = Item(w), HandlerRaises(w)
  PROVE  IInv'
<1>1. /\ TypeOK /\ DueOK /\ WorkerTried(w) /\ pc[w] # "idle" /\ DatabaseRaises(w)
      /\ NextItem(w) /\ lost' = [lost EXCEPT ![m] = @ + 1]
      /\ UNCHANGED <<sender, tries, reached, carded>>
  BY DEF HandlerRaises, IInv, Safe, WorkerTried
<1>2. /\ faults' \in Nat /\ broken' \in [Workers -> BOOLEAN]
      /\ \/ UNCHANGED rowVars
         \/ /\ IF pc[w] = "sent" THEN MarkSent(m) ELSE MarkFailed(m)
            /\ ~broken[w] /\ broken'[w]
  BY <1>1, RaisesFacts
<1>3. OnlyWorker(w)
  BY <1>1, RaisesFacts DEF TypeOK, OnlyWorker, NextItem
<1>4. /\ row' \in [Messages -> Status]
      /\ attempts' \in [Messages -> 0..MaxAttempts]
      /\ due' \in Seq(Messages) /\ DueOK'
      /\ \A x \in Messages : x # m => row'[x] = row[x] /\ attempts'[x] = attempts[x]
      /\ row'[m] \in {"failed"} \cup Settled
  <2>1. CASE UNCHANGED rowVars
    BY <1>1, <2>1, HoldsItem DEF TypeOK, rowVars, DueOK
  <2>2. CASE IF pc[w] = "sent" THEN MarkSent(m) ELSE MarkFailed(m)
    BY <1>1, <2>2, WorkerMarkFacts
  <2>3. QED
    BY <1>2, <2>1, <2>2
<1>5. /\ lost' \in [Messages -> Nat] /\ lost[m] \in Nat /\ lost'[m] = lost[m] + 1
      /\ \A x \in Messages : x # m => lost'[x] = lost[x]
  <2>1. lost \in [Messages -> Nat]
    BY <1>1 DEF TypeOK
  <2>2. QED
    BY <1>1, <2>1
<1>6. TypeOK'
  BY <1>1, <1>2, <1>3, <1>4, <1>5, NextItemFacts DEF TypeOK
<1>7. ASSUME NEW v \in Workers PROVE BatchOK(v)'
  <2>1. CASE v = w
    <3>1. BatchOK(w)
      BY DEF IInv, Safe
    <3>2. QED
      BY <1>1, <1>3, <1>4, <2>1, <3>1, NextItemFacts DEF BatchOK
  <2>2. CASE v # w
    BY <1>1, <1>3, <1>4, <2>2 DEF IInv, Safe, BatchOK, OnlyWorker, Item
  <2>3. QED
    BY <2>1, <2>2
<1>8. ASSUME NEW x \in Messages PROVE RowOK(x)' /\ Upper(x)' /\ Lower(x)'
  <2>1. CASE x # m
    BY <1>1, <1>3, <1>4, <1>5, <2>1, NextItemFacts, AnswerStays DEF IInv, Safe
  <2>2. ASSUME x = m PROVE RowOK(m)' /\ Upper(m)' /\ Lower(m)'
    <3>1. RowOK(m) /\ Upper(m) /\ Lower(m)
      BY DEF IInv, Safe
    <3>2. /\ Flying(m) \ {w} \subseteq Flying(m)' /\ Able(m)' \subseteq Able(m) \ {w}
          /\ Waiting(m)' = Waiting(m)
      BY <1>1, <1>3, NextItemFacts
    <3>3. /\ tries'[m] = tries[m] /\ lost'[m] >= lost[m] /\ sender'[m] = sender[m]
          /\ lost'[m] >= lost[m] + 1
      BY <1>1, <1>5
    <3>4. CASE row'[m] = row[m] /\ attempts'[m] = attempts[m]
      BY <1>1, <1>6, <3>1, <3>2, <3>3, <3>4, Unmarked
    <3>5. CASE ~(row'[m] = row[m] /\ attempts'[m] = attempts[m])
      <4>1. /\ ~broken[w]
            /\ IF pc[w] = "sent" THEN MarkSent(m) ELSE MarkFailed(m)
        BY <1>2, <3>5 DEF rowVars
      <4>2. row[m] = "failed"
        BY <1>1, <3>5, <4>1, WorkerMarkFacts
      <4>3. \/ row'[m] = "sent" /\ attempts'[m] = attempts[m] /\ m \in reached'
            \/ /\ attempts'[m] = attempts[m] + 1
               /\ row'[m] = IF attempts[m] + 1 >= MaxAttempts THEN "dead_letter"
                                                              ELSE "failed"
        BY <1>1, <4>1, <4>2, WorkerMarkFacts
      <4>4. w \in Able(m) /\ sender[m] = "done" /\ Waiting(m)' \cap Flying(m) = {}
        BY <1>1, <3>2, <4>1, HoldsItem, PartsAreWorkers
      <4>5. QED
        BY <1>1, <1>6, <3>1, <3>2, <3>3, <4>2, <4>3, <4>4, Marked
    <3>6. QED
      BY <3>4, <3>5
  <2>3. QED
    BY <2>1, <2>2
<1>9. QED
  BY <1>4, <1>6, <1>7, <1>8 DEF IInv, Safe

\* the worker dies with its batch
LEMMA WorkerDiesSafe ==
  ASSUME IInv, NEW w \in Workers, NEW m \in Messages, m = Item(w), WorkerDies(w)
  PROVE  IInv'
<1>1. /\ TypeOK /\ DueOK /\ pc[w] # "idle"
      /\ lost' = [lost EXCEPT ![m] = IF WorkerTried(w) THEN @ + 1 ELSE @]
      /\ pc' = [pc EXCEPT ![w] = "idle"]
      /\ batch' = [batch EXCEPT ![w] = <<>>]
      /\ faults' = faults + 1
      /\ UNCHANGED <<rowVars, broken, sender, tries, reached, carded>>
  BY DEF WorkerDies, FaultHappens, IInv, Safe
<1>2. pc'[w] = "idle" /\ batch'[w] = <<>> /\ OnlyWorker(w)
  BY <1>1 DEF TypeOK, OnlyWorker
<1>3. /\ lost' \in [Messages -> Nat]
      /\ \A x \in Messages : lost'[x] >= lost[x] /\ (x # m => lost'[x] = lost[x])
      /\ WorkerTried(w) => lost'[m] >= lost[m] + 1
  <2>1. lost \in [Messages -> Nat]
    BY <1>1 DEF TypeOK
  <2>2. QED
    BY <1>1, <2>1
<1>4. TypeOK'
  <2>1. faults' \in Nat /\ pc' \in [Workers -> WorkerAt]
                        /\ batch' \in [Workers -> Seq(Messages)]
    BY <1>1, EmptySeq DEF TypeOK, WorkerAt
  <2>2. QED
    BY <1>1, <1>3, <2>1 DEF TypeOK, rowVars
<1>5. Len(<<>>) = 0
  OBVIOUS
<1>6. ASSUME NEW v \in Workers PROVE BatchOK(v)'
  <2>1. CASE v = w
    BY <1>1, <1>2, <1>5, <2>1 DEF BatchOK, Distinct, Has
  <2>2. CASE v # w
    BY <1>1, <1>2, <2>2 DEF IInv, Safe, BatchOK, OnlyWorker, rowVars, Item
  <2>3. QED
    BY <2>1, <2>2
<1>7. DueOK'
  BY <1>1 DEF DueOK, rowVars
<1>8. ASSUME NEW x \in Messages PROVE RowOK(x)' /\ Upper(x)' /\ Lower(x)'
  <2>1. w \notin Flying(x)' /\ w \notin Able(x)' /\ w \notin Waiting(x)'
    BY <1>2, <1>5 DEF Flying, Able, Waiting, WorkerTried, Has
  <2>2. Flying(x) \ {w} \subseteq Flying(x)'
    BY <1>2, OthersStay
  <2>3. Able(x)' \subseteq Able(x)
    BY <1>2, <2>1, OthersStay
  <2>4. Waiting(x)' \subseteq Waiting(x)
    BY <1>2, <2>1, OthersStay
  <2>5. \/ Flying(x) \subseteq Flying(x)'
        \/ lost'[x] >= lost[x] + 1
    <3>1. CASE w \in Flying(x)
      <4>1. x = m /\ WorkerTried(w)
        BY <3>1 DEF Flying
      <4>2. QED
        BY <1>3, <4>1
    <3>2. CASE w \notin Flying(x)
      BY <2>2, <3>2
    <3>3. QED
      BY <3>1, <3>2
  <2>6. QED
    BY <1>1, <1>3, <1>4, <2>2, <2>3, <2>4, <2>5, Unmarked DEF IInv, Safe, rowVars
<1>9. QED
  BY <1>4, <1>6, <1>7, <1>8 DEF IInv, Safe
-----------------------------------------------------------------------------
(***************************************************************************)
(* The theorems.                                                           *)
(***************************************************************************)

\* IInv is inductive
LEMMA NextSafe == IInv /\ [Next]_vars => IInv'
<1> SUFFICES ASSUME IInv, [Next]_vars PROVE IInv'
  OBVIOUS
<1>1. CASE UNCHANGED vars
  <2>1. UNCHANGED <<row, attempts, due, sender, pc, batch, broken, tries, lost,
                    reached, carded, faults>>
    BY <1>1 DEF vars
  <2>2. TypeOK' /\ DueOK'
    BY <2>1 DEF IInv, Safe, TypeOK, DueOK
  <2>3. ASSUME NEW w \in Workers PROVE BatchOK(w)'
    BY <2>1 DEF IInv, Safe, BatchOK, Item
  <2>4. ASSUME NEW x \in Messages PROVE RowOK(x)' /\ Upper(x)' /\ Lower(x)'
    BY <2>1, WorkersStay, AnswerStays DEF IInv, Safe, workerVars
  <2>5. QED
    BY <2>2, <2>3, <2>4 DEF IInv, Safe
<1>2. ASSUME NEW m \in Messages, SenderStep(m) \/ Due(m) \/ SenderDies(m)
      PROVE  IInv'
  BY <1>2, StartSafe, CreateRecordSafe, SendSafe, SenderMarksSafe, DueSafe,
     SenderDiesSafe
  DEF SenderStep
<1>3. ASSUME NEW w \in Workers, WorkerStep(w) \/ WorkerDies(w) PROVE IInv'
  <2>1. CASE Poll(w)
    BY <2>1, PollSafe
  <2>2. CASE Retry(w) \/ WorkerMarks(w) \/ MarkRaises(w) \/ HandlerRaises(w)
               \/ WorkerDies(w)
    <3>1. pc[w] # "idle"
      BY <2>2
      DEF Retry, WorkerMarks, MarkRaises, HandlerRaises, WorkerDies, WorkerTried
    <3>2. PICK m \in Messages : m = Item(w)
      BY <3>1, HoldsItem
    <3>3. QED
      BY <2>2, <3>2, RetrySafe, WorkerMarksSafe, MarkRaisesSafe,
         HandlerRaisesSafe, WorkerDiesSafe
  <2>3. QED
    BY <1>3, <2>1, <2>2 DEF WorkerStep
<1>4. QED
  BY <1>1, <1>2, <1>3 DEF Next

\* the invariant holds in every reachable state
LEMMA AlwaysSafe == Spec => []IInv
  BY InitSafe, NextSafe, PTL DEF Spec

(***************************************************************************)
(* Every variable of the outbox keeps its type.                            *)
(***************************************************************************)
THEOREM OutboxTypeCorrect == Spec => []TypeOK
<1>1. IInv => TypeOK
  BY DEF IInv
<1>2. QED
  BY <1>1, AlwaysSafe, PTL

(***************************************************************************)
(* Whatever the numbers of processes, attempts and faults, _retry_item and *)
(* _send_response never try an answer more often than max_attempts plus the*)
(* other processes plus the outcomes that faults kept out of the table.    *)
(***************************************************************************)
THEOREM DuplicatesBounded == Spec => []TriesBounded
<1>1. IInv => TriesBounded
  <2> SUFFICES ASSUME IInv, NEW m \in Messages
               PROVE  tries[m] <= MaxAttempts + lost[m] + Cardinality(Workers) - 1
    BY DEF TriesBounded
  <2>1. /\ TypeOK /\ RowOK(m) /\ Upper(m)
        /\ tries[m] \in Nat /\ lost[m] \in Nat /\ attempts[m] \in Nat
        /\ row[m] \in Status /\ MaxAttempts \in Nat \ {0}
    BY MaxAttemptsAssumption DEF IInv, Safe, TypeOK
  <2>2. /\ Cardinality(Flying(m)) \in Nat /\ Cardinality(Waiting(m)) \in Nat
        /\ Cardinality(Workers) \in Nat \ {0}
    BY PartsAreWorkers
  <2>3. Cardinality(Flying(m)) <= Cardinality(Workers)
    <3>1. Flying(m) \subseteq Workers
      BY DEF Flying
    <3>2. QED
      BY <3>1, WorkersAssumption, FS_Subset
  <2>4. CASE row[m] = "none"
    BY <2>1, <2>2, <2>4 DEF Upper
  <2>5. CASE row[m] = "pending"
    BY <2>1, <2>2, <2>5 DEF Upper, SenderCount
  <2>6. CASE row[m] = "failed"
    BY <2>1, <2>2, <2>3, <2>6 DEF Upper, RowOK
  <2>7. CASE row[m] \in Settled
    BY <2>1, <2>2, <2>7 DEF Upper
  <2>8. QED
    BY <2>1, <2>4, <2>5, <2>6, <2>7 DEF Status
<1>2. QED
  BY <1>1, AlwaysSafe, PTL

(***************************************************************************)
(* A dead letter was really tried max_attempts times, and the answer of a  *)
(* row marked sent really reached the chat, unless it was left to a        *)
(* streaming card, whose row is marked sent whatever became of the card.   *)
(***************************************************************************)
THEOREM VerdictsEarned == Spec => []VerdictEarned
<1>1. IInv => VerdictEarned
  <2> SUFFICES ASSUME IInv, NEW m \in Messages
               PROVE  /\ row[m] = "dead_letter" => tries[m] >= MaxAttempts
                      /\ row[m] = "sent" => m \in reached \cup carded
    BY DEF VerdictEarned
  <2>1. tries[m] \in Nat /\ MaxAttempts \in Nat /\ Lower(m) /\ RowOK(m)
    BY MaxAttemptsAssumption DEF IInv, Safe, TypeOK
  <2>2. QED
    BY <2>1 DEF Lower, RowOK
<1>2. QED
  BY <1>1, AlwaysSafe, PTL

\* no step touches a settled row
LEMMA SettledStays ==
  ASSUME IInv, [Next]_vars, NEW m \in Messages, row[m] \in Settled
  PROVE  row'[m] = row[m] /\ attempts'[m] = attempts[m]
<1>1. TypeOK /\ ~IsOpen(m)
  BY DEF IInv, IsOpen, Settled
<1>2. ASSUME NEW x \in Messages, MarkSent(x) \/ MarkFailed(x)
      PROVE  row'[m] = row[m] /\ attempts'[m] = attempts[m]
  <2>1. DueOK /\ RowOK(x)
    BY DEF IInv, Safe
  <2>2. QED
    BY <1>1, <1>2, <2>1, MarkFacts
<1>3. ASSUME NEW x \in Messages, SenderStep(x) \/ Due(x) \/ SenderDies(x)
      PROVE  row'[m] = row[m] /\ attempts'[m] = attempts[m]
  <2>1. CASE CreateRecord(x)
    <3>1. sender[x] \in {"new", "streamed"} /\ RowOK(x)
      BY <2>1 DEF CreateRecord, IInv, Safe
    <3>2. x # m
      BY <3>1 DEF RowOK, Settled
    <3>3. QED
      BY <1>1, <2>1, <3>2 DEF CreateRecord, TypeOK
  <2>2. CASE SenderMarks(x)
    <3>1. MarkSent(x) \/ MarkFailed(x) \/ UNCHANGED rowVars
      BY <2>2 DEF SenderMarks
    <3>2. QED
      BY <1>2, <3>1 DEF rowVars
  <2>3. CASE Refuse(x) \/ Stream(x) \/ Send(x) \/ Due(x) \/ SenderDies(x)
    BY <2>3 DEF Refuse, Stream, Send, Due, SenderDies, rowVars
  <2>4. QED
    BY <1>3, <2>1, <2>2, <2>3 DEF SenderStep
<1>4. ASSUME NEW w \in Workers, WorkerStep(w) \/ WorkerDies(w)
      PROVE  row'[m] = row[m] /\ attempts'[m] = attempts[m]
  <2>1. CASE Poll(w) \/ Retry(w) \/ WorkerDies(w)
    BY <2>1 DEF Poll, Retry, WorkerDies, rowVars
  <2>2. CASE WorkerMarks(w) \/ MarkRaises(w) \/ HandlerRaises(w)
    <3>1. pc[w] # "idle"
      BY <2>2 DEF WorkerMarks, MarkRaises, HandlerRaises, WorkerTried
    <3>2. Item(w) \in Messages
      BY <3>1, HoldsItem
    <3>3. MarkSent(Item(w)) \/ MarkFailed(Item(w)) \/ UNCHANGED rowVars
      BY <2>2 DEF WorkerMarks, MarkRaises, HandlerRaises, DatabaseRaises
    <3>4. QED
      BY <1>2, <3>2, <3>3 DEF rowVars
  <2>3. QED
    BY <1>4, <2>1, <2>2 DEF WorkerStep
<1>5. CASE UNCHANGED vars
  BY <1>5 DEF vars
<1>6. QED
  BY <1>3, <1>4, <1>5 DEF Next

(***************************************************************************)
(* Once a row is sent or dead-lettered no sender, worker, fault or crash   *)
(* changes its status or its counter.                                      *)
(***************************************************************************)
THEOREM SettledRowsAreFinal == Spec => SettledIsFinal
<1>1. IInv /\ [Next]_vars =>
        [\A m \in Messages : row[m] \in Settled => row'[m] = row[m]
                                                   /\ attempts'[m] = attempts[m]]_vars
  BY SettledStays
<1>2. QED
  BY <1>1, AlwaysSafe, PTL DEF Spec, SettledIsFinal
=============================================================================
