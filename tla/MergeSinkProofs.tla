--------------------------- MODULE MergeSinkProofs ---------------------------
(***************************************************************************)
(* Proofs about MergeSink, for any set of pipelines and keys, any length   *)
(* of the topics, any batch size and number of failures: the table keeps   *)
(* one row per key, loses no key, and replays never bring back a batch     *)
(* older than the last one.                                                *)
(***************************************************************************)
EXTENDS MergeSink, TLAPS

LEMMA OffsetsAreNat == \A o \in Offsets : o \in Nat /\ o # 0
BY MergeAssumption DEF Offsets

\* What the deduplication of a batch guarantees, whichever records it keeps.
LEMMA Deduplication ==
    ASSUME NEW w \in Writers, NEW rows \in Deduplicated(w)
    PROVE  /\ \A r \in rows : \E o \in Batch(w) : r = RowOf(w, o)
           /\ \A r, t \in rows : r.key = t.key => r = t
           /\ \A o \in Batch(w) : \E r \in rows : r.key = keyOf[w][o]
<1>1. PICK c \in SUBSET Batch(w) :
        /\ rows = {RowOf(w, o) : o \in c}
        /\ \A o \in Batch(w) : \E o1 \in c :
              /\ keyOf[w][o1] = keyOf[w][o]
              /\ \A o2 \in c : keyOf[w][o2] = keyOf[w][o] => o2 = o1
  BY Zenon DEF Deduplicated
<1>2. \A r \in rows : \E o \in c : r = RowOf(w, o) /\ r.key = keyOf[w][o]
  BY <1>1 DEF RowOf
<1>3. \A r \in rows : \E o \in Batch(w) : r = RowOf(w, o)
  BY <1>1, <1>2
<1>4. ASSUME NEW r \in rows, NEW t \in rows, r.key = t.key PROVE r = t
  BY <1>1, <1>2, <1>4
<1>5. ASSUME NEW o \in Batch(w) PROVE \E r \in rows : r.key = keyOf[w][o]
  <2>1. PICK o1 \in c : keyOf[w][o1] = keyOf[w][o]
    BY <1>1, <1>5
  <2>2. RowOf(w, o1) \in rows /\ RowOf(w, o1).key = keyOf[w][o1]
    BY <1>1 DEF RowOf
  <2> QED
    BY <2>1, <2>2
<1> QED
  BY <1>3, <1>4, <1>5

LEMMA InitInv == Init => IInv
<1> SUFFICES ASSUME Init PROVE IInv
  OBVIOUS
<1>1. TypeOK
  <2>1. /\ planned \in [Writers -> 0..NumRecords]
        /\ committed \in [Writers -> 0..NumRecords]
        /\ wrote \in [Writers -> 0..NumRecords]
        /\ failures \in 0..MaxFailures
    BY MergeAssumption DEF Init
  <2>2. phase \in [Writers -> {"idle", "planned", "create", "merge", "written",
                              "down"}]
    BY DEF Init
  <2>3. /\ keyOf \in [Writers -> [Offsets -> Keys]]
        /\ exists \in BOOLEAN
        /\ table \subseteq Rows
    BY DEF Init
  <2> QED
    BY <2>1, <2>2, <2>3 DEF TypeOK
<1>2. LogsAgree
  BY DEF Init, LogsAgree
<1>3. KeysUnique /\ NoKeyLost /\ NewerBatchWins
  BY OffsetsAreNat DEF Init, KeysUnique, NoKeyLost, NewerBatchWins
<1> QED
  BY <1>1, <1>2, <1>3 DEF IInv

-----------------------------------------------------------------------------
\* A step that writes nothing to the table keeps what the table promises.
LEMMA TableUntouched ==
    ASSUME KeysUnique, NoKeyLost, NewerBatchWins,
           UNCHANGED <<keyOf, table, wrote>>
    PROVE  KeysUnique' /\ NoKeyLost' /\ NewerBatchWins'
BY DEF KeysUnique, NoKeyLost, NewerBatchWins

LEMMA PlanInv == ASSUME IInv, NEW w \in Writers, PlanBatch(w) PROVE IInv'
<1> USE DEF IInv, PlanBatch
<1>1. PICK n \in Offsets : planned[w] < n /\ planned' = [planned EXCEPT ![w] = n]
  OBVIOUS
<1>2. TypeOK'
  BY <1>1, MergeAssumption DEF TypeOK, Offsets
<1>3. LogsAgree'
  BY <1>1, OffsetsAreNat DEF LogsAgree, TypeOK
<1> QED
  BY <1>2, <1>3, TableUntouched

LEMMA CheckInv == ASSUME IInv, NEW w \in Writers, CheckTable(w) PROVE IInv'
<1> USE DEF IInv, CheckTable
<1>1. TypeOK'
  BY DEF TypeOK
<1>2. LogsAgree'
  BY DEF LogsAgree, TypeOK
<1> QED
  BY <1>1, <1>2, TableUntouched

LEMMA RaisesInv == ASSUME IInv, NEW w \in Writers, CreateRaises(w) PROVE IInv'
<1> USE DEF IInv, CreateRaises
<1>1. TypeOK'
  BY DEF TypeOK
<1>2. LogsAgree'
  BY DEF LogsAgree, TypeOK
<1> QED
  BY <1>1, <1>2, TableUntouched

LEMMA CommitInv == ASSUME IInv, NEW w \in Writers, CommitBatch(w) PROVE IInv'
<1> USE DEF IInv, CommitBatch
<1>1. TypeOK'
  BY DEF TypeOK
<1>2. LogsAgree'
  BY DEF LogsAgree, TypeOK
<1> QED
  BY <1>1, <1>2, TableUntouched

LEMMA FailsInv == ASSUME IInv, NEW w \in Writers, QueryFails(w) PROVE IInv'
<1> USE DEF IInv, QueryFails
<1>1. TypeOK'
  BY MergeAssumption DEF TypeOK
<1>2. LogsAgree'
  BY DEF LogsAgree, TypeOK
<1> QED
  BY <1>1, <1>2, TableUntouched

LEMMA RestartInv == ASSUME IInv, NEW w \in Writers, Restart(w) PROVE IInv'
<1> USE DEF IInv, Restart
<1>1. TypeOK'
  BY DEF TypeOK
<1>2. LogsAgree'
  <2>1. /\ committed[w] <= planned[w] /\ wrote[w] \in {committed[w], planned[w]}
        /\ committed[w] \in Nat /\ planned[w] \in Nat
    BY DEF LogsAgree, TypeOK
  <2>2. /\ phase'[w] = IF committed[w] < planned[w] THEN "planned" ELSE "idle"
        /\ \A v \in Writers : v # w => phase'[v] = phase[v]
    BY DEF TypeOK
  <2>3. /\ phase'[w] = "idle" => committed[w] = planned[w]
        /\ phase'[w] \in {"planned", "create", "merge", "written"} =>
               committed[w] < planned[w]
        /\ phase'[w] # "written" /\ phase'[w] # "merge"
    BY <2>1, <2>2
  <2> QED
    BY <2>1, <2>2, <2>3 DEF LogsAgree
<1> QED
  BY <1>1, <1>2, TableUntouched

-----------------------------------------------------------------------------
\* Writing a batch: the rows of other keys stay, the batch's keys get a row of
\* the batch.  Creating the table is the case without other rows.
LEMMA BatchWritten ==
    ASSUME IInv, NEW w \in Writers, NEW rows \in Deduplicated(w),
           committed[w] < planned[w],
           table' = {t \in table : \A r \in rows : r.key # t.key} \cup rows,
           wrote' = [wrote EXCEPT ![w] = planned[w]],
           UNCHANGED keyOf
    PROVE  /\ table' \subseteq Rows
           /\ KeysUnique' /\ NoKeyLost' /\ NewerBatchWins'
<1> USE DEF IInv
<1>1. /\ planned[w] \in Offsets
      /\ wrote[w] = committed[w] \/ wrote[w] = planned[w]
      /\ committed[w] \in Nat /\ wrote[w] \in Nat /\ wrote'[w] = planned[w]
      /\ \A v \in Writers : v # w => wrote'[v] = wrote[v]
  BY MergeAssumption DEF TypeOK, LogsAgree, Offsets
<1>2. \A r \in rows : \E o \in Batch(w) : r = RowOf(w, o)
  BY Deduplication
<1>3. \A r \in rows :
        /\ r \in Rows /\ r.writer = w /\ r.batch = planned[w]
        /\ r.offset <= planned[w] /\ keyOf[w][r.offset] = r.key
  BY <1>1, <1>2 DEF RowOf, Batch, Rows, TypeOK
<1>4. table' \subseteq Rows
  BY <1>3 DEF TypeOK
<1>5. KeysUnique'
  BY Deduplication DEF KeysUnique
<1>6. NoKeyLost'
  <2> SUFFICES ASSUME NEW v \in Writers, NEW o \in Offsets, o <= wrote'[v]
               PROVE  \E r \in table' : r.key = keyOf[v][o]
    BY DEF NoKeyLost
  <2>1. CASE v = w /\ o \in Batch(w)
    BY <2>1, Deduplication
  <2>2. CASE ~(v = w /\ o \in Batch(w))
    <3>1. o <= wrote[v]
      BY <1>1, <2>2, OffsetsAreNat DEF Batch, TypeOK
    <3>2. PICK t \in table : t.key = keyOf[v][o]
      BY <3>1 DEF NoKeyLost
    <3> QED
      BY <3>2
  <2> QED
    BY <2>1, <2>2
<1>7. NewerBatchWins'
  <2> SUFFICES ASSUME NEW r \in table'
               PROVE  /\ r.offset <= r.batch
                      /\ r.batch <= wrote'[r.writer]
                      /\ keyOf[r.writer][r.offset] = r.key
                      /\ \A o \in Offsets : r.batch < o /\ o <= wrote'[r.writer]
                            => keyOf[r.writer][o] # r.key
    BY DEF NewerBatchWins
  <2>1. CASE r \in rows
    BY <1>1, <1>3, <2>1, OffsetsAreNat
  <2>2. CASE r \notin rows
    <3>1. r \in table /\ r \in Rows /\ \A t \in rows : t.key # r.key
      BY <2>2 DEF TypeOK
    <3>2. CASE r.writer # w
      BY <1>1, <3>1, <3>2 DEF NewerBatchWins, Rows
    <3>3. CASE r.writer = w
      <4>1. r.batch <= wrote[w] /\ wrote[w] <= planned[w] /\ r.batch \in Nat
        BY <1>1, <3>1, <3>3, OffsetsAreNat DEF NewerBatchWins, Rows
      <4>2. \A o \in Batch(w) : keyOf[w][o] # r.key
        BY <3>1, Deduplication
      <4>3. ASSUME NEW o \in Offsets, r.batch < o, o <= planned[w]
            PROVE  keyOf[w][o] # r.key
        BY <1>1, <3>1, <3>3, <4>2, <4>3, OffsetsAreNat
           DEF NewerBatchWins, Batch
      <4> QED
        BY <1>1, <3>1, <3>3, <4>1, <4>3, OffsetsAreNat DEF NewerBatchWins
    <3> QED
      BY <3>2, <3>3
  <2> QED
    BY <2>1, <2>2
<1> QED
  BY <1>4, <1>5, <1>6, <1>7

LEMMA CreateInv == ASSUME IInv, NEW w \in Writers, CreateTable(w) PROVE IInv'
<1>1. committed[w] < planned[w] /\ table = {}
  BY DEF IInv, LogsAgree, CreateTable
<1>2. PICK rows \in Deduplicated(w) : table' = rows
  BY DEF CreateTable
<1>3. table' = {t \in table : \A r \in rows : r.key # t.key} \cup rows
  BY <1>1, <1>2
<1>4. table' \subseteq Rows /\ KeysUnique' /\ NoKeyLost' /\ NewerBatchWins'
  BY <1>1, <1>3, BatchWritten DEF CreateTable
<1>5. TypeOK'
  BY <1>4 DEF CreateTable, IInv, TypeOK
<1>6. LogsAgree'
  BY DEF CreateTable, IInv, TypeOK, LogsAgree
<1> QED
  BY <1>4, <1>5, <1>6 DEF IInv

LEMMA MergeInv == ASSUME IInv, NEW w \in Writers, Merge(w) PROVE IInv'
<1>1. committed[w] < planned[w] /\ exists
  BY DEF IInv, LogsAgree, Merge
<1>2. PICK rows \in Deduplicated(w) :
        table' = {t \in table : \A r \in rows : r.key # t.key} \cup rows
  BY DEF Merge
<1>3. table' \subseteq Rows /\ KeysUnique' /\ NoKeyLost' /\ NewerBatchWins'
  BY <1>1, <1>2, BatchWritten DEF Merge
<1>4. TypeOK'
  BY <1>3 DEF Merge, IInv, TypeOK
<1>5. LogsAgree'
  BY <1>1 DEF Merge, IInv, TypeOK, LogsAgree
<1> QED
  BY <1>3, <1>4, <1>5 DEF IInv

LEMMA StepInv == IInv /\ [Next]_vars => IInv'
<1>1. IInv /\ UNCHANGED vars => IInv'
  BY DEF vars, IInv, TypeOK, LogsAgree, KeysUnique, NoKeyLost, NewerBatchWins
<1> QED
  BY <1>1, PlanInv, CheckInv, CreateInv, RaisesInv, MergeInv, CommitInv,
     FailsInv, RestartInv DEF Next, WriterStep

-----------------------------------------------------------------------------
\* The logs of the pipelines agree with their rows in the table, at any time.
THEOREM LogsMatchTable == Spec => []IInv
BY InitInv, StepInv, PTL DEF Spec

\* For any pipelines sharing the table there is one row per key, whoever creates
\* the table and whatever is replayed (delta_sink.py:50-66).
THEOREM OneRowPerKey == Spec => []KeysUnique
<1>1. IInv => KeysUnique
  BY DEF IInv
<1> QED
  BY <1>1, LogsMatchTable, PTL

\* A key that a batch wrote is in the table from then on (delta_sink.py:57-66).
THEOREM KeysSurvive == Spec => []NoKeyLost
<1>1. IInv => NoKeyLost
  BY DEF IInv
<1> QED
  BY <1>1, LogsMatchTable, PTL

\* No replay brings a batch back that a later one of the same pipeline
\* superseded (delta_sink.py:50-66).
THEOREM MergeKeepsOrder == Spec => []NewerBatchWins
<1>1. IInv => NewerBatchWins
  BY DEF IInv
<1> QED
  BY <1>1, LogsMatchTable, PTL
=============================================================================
