---------------------------- MODULE DeliveryProofs ----------------------------
(***************************************************************************)
(* Proofs about Delivery, for any number of records, releases, failures    *)
(* and expired offsets and any batch size: the inductive invariant of the  *)
(* two queries, that no record is written twice and each goes to the table *)
(* its release routes it to, and that the pipeline implements the atomic   *)
(* description of AtomicIngest.                                            *)
(***************************************************************************)
EXTENDS Delivery, TLAPS

Verdicts == {"main", "dlq", "drop"}
Phases == {"down", "idle", "planned", "written"}

LEMMA OffsetsAreNat == Offsets \subseteq Nat /\ 1 \in Versions
BY DeliveryAssumption DEF Offsets, Versions

LEMMA InitInv == Init => IInv
<1> SUFFICES ASSUME Init PROVE IInv
  OBVIOUS
<1>1. TypeOK
  <2>1. /\ end \in 0..MaxOffset /\ low \in 1..(MaxOffset + 1)
        /\ version \in Versions /\ failures \in 0..MaxFailures
    BY DeliveryAssumption, OffsetsAreNat DEF Init
  <2>2. /\ offsetLog \in [Queries -> 0..end]
        /\ commitLog \in [Queries -> 0..end]
        /\ txn \in [Queries -> 0..end]
    BY DEF Init
  <2>3. /\ rows \in [Queries -> [Offsets -> Nat]]
        /\ seen \in [Queries -> [Offsets -> Versions \cup {0, -1}]]
    BY DEF Init
  <2>4. /\ verdict \in [Versions -> [Offsets -> {"main", "dlq", "drop"}]]
        /\ alive \in BOOLEAN
        /\ phase \in [Queries -> {"down", "idle", "planned", "written"}]
    BY DEF Init
  <2> QED
    BY <2>1, <2>2, <2>3, <2>4 DEF TypeOK
<1>2. LogsAgree
  BY DEF Init, LogsAgree
<1>3. TableIsTaken
  BY OffsetsAreNat, DeliveryAssumption DEF Init, TableIsTaken, Versions, Offsets
<1> QED
  BY <1>1, <1>2, <1>3 DEF IInv

-----------------------------------------------------------------------------
(* One lemma per action *)

LEMMA ProduceInv == IInv /\ Produce => IInv'
<1> SUFFICES ASSUME IInv, Produce PROVE IInv'
  OBVIOUS
<1> USE DEF IInv, Produce, checkpoint, table
<1>1. TypeOK'
  BY DeliveryAssumption DEF TypeOK
<1>2. LogsAgree'
  BY DEF LogsAgree
<1>3. TableIsTaken'
  BY DEF TableIsTaken
<1> QED
  BY <1>1, <1>2, <1>3

LEMMA ExpireInv == IInv /\ Expire => IInv'
<1> SUFFICES ASSUME IInv, Expire PROVE IInv'
  OBVIOUS
<1> USE DEF IInv, Expire, checkpoint, table
<1>1. TypeOK'
  BY DeliveryAssumption DEF TypeOK
<1>2. LogsAgree'
  BY DEF LogsAgree
<1>3. TableIsTaken'
  BY DEF TableIsTaken
<1> QED
  BY <1>1, <1>2, <1>3

LEMMA PlanInv == ASSUME IInv, NEW q \in Queries, PlanBatch(q) PROVE IInv'
<1> USE DEF IInv, PlanBatch, topic, table
<1>1. /\ offsetLog[q] < offsetLog'[q]
      /\ offsetLog'[q] \in 0..end
      /\ offsetLog' = [offsetLog EXCEPT ![q] = offsetLog'[q]]
  BY DeliveryAssumption DEF TypeOK
<1>2. TypeOK'
  BY <1>1 DEF TypeOK
<1>3. LogsAgree'
  BY <1>1 DEF LogsAgree, TypeOK
<1>4. TableIsTaken'
  BY DEF TableIsTaken
<1> QED
  BY <1>2, <1>3, <1>4

LEMMA WriteInv == ASSUME IInv, NEW q \in Queries, WriteBatch(q) PROVE IInv'
<1> USE DEF IInv, WriteBatch, topic, checkpoint
<1>1. commitLog[q] = txn[q] /\ txn[q] < offsetLog[q]
  BY DEF LogsAgree, TypeOK
<1>2. TypeOK'
  <2>1. rows' \in [Queries -> [Offsets -> Nat]]
    BY DEF TypeOK
  <2>2. seen' \in [Queries -> [Offsets -> Versions \cup {0, -1}]]
    BY DEF TypeOK
  <2> QED
    BY <2>1, <2>2 DEF TypeOK
<1>3. LogsAgree'
  BY <1>1 DEF LogsAgree, TypeOK
<1>4. TableIsTaken'
  <2> SUFFICES ASSUME NEW p \in Queries, NEW o \in Offsets
               PROVE /\ seen'[p][o] # 0 <=> o <= txn'[p]
                     /\ rows'[p][o] =
                          IF seen'[p][o] \in Versions /\ verdict[seen'[p][o]][o] = p
                          THEN 1 ELSE 0
    BY DEF TableIsTaken
  <2>1. CASE p # q
    BY <2>1 DEF TableIsTaken, TypeOK
  <2>2. CASE p = q /\ o \in Batch(q)
    <3>1. seen[q][o] = 0 /\ rows[q][o] = 0
      BY <1>1, <2>2, OffsetsAreNat DEF TableIsTaken, TypeOK, Batch, Versions
    <3>2. o <= txn'[p]
      BY <2>2 DEF Batch, TypeOK
    <3>3. CASE o \in Available(q)
      BY <2>2, <3>1, <3>2, <3>3, OffsetsAreNat
         DEF TypeOK, Routed, Versions
    <3>4. CASE o \notin Available(q)
      BY <2>2, <3>1, <3>2, <3>4, OffsetsAreNat DEF TypeOK, Versions
    <3> QED
      BY <3>3, <3>4
  <2>3. CASE p = q /\ o \notin Batch(q)
    <3>1. o \notin Available(q)
      BY <2>3 DEF Available
    <3>2. seen'[p][o] = seen[p][o] /\ rows'[p][o] = rows[p][o]
      BY <2>3, <3>1 DEF TypeOK
    <3>3. o <= txn'[p] <=> o <= txn[p]
      BY <1>1, <2>3, OffsetsAreNat DEF Batch, TypeOK
    <3> QED
      BY <3>2, <3>3 DEF TableIsTaken
  <2> QED
    BY <2>1, <2>2, <2>3
<1> QED
  BY <1>2, <1>3, <1>4

LEMMA SkipInv == ASSUME IInv, NEW q \in Queries, SkipBatch(q) PROVE IInv'
<1> USE DEF IInv, SkipBatch, topic, checkpoint, table
<1>1. TypeOK'
  BY DEF TypeOK
<1>2. LogsAgree'
  BY DEF LogsAgree, TypeOK
<1>3. TableIsTaken'
  BY DEF TableIsTaken
<1> QED
  BY <1>1, <1>2, <1>3

LEMMA CommitInv == ASSUME IInv, NEW q \in Queries, CommitBatch(q) PROVE IInv'
<1> USE DEF IInv, CommitBatch, topic, table
<1>1. TypeOK'
  BY DEF TypeOK
<1>2. LogsAgree'
  BY DEF LogsAgree, TypeOK
<1>3. TableIsTaken'
  BY DEF TableIsTaken
<1> QED
  BY <1>1, <1>2, <1>3

LEMMA QueryFailsInv == ASSUME IInv, NEW q \in Queries, QueryFails(q) PROVE IInv'
<1> USE DEF IInv, QueryFails, topic, checkpoint, table
<1>1. TypeOK'
  BY DeliveryAssumption DEF TypeOK
<1>2. LogsAgree'
  BY DEF LogsAgree, TypeOK
<1>3. TableIsTaken'
  BY DEF TableIsTaken
<1> QED
  BY <1>1, <1>2, <1>3

LEMMA RestartInv == IInv /\ RestartPipeline => IInv'
<1> SUFFICES ASSUME IInv, RestartPipeline PROVE IInv'
  OBVIOUS
<1> USE DEF IInv, RestartPipeline, topic, checkpoint, table, Resume
<1>1. TypeOK'
  BY DEF TypeOK
<1>2. LogsAgree'
  <2> SUFFICES ASSUME NEW q \in Queries
               PROVE /\ commitLog[q] <= offsetLog[q]
                     /\ txn[q] \in {commitLog[q], offsetLog[q]}
                     /\ phase'[q] = "idle" => commitLog[q] = offsetLog[q]
                     /\ phase'[q] = "planned" => commitLog[q] < offsetLog[q]
                     /\ phase'[q] # "written" /\ alive'
    BY DEF LogsAgree
  <2>1. /\ commitLog[q] <= offsetLog[q]
        /\ txn[q] \in {commitLog[q], offsetLog[q]}
        /\ commitLog[q] \in Nat /\ offsetLog[q] \in Nat
    BY DEF LogsAgree, TypeOK
  <2>2. phase'[q] = IF commitLog[q] < offsetLog[q] THEN "planned" ELSE "idle"
    OBVIOUS
  <2> QED
    BY <2>1, <2>2
<1>3. TableIsTaken'
  BY DEF TableIsTaken
<1> QED
  BY <1>1, <1>2, <1>3

LEMMA EndRunInv == IInv /\ EndRun => IInv'
<1> SUFFICES ASSUME IInv, EndRun PROVE IInv'
  OBVIOUS
<1> USE DEF IInv, EndRun, topic, checkpoint, table
<1>1. TypeOK'
  <2>1. failures' \in 0..MaxFailures
    BY DeliveryAssumption DEF TypeOK
  <2>2. phase' \in [Queries -> {"down", "idle", "planned", "written"}]
    OBVIOUS
  <2> QED
    BY <2>1, <2>2 DEF TypeOK
<1>2. LogsAgree'
  BY DEF LogsAgree, TypeOK
<1>3. TableIsTaken'
  BY DEF TableIsTaken
<1> QED
  BY <1>1, <1>2, <1>3

LEMMA DeployInv == IInv /\ Deploy => IInv'
<1> SUFFICES ASSUME IInv, Deploy PROVE IInv'
  OBVIOUS
<1> USE DEF IInv, Deploy, topic, checkpoint, table, Resume
<1>1. TypeOK'
  BY DEF TypeOK
<1>2. LogsAgree'
  <2> SUFFICES ASSUME NEW q \in Queries
               PROVE /\ commitLog[q] <= offsetLog[q]
                     /\ txn[q] \in {commitLog[q], offsetLog[q]}
                     /\ phase'[q] = "idle" => commitLog[q] = offsetLog[q]
                     /\ phase'[q] = "planned" => commitLog[q] < offsetLog[q]
                     /\ phase'[q] # "written" /\ alive'
    BY DEF LogsAgree
  <2>1. /\ commitLog[q] <= offsetLog[q]
        /\ txn[q] \in {commitLog[q], offsetLog[q]}
        /\ commitLog[q] \in Nat /\ offsetLog[q] \in Nat
    BY DEF LogsAgree, TypeOK
  <2>2. phase'[q] = IF commitLog[q] < offsetLog[q] THEN "planned" ELSE "idle"
    OBVIOUS
  <2> QED
    BY <2>1, <2>2
<1>3. TableIsTaken'
  BY DEF TableIsTaken
<1> QED
  BY <1>1, <1>2, <1>3

LEMMA StutterInv == IInv /\ UNCHANGED vars => IInv'
BY DEF IInv, TypeOK, LogsAgree, TableIsTaken, vars, topic, checkpoint, table

LEMMA StepInv == IInv /\ [Next]_vars => IInv'
BY ProduceInv, ExpireInv, PlanInv, WriteInv, SkipInv, CommitInv, QueryFailsInv,
   RestartInv, EndRunInv, DeployInv, StutterInv
   DEF Next, QueryStep

-----------------------------------------------------------------------------
\* The two logs of each query, its table and what it has processed stay in
\* agreement over every failure, restart and release: a table is at the last
\* committed or the last planned batch, and holds what that release routed to
\* it once (delta_sink.py:26-42, dlq.py:53-83).
THEOREM CheckpointsAgree == Spec => []IInv
<1>1. Init => IInv
  BY InitInv
<1>2. IInv /\ [Next]_vars => IInv'
  BY StepInv
<1> QED
  BY <1>1, <1>2, PTL DEF Spec

\* No record is ever twice in a table (framework README:102).
THEOREM NeverTwice == Spec => []WrittenOnce
<1>1. IInv => WrittenOnce
  BY DEF IInv, TableIsTaken, WrittenOnce
<1> QED
  BY <1>1, CheckpointsAgree, PTL

\* A record that both queries processed under one release is in exactly one
\* table, once, or dropped (dlq.py:42-51).
THEOREM OneTableEach == Spec => []RoutedToOneTable
<1>1. ASSUME IInv PROVE RoutedToOneTable
  <2> SUFFICES ASSUME NEW o \in Offsets,
                      seen["main"][o] \in Versions,
                      seen["main"][o] = seen["dlq"][o]
               PROVE rows["main"][o] + rows["dlq"][o] =
                     (IF verdict[seen["main"][o]][o] = "drop" THEN 0 ELSE 1)
    BY DEF RoutedToOneTable
  <2> DEFINE w == verdict[seen["main"][o]][o]
  <2>1. w \in Verdicts
    BY <1>1 DEF IInv, TypeOK, Verdicts
  <2>2. rows["main"][o] = IF w = "main" THEN 1 ELSE 0
    BY <1>1 DEF IInv, TableIsTaken, Queries
  <2>3. rows["dlq"][o] = IF w = "dlq" THEN 1 ELSE 0
    BY <1>1 DEF IInv, TableIsTaken, Queries
  <2> QED
    BY <2>1, <2>2, <2>3 DEF Verdicts
<1> QED
  BY <1>1, CheckpointsAgree, PTL

\* Committed batches stay committed and their rows stay as they are, through
\* every failure, replay, restart and release (framework README:102).
THEOREM CommittedForGood == Spec => CommittedIsFinal
<1> DEFINE Final ==
        \A q \in Queries, o \in Offsets :
            o <= commitLog[q] => o <= commitLog'[q] /\ rows'[q][o] = rows[q][o]
<1>1. IInv /\ [Next]_vars => Final
  <2> SUFFICES ASSUME IInv, [Next]_vars, NEW q \in Queries, NEW o \in Offsets,
                      o <= commitLog[q]
               PROVE  o <= commitLog'[q] /\ rows'[q][o] = rows[q][o]
    OBVIOUS
  <2>1. ASSUME NEW r \in Queries, WriteBatch(r)
        PROVE  commitLog'[q] = commitLog[q] /\ rows'[q][o] = rows[q][o]
    <3>1. o \notin Batch(q)
      BY OffsetsAreNat DEF Batch, IInv, TypeOK
    <3>2. rows \in [Queries -> [Offsets -> Nat]]
      BY DEF IInv, TypeOK
    <3> QED
      BY <2>1, <3>1, <3>2 DEF WriteBatch, Available, checkpoint
  <2>2. ASSUME NEW r \in Queries, CommitBatch(r)
        PROVE  o <= commitLog'[q] /\ rows'[q][o] = rows[q][o]
    <3>1. commitLog[q] <= offsetLog[q] /\ o \in Nat
      BY OffsetsAreNat DEF IInv, LogsAgree
    <3>2. commitLog[q] \in Nat /\ offsetLog[q] \in Nat
      BY DEF IInv, TypeOK
    <3> QED
      BY <2>2, <3>1, <3>2 DEF CommitBatch, table, IInv, TypeOK
  <2>3. \/ commitLog' = commitLog /\ rows' = rows
        \/ \E r \in Queries : WriteBatch(r) \/ CommitBatch(r)
    BY DEF Next, QueryStep, vars, Produce, Expire, RestartPipeline, EndRun,
       Deploy, PlanBatch, SkipBatch, QueryFails, checkpoint, table
  <2> QED
    BY <2>1, <2>2, <2>3
<1> QED
  BY <1>1, CheckpointsAgree, PTL DEF CommittedIsFinal, Spec

-----------------------------------------------------------------------------
LEMMA WriteIsDeliver ==
    ASSUME IInv, NEW q \in Queries, WriteBatch(q)
    PROVE  Atomic!Deliver(q)
<1> DEFINE n == offsetLog[q]
<1>1. commitLog[q] = txn[q] /\ txn[q] < n
  BY DEF IInv, LogsAgree, TypeOK, WriteBatch
<1>2. n \in Offsets /\ n <= end
  BY <1>1, DeliveryAssumption DEF IInv, TypeOK, Offsets
<1>3. \A o \in Offsets :
        o \in (txn[q] + 1)..n /\ o >= low <=> o \in Available(q)
  BY <1>1, <1>2, OffsetsAreNat DEF IInv, TypeOK, Available, Batch
<1>4. rows' = [rows EXCEPT ![q] = Atomic!Taken(q, (txn[q] + 1)..n)]
  BY <1>3 DEF WriteBatch, Routed, Atomic!Taken, Atomic!Offsets, Offsets,
              IInv, TypeOK
<1> QED
  BY <1>1, <1>2, <1>4
     DEF Atomic!Deliver, Atomic!Offsets, Offsets, WriteBatch, topic

LEMMA StepRefines == IInv /\ [Next]_vars => [Atomic!Next]_Atomic!avars
<1> SUFFICES ASSUME IInv, [Next]_vars
             PROVE  Atomic!Next \/ UNCHANGED Atomic!avars
  OBVIOUS
<1> USE DEF topic, checkpoint, table, Atomic!avars
<1>1. CASE Produce
  BY <1>1 DEF Produce, Atomic!Next, Atomic!Produce
<1>2. CASE Expire
  BY <1>2 DEF Expire, Atomic!Next, Atomic!Expire
<1>3. CASE RestartPipeline
  BY <1>3 DEF RestartPipeline
<1>4. CASE EndRun
  BY <1>4 DEF EndRun
<1>5. CASE Deploy
  BY <1>5 DEF Deploy, Atomic!Next, Atomic!Release, Atomic!Versions, Versions
<1>6. ASSUME NEW q \in Queries, PlanBatch(q) PROVE UNCHANGED Atomic!avars
  BY <1>6 DEF PlanBatch
<1>7. ASSUME NEW q \in Queries, WriteBatch(q) PROVE Atomic!Next
  BY <1>7, WriteIsDeliver DEF Atomic!Next, Atomic!Tables, Queries
<1>8. ASSUME NEW q \in Queries, SkipBatch(q) PROVE UNCHANGED Atomic!avars
  BY <1>8 DEF SkipBatch
<1>9. ASSUME NEW q \in Queries, CommitBatch(q) PROVE UNCHANGED Atomic!avars
  BY <1>9 DEF CommitBatch
<1>10. ASSUME NEW q \in Queries, QueryFails(q) PROVE UNCHANGED Atomic!avars
  BY <1>10 DEF QueryFails
<1>11. CASE UNCHANGED vars
  BY <1>11 DEF vars
<1> QED
  BY <1>1, <1>2, <1>3, <1>4, <1>5, <1>6, <1>7, <1>8, <1>9, <1>10, <1>11
     DEF Next, QueryStep

\* The pipeline with its checkpoints, failures, replays and releases implements
\* the tables that take the records atomically and in order.
THEOREM DeliversAtomically == Spec => AtomicSpec
<1>1. Init => Atomic!Init
  BY DEF Init, Atomic!Init, Atomic!Versions, Atomic!Offsets, Atomic!Tables,
         Versions, Offsets, Queries
<1>2. IInv /\ [Next]_vars => [Atomic!Next]_Atomic!avars
  BY StepRefines
<1> QED
  BY <1>1, <1>2, CheckpointsAgree, PTL DEF Spec, AtomicSpec, Atomic!Spec
=============================================================================
