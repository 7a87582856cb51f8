------------------------------- MODULE Delivery -------------------------------
(***************************************************************************)
(* One topic pipeline moving records from Kafka to Delta: the main query   *)
(* (sinks/delta_sink.py, append mode) and the DLQ query (reliability/      *)
(* dlq.py).  Both read the topic on their own, route every record with the *)
(* same deployed code (parser and quality rules set _dfx_error,            *)
(* DeadLetterQueue.split filters on it) and keep a checkpoint of their own.*)
(*                                                                         *)
(* A query is a Spark micro-batch loop over its checkpoint: it logs the    *)
(* offset range of the next batch, writes the batch to the table in one    *)
(* transaction tagged with the batch, then logs the commit.  It may die at *)
(* any point and resumes from the logs; the runner restarts the pipeline,  *)
(* the job scheduler restarts the run, possibly with a new release.        *)
(*                                                                         *)
(* Records are offsets.  What a release makes of each (main table, DLQ, or *)
(* dropped by a quality rule) is an arbitrary function fixed at the start. *)
(* One partition.                                                          *)
(***************************************************************************)
EXTENDS Integers

CONSTANTS
    MaxOffset,             \* bound: records produced
    MaxVersion,            \* bound: releases deployed
    MaxOffsetsPerTrigger,  \* the reader option of that name
    MaxFailures,           \* bound: failed queries and ended runs
    MaxExpired             \* bound: offsets lost to retention

ASSUME DeliveryAssumption ==
    /\ MaxOffset \in Nat /\ MaxFailures \in Nat /\ MaxExpired \in Nat
    /\ MaxVersion \in Nat \ {0} /\ MaxOffsetsPerTrigger \in Nat \ {0}

Offsets == 1..MaxOffset
Versions == 1..MaxVersion
Queries == {"main", "dlq"}

VARIABLES
    verdict,    \* verdict[v][o]: the table release v routes record o to
    end,        \* last offset of the topic
    low,        \* first offset the broker still keeps
    alive,      \* the run (driver process) exists
    version,    \* the release it runs
    phase,      \* phase[q]: where query q is in its batch
    offsetLog,  \* offsetLog[q]: checkpoint, end of the last planned batch
    commitLog,  \* commitLog[q]: checkpoint, end of the last committed batch
    txn,        \* txn[q]: last batch (by its end) the table's log carries
    rows,       \* rows[q][o]: copies of record o in q's table
    seen,       \* history, seen[q][o]: release under which q's table took o,
                \* 0 not yet, -1 the broker had dropped it
    failures    \* history: failures so far

topic == <<verdict, end, low>>
checkpoint == <<offsetLog, commitLog>>
table == <<txn, rows, seen>>
vars == <<topic, alive, version, phase, checkpoint, table, failures>>

-----------------------------------------------------------------------------
(* The plan of a query *)

\* Variant: the main query does not filter out the flagged records.
RoutedAll(q, o) ==
    IF q = "main" THEN verdict[version][o] # "drop"
    ELSE verdict[version][o] = q

\* The filter of DeadLetterQueue.split on the parsed and checked records.
Routed(q, o) == verdict[version][o] = q

\* The planned, uncommitted batch of q.
Batch(q) == {o \in Offsets : commitLog[q] < o /\ o <= offsetLog[q]}

\* failOnDataLoss is "false": what the broker has dropped is passed over.
Available(q) == {o \in Batch(q) : o >= low}

\* A query (re)started on its checkpoint first finishes the batch it planned.
Resume(q) == IF commitLog[q] < offsetLog[q] THEN "planned" ELSE "idle"

-----------------------------------------------------------------------------
Init ==
    /\ verdict \in [Versions -> [Offsets -> {"main", "dlq", "drop"}]]
    /\ end = 0
    /\ low = 1
    /\ alive = FALSE
    /\ version = 1
    /\ phase = [q \in Queries |-> "down"]
    /\ offsetLog = [q \in Queries |-> 0]
    /\ commitLog = [q \in Queries |-> 0]
    /\ txn = [q \in Queries |-> 0]
    /\ rows = [q \in Queries |-> [o \in Offsets |-> 0]]
    /\ seen = [q \in Queries |-> [o \in Offsets |-> 0]]
    /\ failures = 0

(* The broker *)

Produce ==
    /\ end < MaxOffset
    /\ end' = end + 1
    /\ UNCHANGED <<verdict, low, alive, version, phase, checkpoint, table,
                   failures>>

Expire ==
    /\ low <= end
    /\ low <= MaxExpired
    /\ low' = low + 1
    /\ UNCHANGED <<verdict, end, alive, version, phase, checkpoint, table,
                   failures>>

(* The queries *)

\* Variant: startingOffsets "latest", a query without a checkpoint starts at
\* the end of the topic.
PlanFromLatest(q) ==
    /\ phase[q] = "idle"
    /\ offsetLog[q] < end
    /\ \/ /\ offsetLog[q] = 0
          /\ offsetLog' = [offsetLog EXCEPT ![q] = end]
          /\ commitLog' = [commitLog EXCEPT ![q] = end]
          /\ txn' = [txn EXCEPT ![q] = end]
          /\ UNCHANGED phase
       \/ /\ offsetLog[q] > 0
          /\ offsetLog' = [offsetLog EXCEPT ![q] = end]
          /\ phase' = [phase EXCEPT ![q] = "planned"]
          /\ UNCHANGED <<commitLog, txn>>
    /\ UNCHANGED <<topic, alive, version, rows, seen, failures>>

\* Log the next range: from the last one (at first from the earliest offset)
\* to the end of the topic, capped by maxOffsetsPerTrigger.
PlanBatch(q) ==
    /\ phase[q] = "idle"
    /\ offsetLog[q] < end
    /\ offsetLog' = [offsetLog EXCEPT ![q] =
           IF end <= @ + MaxOffsetsPerTrigger THEN end
           ELSE @ + MaxOffsetsPerTrigger]
    /\ phase' = [phase EXCEPT ![q] = "planned"]
    /\ UNCHANGED <<topic, alive, version, commitLog, table, failures>>

\* Variant: the table does not remember its batches, a replay appends again.
AppendAgain(q) ==
    /\ phase[q] = "planned"
    /\ txn' = [txn EXCEPT ![q] = offsetLog[q]]
    /\ rows' = [rows EXCEPT ![q] = [o \in Offsets |->
           @[o] + IF o \in Available(q) /\ Routed(q, o) THEN 1 ELSE 0]]
    /\ seen' = [seen EXCEPT ![q] = [o \in Offsets |->
           IF o \in Available(q) THEN version
           ELSE IF o \in Batch(q) THEN -1
           ELSE @[o]]]
    /\ phase' = [phase EXCEPT ![q] = "written"]
    /\ UNCHANGED <<topic, alive, version, checkpoint, failures>>

\* Run the batch through the deployed plan into the table.
WriteBatch(q) ==
    /\ phase[q] = "planned"
    /\ txn[q] < offsetLog[q]
    /\ txn' = [txn EXCEPT ![q] = offsetLog[q]]
    /\ rows' = [rows EXCEPT ![q] = [o \in Offsets |->
           @[o] + IF o \in Available(q) /\ Routed(q, o) THEN 1 ELSE 0]]
    /\ seen' = [seen EXCEPT ![q] = [o \in Offsets |->
           IF o \in Available(q) THEN version
           ELSE IF o \in Batch(q) THEN -1
           ELSE @[o]]]
    /\ phase' = [phase EXCEPT ![q] = "written"]
    /\ UNCHANGED <<topic, alive, version, checkpoint, failures>>

\* A replayed batch that the table's log already carries is not written again.
SkipBatch(q) ==
    /\ phase[q] = "planned"
    /\ txn[q] = offsetLog[q]
    /\ phase' = [phase EXCEPT ![q] = "written"]
    /\ UNCHANGED <<topic, alive, version, checkpoint, table, failures>>

CommitBatch(q) ==
    /\ phase[q] = "written"
    /\ commitLog' = [commitLog EXCEPT ![q] = offsetLog[q]]
    /\ phase' = [phase EXCEPT ![q] = "idle"]
    /\ UNCHANGED <<topic, alive, version, offsetLog, table, failures>>

QueryFails(q) ==
    /\ phase[q] # "down"
    /\ failures < MaxFailures
    /\ phase' = [phase EXCEPT ![q] = "down"]
    /\ failures' = failures + 1
    /\ UNCHANGED <<topic, alive, version, checkpoint, table>>

(* The runner and the job *)

\* The runner stops both queries of a pipeline that has a failed one, in
\* whatever phase they are, and starts them again.
RestartPipeline ==
    /\ alive
    /\ \E q \in Queries : phase[q] = "down"
    /\ phase' = [q \in Queries |-> Resume(q)]
    /\ UNCHANGED <<topic, alive, version, checkpoint, table, failures>>

\* Graceful stop (the batch in flight is interrupted), exhausted retries, or a
\* crash of the driver.
EndRun ==
    /\ alive
    /\ failures < MaxFailures
    /\ alive' = FALSE
    /\ phase' = [q \in Queries |-> "down"]
    /\ failures' = failures + 1
    /\ UNCHANGED <<topic, version, checkpoint, table>>

\* Variant: the checkpoint path contains the run id, every run starts anew.
DeployAfresh ==
    /\ ~alive
    /\ alive' = TRUE
    /\ version' \in Versions
    /\ version' >= version
    /\ offsetLog' = [q \in Queries |-> 0]
    /\ commitLog' = [q \in Queries |-> 0]
    /\ txn' = [q \in Queries |-> 0]
    /\ phase' = [q \in Queries |-> "idle"]
    /\ UNCHANGED <<topic, rows, seen, failures>>

\* Variant: the DLQ query starts where the main query's checkpoint is.
DeployDlqAfresh ==
    /\ ~alive
    /\ alive' = TRUE
    /\ version' \in Versions
    /\ version' >= version
    /\ offsetLog' = [offsetLog EXCEPT !["dlq"] = offsetLog["main"]]
    /\ commitLog' = [commitLog EXCEPT !["dlq"] = offsetLog["main"]]
    /\ txn' = [txn EXCEPT !["dlq"] = offsetLog["main"]]
    /\ phase' = [q \in Queries |-> IF q = "dlq" THEN "idle" ELSE Resume(q)]
    /\ UNCHANGED <<topic, rows, seen, failures>>

\* The job runs again, with the same or a later release, on the checkpoints of
\* the run before: their paths depend on the application and topic only.
Deploy ==
    /\ ~alive
    /\ alive' = TRUE
    /\ version' \in Versions
    /\ version' >= version
    /\ phase' = [q \in Queries |-> Resume(q)]
    /\ UNCHANGED <<topic, checkpoint, table, failures>>

QueryStep(q) == PlanBatch(q) \/ WriteBatch(q) \/ SkipBatch(q) \/ CommitBatch(q)

Next ==
    \/ Produce \/ Expire \/ RestartPipeline \/ EndRun \/ Deploy
    \/ \E q \in Queries : QueryStep(q) \/ QueryFails(q)

Spec == Init /\ [][Next]_vars

\* The engine runs its micro-batches, the runner answers failures, and the
\* continuous job is started again; records need not come.
Fairness ==
    /\ \A q \in Queries : WF_vars(QueryStep(q))
    /\ WF_vars(RestartPipeline)
    /\ WF_vars(Deploy)

FairSpec == Spec /\ Fairness

-----------------------------------------------------------------------------
(* Properties *)

TypeOK ==
    /\ verdict \in [Versions -> [Offsets -> {"main", "dlq", "drop"}]]
    /\ end \in 0..MaxOffset
    /\ low \in 1..(MaxOffset + 1)
    /\ alive \in BOOLEAN
    /\ version \in Versions
    /\ phase \in [Queries -> {"down", "idle", "planned", "written"}]
    /\ offsetLog \in [Queries -> 0..end]
    /\ commitLog \in [Queries -> 0..end]
    /\ txn \in [Queries -> 0..end]
    /\ rows \in [Queries -> [Offsets -> Nat]]
    /\ seen \in [Queries -> [Offsets -> Versions \cup {0, -1}]]
    /\ failures \in 0..MaxFailures

\* A query never leaves its logs in a state the other log contradicts: the
\* table is at the last committed or at the last planned batch.
LogsAgree ==
    \A q \in Queries :
        /\ commitLog[q] <= offsetLog[q]
        /\ txn[q] \in {commitLog[q], offsetLog[q]}
        /\ phase[q] = "idle" => commitLog[q] = offsetLog[q]
        /\ phase[q] = "planned" => commitLog[q] < offsetLog[q]
        /\ phase[q] = "written" =>
               commitLog[q] < offsetLog[q] /\ txn[q] = offsetLog[q]
        /\ phase[q] # "down" => alive

\* The table holds what its log says it took, once, and nothing else.
TableIsTaken ==
    \A q \in Queries, o \in Offsets :
        /\ seen[q][o] # 0 <=> o <= txn[q]
        /\ rows[q][o] = IF seen[q][o] \in Versions /\ verdict[seen[q][o]][o] = q
                        THEN 1 ELSE 0

\* The inductive invariant.
IInv == TypeOK /\ LogsAgree /\ TableIsTaken

\* Whatever fails and is replayed, no record is twice in a table (framework
\* README:102).
WrittenOnce == \A q \in Queries, o \in Offsets : rows[q][o] <= 1

\* A record that both queries processed under the same release, before the
\* broker dropped it, is in exactly one of the two tables exactly once, unless
\* a rule dropped it.
RoutedToOneTable ==
    \A o \in Offsets :
        LET v == seen["main"][o]
        IN  v \in Versions /\ v = seen["dlq"][o] =>
                rows["main"][o] + rows["dlq"][o] =
                    (IF verdict[v][o] = "drop" THEN 0 ELSE 1)

\* A committed batch stays committed and its rows stay as they are, across
\* restarts and releases.
CommittedIsFinal ==
    [][\A q \in Queries, o \in Offsets :
          o <= commitLog[q] =>
              o <= commitLog'[q] /\ rows'[q][o] = rows[q][o]]_vars

\* Every record that is produced is eventually processed by both queries.
RecordsArrive ==
    \A o \in Offsets : o <= end ~>
        \A q \in Queries : o <= commitLog[q] /\ seen[q][o] # 0

\* Claim, framework README:104-105: "parsers flag _dfx_error, records land in
\* the DLQ with full provenance for replay".
PoisonLandsInDlq ==
    \A o \in Offsets, v \in Versions :
        /\ seen["main"][o] = v /\ verdict[v][o] = "dlq"
        /\ o <= commitLog["dlq"]
        => rows["dlq"][o] = 1

\* What the pipeline promises, with the end of the last written batch as the
\* offset the table is at.
Atomic == INSTANCE AtomicIngest WITH upto <- txn
AtomicSpec == Atomic!Spec
=============================================================================
