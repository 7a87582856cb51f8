------------------------------- MODULE MergeSink -------------------------------
(***************************************************************************)
(* The Delta sink in merge mode (sinks/delta_sink.py, _merge_batch): each  *)
(* micro-batch is deduplicated on the merge keys and then creates the      *)
(* table or is merged into it.  All topics of an application share the     *)
(* application's sink unless they override it, so several pipelines merge  *)
(* into one table, each replaying its last batch after a failure.  Unlike  *)
(* an append, a merge is not tagged with its batch: a replay merges again. *)
(*                                                                         *)
(* A topic is the sequence of the keys of its records, all of them already *)
(* in the broker.                                                          *)
(***************************************************************************)
EXTENDS Integers

CONSTANTS
    Writers,      \* topic pipelines that share the table
    Keys,         \* values of the merge keys
    NumRecords,   \* records of each topic
    MaxBatch,     \* bound: records of a micro-batch
    MaxFailures   \* bound: failures, not counting lost races

ASSUME MergeAssumption == NumRecords \in Nat /\ MaxBatch \in Nat /\ MaxFailures \in Nat

Offsets == 1..NumRecords
\* A row remembers, besides its key, the record and the batch it came from.
Rows == [key : Keys, writer : Writers, offset : Offsets, batch : Offsets]

VARIABLES
    keyOf,      \* keyOf[w][o]: key of record o of w's topic
    exists,     \* the table exists
    table,      \* its rows
    phase,      \* phase[w]: where w is in its batch
    planned,    \* planned[w]: checkpoint, end of the last planned batch
    committed,  \* committed[w]: checkpoint, end of the last committed batch
    wrote,      \* history, wrote[w]: end of the last batch in the table
    failures    \* history: failures so far

vars == <<keyOf, exists, table, phase, planned, committed, wrote, failures>>

Batch(w) == {o \in Offsets : committed[w] < o /\ o <= planned[w]}

\* Row of record o in the batch at hand.
RowOf(w, o) ==
    [key |-> keyOf[w][o], writer |-> w, offset |-> o, batch |-> planned[w]]

\* Variant: the batch is not deduplicated.
NotDeduplicated(w) == {{RowOf(w, o) : o \in Batch(w)}}

\* batch_df.dropDuplicates(keys): one record of every key, any of them.
Deduplicated(w) ==
    {{RowOf(w, o) : o \in chosen} : chosen \in
        {c \in SUBSET Batch(w) :
            \A o \in Batch(w) : \E o1 \in c :
                /\ keyOf[w][o1] = keyOf[w][o]
                /\ \A o2 \in c : keyOf[w][o2] = keyOf[w][o] => o2 = o1}}

Init ==
    /\ keyOf \in [Writers -> [Offsets -> Keys]]
    /\ exists = FALSE
    /\ table = {}
    /\ phase = [w \in Writers |-> "idle"]
    /\ planned = [w \in Writers |-> 0]
    /\ committed = [w \in Writers |-> 0]
    /\ wrote = [w \in Writers |-> 0]
    /\ failures = 0

PlanBatch(w) ==
    /\ phase[w] = "idle"
    /\ \E n \in Offsets :
        /\ planned[w] < n /\ n <= planned[w] + MaxBatch
        /\ planned' = [planned EXCEPT ![w] = n]
    /\ phase' = [phase EXCEPT ![w] = "planned"]
    /\ UNCHANGED <<keyOf, exists, table, committed, wrote, failures>>

\* Variant: batch_id = 0 decides whether the table is created.
CheckFirst(w) ==
    /\ phase[w] = "planned"
    /\ phase' = [phase EXCEPT ![w] = IF committed[w] = 0 THEN "create" ELSE "merge"]
    /\ UNCHANGED <<keyOf, exists, table, planned, committed, wrote, failures>>

\* spark.catalog.tableExists(table)
CheckTable(w) ==
    /\ phase[w] = "planned"
    /\ phase' = [phase EXCEPT ![w] = IF exists THEN "merge" ELSE "create"]
    /\ UNCHANGED <<keyOf, exists, table, planned, committed, wrote, failures>>

\* Variant: the table is created with mode("overwrite").
CreateOverwrites(w) ==
    /\ phase[w] = "create"
    /\ exists' = TRUE
    /\ table' \in Deduplicated(w)
    /\ wrote' = [wrote EXCEPT ![w] = planned[w]]
    /\ phase' = [phase EXCEPT ![w] = "written"]
    /\ UNCHANGED <<keyOf, planned, committed, failures>>

\* saveAsTable in its default mode, errorifexists
CreateTable(w) ==
    /\ phase[w] = "create"
    /\ ~exists
    /\ exists' = TRUE
    /\ table' \in Deduplicated(w)
    /\ wrote' = [wrote EXCEPT ![w] = planned[w]]
    /\ phase' = [phase EXCEPT ![w] = "written"]
    /\ UNCHANGED <<keyOf, planned, committed, failures>>

\* Another pipeline created the table since the check: the batch fails.
CreateRaises(w) ==
    /\ phase[w] = "create"
    /\ exists
    /\ phase' = [phase EXCEPT ![w] = "down"]
    /\ UNCHANGED <<keyOf, exists, table, planned, committed, wrote, failures>>

\* Variant: only whenNotMatchedInsertAll.
InsertNew(w) ==
    /\ phase[w] = "merge"
    /\ \E rows \in Deduplicated(w) :
        table' = table \cup {r \in rows : \A t \in table : t.key # r.key}
    /\ wrote' = [wrote EXCEPT ![w] = planned[w]]
    /\ phase' = [phase EXCEPT ![w] = "written"]
    /\ UNCHANGED <<keyOf, exists, planned, committed, failures>>

\* MERGE on the keys: matched rows are replaced, the others inserted.
Merge(w) ==
    /\ phase[w] = "merge"
    /\ \E rows \in Deduplicated(w) :
        table' = {t \in table : \A r \in rows : r.key # t.key} \cup rows
    /\ wrote' = [wrote EXCEPT ![w] = planned[w]]
    /\ phase' = [phase EXCEPT ![w] = "written"]
    /\ UNCHANGED <<keyOf, exists, planned, committed, failures>>

CommitBatch(w) ==
    /\ phase[w] = "written"
    /\ committed' = [committed EXCEPT ![w] = planned[w]]
    /\ phase' = [phase EXCEPT ![w] = "idle"]
    /\ UNCHANGED <<keyOf, exists, table, planned, wrote, failures>>

\* Any failure, a conflicting concurrent merge among them.
QueryFails(w) ==
    /\ phase[w] # "down"
    /\ failures < MaxFailures
    /\ phase' = [phase EXCEPT ![w] = "down"]
    /\ failures' = failures + 1
    /\ UNCHANGED <<keyOf, exists, table, planned, committed, wrote>>

\* The runner restarts the pipeline, which replays its planned batch.
Restart(w) ==
    /\ phase[w] = "down"
    /\ phase' = [phase EXCEPT ![w] =
           IF committed[w] < planned[w] THEN "planned" ELSE "idle"]
    /\ UNCHANGED <<keyOf, exists, table, planned, committed, wrote, failures>>

WriterStep(w) ==
    \/ PlanBatch(w) \/ CheckTable(w) \/ CreateTable(w) \/ CreateRaises(w)
    \/ Merge(w) \/ CommitBatch(w) \/ Restart(w)

Next == \E w \in Writers : WriterStep(w) \/ QueryFails(w)

Spec == Init /\ [][Next]_vars

\* Every pipeline is scheduled, and restarted when it failed.
FairSpec == Spec /\ \A w \in Writers : WF_vars(WriterStep(w))

-----------------------------------------------------------------------------
(* Properties *)

TypeOK ==
    /\ keyOf \in [Writers -> [Offsets -> Keys]]
    /\ exists \in BOOLEAN
    /\ table \subseteq Rows
    /\ phase \in [Writers -> {"idle", "planned", "create", "merge", "written",
                              "down"}]
    /\ planned \in [Writers -> 0..NumRecords]
    /\ committed \in [Writers -> 0..NumRecords]
    /\ wrote \in [Writers -> 0..NumRecords]
    /\ failures \in 0..MaxFailures

\* The logs of a pipeline bracket what it has written; nothing is in a table
\* that does not exist.
LogsAgree ==
    /\ table # {} => exists
    /\ \A w \in Writers :
        /\ committed[w] <= planned[w]
        /\ wrote[w] \in {committed[w], planned[w]}
        /\ phase[w] = "idle" => committed[w] = planned[w]
        /\ phase[w] \in {"planned", "create", "merge", "written"} =>
               committed[w] < planned[w]
        /\ phase[w] = "written" => wrote[w] = planned[w]
        /\ phase[w] = "merge" => exists

\* The table never has two rows with one key, however often batches are
\* replayed and whoever creates the table (delta_sink.py:5-6, "reprocessing
\* after failure cannot duplicate rows").
KeysUnique == \A r, t \in table : r.key = t.key => r = t

\* The keys of every batch that was written stay in the table, whatever other
\* pipelines and replays do to it.
NoKeyLost ==
    \A w \in Writers, o \in Offsets :
        o <= wrote[w] => \E r \in table : r.key = keyOf[w][o]

\* A row comes from a batch of its pipeline, and no later batch that pipeline
\* has written contains its key: replays do not bring an older batch back.
NewerBatchWins ==
    \A r \in table :
        /\ r.offset <= r.batch
        /\ r.batch <= wrote[r.writer]
        /\ keyOf[r.writer][r.offset] = r.key
        /\ \A o \in Offsets :
              r.batch < o /\ o <= wrote[r.writer] => keyOf[r.writer][o] # r.key

IInv == TypeOK /\ LogsAgree /\ KeysUnique /\ NoKeyLost /\ NewerBatchWins

\* Every pipeline gets through its topic, the one that loses the race to create
\* the table too.
AllCommitted == \A w \in Writers : <>(committed[w] = NumRecords)
=============================================================================
