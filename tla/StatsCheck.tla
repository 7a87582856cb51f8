------------------------------ MODULE StatsCheck ------------------------------
(***************************************************************************)
(* The validation of a statistics table (src/diagnostic_notebook.py, cells *)
(* B3 to B5).                                                              *)
(*                                                                         *)
(* The table is written by a job outside the repository: for each table    *)
(* monitored, window type and slice one row (notebook:148-152), the count  *)
(* of the records it put in that slice, by event time or, if it has the    *)
(* fault the notebook looks for, by processing time.  One row of it may    *)
(* then be missing, doubled or wrong.  SQL works on bags, and B3 to B5     *)
(* neither select nor group nor join by table_name: a cell of the table is *)
(* the sequence of the counts there are for a window type and a slice.     *)
(***************************************************************************)
EXTENDS Integers, Sequences, FiniteSets, FiniteSetsExt

CONSTANTS
    NumSlices,      \* bound: slices of five minutes in the table
    SlicesPerHour,  \* 12 of them make a clock hour
    NumRecords,     \* bound: records
    MaxTables       \* bound: monitored tables

ASSUME StatsCheckAssumption ==
    {NumSlices, SlicesPerHour, NumRecords, MaxTables} \subseteq Nat \ {0}

Slice == 1..NumSlices
Kinds == {"missing", "doubled", "wrong"}
Derived == {"FIFTEEN_MINUTES", "SIXTY_MINUTES"}
WindowType == {"FIVE_MINUTES"} \cup Derived

VARIABLES
    tables,     \* the monitored tables are 1..tables
    records,    \* records[r]: its table and the slices of its two times
    bucketing,  \* the time the writer counts by
    table,      \* table[w][s]: the counts of the rows of type w for slice s
    fault,      \* the row that is not as the writer wrote it, if any
    result      \* what cell B5 prints

statsVars == <<tables, records, bucketing, table, fault, result>>

-----------------------------------------------------------------------------
(* The table as its writer fills it *)

\* The five-minute slices a window that ends with slice s covers.
Covers(w, s) ==
    CASE w = "FIVE_MINUTES" -> {s}
      [] w = "FIFTEEN_MINUTES" -> {t \in Slice : s - 3 < t /\ t <= s}
      [] w = "SIXTY_MINUTES" ->
            {t \in Slice : /\ (t - 1) \div SlicesPerHour = (s - 1) \div SlicesPerHour
                           /\ t <= s}

\* What the writer counts for table i, and the rows it writes
Count(w, s, i) ==
    Cardinality({r \in 1..NumRecords :
        records[r].table = i /\ records[r][bucketing] \in Covers(w, s)})

Written(w, s) == [i \in 1..tables |-> Count(w, s, i)]

-----------------------------------------------------------------------------
(* Cells B3 to B5: what the five-minute rows lead to expect *)

Five(s) == table["FIVE_MINUTES"][s]

\* SUM over the values of a function, the counts of rows or sums of them
Sum(counts) == MapThenSumSet(LAMBDA i : counts[i], DOMAIN counts)

\* All that the five-minute rows of some slices count
FiveTotal(slices) == Sum([t \in slices |-> Sum(Five(t))])

\* B3: each five-minute row of slice s joins all rows in (s - 3, s]; the
\* group is the slice, so rows of one slice add up.
ExpectedFifteen(s) ==
    IF Five(s) = <<>> THEN <<>>
    ELSE <<Len(Five(s)) * FiveTotal({t \in Slice : s - 3 < t /\ t <= s})>>

\* Variant: the hour of end_window_ts.
HourOfEnd(s) == s \div SlicesPerHour

\* date_trunc('HOUR', start_ts)
Hour(s) == (s - 1) \div SlicesPerHour

\* B4: the running sum over the rows of the hour, one result for each row; SQL
\* leaves open which of the rows of one slice is first.
ExpectedSixty(s) ==
    LET before == FiveTotal({t \in Slice : Hour(t) = Hour(s) /\ t < s})
    IN  [i \in DOMAIN Five(s) |-> before + Sum([j \in 1..i |-> Five(s)[j]])]

\* expected_all
Expected(w, s) ==
    IF w = "FIFTEEN_MINUTES" THEN ExpectedFifteen(s) ELSE ExpectedSixty(s)

\* B5: expected_all joined with the rows of its window type and slice.  What
\* has no partner is not in the join.
Mismatches(w, s) ==
    {pair \in (DOMAIN Expected(w, s)) \X (DOMAIN table[w][s]) :
        Expected(w, s)[pair[1]] # table[w][s][pair[2]]}

TotalMismatches ==
    Sum([x \in Derived \X Slice |-> Cardinality(Mismatches(x[1], x[2]))])

-----------------------------------------------------------------------------
\* Slice 0: a time outside the table, or an event time that cannot be read.
Records ==
    [table : 1..tables, event : 0..NumSlices, processing : 0..NumSlices]

\* Records are numbered in the order they are processed.
StatsInit ==
    /\ tables \in 1..MaxTables
    /\ records \in [1..NumRecords -> Records]
    /\ \A r \in 1..(NumRecords - 1) :
          records[r].processing <= records[r + 1].processing
    /\ bucketing \in {"event", "processing"}
    /\ table = [w \in WindowType |-> [s \in Slice |-> Written(w, s)]]
    /\ fault = [kind |-> "none"]
    /\ result = "none"

\* The rows left where one gets lost, is written twice or has another count.
\* Which monitored table it is makes no difference.
Damaged(kind, rows) ==
    CASE kind = "missing" -> Tail(rows)
      [] kind = "doubled" -> Append(rows, rows[1])
      [] kind = "wrong" -> [rows EXCEPT ![1] = @ + 1]

Damage(kind, w, s) ==
    /\ fault.kind = "none"
    /\ result = "none"
    /\ fault' = [kind |-> kind, type |-> w, slice |-> s]
    /\ table' = [table EXCEPT ![w][s] = Damaged(kind, @)]
    /\ UNCHANGED <<tables, records, bucketing, result>>

\* Cell B5
Validate ==
    /\ result = "none"
    /\ result' = IF TotalMismatches = 0 THEN "PASS" ELSE "FAIL"
    /\ UNCHANGED <<tables, records, bucketing, table, fault>>

\* The notebook has printed its result.
Done == result # "none" /\ UNCHANGED statsVars

StatsNext ==
    \/ \E kind \in Kinds, w \in WindowType, s \in Slice :
            Damage(kind, w, s)
    \/ Validate
    \/ Done

StatsSpec == StatsInit /\ [][StatsNext]_statsVars
-----------------------------------------------------------------------------
(* Properties *)

\* For one monitored table: rows as their writer wrote them are not alarmed,
\* at no boundary of an hour and not at the beginning of the table either.  One
\* damaged row is reported wherever the five-minute rows contradict the other
\* ones: always if a count is wrong; if a five-minute row with records is
\* missing and has a successor; if a five-minute row is doubled where there are
\* records.  A derived row that is missing, or there twice, leaves no trace in
\* the join.  Several monitored tables are alarmed when anything is counted,
\* correct rows or not.
\*
\* PASS is printed as "no delay / count drift" (notebook:305), but whether the
\* writer counts by event or by processing time makes no difference to it.
VerdictIsRight ==
    /\ tables = 1 /\ result = "FAIL" => fault.kind # "none"
    /\ tables = 1 /\ result = "PASS" =>
        CASE fault.kind = "none" -> TRUE
          [] fault.kind = "wrong" -> FALSE
          [] fault.kind = "missing" ->
                \/ fault.type \in Derived
                \/ fault.slice = NumSlices
                \/ Count("FIVE_MINUTES", fault.slice, 1) = 0
          [] fault.kind = "doubled" ->
                \/ fault.type \in Derived
                \/ Count("FIFTEEN_MINUTES", fault.slice, 1) = 0
    /\ tables > 1 /\ fault.kind = "none" =>
        (result = "PASS" => \A r \in 1..NumRecords : records[r][bucketing] \notin Slice)

-----------------------------------------------------------------------------
(* The inductive invariant behind it *)

StatsTypeOK ==
    /\ tables \in 1..MaxTables
    /\ records \in [1..NumRecords -> Records]
    /\ bucketing \in {"event", "processing"}
    /\ table \in [WindowType -> [Slice -> Seq(Nat)]]
    /\ fault \in [kind : {"none"}] \cup [kind : Kinds, type : WindowType, slice : Slice]
    /\ result \in {"none", "PASS", "FAIL"}

\* Every row counts what the writer counts, but for the damaged one.
WrittenButOne ==
    \A w \in WindowType, s \in Slice :
        table[w][s] = IF fault.kind # "none" /\ fault.type = w /\ fault.slice = s
                      THEN Damaged(fault.kind, Written(w, s))
                      ELSE Written(w, s)

\* The verdict is about the table as it is.
VerdictOnTable ==
    result # "none" => (result = "PASS" <=> TotalMismatches = 0)

StatsInv == StatsTypeOK /\ WrittenButOne /\ VerdictOnTable
=============================================================================
