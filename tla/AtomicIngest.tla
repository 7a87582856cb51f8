----------------------------- MODULE AtomicIngest -----------------------------
(***************************************************************************)
(* What a topic pipeline promises about its two tables: each table takes   *)
(* the records of the topic in offset order, a batch at a time, atomically,*)
(* each record once and only into the table that the deployed code routes  *)
(* it to.  There are no checkpoints, crashes or replays at this level.     *)
(***************************************************************************)
EXTENDS Integers

CONSTANTS
    MaxOffset,   \* records of the topic
    MaxVersion   \* releases of the application's code

Offsets == 1..MaxOffset
Versions == 1..MaxVersion
Tables == {"main", "dlq"}

VARIABLES
    verdict,  \* verdict[v][o]: where release v routes record o
    end,      \* last offset produced
    low,      \* first offset the broker still keeps
    version,  \* the deployed release
    upto,     \* upto[t]: the offsets table t has taken
    rows      \* rows[t][o]: copies of record o in table t

avars == <<verdict, end, low, version, upto, rows>>

\* The table after it took the offsets of a range, those still kept.
Taken(t, range) ==
    [o \in Offsets |->
        rows[t][o] + IF o \in range /\ o >= low /\ verdict[version][o] = t
                     THEN 1 ELSE 0]

Init ==
    /\ verdict \in [Versions -> [Offsets -> {"main", "dlq", "drop"}]]
    /\ end = 0
    /\ low = 1
    /\ version = 1
    /\ upto = [t \in Tables |-> 0]
    /\ rows = [t \in Tables |-> [o \in Offsets |-> 0]]

Produce ==
    /\ end < MaxOffset
    /\ end' = end + 1
    /\ UNCHANGED <<verdict, low, version, upto, rows>>

Expire ==
    /\ low <= end
    /\ low' = low + 1
    /\ UNCHANGED <<verdict, end, version, upto, rows>>

Release ==
    /\ version' \in Versions
    /\ version' >= version
    /\ UNCHANGED <<verdict, end, low, upto, rows>>

Deliver(t) ==
    /\ \E n \in Offsets :
        /\ upto[t] < n /\ n <= end
        /\ upto' = [upto EXCEPT ![t] = n]
        /\ rows' = [rows EXCEPT ![t] = Taken(t, (upto[t] + 1)..n)]
    /\ UNCHANGED <<verdict, end, low, version>>

Next == Produce \/ Expire \/ Release \/ \E t \in Tables : Deliver(t)

Spec == Init /\ [][Next]_avars
=============================================================================
