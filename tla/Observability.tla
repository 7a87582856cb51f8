----------------------------- MODULE Observability -----------------------------
(***************************************************************************)
(* Metric and audit events of one run: the streaming query listener        *)
(* (observability/listener.py), the metric events (metrics.py), the        *)
(* publishers (publishers.py), the audit logger (audit/audit.py) and       *)
(* PipelineRunner.run from addListener to the last close().                *)
(*                                                                         *)
(* Two threads.  The runner starts and stops queries, writes audit records *)
(* and at last detaches the listener and closes the publishers.  The       *)
(* listener thread takes the events Spark has queued, in posting order,    *)
(* converts each and hands it to one publisher after the other.  Spark's   *)
(* queue is external: it is bounded and drops what it cannot hold, and     *)
(* removeListener waits for nothing.                                       *)
(*                                                                         *)
(* An event is its position in the log of everything posted.               *)
(***************************************************************************)
EXTENDS Integers, Sequences, FiniteSets

CONSTANTS
    Query,         \* the queries of the run
    Publishers,    \* observability.publishers: the type of each, in order
    Payloads,      \* what a progress report says of sources and state
    QueueCapacity, \* what Spark's listener queue holds
    MaxProgress,   \* bound: progress events posted
    MaxRestarts    \* bound: restarts of queries

PublisherType == {"log", "delta", "http", "plugin"}
Null == -1          \* None: no such metric, no sum
DecimalText == -2   \* a number reported as "4.0"
Measured == {Null, DecimalText} \cup Nat
Source == [bytes : Measured, offsets : Measured]
Payload == [sources : Seq(Source), operators : Seq(Measured)]

ASSUME ObservabilityAssumption ==
    /\ Publishers \in Seq(PublisherType)
    /\ Payloads \subseteq Payload
    /\ QueueCapacity \in Nat /\ MaxProgress \in Nat /\ MaxRestarts \in Nat

Publisher == 1..Len(Publishers)

VARIABLES
    pc,         \* next statement of the runner
    toStart,    \* queries run() has still to start
    toStop,     \* queries stop_all has still to look at
    query,      \* query[q]: "new", "up", "failed" or "stopped"
    restarts,   \* restarts so far
    replaced,   \* queries restarted in this sweep of _supervise
    error,      \* the exception run() ends with, or "none"
    listening,  \* the listener is attached
    closed,     \* publishers closed so far
    log,        \* history: every event posted
    waiting,    \* Spark's queue: events not yet taken
    taken,      \* the last event the listener thread took
    heard,      \* history: events the listener was called with
    turn,       \* the publisher whose turn it is, 0 when no event is at hand
    hung,       \* a publish call never returns
    stored,     \* stored[p]: the events publisher p has delivered, in order
    lost,       \* history, lost[p]: events p was handed and did not deliver
    late        \* history: <<p, event>> handed over after p was closed

run == <<pc, toStart, toStop, query, restarts, replaced, error, listening,
         closed>>
posted == <<log, waiting>>
fanout == <<taken, heard, turn, hung, stored, lost, late>>
vars == <<run, posted, fanout>>

-----------------------------------------------------------------------------
(* metrics.py *)

\* int() raises for a decimal written as text, whatever it counts, and for a
\* state operator that reports null; a source that reports null is skipped.
Convertible(payload) ==
    /\ \A i \in DOMAIN payload.sources :
          DecimalText \notin {payload.sources[i].bytes, payload.sources[i].offsets}
    /\ \A i \in DOMAIN payload.operators :
          payload.operators[i] \notin {DecimalText, Null}

\* _sum_source_metric: null when no source reports the metric.  values[i] is
\* what source i reports.
SumSourceMetric(values) ==
    LET total[n \in 0..Len(values)] ==
            IF n = 0 THEN Null
            ELSE IF values[n] = Null THEN total[n - 1]
            ELSE IF total[n - 1] = Null THEN values[n]
            ELSE total[n - 1] + values[n]
    IN total[Len(values)]

BytesBehind(payload) ==
    SumSourceMetric([i \in DOMAIN payload.sources |-> payload.sources[i].bytes])

OffsetsBehind(payload) ==
    SumSourceMetric([i \in DOMAIN payload.sources |-> payload.sources[i].offsets])

\* Variant: falls back to the offsets only when no source reports bytes.
LagIfNone(payload) ==
    IF BytesBehind(payload) # Null THEN BytesBehind(payload)
                                     ELSE OffsetsBehind(payload)

\* consumer_lag_offsets: `or` takes the second sum for a first one that is
\* null or 0.
ConsumerLag(payload) ==
    IF BytesBehind(payload) \in {Null, 0} THEN OffsetsBehind(payload)
                                            ELSE BytesBehind(payload)

\* progress_to_event and termination_event
ProgressEvent(q, payload) ==
    [type |-> "progress", query |-> q, failed |-> FALSE, payload |-> payload]
TerminationEvent(q, exception) ==
    [type |-> "terminated", query |-> q, failed |-> exception,
     payload |-> [sources |-> <<>>, operators |-> <<>>]]

-----------------------------------------------------------------------------
Init ==
    /\ pc = "attach"
    /\ toStart = Query
    /\ toStop = {}
    /\ query = [q \in Query |-> "new"]
    /\ restarts = 0
    /\ replaced = {}
    /\ error = "none"
    /\ listening = FALSE
    /\ closed = 0
    /\ log = <<>>
    /\ waiting = {}
    /\ taken = 0
    /\ heard = {}
    /\ turn = 0
    /\ hung = FALSE
    /\ stored = [p \in Publisher |-> <<>>]
    /\ lost = [p \in Publisher |-> {}]
    /\ late = {}

\* Spark posts an event to the listener's queue; a full queue drops it.
Post(event) ==
    /\ log' = Append(log, event)
    /\ waiting' = IF Cardinality(waiting) < QueueCapacity
                  THEN waiting \cup {Len(log')} ELSE waiting

-----------------------------------------------------------------------------
(* The runner.  A record that AuditLogger cannot write is only logged, and *)
(* the caller goes on; AuditHangs is the write that never returns.         *)

work == <<toStart, toStop, query, restarts, replaced>>
ending == <<error, listening, closed>>

Attach ==
    /\ pc = "attach"
    /\ listening' = TRUE
    /\ pc' = "build"
    /\ UNCHANGED <<work, error, closed, posted, fanout>>

Build ==
    /\ pc = "build"
    /\ pc' = "launch"
    /\ UNCHANGED <<work, ending, posted, fanout>>

\* The builder or a start raises before the try of run(): the listener stays
\* attached, the publishers stay open.
StartupRaises ==
    /\ pc \in {"build", "launch"}
    /\ error' = "start"
    /\ pc' = "over"
    /\ UNCHANGED <<work, listening, closed, posted, fanout>>

\* _start_pipeline
Launch(q) ==
    /\ pc = "launch"
    /\ q \in toStart
    /\ toStart' = toStart \ {q}
    /\ query' = [query EXCEPT ![q] = "up"]
    /\ UNCHANGED <<pc, toStop, restarts, replaced, ending, posted, fanout>>

LaunchDone ==
    /\ pc = "launch"
    /\ toStart = {}
    /\ pc' = "supervise"
    /\ UNCHANGED <<work, ending, posted, fanout>>

Restart(q) ==
    /\ pc = "supervise"
    /\ query[q] = "failed"
    /\ restarts < MaxRestarts
    /\ restarts' = restarts + 1
    /\ replaced' = replaced \cup {q}
    /\ query' = [query EXCEPT ![q] = "up"]
    /\ UNCHANGED <<pc, toStart, toStop, ending, posted, fanout>>

\* Something was active: the next look at the queries sees the new ones.
NextSweep ==
    /\ pc = "supervise"
    /\ replaced # {}
    /\ replaced' = {}
    /\ UNCHANGED <<pc, toStart, toStop, query, restarts, ending, posted,
                   fanout>>

\* A start raises inside _supervise: the finally clause runs, nothing is
\* audited.
RestartRaises ==
    /\ pc = "supervise"
    /\ \E q \in Query : query[q] = "failed"
    /\ error' = "start"
    /\ pc' = "detach"
    /\ UNCHANGED <<work, listening, closed, posted, fanout>>

\* _stop_everything: for the marker or an interrupt, after which run()
\* returns, or for a failed query under fail_fast or with its budget spent,
\* after which it raises.
BeginStop ==
    /\ pc = "supervise"
    /\ \/ error' = "none"
       \/ error' = "PipelineError" /\ \E q \in Query : query[q] = "failed"
    /\ toStop' = Query
    /\ pc' = "stopping"
    /\ UNCHANGED <<toStart, query, restarts, replaced, listening, closed,
                   posted, fanout>>

\* A query that is not active is passed over.
StopPasses(q) ==
    /\ pc = "stopping"
    /\ q \in toStop
    /\ query[q] # "up"
    /\ toStop' = toStop \ {q}
    /\ UNCHANGED <<pc, toStart, query, restarts, replaced, ending, posted,
                   fanout>>

\* stop() ends the query, which is an event as well.
Stop(q) ==
    /\ pc = "stopping"
    /\ q \in toStop
    /\ query[q] = "up"
    /\ toStop' = toStop \ {q}
    /\ query' = [query EXCEPT ![q] = "stopped"]
    /\ Post(TerminationEvent(q, FALSE))
    /\ UNCHANGED <<pc, toStart, restarts, replaced, ending, fanout>>

\* stop() raises, which is logged and swallowed.
StopRaises(q) ==
    /\ pc = "stopping"
    /\ q \in toStop
    /\ query[q] = "up"
    /\ toStop' = toStop \ {q}
    /\ UNCHANGED <<pc, toStart, query, restarts, replaced, ending, posted,
                   fanout>>

\* No query was active in this sweep: of those restarted in it, the old ones
\* were looked at.
NoneActive == \A q \in Query \ replaced : query[q] # "up"

\* audit.run_stopped, after the stop or when every query has finished
RunStopped ==
    /\ \/ pc = "stopping" /\ toStop = {}
       \/ pc = "supervise" /\ NoneActive
    /\ pc' = "detach"
    /\ UNCHANGED <<work, ending, posted, fanout>>

\* The append to the audit table, before any of the steps that record, never
\* returns.
AuditHangs ==
    /\ \/ pc = "build"
       \/ pc = "launch" /\ toStart # {}
       \/ pc = "supervise" /\ (NoneActive \/ \E q \in Query : query[q] = "failed")
       \/ pc = "stopping" /\ toStop = {}
    /\ pc' = "blocked"
    /\ UNCHANGED <<work, ending, posted, fanout>>


\* Variant: removeListener after the publishers are closed.
DetachLast ==
    /\ pc = "detach"
    /\ pc' = "close"
    /\ UNCHANGED <<work, ending, posted, fanout>>

\* removeListener: the events in the queue and the call in progress are left
\* to themselves.
Detach ==
    /\ pc = "detach"
    /\ listening' = FALSE
    /\ pc' = "close"
    /\ UNCHANGED <<work, error, closed, posted, fanout>>

Close ==
    /\ pc = "close"
    /\ closed < Len(Publishers)
    /\ closed' = closed + 1
    /\ UNCHANGED <<pc, work, error, listening, posted, fanout>>

\* Only a plugin has a close() that does anything; nothing catches what it
\* raises, which replaces what run() was ending with, and the publishers
\* after it stay open.
CloseRaises ==
    /\ pc = "close"
    /\ closed < Len(Publishers)
    /\ Publishers[closed + 1] = "plugin"
    /\ error' = "close"
    /\ pc' = "over"
    /\ UNCHANGED <<work, listening, closed, posted, fanout>>

CloseDone ==
    /\ pc = "close"
    /\ closed = Len(Publishers)
    /\ pc' = "over"
    /\ UNCHANGED <<work, ending, posted, fanout>>

-----------------------------------------------------------------------------
(* The queries *)

Progresses(q, payload) ==
    /\ query[q] = "up"
    /\ Cardinality({e \in DOMAIN log : log[e].type = "progress"}) < MaxProgress
    /\ Post(ProgressEvent(q, payload))
    /\ UNCHANGED <<run, fanout>>

Fails(q) ==
    /\ query[q] = "up"
    /\ query' = [query EXCEPT ![q] = "failed"]
    /\ Post(TerminationEvent(q, TRUE))
    /\ UNCHANGED <<pc, toStart, toStop, restarts, replaced, ending, fanout>>

-----------------------------------------------------------------------------
(* The listener thread *)

\* Variant: an event that cannot be converted stays at hand.
HandOver(e) ==
    /\ Convertible(log[e].payload)
    /\ turn' = IF listening /\ Publishers # <<>> THEN 1 ELSE 0

\* onQueryProgress, onQueryTerminated: an event that cannot be converted is
\* logged and passed over.
Convert(e) ==
    turn' = IF listening /\ Convertible(log[e].payload) /\ Publishers # <<>>
            THEN 1 ELSE 0

\* The oldest waiting event.  Without a listener Spark discards it.
TakeEvent ==
    /\ ~hung
    /\ turn = 0
    /\ \E e \in waiting :
        /\ \A f \in waiting : e <= f
        /\ taken' = e
        /\ waiting' = waiting \ {e}
        /\ heard' = IF listening THEN heard \cup {e} ELSE heard
        /\ Convert(e)
    /\ UNCHANGED <<run, log, hung, stored, lost, late>>

NextTurn == turn' = IF turn < Len(Publishers) THEN turn + 1 ELSE 0

\* The publisher whose turn it is is called.
Call ==
    /\ ~hung
    /\ turn # 0
    /\ late' = IF turn <= closed THEN late \cup {<<turn, taken>>} ELSE late

PublisherStores ==
    /\ Call
    /\ stored' = [stored EXCEPT ![turn] = Append(@, taken)]
    /\ NextTurn
    /\ UNCHANGED <<run, posted, taken, heard, hung, lost>>

\* Variant: one try around the whole loop.
PublisherEndsLoop ==
    /\ Call
    /\ Publishers[turn] # "log"
    /\ lost' = [lost EXCEPT ![turn] = @ \cup {taken}]
    /\ turn' = 0
    /\ UNCHANGED <<run, posted, taken, heard, hung, stored>>

\* Variant: the event is handed over again from the first publisher.
PublisherRetries ==
    /\ Call
    /\ Publishers[turn] # "log"
    /\ taken \notin lost[turn]
    /\ lost' = [lost EXCEPT ![turn] = @ \cup {taken}]
    /\ turn' = 1
    /\ UNCHANGED <<run, posted, taken, heard, hung, stored>>

\* The event does not arrive: delta and http swallow what goes wrong (http
\* does not look at the response either), a plugin's exception is caught in
\* _publish.  Either way the next publisher is called.
PublisherLoses ==
    /\ Call
    /\ Publishers[turn] # "log"
    /\ lost' = [lost EXCEPT ![turn] = @ \cup {taken}]
    /\ NextTurn
    /\ UNCHANGED <<run, posted, taken, heard, hung, stored>>

\* A table write or a plugin that never returns; http has a timeout.
PublisherHangs ==
    /\ Call
    /\ Publishers[turn] \in {"delta", "plugin"}
    /\ hung' = TRUE
    /\ UNCHANGED <<run, posted, taken, heard, turn, stored, lost>>

-----------------------------------------------------------------------------
Runner ==
    \/ Attach \/ Build \/ StartupRaises \/ LaunchDone \/ NextSweep
    \/ RestartRaises \/ BeginStop \/ RunStopped \/ AuditHangs
    \/ Detach \/ Close \/ CloseRaises \/ CloseDone
    \/ \E q \in Query : \/ Launch(q) \/ Restart(q)
                        \/ StopPasses(q) \/ Stop(q) \/ StopRaises(q)

Queries ==
    \E q \in Query :
        Fails(q) \/ \E payload \in Payloads : Progresses(q, payload)

Listener == TakeEvent \/ PublisherStores \/ PublisherLoses \/ PublisherHangs

Next == Runner \/ Queries \/ Listener

Spec == Init /\ [][Next]_vars

\* Both threads keep running; the runner does not have to leave supervise.
Fairness ==
    /\ WF_vars(Runner /\ pc # "supervise")
    /\ WF_vars(Listener)

FairSpec == Spec /\ Fairness
-----------------------------------------------------------------------------
(* Properties *)

Delivered(p, e) == \E i \in DOMAIN stored[p] : stored[p][i] = e

\* Publisher p has had its turn for event e.
Served(p, e) == e # taken \/ turn = 0 \/ p < turn

\* Every event the listener was called with and could convert has been
\* handed to every publisher: what one of them raises, swallows or loses
\* costs it its own event and nobody else's (listener.py:77-84).
FanOutComplete ==
    \A e \in heard : Convertible(log[e].payload) =>
        \A p \in Publisher : Served(p, e) =>
            e \in lost[p] \/ Delivered(p, e)

\* A publisher is called with events in the order they were posted, with
\* none twice, through losses and restarts: the last report it delivered is
\* the latest, and a failure follows the progress before it.
InPostingOrder ==
    \A p \in Publisher : \A i, j \in DOMAIN stored[p] :
        i < j => stored[p][i] < stored[p][j]

\* Closed publishers are called for one event at most, the one that was at
\* hand when the listener was removed (runner.py:83-85).
ClosedSeesOneEvent ==
    \A x, y \in late : x[2] = y[2]

\* Some source of the report is behind its topic.
Behind(payload) ==
    \E i \in DOMAIN payload.sources :
        payload.sources[i].bytes > 0 \/ payload.sources[i].offsets > 0

\* A report that is published never shows a backlog as none or unknown,
\* whichever source has it and whichever of the two metrics says so
\* (metrics.py:59-62).
BacklogShown ==
    \A p \in Publisher : \A i \in DOMAIN stored[p] :
        LET payload == log[stored[p][i]].payload
        IN  Behind(payload) => ConsumerLag(payload) > 0

\* The events of a run: every query fails or is stopped once more than it is
\* restarted.
Event == 1..(MaxProgress + Cardinality(Query) + MaxRestarts)

\* A failure that found room in the queue reaches every publisher (each
\* delivers or loses it) unless one of them hangs, the run detaches first
\* (operations-runbook.md:65, "Failures emit"; the failure that ends the run
\* does not wait) or run() is over, the listener still attached.
FailureReported ==
    \A e \in Event :
        (e \in waiting /\ log[e].failed)
            ~> \/ \A p \in Publisher : e \in lost[p] \/ Delivered(p, e)
               \/ hung \/ ~listening \/ pc = "over"


-----------------------------------------------------------------------------
(* The inductive invariant behind the safety properties *)

EventRecord ==
    [type : {"progress", "terminated"}, query : Query, failed : BOOLEAN,
     payload : Payload]

TypeOK ==
    /\ pc \in {"attach", "build", "launch", "supervise", "stopping", "detach",
               "close", "over", "blocked"}
    /\ listening \in BOOLEAN
    /\ closed \in 0..Len(Publishers)
    /\ log \in Seq(EventRecord)
    /\ taken \in 0..Len(log)
    /\ waiting \subseteq (taken + 1)..Len(log)
    /\ heard \subseteq 1..taken
    /\ turn \in 0..Len(Publishers)
    /\ stored \in [Publisher -> Seq(Nat)]
    /\ lost \in [Publisher -> SUBSET Nat]

\* Nothing is stored ahead of the event at hand, which is new to the
\* publishers whose turn is still to come.
StoredBehind ==
    \A p \in Publisher : \A i \in DOMAIN stored[p] :
        /\ stored[p][i] <= taken
        /\ turn # 0 /\ turn <= p => stored[p][i] < taken

\* Publishers are closed after the listener is removed, so the event handed
\* over late is the one at hand, if any is.
ClosedDetached ==
    /\ pc = "close" => ~listening
    /\ closed > 0 => ~listening /\ pc \in {"close", "over"}
    /\ late # {} => closed > 0
    /\ turn # 0 => \A x \in late : x[2] = taken

\* The event at hand and those stored were convertible when they were taken.
Converted ==
    /\ turn # 0 => taken # 0 /\ Convertible(log[taken].payload)
    /\ \A p \in Publisher : \A i \in DOMAIN stored[p] :
          stored[p][i] # 0 /\ Convertible(log[stored[p][i]].payload)

IInv ==
    /\ TypeOK /\ StoredBehind /\ ClosedDetached
    /\ FanOutComplete /\ InPostingOrder /\ ClosedSeesOneEvent
=============================================================================
