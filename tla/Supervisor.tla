------------------------------ MODULE Supervisor ------------------------------
(***************************************************************************)
(* The application runner (pipeline/runner.py): it starts one pipeline per *)
(* topic, then sweeps them every 15 seconds, restarts the ones that failed *)
(* under the retry policy and stops everything on a shutdown marker.       *)
(*                                                                         *)
(* The runner is ONE thread.  What it races with are the Spark streaming   *)
(* queries it started: they fail and finish at any instant, between any    *)
(* two of its statements.  So each read of a query's state, each start and *)
(* each stop is a step of its own.                                         *)
(*                                                                         *)
(* A definition marked "Variant" is what a plausible mistake at that place *)
(* would be; no action uses it.                                            *)
(*                                                                         *)
(* Abstractions: two reads of q.exception() (or of q.isActive) over the    *)
(* two queries of one pipeline are one step, which gives the same results  *)
(* because a query never leaves "failed", "done" or "stopped"; the order   *)
(* in which stop_all visits its list is left open.                         *)
(***************************************************************************)
EXTENDS Integers

CONSTANTS
    NumTopics,    \* number of topic entries of the spec
    MaxAttempts,  \* reliability.retry.max_attempts
    FailFastModes, \* values of reliability.fail_fast to consider
    DlqEnabled,   \* reliability.dlq.enabled
    BatchTopics,  \* topics whose sink has the trigger {availableNow: 'true'}
    SharingModes  \* sets of topics to consider that share a checkpoint

Pipelines == 1..NumTopics

ASSUME NumTopicsAssumption   == NumTopics \in Nat
ASSUME MaxAttemptsAssumption == MaxAttempts \in Nat \ {0}
ASSUME FlagsAssumption ==
    FailFastModes \subseteq BOOLEAN /\ DlqEnabled \in BOOLEAN
ASSUME BatchTopicsAssumption == BatchTopics \subseteq Pipelines
ASSUME SharingAssumption == SharingModes \subseteq SUBSET Pipelines

Roles == {"main", "dlq"}

\* A StreamingQuery object: its pipeline, its role, and how many restarts of
\* the pipeline had happened when start_topic created it.
Handle == Pipelines \X Roles \X (0..MaxAttempts)

QueryState == {"none", "running", "failed", "done", "stopped"}

StopReason ==
    {"graceful_shutdown", "fail_fast", "retry_exhausted", "keyboard_interrupt"}

VARIABLES
    status,       \* state of every query object, kept by Spark
    active,       \* self._active: the queries held for each pipeline
    attempts,     \* self._attempts
    phase,        \* who called _start_pipeline: run() or _handle_failure()
    pc,           \* the next statement of the runner thread
    cur,          \* the pipeline the current loop is at
    queries,      \* the list `queries` bound by the sweep at line 109
    anyActive,    \* the local any_active of the sweep
    toStop,       \* what is left of the list stop_all iterates over
    reason,       \* the argument of _stop_everything, "none" before it
    marker,       \* the shutdown marker file exists
    requested,    \* GracefulShutdown._requested
    audit,        \* the run_stopped record, "none" before it
    listener,     \* the streaming listener is attached
    failFast,     \* reliability.fail_fast of the spec, read only
    sharing,      \* the topics whose sinks name one checkpoint_location, read only
    stopFailed,   \* history: some query.stop() raised
    interrupted   \* history: KeyboardInterrupt was delivered (once per run)

control == <<phase, pc, cur>>
sweep   == <<queries, anyActive>>
stops   == <<toStop, reason>>
signals == <<marker, requested>>
other   == <<failFast, sharing, stopFailed, interrupted>>
vars == <<status, active, attempts, control, sweep, stops, signals, audit,
          listener, other>>

-----------------------------------------------------------------------------
(* Helpers *)

Over == pc \in {"ended", "raised"}

\* q.isActive
IsActive(q) == status[q] = "running"

\* [q for q in queries if q.exception() is not None]
FailedQueries(qs) == {q \in qs : status[q] = "failed"}

\* Variant: forgets the DLQ queries.
AllHeldMain == {q \in UNION {active[p] : p \in Pipelines} : q[2] = "main"}

\* all_queries of _stop_everything
AllHeld == UNION {active[p] : p \in Pipelines}

\* Variant: stops only the query that failed before a restart.
StopsOnlyFailed(p) == FailedQueries(active[p])

\* Variant: stops every pipeline before restarting one.
StopsEverybody(p) == AllHeld

\* The list given to stop_all before p is restarted.
RestartStops(p) == active[p]

\* Spark refuses to start a query under the name of one that is still active.
NameTaken(p, r) == \E g \in 0..MaxAttempts : IsActive(<<p, r, g>>)

\* The query objects start_topic creates for p.
NewQueries(p) ==
    {<<p, r, attempts[p]>> : r \in IF DlqEnabled THEN Roles ELSE {"main"}}

\* The first streaming query that start_topic starts.
FirstStart == IF DlqEnabled THEN "startDlq" ELSE "startMain"

\* Variant: counts the first start as an attempt.
ExhaustedEarly(p) == attempts[p] + 1 >= MaxAttempts

\* attempts > retry.max_attempts, after the increment
Exhausted(p) == attempts[p] + 1 > MaxAttempts

\* Variant: fail_fast is looked at only when the budget is spent.
MayRestartFirst(p) == ~Exhausted(p)

\* _handle_failure restarts p
MayRestart(p) == ~failFast /\ ~Exhausted(p)

Init ==
    /\ status = [h \in Handle |-> "none"]
    /\ active = [p \in Pipelines |-> {}]
    /\ attempts = [p \in Pipelines |-> 0]
    /\ phase = "startup"
    /\ pc = "launch"
    /\ cur = 1
    /\ queries = {}
    /\ anyActive = FALSE
    /\ toStop = {}
    /\ reason = "none"
    /\ marker \in BOOLEAN
    /\ requested = FALSE
    /\ audit = "none"
    /\ listener = TRUE
    /\ failFast \in FailFastModes
    /\ sharing \in SharingModes
    /\ stopFailed = FALSE
    /\ interrupted = FALSE

-----------------------------------------------------------------------------
(* run(): start every topic pipeline *)

\* The loop head of "for pipeline in pipelines".
LaunchTopic ==
    /\ pc = "launch"
    /\ cur \in Pipelines
    /\ pc' = FirstStart
    /\ UNCHANGED <<status, active, attempts, phase, cur, sweep, stops, signals,
                   audit, listener, other>>

LaunchDone ==
    /\ pc = "launch"
    /\ cur \notin Pipelines
    /\ phase' = "supervise"
    /\ pc' = "poll"
    /\ UNCHANGED <<status, active, attempts, cur, sweep, stops, signals, audit,
                   listener, other>>

-----------------------------------------------------------------------------
(* _start_pipeline / start_topic: the DLQ query first, then the main one; the
   list is stored in _active only when both have started *)

StartDlq ==
    /\ pc = "startDlq"
    /\ ~NameTaken(cur, "dlq")
    /\ status' = [status EXCEPT ![<<cur, "dlq", attempts[cur]>>] = "running"]
    /\ pc' = "startMain"
    /\ UNCHANGED <<active, attempts, phase, cur, sweep, stops, signals, audit,
                   listener, other>>

\* The other queries Spark takes for earlier runs of the main query of p, and
\* stops (spark.sql.streaming.stopActiveRunOnRestart, on by default): the main
\* queries on its checkpoint.
SameCheckpoint(p) ==
    {q \in Handle : q[2] = "main" /\ q[1] # p /\ {q[1], p} \subseteq sharing}

\* The main query runs; its handle is still on its way to _start_pipeline.
StartMain ==
    /\ pc = "startMain"
    /\ ~NameTaken(cur, "main")
    /\ status' = [q \in Handle |->
            IF q = <<cur, "main", attempts[cur]>> THEN "running"
            ELSE IF IsActive(q) /\ q \in SameCheckpoint(cur) THEN "stopped"
            ELSE status[q]]
    /\ pc' = "store"
    /\ UNCHANGED <<active, attempts, phase, cur, sweep, stops, signals, audit,
                   listener, other>>

\* self._active[pipeline.name] = the list start_topic returned
Store ==
    /\ pc = "store"
    /\ active' = [active EXCEPT ![cur] = NewQueries(cur)]
    /\ \/ /\ phase = "startup"
          /\ cur' = cur + 1
          /\ pc' = "launch"
       \/ /\ phase = "supervise"
          /\ cur' = cur
          /\ pc' = "readActive"
    /\ UNCHANGED <<status, attempts, phase, sweep, stops, signals, audit,
                   listener, other>>

\* Anything start_topic does may raise: a taken query name, an unreachable
\* source, a bad option.  Nothing catches it: from run() the listener stays
\* attached, from _supervise the finally clause removes it.  A KeyboardInterrupt
\* in run()'s own loop, outside every try, leaves in the same way.
StartRaises ==
    /\ \/ pc \in {"startDlq", "startMain"}
       \/ phase = "startup" /\ pc \in {"launch", "store"}
    /\ pc' = "raised"
    /\ listener' = (phase = "startup")
    /\ UNCHANGED <<status, active, attempts, phase, cur, sweep, stops, signals,
                   audit, other>>

-----------------------------------------------------------------------------
(* _supervise *)

\* Variant: the marker is looked for only in the constructor.
MarkerNotPolled == requested' = requested

\* GracefulShutdown.requested()
SeeMarker == requested' = (requested \/ marker)

\* Enter _stop_everything(why).
StopEverything(why) ==
    /\ toStop' = AllHeld
    /\ reason' = why
    /\ pc' = "stopping"

PollStop ==
    /\ pc = "poll"
    /\ SeeMarker
    /\ requested'
    /\ StopEverything("graceful_shutdown")
    /\ UNCHANGED <<status, active, attempts, phase, cur, sweep, marker, audit,
                   listener, other>>

PollSweep ==
    /\ pc = "poll"
    /\ SeeMarker
    /\ ~requested'
    /\ pc' = "check"
    /\ cur' = 1
    /\ anyActive' = FALSE
    /\ UNCHANGED <<status, active, attempts, phase, queries, stops, marker,
                   audit, listener, other>>

\* No query of the pipeline carries an exception.
CheckHealthy ==
    /\ pc = "check"
    /\ cur \in Pipelines
    /\ FailedQueries(active[cur]) = {}
    /\ queries' = active[cur]
    /\ pc' = "readActive"
    /\ UNCHANGED <<status, active, attempts, phase, cur, anyActive, stops,
                   signals, audit, listener, other>>

\* _handle_failure with fail_fast
FailFastStop ==
    /\ pc = "check"
    /\ cur \in Pipelines
    /\ FailedQueries(active[cur]) # {}
    /\ failFast
    /\ queries' = active[cur]
    /\ StopEverything("fail_fast")
    /\ UNCHANGED <<status, active, attempts, phase, cur, anyActive, signals,
                   audit, listener, other>>

\* _handle_failure when the retry budget is spent
ExhaustedStop ==
    /\ pc = "check"
    /\ cur \in Pipelines
    /\ FailedQueries(active[cur]) # {}
    /\ ~failFast
    /\ Exhausted(cur)
    /\ attempts' = [attempts EXCEPT ![cur] = @ + 1]
    /\ queries' = active[cur]
    /\ StopEverything("retry_exhausted")
    /\ UNCHANGED <<status, active, phase, cur, anyActive, signals, audit,
                   listener, other>>

\* _handle_failure otherwise: stop the pipeline's own queries, to restart it
BeginRestart ==
    /\ pc = "check"
    /\ cur \in Pipelines
    /\ FailedQueries(active[cur]) # {}
    /\ MayRestart(cur)
    /\ attempts' = [attempts EXCEPT ![cur] = @ + 1]
    /\ queries' = active[cur]
    /\ toStop' = RestartStops(cur)
    /\ pc' = "stopping"
    /\ UNCHANGED <<status, active, phase, cur, anyActive, reason, signals,
                   audit, listener, other>>

\* time.sleep(delay) is over, _start_pipeline is called
EndBackoff ==
    /\ pc = "backoff"
    /\ pc' = FirstStart
    /\ UNCHANGED <<status, active, attempts, phase, cur, sweep, stops, signals,
                   audit, listener, other>>

\* Variant: the last pipeline alone decides.
ReadActiveOfLast ==
    /\ pc = "readActive"
    /\ anyActive' = \E q \in queries : IsActive(q)
    /\ cur' = cur + 1
    /\ pc' = "check"
    /\ UNCHANGED <<status, active, attempts, phase, queries, stops, signals,
                   audit, listener, other>>

\* Variant: leaves the sweep at the first pipeline that is active.
ReadActiveUntilFirst ==
    /\ pc = "readActive"
    /\ anyActive' = (anyActive \/ \E q \in queries : IsActive(q))
    /\ cur' = IF anyActive' THEN NumTopics + 1 ELSE cur + 1
    /\ pc' = "check"
    /\ UNCHANGED <<status, active, attempts, phase, queries, stops, signals,
                   audit, listener, other>>

\* any_active or any(q.isActive for q in queries): reads the list bound before
\* a restart, not the one the restart stored
ReadActive ==
    /\ pc = "readActive"
    /\ anyActive' = (anyActive \/ \E q \in queries : IsActive(q))
    /\ cur' = cur + 1
    /\ pc' = "check"
    /\ UNCHANGED <<status, active, attempts, phase, queries, stops, signals,
                   audit, listener, other>>

SweepFinished ==
    /\ pc = "check"
    /\ cur \notin Pipelines
    /\ ~anyActive
    /\ audit' = "all_queries_finished"
    /\ listener' = FALSE
    /\ pc' = "ended"
    /\ UNCHANGED <<status, active, attempts, phase, cur, sweep, stops, signals,
                   other>>

SweepSleep ==
    /\ pc = "check"
    /\ cur \notin Pipelines
    /\ anyActive
    /\ pc' = "sleep"
    /\ UNCHANGED <<status, active, attempts, phase, cur, sweep, stops, signals,
                   audit, listener, other>>

Wake ==
    /\ pc = "sleep"
    /\ pc' = "poll"
    /\ UNCHANGED <<status, active, attempts, phase, cur, sweep, stops, signals,
                   audit, listener, other>>

-----------------------------------------------------------------------------
(* GracefulShutdown.stop_all: best effort, one query after the other *)

StopQuery(q) ==
    /\ pc = "stopping"
    /\ q \in toStop
    /\ toStop' = toStop \ {q}
    /\ status' = [status EXCEPT ![q] = IF @ = "running" THEN "stopped" ELSE @]
    /\ UNCHANGED <<active, attempts, control, sweep, reason, signals, audit,
                   listener, other>>

\* query.stop() raises: logged, swallowed, and the query keeps running
StopQueryRaises(q) ==
    /\ pc = "stopping"
    /\ q \in toStop
    /\ IsActive(q)
    /\ toStop' = toStop \ {q}
    /\ stopFailed' = TRUE
    /\ UNCHANGED <<status, active, attempts, control, sweep, reason, signals,
                   audit, listener, failFast, sharing, interrupted>>

\* back in _handle_failure
RestartStopped ==
    /\ pc = "stopping"
    /\ toStop = {}
    /\ reason = "none"
    /\ pc' = "backoff"
    /\ UNCHANGED <<status, active, attempts, phase, cur, sweep, stops, signals,
                   audit, listener, other>>

\* back in _stop_everything: audit, then return or raise PipelineError
RunStopped ==
    /\ pc = "stopping"
    /\ toStop = {}
    /\ reason # "none"
    /\ audit' = reason
    /\ listener' = FALSE
    /\ pc' = IF reason \in {"fail_fast", "retry_exhausted"} THEN "raised"
                                                             ELSE "ended"
    /\ UNCHANGED <<status, active, attempts, phase, cur, sweep, stops, signals,
                   other>>

\* KeyboardInterrupt anywhere inside the try of _supervise (stop_all catches
\* Exception only), also while or after start() runs a query and before its
\* handle is stored.
Interrupt ==
    /\ phase = "supervise"
    /\ ~Over
    /\ ~interrupted
    /\ interrupted' = TRUE
    /\ StopEverything("keyboard_interrupt")
    /\ UNCHANGED <<status, active, attempts, phase, cur, sweep, signals, audit,
                   listener, failFast, sharing, stopFailed>>

-----------------------------------------------------------------------------
(* The environment: Spark and the operator.  Once the runner is over, what it
   left behind is no longer followed. *)

\* A query terminates with an exception.
QueryFails(q) ==
    /\ ~Over
    /\ IsActive(q)
    /\ status' = [status EXCEPT ![q] = "failed"]
    /\ UNCHANGED <<active, attempts, control, sweep, stops, signals, audit,
                   listener, other>>

\* An availableNow query has drained its source.  The DLQ writer sets no
\* trigger, so a DLQ query never finishes by itself.
QueryDrains(q) ==
    /\ ~Over
    /\ IsActive(q)
    /\ q[1] \in BatchTopics
    /\ q[2] = "main"
    /\ status' = [status EXCEPT ![q] = "done"]
    /\ UNCHANGED <<active, attempts, control, sweep, stops, signals, audit,
                   listener, other>>

\* Operations create the marker file.
CreateMarker ==
    /\ ~Over
    /\ ~marker
    /\ marker' = TRUE
    /\ UNCHANGED <<status, active, attempts, control, sweep, stops, requested,
                   audit, listener, other>>

\* The job has left run(): nothing moves any more.
Terminated == Over /\ UNCHANGED vars

Runner ==
    \/ LaunchTopic \/ LaunchDone
    \/ StartDlq \/ StartMain \/ Store \/ StartRaises
    \/ PollStop \/ PollSweep
    \/ CheckHealthy \/ FailFastStop \/ ExhaustedStop \/ BeginRestart
    \/ EndBackoff \/ ReadActive \/ SweepFinished \/ SweepSleep \/ Wake
    \/ \E q \in Handle : StopQuery(q) \/ StopQueryRaises(q)
    \/ RestartStopped \/ RunStopped

Environment ==
    \/ \E q \in Handle : QueryFails(q) \/ QueryDrains(q)
    \/ CreateMarker
    \/ Interrupt

Next == Runner \/ Environment \/ Terminated

Spec == Init /\ [][Next]_vars

\* The thread keeps running (no call it makes blocks for ever), and an
\* availableNow query that stays healthy drains.
Fairness ==
    /\ WF_vars(Runner)
    /\ \A q \in Handle : WF_vars(QueryDrains(q))

FairSpec == Spec /\ Fairness
-----------------------------------------------------------------------------
(* Properties *)

\* _stop_everything has been entered: the run will end.
Stopping == pc = "stopping" /\ reason # "none"

\* _start_pipeline is being executed.
Starting == pc \in {"startDlq", "startMain", "store"}

\* A failed pipeline is being restarted.
Restarting ==
    \/ pc = "stopping" /\ reason = "none"
    \/ pc = "backoff"
    \/ phase = "supervise" /\ Starting

\* Where the runner can be, what its loop variable then points at, and that
\* only a run that is stopping has counted an attempt beyond the budget.
LocationOK ==
    /\ phase = "startup" => Starting \/ pc \in {"launch", "raised"}
    /\ phase = "supervise" => pc # "launch"
    /\ pc = "startDlq" => DlqEnabled
    /\ Restarting \/ Starting \/ pc = "readActive" => cur \in Pipelines
    /\ reason # "none" => Stopping \/ Over
    /\ Stopping \/ Over \/ \A p \in Pipelines : attempts[p] <= MaxAttempts

\* The switches of the run.
FlagsOK ==
    /\ anyActive \in BOOLEAN
    /\ marker \in BOOLEAN
    /\ requested \in BOOLEAN
    /\ listener \in BOOLEAN
    /\ failFast \in BOOLEAN
    /\ sharing \subseteq Pipelines
    /\ stopFailed \in BOOLEAN
    /\ interrupted \in BOOLEAN

DataOK ==
    /\ status \in [Handle -> QueryState]
    /\ active \in [Pipelines -> SUBSET Handle]
    /\ attempts \in [Pipelines -> 0..(MaxAttempts + 1)]
    /\ phase \in {"startup", "supervise"}
    /\ pc \in {"launch", "startDlq", "startMain", "store", "poll", "check",
               "stopping", "backoff", "readActive", "sleep", "ended", "raised"}
    /\ cur \in 1..(NumTopics + 1)
    /\ queries \subseteq Handle
    /\ toStop \subseteq Handle
    /\ reason \in StopReason \cup {"none"}
    /\ audit \in StopReason \cup {"none", "all_queries_finished"}

\* Every variable has its type, and a start or a restart in progress is within
\* the retry budget, so that every query object the runner creates is one of
\* Handle.
TypeOK == DataOK /\ FlagsOK /\ LocationOK

\* A restart starts from a clean slate: when a query is about to be started,
\* the earlier one of its name (and checkpoint) still runs only if its stop()
\* raised and was swallowed (shutdown.py:50-53).
RestartOnCleanSlate ==
    /\ pc = "startDlq" /\ NameTaken(cur, "dlq") => stopFailed
    /\ pc = "startMain" /\ NameTaken(cur, "main") => stopFailed

\* A run that audits a stop has left nothing running, unless a stop() raised;
\* an interrupt that arrives in the restart of a pipeline, before _active has
\* its new queries (runner.py:93), leaves behind those of them that were started,
\* which no list holds.  All other queries are stopped even then.
StopLeavesNothing ==
    audit \in StopReason /\ ~stopFailed =>
        \A q \in Handle : IsActive(q) =>
            /\ audit = "keyboard_interrupt"
            /\ q \notin AllHeld
            /\ q[1] = cur /\ q[3] = attempts[cur]

\* A run that declares all queries finished has abandoned no query of the
\* original launch: what may still run was restarted at least once.
FinishedAbandonsOnlyRestarts ==
    audit = "all_queries_finished" =>
        \A q \in Handle : IsActive(q) => q[3] > 0

\* The run fails with an exhausted budget only after some pipeline really was
\* restarted max_attempts times (runner.py:135-143).
ExhaustedMeansAllRestarts ==
    audit = "retry_exhausted" =>
        \E p \in Pipelines :
            /\ attempts[p] = MaxAttempts + 1
            /\ \A g \in 0..MaxAttempts : status[<<p, "main", g>>] # "none"

\* Until the run is stopped, a query is stopped only because one of its own
\* pipeline failed, or, a main query, because Spark takes the main query of
\* another topic, started or restarted on the same checkpoint, for its new run:
\* "never reuse across pipelines" (sinks/base.py:24) is up to the spec.  Without
\* shared locations a restart leaves the other pipelines alone.
RestartIsIsolated ==
    [][\A q \in Handle : IsActive(q) /\ status'[q] = "stopped" =>
            \/ reason # "none"
            \/ FailedQueries(active[q[1]]) # {}
            \/ /\ pc = "startMain" /\ q[2] = "main"
               /\ q[1] # cur /\ {q[1], cur} \subseteq sharing]_vars

\* A failed query the runner holds is answered: its pipeline is restarted or
\* the run is over.
FailureAnswered ==
    \A q \in Handle :
        (status[q] = "failed" /\ q \in active[q[1]])
            ~> (Over \/ q \notin active[q[1]])

\* A shutdown marker ends the run, whatever fails and restarts meanwhile.
ShutdownHonoured == marker ~> Over

-----------------------------------------------------------------------------
(* The inductive invariant behind the safety properties *)

\* _active holds queries of its own pipeline, created no later than its last
\* counted attempt and, during a restart, before it; pipelines the start-up
\* loop has not reached hold none.
HeldInv ==
    /\ \A p \in Pipelines : \A q \in active[p] : q[1] = p /\ q[3] <= attempts[p]
    /\ Restarting => \A q \in active[cur] : q[3] < attempts[cur]
    /\ phase = "startup" /\ ~Over =>
            \A p \in Pipelines : p >= cur => active[p] = {}

\* Where a running query is known: in _active, about to be put there, or left
\* behind by an interrupt or by an exception.
RunningInv ==
    /\ \A q \in Handle : IsActive(q) =>
            \/ q \in active[q[1]]
            \/ pc = "startMain" /\ q = <<cur, "dlq", attempts[cur]>>
            \/ pc = "store" /\ q \in NewQueries(cur)
            \/ interrupted /\ q[1] = cur /\ q[3] = attempts[cur]
            \/ pc = "raised" /\ audit = "none"
    /\ pc = "store" => \A q \in Handle :
            IsActive(q) /\ q[1] = cur => q \in NewQueries(cur)
    /\ pc = "startMain" => \A g \in 0..MaxAttempts :
            IsActive(<<cur, "dlq", g>>) => g = attempts[cur]
    /\ ~DlqEnabled => \A q \in Handle : q[2] = "dlq" => ~IsActive(q)
    /\ interrupted => /\ reason = "keyboard_interrupt"
                      /\ Stopping \/ pc = "ended"

\* How far a stop has come: unless a stop() raised, what is left to stop is on
\* the list, and after the loop nothing on it runs.
StopInv ==
    /\ Stopping /\ ~stopFailed =>
            \A q \in AllHeld : IsActive(q) => q \in toStop
    /\ pc = "stopping" /\ reason = "none" /\ ~stopFailed =>
            \A q \in active[cur] : IsActive(q) => q \in toStop
    /\ Restarting /\ pc # "stopping" /\ ~stopFailed =>
            \A q \in active[cur] : ~IsActive(q)
    /\ audit # "none" => Over
    /\ audit \in StopReason => audit = reason
    /\ audit \in StopReason /\ ~stopFailed => \A q \in AllHeld : ~IsActive(q)

\* Implies RestartOnCleanSlate and StopLeavesNothing, and every step preserves
\* it.
IInv == TypeOK /\ HeldInv /\ RunningInv /\ StopInv

\* While a pipeline is being restarted, the list is its own and the failure
\* that asked for the restart is still there to see.
RestartInv ==
    /\ Restarting /\ phase = "supervise" => attempts[cur] >= 1
    /\ pc = "stopping" /\ reason = "none" =>
            toStop \subseteq active[cur] /\ FailedQueries(active[cur]) # {}

Started(p, g) == status[<<p, "main", g>>] # "none"

\* Every counted attempt but the last one of a restart in progress was started,
\* so a budget is spent by restarts that happened.
GenerationInv ==
    /\ \A p \in Pipelines, g \in 0..MaxAttempts : g < attempts[p] => Started(p, g)
    /\ ~Stopping /\ ~Over =>
            \A p \in Pipelines :
                active[p] # {} /\ ~(Restarting /\ cur = p) => Started(p, attempts[p])
    /\ pc = "store" => Started(cur, attempts[cur])
    /\ reason = "retry_exhausted" =>
            \E p \in Pipelines : attempts[p] = MaxAttempts + 1

\* The queries of the first launch of p that run are among qs.
FirstLaunchIn(p, qs) ==
    \A q \in Handle : q[1] = p /\ q[3] = 0 /\ IsActive(q) => q \in qs

\* A sweep that has seen nothing active has passed pipelines whose first launch
\* does not run; the one it is at is on the list it reads.
SweepInv ==
    /\ phase = "supervise" /\ ~Stopping /\ pc \notin {"poll", "sleep", "ended", "raised"}
            /\ ~anyActive =>
            \A p \in Pipelines : p < cur => FirstLaunchIn(p, {})
    /\ pc = "readActive" => FirstLaunchIn(cur, queries)
    /\ audit = "all_queries_finished" => \A p \in Pipelines : FirstLaunchIn(p, {})

\* Supervision holds queries of every pipeline.
LaunchInv ==
    /\ phase = "startup" /\ ~Over =>
            \A p \in Pipelines : p < cur => active[p] # {}
    /\ phase = "supervise" => \A p \in Pipelines : active[p] # {}

\* Implies the remaining safety properties, with IInv.
HistoryInv == RestartInv /\ GenerationInv /\ SweepInv /\ LaunchInv
=============================================================================
