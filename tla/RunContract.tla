------------------------------ MODULE RunContract ------------------------------
(***************************************************************************)
(* What one run of an application promises to operations, without queries, *)
(* sweeps or markers (operations-runbook.md, framework-spec.md): every     *)
(* pipeline is launched before supervision begins, a pipeline is restarted *)
(* at most max_attempts times, never after the run has decided to stop,    *)
(* and the run ends once, with the decision it took.                       *)
(***************************************************************************)
EXTENDS Integers

CONSTANTS
    Pipelines,    \* the topic pipelines of the application
    MaxAttempts   \* reliability.retry.max_attempts

VARIABLES
    failFast,  \* reliability.fail_fast
    launched,  \* pipelines started at least once
    supervised, \* supervision has begun
    restarts,  \* restarts granted to each pipeline
    decision,  \* why the run stops, "none" before
    outcome    \* how the run ended, "none" before

cvars == <<failFast, launched, supervised, restarts, decision, outcome>>

Decisions ==
    {"graceful_shutdown", "fail_fast", "retry_exhausted", "keyboard_interrupt"}

Supervised == supervised /\ outcome = "none"

Init ==
    /\ failFast \in BOOLEAN
    /\ launched = {}
    /\ supervised = FALSE
    /\ restarts = [p \in Pipelines |-> 0]
    /\ decision = "none"
    /\ outcome = "none"

Launch(p) ==
    /\ outcome = "none"
    /\ ~supervised
    /\ p \notin launched
    /\ launched' = launched \cup {p}
    /\ UNCHANGED <<failFast, supervised, restarts, decision, outcome>>

\* Supervision begins with everything launched.
Supervise ==
    /\ outcome = "none"
    /\ launched = Pipelines
    /\ supervised' = TRUE
    /\ UNCHANGED <<failFast, launched, restarts, decision, outcome>>

Restart(p) ==
    /\ Supervised
    /\ ~failFast
    /\ decision = "none"
    /\ restarts[p] < MaxAttempts
    /\ restarts' = [restarts EXCEPT ![p] = @ + 1]
    /\ UNCHANGED <<failFast, launched, supervised, decision, outcome>>

\* The run decides to stop; only an operator's interrupt overrides a decision.
Decide(why) ==
    /\ Supervised
    /\ decision = "none" \/ why = "keyboard_interrupt"
    /\ why = "fail_fast" => failFast
    /\ why = "retry_exhausted" =>
            ~failFast /\ \E p \in Pipelines : restarts[p] = MaxAttempts
    /\ decision' = why
    /\ UNCHANGED <<failFast, launched, supervised, restarts, outcome>>

\* The run ends with its decision.
Conclude ==
    /\ Supervised
    /\ decision # "none"
    /\ outcome' = decision
    /\ UNCHANGED <<failFast, launched, supervised, restarts, decision>>

\* The run ends because nothing is left to supervise.
Finish ==
    /\ Supervised
    /\ decision = "none"
    /\ outcome' = "all_queries_finished"
    /\ UNCHANGED <<failFast, launched, supervised, restarts, decision>>

\* An exception nobody handles: only before supervision begins, or while a
\* pipeline is restarted.
Crash ==
    /\ outcome = "none"
    /\ decision = "none"
    /\ ~supervised \/ \E p \in Pipelines : restarts[p] > 0
    /\ outcome' = "crashed"
    /\ UNCHANGED <<failFast, launched, supervised, restarts, decision>>

Next ==
    \/ \E p \in Pipelines : Launch(p) \/ Restart(p)
    \/ Supervise
    \/ \E why \in Decisions : Decide(why)
    \/ Conclude \/ Finish \/ Crash

Spec == Init /\ [][Next]_cvars
=============================================================================
