------------------------- MODULE SupervisorRefinement -------------------------
(***************************************************************************)
(* The supervisor implements RunContract.  A pipeline is launched once its *)
(* queries are in _active, supervision begins with _supervise, a restart   *)
(* is granted when the attempt counter moves within the budget, and the    *)
(* outcome is the audited stop reason, or "crashed" when an exception left *)
(* run() without one.                                                      *)
(***************************************************************************)
EXTENDS Supervisor

Launched == {p \in Pipelines : active[p] # {}}

\* The attempt that exceeds the budget is no restart.
Restarts ==
    [p \in Pipelines |->
        IF attempts[p] > MaxAttempts THEN MaxAttempts ELSE attempts[p]]

Outcome ==
    IF ~Over THEN "none" ELSE IF audit = "none" THEN "crashed" ELSE audit

Contract == INSTANCE RunContract WITH
    launched <- Launched,
    supervised <- phase = "supervise",
    restarts <- Restarts,
    decision <- reason,
    outcome  <- Outcome

\* Every behaviour of the runner is one the contract allows: launches before
\* supervision, restarts within the budget and never after a decision to stop,
\* one outcome, and an unhandled exception only out of a start or a restart.
ContractSpec == Contract!Spec
=============================================================================
