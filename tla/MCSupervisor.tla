----------------------------- MODULE MCSupervisor -----------------------------
(***************************************************************************)
(* What the repository says of a run where the code does otherwise: each   *)
(* definition is checked by a run of its own, which finds it violated.     *)
(***************************************************************************)
EXTENDS Supervisor

\* "Health-check loop: restart failures, honor shutdown, exit when done"
\* (runner.py:99): a run that audits all_queries_finished is done, nothing it
\* started still runs.
FinishedMeansDone ==
    audit = "all_queries_finished" => \A q \in Handle : ~IsActive(q)
=============================================================================
