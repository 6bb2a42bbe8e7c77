---------------------------- MODULE MCEvalRuns ----------------------------
(* Model checking of EvalRuns. *)
EXTENDS EvalRuns

\* Nobody runs the retry statement while a worker executes a run.
CarefulSpec ==
  Init /\ [][Next /\ (Retry => \A w \in Worker : Executing(w) = {})]_vars /\ Fairness

=============================================================================
