SPECIFICATION Spec
CONSTANTS
  Worker = {w1, w2}
  Run = {1}
  HasCases = {1}
  MetaEval = FALSE
  MaxErrors = 0
  MaxRetries = 1
INVARIANT PassedIsApproved
\* Every run gets its outcome in the end.
CHECK_DEADLOCK FALSE
