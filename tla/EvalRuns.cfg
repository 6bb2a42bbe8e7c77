SPECIFICATION CarefulSpec
CONSTANTS
  Worker = {w1, w2}
  Run = {1, 2, 3}
  HasCases = {1, 2}
  MetaEval = TRUE
  MaxErrors = 1
  MaxRetries = 1
INVARIANTS
  ClaimsAreSafe
  PassedIsApproved
PROPERTY PostedIsSettled
\* Every run gets its outcome in the end.
CHECK_DEADLOCK FALSE
