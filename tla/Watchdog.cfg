SPECIFICATION FairSpec
\* An instant stands for an hour or more: a new agent looks back to its beginning.
CONSTANTS
  Agent = {a1, a2}
  Trace = {t1}
  Failure = {f1, f2}
  MaxTime = 2
  LookBack = 0
  MaxErrors = 1
INVARIANTS
  ClassificationsAreSafe
  RollbackLosesNothing
PROPERTY SelectedIsClassified
\* The clock of the model stops.
CHECK_DEADLOCK FALSE
