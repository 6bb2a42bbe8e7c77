SPECIFICATION RunsSpec
CONSTANTS
  Process = {p1, p2}
  Run = {r1, r2}
  Limit = 1
  Hour = 1
  StuckAfter = 1
  MaxTime = 3
  MaxCrashes = 2
INVARIANTS
  RunsAreSafe
PROPERTIES
  SettledIsFinal
  AcceptedIsSettled
\* The clock of the model stops.
CHECK_DEADLOCK FALSE
