SPECIFICATION FairSpec
CONSTANTS
  p1 = p1
  p2 = p2
  r1 = r1
  r2 = r2
  t1 = t1
  t2 = t2
  Process = {p1, p2}
  Looping = {p1}
  Record = {r1, r2}
  Trace = {t1, t2}
  TraceOf <- MCTraceOf
  Poison = {r2}
  MaxSends = 2
  MaxErrors = 2
INVARIANTS
  AcknowledgedStored
  OnlyProcessEndLoses
  SpansHaveTrace
  DuplicatesExplained
PROPERTIES
  EventuallyStored
\* Clients send a bounded number of requests.
CHECK_DEADLOCK FALSE
