SPECIFICATION FairSpec
CONSTANTS
  Record = {r1, r2, r3}
  Counted = {r1, r3}
  Refused = {r3}
  Caller = {c1, c2}
  BatchSize = 2
  MaxCopies = 2
INVARIANTS
  OnlyCancelLoses
  UsageCountedOnce
PROPERTIES
  EventuallyStored
  LedgerSpec
\* The program stops for good after stop().
CHECK_DEADLOCK FALSE
