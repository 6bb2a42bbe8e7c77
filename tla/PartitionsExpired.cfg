SPECIFICATION Spec
CONSTANTS
  Tenant = {"t1"}
  Retention <- MCRetention
  Days = 2
  LegacyRows <- MCLegacyRows
  FirstDay = 6
  LastDay = 8
  MaxRows = 1
  MaxFailures = 0
INVARIANT ExpiredIsDropped
\* The days end.
CHECK_DEADLOCK FALSE
