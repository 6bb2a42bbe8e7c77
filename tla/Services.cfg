SPECIFICATION FairSpec
CONSTANTS
  Row = {r1, r2, r3}
  Batch = 2
  Limit = 1
  MaxNow = 3
  Bucket = {"ingest", "read"}
  LimitOf <- MCLimitOf
  WindowSize = 2
  MaxSecond = 6
  Email = {"ann", "bob"}
  Roles = {"owner", "viewer"}
  Asked <- MCAsked
  MaxAsked = 3
  ChannelType = {"slack", "email"}
  MaxRules = 3
  MaxChannels = 2
  Process = {p, q}
  Tenants <- MCTenants
  Outcomes <- MCOutcomes
  MaxDay = 2
  MaxErrors = 1
  MaxTraces = 2
  MaxSpans = 2
  BatchSize = 2
  Overfetch = 2
  Tenant = {"t1", "t2"}
  Retention <- MCRetention
  Days = 2
  LegacyRows <- MCLegacyRows
  FirstDay = 6
  LastDay = 12
  MaxRows = 2
  MaxFailures = 1
  Call = {a, b}
  Reader = {i, j}
  Kind = {"manual", "traced", "unary", "openai", "anthropic"}
  MaxChunks = 1
  Graph = {"g", "h", "k"}
  Node = {"a", "b"}
  Invocation = {i, j}
  NodesOf <- MCNodesOf
  MaxInvocations = 4
INVARIANTS ReadersMissOnlyLate LatestAnswerHolds RulesShareChannels
  DaysAreJudgedOnce ScoredOnce SpanSentOnce NodesRestored
PROPERTIES RefusedIsBusy EveryTenantIsRun RowsKept
\* The inputs of every service are bounded.
CHECK_DEADLOCK FALSE
