SPECIFICATION DecisionSpec
\* An algorithm that has had all of its inputs is at its end.
CHECK_DEADLOCK FALSE
CONSTANTS
  Absent = Absent
  Null = Null
  NoScore = NoScore
  Reports <- MCReports
  Replies <- MCReplies
  TimeoutMs = 3
  LoopThreshold = 3
  ContextTokens = 6
  RunawayTokens = 4
  MaxSpans = 4
  Runs <- MCRuns
  ProtocolOrder <- MCProtocolOrder
  Similarity <- MCSimilarity
  Problems = {"p", "q"}
  MinSimilarities = {0, 1}
  TopKs = {1, 3}
  Threshold = 2
  Window = 1
  MaxRuns = 3
  MaxDay = 3
  Dims = {"faithfulness", "relevance"}
  Weight <- MCWeight
  Steps = 4
  Raw = {1, 2}
  OneIn = 12
  MaxCases = 3
  Scenarios <- MCScenarios
  MaxScenarios = 21
INVARIANTS
  DetectorsAgree
  ChoiceFollowsHistory
  VerdictsHold
