SPECIFICATION FairSpec
CONSTANTS
  Protocols = {"round_robin", "debate", "blackboard", "consensus", "delegation"}
  Teams <- MCTeams
  Budgets = {6, 100}
  MaxRounds = 3
  Text <- MCText
  Signal = {"signal"}
  Update = {"update"}
  Empty = {"empty"}
  Plan <- MCPlan
  Key <- MCKey
  Similar <- MCSimilar
  Corrects = {"signal", "ab"}
  Terse = {"a", "b"}
  Price <- MCPrice
INVARIANTS
  ConvergedIsAgreed
  RoundsStayInBudget
  ResultFitsStatus
PROPERTY SolveEnds
