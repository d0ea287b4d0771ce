SPECIFICATION Spec
CONSTANTS
  LoopAt = 2
  ErrorsAt = 2
  RepeatsAt = 1
  PreBudget = 1
  PostBudget = 2
  BudgetPerKind = 1
  Window = 2
  MaxTurns = 4
  MaxDeltas = 2
  MaxCalls = 1
  MaxRuns = 2
  MaxFaults = 1
  Streams = {"text_rep"}
  Calls <- MCCalls
  Tokens <- MCTokens
INVARIANTS
    RunsAreTruthful
    ReplayAgrees
PROPERTIES
    RunsEnd
CHECK_DEADLOCK FALSE
