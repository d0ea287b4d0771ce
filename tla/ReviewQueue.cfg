SPECIFICATION Spec
CONSTANTS
  f1 = f1
  f2 = f2
  cli = cli
  dashboard = dashboard
  Findings <- MCFindings
  Reports <- MCReports
  Passes <- MCProcesses
  Posters <- MCProcesses
  Kinds <- MCKinds
  MaxAttempts = 2
  MaxAudits = 2
  MaxFilings = 2
  MaxMishaps = 2
  TryLimit = 2
  TextBound = 2
  PostBound = 2
  MishapBound = 3
INVARIANT FiledOnce
INVARIANT AccountsAreTrue
PROPERTY ReviewStands
PROPERTY ReviewSettles
CHECK_DEADLOCK FALSE
