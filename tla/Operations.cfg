CONSTANTS
    Procs = {p1, p2, p3}
    Ghost = ghost
    None = none
    Returning = {p1, p2}
    Crashes = TRUE
    Installs = {1, 2}
    Supervised = {1}
    Ports <- MCPorts
    Scenarios <- MCScenarios
    MaxPids = 3
    MaxMoves = 2
    MaxMishaps = 1
    MaxSteps = 2
    MaxTroubles = 1
    MaxLists = 1
    MaxRecords = 3
    MaxTokens = 3
    Parked = {1, 2}
    MaxVisits = 3
    Papers <- MCPapers
    Authors = {1, 2}
    MaxTurns = 1
    Plans <- MCPlans
    MaxEdits = 1
    MaxSlips = 1
    MaxBlocks = 2
    Styles <- MCStyles
    Jobs = {1, 2}
    Pruners = {11, 12}
    Scenes <- MCScenes
    Queued = {1, 2}
    Inside <- MCInside
    Ticks = {1, 2}
    Shows <- MCShows
SPECIFICATION Spec
\* Every process may be dead, and every screen left alone.
CHECK_DEADLOCK FALSE
INVARIANTS
    ClaimsAreSound
    DaemonTellsTheTruth
    SubmissionsAreSound
PROPERTIES
    DashboardIsTrue
    OperationsSettle
