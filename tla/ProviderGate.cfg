CONSTANTS
    GateTickets = {q1, ap}
    ApplyTickets = {ap}
    MaxConcurrent = 2
    MaxRetries = 1
    Backoff = 1
    MaxDelay = 2
    Day = 2
    Caps = {0, 1}
    MaxSpend = 1
    MaxStreak = 3
    Restarts = TRUE

SPECIFICATION FairGateSpec

INVARIANTS
    GateHolds
PROPERTIES
    GateMoves
