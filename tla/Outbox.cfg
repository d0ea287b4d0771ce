CONSTANTS
    Tickets = {t1}
    Traits = {"silent", "forked"}
    Sweep = sweep
    Manual = {manual}
    None = none
    MaxAttempts = 2
    LiveTries = 2
    MaxRuns = 2
    MaxFaults = 2
    MaxRefusals = 2
    MaxCrashes = 1

SPECIFICATION FairSpec

INVARIANTS
    DeliveredOnce
    LabelsConverge
PROPERTIES
    EventuallyDrained

\* Once every ticket is settled and the outbox is empty, nothing is left.
CHECK_DEADLOCK FALSE
