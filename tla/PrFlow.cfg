CONSTANT Instances <- MCInstances

SPECIFICATION FairSpec

INVARIANTS
    OutcomeTellsTheTruth
PROPERTIES
    WorkIsKept
    EventuallyEnds

\* The ticket is finished, and nobody has to do anything more.
CHECK_DEADLOCK FALSE
