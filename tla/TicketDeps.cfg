CONSTANTS
    parent = parent
    child = child
    grandchild = grandchild
    Tickets = {parent, child, grandchild}
    DependsOn <- MCDependsOn
    Asks = {child, grandchild}
    Instances <- MCInstances

SPECIFICATION FairSpec

INVARIANTS
    StartsOnMerged
PROPERTIES
    StampsAccumulate
    EventuallyReleased

\* Once every ticket is settled and nobody wants anything, nothing is left.
CHECK_DEADLOCK FALSE
