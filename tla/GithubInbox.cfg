CONSTANTS
    Task = {a, b}
    SetPlans = {{a, b}, {b}, {}}
    Doors = {"ticket", "prose", "set"}
    Planned = {"prose", "ticket", "set"}
    Approvals = {TRUE, FALSE}
    MaxTexts = 3
    MaxTroubles = 2
SPECIFICATION Spec
CHECK_DEADLOCK FALSE
INVARIANTS
    OneApprovedDispatch
    ChildrenFollowThePlan
PROPERTIES
    BridgeSettles
