CONSTANTS
    t1 = t1  t2 = t2  t3 = t3
    a = a  b = b  c = c  d = d
    ra = ra  noRepo = noRepo
    Names = {a, b}
    RetryNames = {c}
    NameOf <- MCNameOf
    NoRepo = noRepo
    RepoOf <- MCRepoOf
    Rank <- MCRank
    ApplyTickets <- MCApply
    Main = main
    Tickets = {t1, t2, t3}
    Malformed <- MCMalformed
    Slots = {s1, s2}
    Pokes = {}
    MaxRetries = 1
    Backoff = 1
    MaxTime = 1
    MaxHalts = 2
    MaxKept = 1
    Removable = {}
    AtomicMoveBack = TRUE
    SerialClaims = TRUE
    PokesOnlyWhenUp = TRUE

SPECIFICATION Spec
SYMMETRY MCSymmetry

INVARIANTS
    NothingOverwritten
    HoldsItsTicket
    SameRepoSerialized
    NothingStranded
PROPERTIES
    CleanExit
    ImplementsLifecycle

\* An idle daemon sleeps until the next poll: the instance may run dry.
CHECK_DEADLOCK FALSE
