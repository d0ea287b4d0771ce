CONSTANTS
    t1 = t1  t2 = t2  t3 = t3
    a = a  b = b  c = c  d = d
    ra = ra  noRepo = noRepo
    Names = {a, b}
    RetryNames = {c, d}
    NameOf <- MCNameOf
    NoRepo = noRepo
    RepoOf <- MCRepoOf
    Rank <- MCRank
    ApplyTickets <- MCApply
    Main = main
    Tickets = {t1, t2}
    Malformed <- MCMalformedT1
    Slots = {s1}
    Pokes = {p1}
    MaxRetries = 1
    Backoff = 1
    MaxTime = 1
    MaxHalts = 1
    MaxKept = 0
    Removable = {t2}
    AtomicMoveBack = FALSE
    SerialClaims = FALSE
    PokesOnlyWhenUp = FALSE


SPECIFICATION FairSpec

PROPERTY EventuallySettled

\* An idle daemon sleeps until the next poll: the instance may run dry.
CHECK_DEADLOCK FALSE
