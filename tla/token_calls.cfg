\* Three callers of one grant, which may be released, and its lock swept,
\* under running calls.
CONSTANTS
    c1 = c1
    c2 = c2
    c3 = c3
    g1 = g1
    Callers = {c1, c2, c3}
    Grants = {g1}
    GrantOf <- ThreeOnOneGrant
    Locks = {1, 2, 3, 4}
    NoLock = 0
    Margin = 1
    Timeout = 1
    Lifetimes = {0, 1}
    SweepEvery = 2
    ReleaseInFlight = TRUE
    MaxTime = 2
SPECIFICATION FairSpec
INVARIANTS SingleFlight ServedTokenIsAlive
PROPERTIES NoRedundantExchange EveryCallReturns
