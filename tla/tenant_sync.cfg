\* Three calls, one change, a subscription that may end.
\* Checking stops where every call has ended and every change was made.
CONSTANTS
    t1 = t1
    c1 = c1
    c2 = c2
    c3 = c3
    None = None
    Tenants = {t1}
    Calls = {c1, c2, c3}
    MaxVersion = 1
    SubscriptionFails = TRUE
SPECIFICATION FairSpec
INVARIANTS TypeOK SingleLoad NoDeadLoad InSyncUnlessOvertaken
PROPERTY EveryCallReturns
CHECK_DEADLOCK FALSE
