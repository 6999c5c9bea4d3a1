\* Three calls about one user: a leader, a waiter and a latecomer.
CONSTANTS
    Key = {k1}
    Caller = {c1, c2, c3}
    NoCall = NoCall
    TTL = 1
    NegTTL = 1
    MaxEntries = 1
    FetchLimit = 1
    MaxTime = 1
SPECIFICATION FairSpec
PROPERTY
    EveryCallReturns
CHECK_DEADLOCK FALSE
