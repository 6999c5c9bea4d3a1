\* Three calls about three users, in every combination; the cache holds two
\* entries, and the two times to live differ.  Calls return, so the system stops.
CONSTANTS
    Key = {k1, k2, k3}
    Caller = {c1, c2, c3}
    NoCall = NoCall
    TTL = 1
    NegTTL = 2
    MaxEntries = 2
    FetchLimit = 1
    MaxTime = 2
SPECIFICATION Spec
SYMMETRY Symmetry
INVARIANTS
    TypeOK
    SingleFlight
    FlightOnlyForStale
    FreshAnswers
    NoForeignCancel
    BoundedEntries
    NoOrphanWaiter
PROPERTY
    EvictsLiveOnlyWhenFull
CHECK_DEADLOCK FALSE
