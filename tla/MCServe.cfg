\* Three requests for either server; a timeout of two ticks and a grace period
\* one shorter, as long, or one longer.  A process that has exited stays so.
CONSTANTS
    Request = {r1, r2, r3}
    ShutdownTimeout = 2
    GracePeriods = {1, 2, 3}
SPECIFICATION FairSpec
INVARIANTS
    TypeOK
    CutsAreJustified
    NeverKilled
PROPERTY
    Exits
CHECK_DEADLOCK FALSE
