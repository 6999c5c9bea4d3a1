\* Three keys and two writers: two puts may pass each other between the clock
\* and the lock.  A body may be refused (4); one of 3 fits or, with headers of
\* 3, exceeds the budget on its own; 1 and 4 together fill it exactly.
CONSTANTS
    Key = {k1, k2, k3}
    Writer = {w1, w2}
    Origin = {o1}
    NoOrigin = NoOrigin
    TTL = 1
    MaxBytes = 5
    MaxBody = 3
    MaxTime = 3
    BodySizes = {1, 3, 4}
    HeaderSizes = {0, 3}
SPECIFICATION Spec
SYMMETRY Symmetry
INVARIANTS
    TypeOK
    Accounting
    WithinBudget
PROPERTIES
    EvictsOldestFirst
    EvictsOnlyForRoom
    ImplementsStore
