\* Two users, and paths with and without a client type.  A body of 2 is stored,
\* one of 3 is over the limit; two stored responses exceed the budget.  What is
\* stored expires while requests run.
CONSTANTS
    u1 = u1
    u2 = u2
    json = json
    Request = {r1, r2, r3}
    NoRequest = NoRequest
    Sub = {u1, u2}
    NoSub = NoSub
    ClientType = {NoType, json}
    NoType = NoType
    Starts <- SomeStarts
    TTL = 1
    MaxBytes = 5
    MaxBody = 2
    BodySizes = {2, 3}
    HeaderSizes = {1}
    Never = Never
    MaxTime = 2
SPECIFICATION Spec
SYMMETRY Symmetry
INVARIANTS
    TypeOK
    AcceptableEncoding
PROPERTIES
    HonoursContract
    OutageCovered
CHECK_DEADLOCK FALSE
