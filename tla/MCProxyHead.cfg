\* A HEAD's answer is stored, a GET needs it.
CONSTANTS
    u1 = u1
    u2 = u2
    json = json
    Request = {r1, r2}
    NoRequest = NoRequest
    Sub = {u1, u2}
    NoSub = NoSub
    ClientType = {NoType, json}
    NoType = NoType
    Starts <- WithHead
    TTL = 1
    MaxBytes = 5
    MaxBody = 2
    BodySizes = {2, 3}
    HeaderSizes = {1}
    Never = Never
    MaxTime = 2
SPECIFICATION Spec
INVARIANT
    ReplaysAreUsable
CHECK_DEADLOCK FALSE
