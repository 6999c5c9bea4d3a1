\* Two requests store their responses in either order.
CONSTANTS
    u1 = u1
    u2 = u2
    json = json
    Request = {r1, r2}
    NoRequest = NoRequest
    Sub = {u1, u2}
    NoSub = NoSub
    ClientType = {NoType, json}
    NoType = NoType
    Starts <- SameVariant
    TTL = 1
    MaxBytes = 5
    MaxBody = 2
    BodySizes = {2, 3}
    HeaderSizes = {1}
    Never = Never
    MaxTime = 2
SPECIFICATION Spec
PROPERTY
    KeepsTheLast
CHECK_DEADLOCK FALSE
