\* A userinfo header that lacks the quota, and a panel that knows it.
CONSTANTS
    Name <- Names
    UserInfoHeader = "userinfo"
    Nil = Nil
    Now = 100
    Day = 24
    Starts <- PartialStarts
SPECIFICATION Spec
INVARIANT
    FallsBackToPanel
CHECK_DEADLOCK FALSE
