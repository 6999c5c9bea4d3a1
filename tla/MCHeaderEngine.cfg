\* Three headers; lists of at most two rules for one of them.  A response is
\* done in a few steps and stays so.
CONSTANTS
    Name <- Names
    UserInfoHeader = "userinfo"
    Nil = Nil
    Now = 100
    Day = 24
    Starts <- AllStarts
SPECIFICATION Spec
INVARIANTS
    TypeOK
    LazyLookupUnseen
    OpaqueUntouched
    ShowsRealQuota
    CommonCaseIsFree
    LiteralWithoutPanel
CHECK_DEADLOCK FALSE
