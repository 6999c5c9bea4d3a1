\* Bodies of up to four hosts, lists of up to four names.  A body is done in a
\* few steps and stays so.
CONSTANTS
    Name <- Names
    Nameless = ""
    Bodies <- Everything
SPECIFICATION Spec
INVARIANTS
    TypeOK
    NoHostLost
    LayoutKept
    ListsKeepMembers
    OthersStayInLists
    ListsMirrorHosts
CHECK_DEADLOCK FALSE
