\* A logout while another request mints.
SPECIFICATION Spec
CONSTANTS
    Users = {u1}
    Requests = {r1, r2}
    Admins = {}
    None = None
    AccessTTL = 1
    DefaultTTL = 2
    RefreshTTL = 3
    InitVersions <- MCVersionOne
    MayFail = FALSE
    MaxTime = 1
    MaxJti = 5
    MaxGeneration = 1
SYMMETRY Symmetry
\* Tokens and time run out at their bounds, and nobody has to send a request.
CHECK_DEADLOCK FALSE
INVARIANTS
    LogoutEndsSessions
