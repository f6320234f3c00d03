\* One request at a time, three sessions, every deadline reached.
SPECIFICATION Spec
CONSTANTS
    Users = {u1}
    Requests = {r1}
    Admins = {a1}
    None = None
    AccessTTL = 1
    DefaultTTL = 2
    RefreshTTL = 3
    InitVersions <- MCInitVersions
    MayFail = FALSE
    MaxTime = 3
    MaxJti = 7
    MaxGeneration = 2
SYMMETRY Symmetry
\* Tokens and time run out at their bounds, and nobody has to send a request.
CHECK_DEADLOCK FALSE
INVARIANTS
    StalePasswordNeverAccepted
    TypeOK
    RefreshSingleUse
    LogoutEndsSessions
    PairedWhenQuiescent
