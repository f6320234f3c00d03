SPECIFICATION Spec
CONSTANTS
    u1 = u1
    u2 = u2
    USER = USER
    ADMIN = ADMIN
    client = client
    other = other
    proxy = proxy
    mail = mail
    forged = forged
    Header = Header
    NoToken = NoToken
    Texts = {Header, NoToken, forged}
    None = None
    Blank = Blank
    Clients = {client, other}
    Trusted = {proxy}
    MaxBody = 2
    MaxChunk = 2
    Sizes = {0, 2, 5}
    Users = {u1, u2}
    Roles = {USER, ADMIN}
    CookieUser = u1
    Allowlist = {client}
    Routes <- MCRoutes
    Emails = {mail}
    Times = 1
    AccountStates <- MCAccountStates
    Claims <- MCClaims
    MaxForwarded = 4
    MaxRequests = 2
    MaxChanges = 1
INVARIANTS TypeOK AllowlistHonoured LimitedByOwnRequests TurnedAwayForCause BufferBounded OneIdentity OneSnapshot
PROPERTIES Answered
\* The requests are bounded: after the last one nothing is left to do.
CHECK_DEADLOCK FALSE
