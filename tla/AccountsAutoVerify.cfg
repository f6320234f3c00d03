\* Sign-up with the flag that makes new accounts active, one request at a time.
SPECIFICATION Spec
CONSTANTS
    i1 = i1
    i2 = i2
    i3 = i3
    i4 = i4
    e1 = e1
    e2 = e2
    e3 = e3
    e4 = e4
    x1 = x1
    Ids = {i1, i2, i3}
    Emails = {e1, e2, e3, e4}
    ExternalIds = {x1}
    None = None
    Null = Null
    Roles <- MCRoles
    DefaultRoles <- MCDefaultRoles
    UserRole = "user"
    RoleTable <- MCRoleTable
    DefaultRules <- MCDefaultRules
    HostRows <- MCHostRows
    Payloads <- MCPayloads
    AutoVerify = TRUE
    Requests = {r1}
PROPERTIES
    AutoVerified
