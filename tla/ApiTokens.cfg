\* Two owners, two requests at a time, the application beside them.
SPECIFICATION Spec
CONSTANTS
    Users = {u1, u2}
    Keys = {k1, k2, k3}
    Addresses = {a1, a2}
    Workers = {w1, w2}
    None = None
    MaxTokens = 1
    Lifetimes <- MCLifetimes
    MaxTime = 1
SYMMETRY Symmetry
\* The table fills up and time runs out at their bounds.
CHECK_DEADLOCK FALSE
INVARIANTS
    TypeOK
    QuotaOvershootBounded
    AdmittedOnlyIfUsable
PROPERTIES
    OnlyOwnerRevokes
