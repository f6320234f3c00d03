\* Two creations at once.
SPECIFICATION Spec
CONSTANTS
    Users = {u1}
    Keys = {k1, k2, k3}
    Addresses = {a1}
    Workers = {w1, w2}
    None = None
    MaxTokens = 1
    Lifetimes <- MCLifetimes
    MaxTime = 1
SYMMETRY Symmetry
\* The table fills up and time runs out at their bounds.
CHECK_DEADLOCK FALSE
INVARIANTS
    QuotaKept
