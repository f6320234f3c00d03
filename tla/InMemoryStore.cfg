\* One name in both namespaces, two fields.
SPECIFICATION Spec
CONSTANTS
    Names = {n1}
    Fields = {f1, f2}
    Values = {v1, v2}
    None = None
    TTLs = {1}
    MaxTime = 2
\* Time runs out at its bound.
CHECK_DEADLOCK FALSE
INVARIANTS
    TypeOK
PROPERTIES
    Implements
    EventuallyPurged
