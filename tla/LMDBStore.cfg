\* One name in both namespaces, two fields, a read held up beside all other commands.
SPECIFICATION Spec
CONSTANTS
    Names = {n1}
    Fields = {f1, f2}
    Values = {v1, v2}
    None = None
    TTLs = {1}
    MaxTime = 2
    Threads = {t1}
    DefaultTTL = 1
\* Time runs out at its bound.
CHECK_DEADLOCK FALSE
INVARIANTS
    TypeOK
PROPERTIES
    Implements
    EventuallyPurged
