SPECIFICATION Spec
CONSTANTS
    Subs = {s1, s2}
    Nodes = {n1}
    Requests = {r1, r2}
    Hook = hook
    SubIds = {i1, i2}
    Copies = {1, 2}
    MaxTroubles = 1
    None = None
INVARIANT Refcounted
CHECK_DEADLOCK FALSE
