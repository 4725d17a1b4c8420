SPECIFICATION Spec
CONSTANTS
    Subs = {s1, s2}
    Nodes = {n1, n2}
    Requests = {r1, r2}
    Hook = hook
    SubIds = {i1, i2}
    Copies = {1, 2}
    MaxTroubles = 1
    None = None
SYMMETRY Symmetry
INVARIANT TypeOK
INVARIANT Coverage
INVARIANT NothingLeftBehind
INVARIANT SubscriptionExists
CHECK_DEADLOCK FALSE
