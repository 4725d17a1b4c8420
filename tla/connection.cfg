SPECIFICATION FairSpec
CONSTANTS
    Clients = {c1, c2, c3}
    Tasks = {t1, t2}
    None = None
INVARIANT TypeOK
INVARIANT OneSession
INVARIANT StopQuiesces
INVARIANT NeverUnattended
PROPERTY StopTerminates
PROPERTY Recovers
CHECK_DEADLOCK FALSE
