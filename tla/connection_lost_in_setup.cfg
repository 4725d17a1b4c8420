SPECIFICATION Spec
CONSTANTS
    Clients = {c1, c2}
    Tasks = {t1, t2}
    None = None
INVARIANT LossSpinsALoop
CHECK_DEADLOCK FALSE
