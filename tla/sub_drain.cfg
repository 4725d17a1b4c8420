SPECIFICATION Spec
CONSTANTS
    Subs = {s1, s2}
    Elements = {e1}
    Streams = {}
    RingSize = 2
    QueueSize = 1
    MaxSeq = 4
    LossySubs = {s2}
    KeyedSubs = {s2}
INVARIANT TypeOK
INVARIANT RingIsRecentSuffix
INVARIANT NoSilentGap
PROPERTY LogSpec
CHECK_DEADLOCK FALSE
