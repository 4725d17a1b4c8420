SPECIFICATION FairClientSpec
CONSTANTS
    Subs = {s1}
    Elements = {e1}
    Streams = {t1, t2}
    RingSize = 2
    QueueSize = 2
    MaxSeq = 3
    MaxTransit = 1
    LossySubs = {s1}
    KeyedSubs = {}
INVARIANT StreamInOrder
INVARIANT ListenerAttached
INVARIANT NothingSkipped
PROPERTY SentinelEndsStream
CHECK_DEADLOCK FALSE
