SPECIFICATION FairSpec
CONSTANTS
    Subs = {s1}
    Elements = {e1}
    Streams = {t1}
    RingSize = 1
    QueueSize = 1
    MaxSeq = 2
    LossySubs = {}
    KeyedSubs = {}
PROPERTY DeletedStreamsEnd
CHECK_DEADLOCK FALSE
