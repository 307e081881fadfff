\* Three events by two producers, one of them a handler of the topic itself,
\* two subscribers with a buffer of one, two Close calls.
CONSTANTS
    p1 = p1
    p2 = p2
    s1 = s1
    s2 = s2
    k1 = k1
    k2 = k2
    None = None
    Producer = {p1, p2}
    Inner = {p2}
    Subscriber = {s1, s2}
    TopicCloser = {k1, k2}
    Buffer = 1
    Events = 3
SPECIFICATION TopicFairSpec
INVARIANTS NoSendOnClosed NothingLost
PROPERTIES CloseReturns
CHECK_DEADLOCK FALSE
