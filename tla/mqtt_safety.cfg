\* Two threads flush and disconnect while one publishes; the queue holds two.
SPECIFICATION Spec
CONSTANTS
    Windows = {w1, w2, w3}
    Callers = {a1}
    Closers = {c1, c2}
    PublishThread = pub
    ReconnectThreads = {r1}
    NoWindow = NoWindow
    QueueMax = 2
    BackoffStart = 1
    BackoffMax = 1
SYMMETRY WindowSymmetry
INVARIANTS TypeOK Conservation OrderWhileUp NothingStranded CleanShutdownDelivers
PROPERTY ChannelSpec
CHECK_DEADLOCK FALSE
