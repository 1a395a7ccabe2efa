\* One thread flushes and disconnects; two reconnect threads may overlap.
SPECIFICATION FairSpec
CONSTANTS
    Windows = {w1}
    Callers = {a1}
    Closers = {c1}
    PublishThread = pub
    ReconnectThreads = {r1, r2}
    NoWindow = NoWindow
    QueueMax = 1
    BackoffStart = 1
    BackoffMax = 2
PROPERTIES TeardownReturns DrainsWhileUp ComesBack
CHECK_DEADLOCK FALSE
