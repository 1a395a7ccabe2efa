SPECIFICATION FairSpec
CONSTANTS
    MaxSize = 2
    MaxFrames = 4
    Users = {u1}
    Timers = {t1, t2}
    Controller = ctl
    NoTimer = NoTimer
INVARIANTS BufferInv DeliveredInOrder StopQuiesces
PROPERTIES FlushedInTime
CHECK_DEADLOCK FALSE
