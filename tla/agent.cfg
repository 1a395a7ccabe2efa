SPECIFICATION FairSpec
CONSTANTS
    Captures = {c1, c2}
    Packets = {p1, p2, p3}
    Macs = {m1, m2}
    MaxObs = 2
    MaxWindows = 3
    MaxSignals = 2
INVARIANTS AgentInv ExitLosesLittle
PROPERTIES StopReturns
CHECK_DEADLOCK FALSE
