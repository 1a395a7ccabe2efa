SPECIFICATION FairSpec
CONSTANTS
    Conns = {c1, c2, c3}
    Sessions = {s1, s2}
    Timers = {t1, t2}
    Pushers = {p1}
    MaxSelects = 2
    NoConn = NoConn
    NoTimer = NoTimer
    NoSession = NoSession
    Absent = Absent
INVARIANTS ClientInv LiveHasRow GhostsExplained
PROPERTIES ComesBack
CHECK_DEADLOCK FALSE
