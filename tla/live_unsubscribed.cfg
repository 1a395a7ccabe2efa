SPECIFICATION Spec
CONSTANTS
    Conns = {c1, c2}
    Sessions = {s1}
    Timers = {t1, t2}
    Pushers = {p1}
    MaxSelects = 1
    NoConn = NoConn
    NoTimer = NoTimer
    NoSession = NoSession
    Absent = Absent
INVARIANTS ConnectedIsSubscribed
CHECK_DEADLOCK FALSE
