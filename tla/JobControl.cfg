SPECIFICATION SuiteSpec
CONSTANTS
    Thread = {t1, t2, t3}
    Start = {t1}
    Sender = {s1}
    c1 = c1
    c2 = c2
    none = none
    d1 = d1
    d2 = d2
INVARIANTS
    NobodyLeftStopped
    OneSession
    ForegroundOfSession
    InOrder
    AllStop
PROPERTIES
    Resumes
    SignalArrives
    StopReported
CHECK_DEADLOCK FALSE
