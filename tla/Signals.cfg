CONSTANTS
    s1 = s1
    s2 = s2
    Sender = {s1}
    Sig = {"A", "B"}
    Disp = {"catch_restart", "catch_info"}
    Special = {"KILL"}
    Ops = {"cond", "suspend", "mask"}
    QueSize = 2
    MaxDepth = 2
SPECIFICATION SuiteSpec
INVARIANTS
    PendingFlag
    CallsRestartHonoured
PROPERTIES
    CallsGetThrough
CHECK_DEADLOCK FALSE
