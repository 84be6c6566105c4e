CONSTANTS
    Sender = {s1}
    Sig = {"A"}
    Disp = {"catch"}
    Special = {"KILL"}
    Ops = {"host"}
    QueSize = 2
    MaxDepth = 2
SPECIFICATION FairSpec
PROPERTY KillEnds
CHECK_DEADLOCK FALSE
