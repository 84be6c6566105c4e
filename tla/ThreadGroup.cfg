CONSTANTS
    Thread = {1, 2, 3}
    Leader = 1
    Code = {143}
    TermCode = 143
SPECIFICATION FairSpec
INVARIANTS
    LiveCount
    ExecExclusive
    SingleReaper
    ExecNoLostWakeup
PROPERTIES
    ReportedFinal
    KilledDies
CHECK_DEADLOCK FALSE
