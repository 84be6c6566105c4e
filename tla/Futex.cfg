CONSTANTS
    Thread = {t1, t2, t3}
    Addr = {a1}
    Val = {0, 1}
    Counts = {1}
SPECIFICATION FairSpec
INVARIANTS
    BucketExact
    NoLostWake
PROPERTY WokenReturns
CHECK_DEADLOCK FALSE
