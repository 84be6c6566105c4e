CONSTANTS
    w1 = w1
    Waiter = {w1, w2}
    Kid = {k1, k2}
    Orphan = {k2}
    Sender = {s1}
    Options = {{}, {"WNOHANG"}, {"WNOWAIT"}}
SPECIFICATION SuiteSpec
INVARIANTS
    ExitWakesWaiter
    NoStaleRegistration
    ReapedOnce
PROPERTY OneWaitReturns
