CONSTANTS
    Waiter = {w1, w2}
    Kid = {k1}
    Orphan = {}
    Sender = {}
    Options = {{}}
SPECIFICATION FairSpec
PROPERTY WaitReturns
