CONSTANTS
    Thread = {1, 2, 3}
    Leader = 1
    Code = {7}
    TermCode = 143
SPECIFICATION FairSpec
PROPERTY ExitGroupConverges
CHECK_DEADLOCK FALSE
