SPECIFICATION Spec
CONSTANTS
    Vm = {v1, v2}
    Main = v1
    Session <- Kills
    BreakAddr = {1}
INVARIANT EveryTaskStops
CHECK_DEADLOCK FALSE
