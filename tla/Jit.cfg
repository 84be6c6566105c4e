SPECIFICATION Spec
CONSTANTS
    Programs <- MCPrograms
    StackMax = 4
    Modulus = 3
    Signal = {1, 2}
    CacheSlots = 2
    Stoppable = {2}
INVARIANTS
    FrameRegisterSynced
    CodeSound
PROPERTIES
    GuestSpec
    FlagsNoticed
CHECK_DEADLOCK FALSE
