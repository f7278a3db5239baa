CONSTANTS
    u1 = u1
    u2 = u2
    onOpen = onOpen
    onData = onData
    None = None
    Users <- MC_TwoUsers
    Callbacks <- MC_Callbacks
    MaxOps = 2
SPECIFICATION Spec
INVARIANTS OnePollThread
CHECK_DEADLOCK FALSE
