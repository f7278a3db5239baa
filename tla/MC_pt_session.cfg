CONSTANTS
    None = None
    Registered <- MC_AllCallbacks
    HandshakeBodies <- MC_GoodBodies
    ServerKinds <- MC_HandledKinds
    CallerKinds <- MC_Message
    MaxQueued = 3
    MaxCalls = 4
SPECIFICATION Spec
INVARIANTS UsableAfterOpen
CHECK_DEADLOCK FALSE
