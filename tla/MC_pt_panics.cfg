CONSTANTS
    None = None
    Registered <- MC_AllCallbacks
    HandshakeBodies <- MC_AllBodies
    ServerKinds <- MC_PingKinds
    CallerKinds <- MC_Message
    MaxQueued = 2
    MaxCalls = 3
SPECIFICATION Spec
INVARIANTS CallerNeverPanics
CHECK_DEADLOCK FALSE
