\* The ack path with ids that do not collide, timeouts of one and two ticks
\* and a clock that runs past both deadlines.
CONSTANTS
    a1 = a1  a2 = a2  a3 = a3  p1 = p1  c1 = c1  c2 = c2
    None = None  Nsp = Nsp  OtherNsp = OtherNsp
    AckEmitters <- MC_AckEmitters2
    PlainEmitters = {}
    Ids = {1, 2}
    Timeouts = {1, 2}
    MaxTime = 3
    MaxInbound = 3
    Custom <- MC_Custom
    Registered = {"message", "error"}
    AckForms = {{"text"}, {"binary"}, {"text", "binary"}}
    ServerPackets <- MC_ForeignAck
SPECIFICATION Spec
SYMMETRY symmAckEmitters
CONSTRAINT DistinctIds
INVARIANT AckCallbackFromOwnReply
INVARIANT AckDelivered
INVARIANT AckedEntriesRemoved
CHECK_DEADLOCK FALSE
