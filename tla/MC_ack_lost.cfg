\* The ack path with ids that do not collide: an ACK meets the write lock an
\* emit_with_ack holds.
CONSTANTS
    a1 = a1  a2 = a2  a3 = a3  p1 = p1  c1 = c1  c2 = c2
    None = None  Nsp = Nsp  OtherNsp = OtherNsp
    AckEmitters <- MC_AckEmitters2
    PlainEmitters = {}
    Ids = {1, 2}
    Timeouts = {1}
    MaxTime = 2
    MaxInbound = 3
    Custom <- MC_Custom
    Registered = {"message", "error"}
    AckForms = {{"text"}, {"binary"}, {"text", "binary"}}
    ServerPackets <- MC_ForeignAck
SPECIFICATION Spec
CONSTRAINT DistinctIds
INVARIANT OwnPacketsYielded
CHECK_DEADLOCK FALSE
