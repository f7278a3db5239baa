\* An ack the server never answers, then a walk after its deadline.
CONSTANTS
    a1 = a1  a2 = a2  a3 = a3  p1 = p1  c1 = c1  c2 = c2
    None = None  Nsp = Nsp  OtherNsp = OtherNsp
    Custom <- MC_Custom
    AckForms = {{"text"}}
    AckEmitters <- MC_AckEmitters2
    PlainEmitters = {}
    Ids = {1, 2}
    Timeouts = {1}
    MaxTime = 1
    MaxInbound = 1
    Registered = {"message"}
    ServerPackets = {}
SPECIFICATION Spec
CONSTRAINT DistinctIds
INVARIANT TimedOutReaped
CHECK_DEADLOCK FALSE
