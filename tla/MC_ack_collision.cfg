\* The ack path with ids drawn as the code draws them: collisions possible.
CONSTANTS
    a1 = a1  a2 = a2  a3 = a3  p1 = p1  c1 = c1  c2 = c2
    None = None  Nsp = Nsp  OtherNsp = OtherNsp
    AckEmitters <- MC_AckEmitters3
    PlainEmitters = {}
    Ids = {1, 2}
    Timeouts = {1}
    MaxTime = 0
    MaxInbound = 3
    Custom <- MC_Custom
    Registered = {"message"}
    AckForms = {{"text"}}
    ServerPackets = {}
SPECIFICATION Spec
INVARIANT AckDelivered
CHECK_DEADLOCK FALSE
