\* Dispatch of every kind of inbound packet on two namespaces, with two
\* emit_with_ack tasks whose ids always collide.
CONSTANTS
    a1 = a1  a2 = a2  a3 = a3  p1 = p1  c1 = c1  c2 = c2
    None = None  Nsp = Nsp  OtherNsp = OtherNsp
    Custom <- MC_Custom
    AckForms = {{"text"}}
    AckEmitters <- MC_AckEmitters2
    PlainEmitters = {p1}
    Ids = {1}
    Timeouts = {1}
    MaxTime = 0
    MaxInbound = 2
    Registered = {"message", "error", "connect", "close", c1}
    ServerPackets <- MC_DispatchPackets
SPECIFICATION Spec
INVARIANT TypeOK
INVARIANT NamespaceIsolation
CHECK_DEADLOCK FALSE
