------------------------- MODULE MC_SocketIOClient -------------------------
(* Model values and bounds for SocketIOClient.                             *)
EXTENDS SocketIOClient, TLC

CONSTANTS a1, a2, a3, p1, c1, c2

MC_AckEmitters2 == {a1, a2}
MC_AckEmitters3 == {a1, a2, a3}
MC_Custom == {c1, c2}

\* The emit_with_ack tasks are interchangeable: no action or property
\* tells one from another except by identity.
symmAckEmitters == Permutations(MC_AckEmitters2)
MC_NoEmitters == {}

\* A packet the server sends on its own.
Pkt(t, ns, d, nm, a) ==
    [type |-> t, nsp |-> ns, id |-> None, data |-> d, name |-> nm, att |-> a,
     reply |-> None]

\* Every kind of unsolicited packet, on both namespaces, and a transport
\* error.
MC_DispatchPackets ==
    {Pkt("Event", ns, d, nm, FALSE) :
        ns \in {Nsp, OtherNsp}, d \in {"notArray", "empty", "one", "many"},
        nm \in {c1, NonString}}
    \cup {Pkt("BinaryEvent", ns, "none", nm, a) :
        ns \in {Nsp, OtherNsp}, nm \in {c1, None}, a \in BOOLEAN}
    \cup {Pkt(t, ns, "none", None, FALSE) :
        t \in {"Connect", "Disconnect", "ConnectError", "Ack"}, ns \in {Nsp, OtherNsp}}
    \cup {Pkt("Err", Nsp, "none", None, FALSE)}

\* An EVENT whose JSON array is empty: `2[]`.
MC_EmptyEvent == {Pkt("Event", Nsp, "empty", None, FALSE)}

\* A stray ACK of another namespace carrying an id the client may have drawn.
MC_ForeignAck ==
    {[type |-> "Ack", nsp |-> OtherNsp, id |-> 1, data |-> "text", name |-> None,
      att |-> FALSE, reply |-> None]}

\* The draws of thread_rng() happened not to collide with an outstanding id.
DistinctIds ==
    \A i, j \in 1..Len(acks) : i # j => acks[i].id # acks[j].id
====
