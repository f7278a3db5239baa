--------------------------- MODULE SocketIOClient ---------------------------
(***************************************************************************)
(* The asynchronous Socket.IO client of                                    *)
(* src/socketio/src/asynchronous/client/client.rs.                         *)
(*                                                                         *)
(* Actors:                                                                 *)
(*  - user tasks calling emit_with_ack (one per element of AckEmitters),   *)
(*    emit (PlainEmitters), connect and disconnect;                        *)
(*  - the dispatcher: the task polling the Client stream (poll_next), which *)
(*    runs handle_socketio_packet and handle_ack for every inbound packet; *)
(*  - the server, which answers emitted events with ACKs and may send any  *)
(*    packet of ServerPackets on its own.                                  *)
(* outstanding_acks is a tokio RwLock: the code takes it once to push,    *)
(* once to scan and once more for every index it removes. The dispatcher's *)
(* sections are atomic steps; an emit_with_ack holds it across a step of   *)
(* its own (`ackLock`), so that the dispatcher can find it taken. poll_next *)
(* polls a fresh Box::pin(handle_socketio_packet(..)) once under ready!:   *)
(* when a write() inside it is Pending, that future is dropped with the    *)
(* packet it was handling.                                                 *)
(* The inner Socket (connect, send, disconnect) is not under src/; it is   *)
(* modelled from the spec as a connection state `sock`.                    *)
(***************************************************************************)
EXTENDS Naturals, Sequences, SequencesExt, FiniteSets

CONSTANTS
    AckEmitters,    \* emit_with_ack calls, one per user task
    PlainEmitters,  \* emit calls, one per user task
    Ids,            \* the ids thread_rng().gen_range(0..999) may draw
    Timeouts,       \* the timeouts callers pass to emit_with_ack
    MaxTime,        \* bound on the clock
    MaxInbound,     \* bound on the packets the server sends
    Nsp,            \* the client's namespace
    OtherNsp,       \* another namespace multiplexed on the same engine.io socket
    Custom,         \* custom event names
    Registered,     \* the events of the `on` map (fixed before connect)
    AckForms,       \* payloads a server ACK may carry: subsets of {"text","binary"}
    ServerPackets,  \* packets the server may send unsolicited
    None            \* absence of a value (Option::None)

\* The Event enum: the common events and the custom names.
Message == "message"
Error   == "error"
Connect == "connect"
Close   == "close"
Events  == {Message, Error, Connect, Close} \cup Custom

\* An event-array element 0 that is not a JSON string.
NonString == "nonString"

PacketTypes == {"Connect", "Disconnect", "Event", "Ack", "ConnectError",
                "BinaryEvent", "BinaryAck", "Err"}
AckTypes == {"Ack", "BinaryAck"}
\* Shapes of the `data` field of a packet: none, an ACK's text, or the JSON
\* of an EVENT (not an array, [], [x], [name, x, ...]).
DataShapes == {"none", "text", "notArray", "empty", "one", "many"}

\* A Socket.IO packet. `reply` is the emit a server ACK answers; the code
\* does not see it, the properties do.
Packets == [type : PacketTypes, nsp : {Nsp, OtherNsp}, id : Ids \cup {None},
            data : DataShapes, name : Custom \cup {NonString, None},
            att : BOOLEAN, reply : AckEmitters \cup {None}]

ASSUME /\ AckEmitters \cap PlainEmitters = {}
       /\ Registered \subseteq Events
       /\ ServerPackets \subseteq Packets
       /\ AckForms \subseteq (SUBSET {"text", "binary"}) \ {{}}
       /\ MaxTime \in Nat /\ MaxInbound \in Nat

VARIABLES
    now,        \* the tokio Instant clock
    sock,       \* the inner socket: "new", "open" or "closed"
    acks,       \* outstanding_acks: a Vec of Ack records, in push order
    pc,         \* control point of each user task
    req,        \* id, start and timeout an emit_with_ack call used
    toServer,   \* packets on the wire to the server, in send order
    toClient,   \* every packet the server has sent, in wire order
    rd,         \* number of packets of toClient the dispatcher has taken
    dpc,        \* dispatcher: "poll", "removing" or "panicked"
    toRemove,   \* handle_ack's to_be_removed, still to be removed
    cur,        \* index in toClient of the ACK being handled
    ackCalls,   \* ack callback invocations, in order
    fired,      \* Client::callback calls for events
    yielded,    \* indices in toClient of the items the stream returned
    walks,      \* handle_ack scans: the ACK's index and the time of the scan
    ackLock     \* the user task holding outstanding_acks' write lock, or None

vars == <<now, sock, acks, pc, req, toServer, toClient, rd, dpc, toRemove,
          cur, ackCalls, fired, yielded, walks, ackLock>>
userVars == <<pc, req, ackLock>>
dispVars == <<rd, dpc, toRemove, cur, ackCalls, fired, yielded, walks>>

Users == AckEmitters \cup PlainEmitters \cup {"connect", "disconnect"}

AckRecord == [id : Ids, started : 0..MaxTime, timeout : Timeouts, cb : AckEmitters]

TypeOK ==
    /\ now \in 0..MaxTime
    /\ sock \in {"new", "open", "closed"}
    /\ acks \in Seq(AckRecord)
    /\ pc \in [Users -> {"idle", "locked", "pushed", "sent", "done", "failed"}]
    /\ req \in [AckEmitters -> AckRecord \cup {None}]
    /\ toServer \in Seq([type : PacketTypes, nsp : {Nsp}, id : Ids \cup {None},
                         from : Users])
    /\ toClient \in Seq(Packets)
    /\ rd \in 0..Len(toClient)
    /\ dpc \in {"poll", "removing", "panicked"}
    /\ toRemove \in Seq(Nat \ {0})
    /\ cur \in Nat
    /\ ackCalls \in Seq([cb : AckEmitters, payload : {"text", "binary"},
                         n : Nat, at : 0..MaxTime])
    /\ fired \in SUBSET [n : Nat, ev : Events, ran : BOOLEAN]
    /\ yielded \in Seq(Nat)
    /\ walks \in SUBSET [n : Nat, at : 0..MaxTime]
    /\ ackLock \in AckEmitters \cup {None}

Init ==
    /\ now = 0
    /\ sock = "new"
    /\ acks = <<>>
    /\ pc = [u \in Users |-> "idle"]
    /\ req = [e \in AckEmitters |-> None]
    /\ toServer = <<>>
    /\ toClient = <<>>
    /\ rd = 0
    /\ dpc = "poll"
    /\ toRemove = <<>>
    /\ cur = 0
    /\ ackCalls = <<>>
    /\ fired = {}
    /\ yielded = <<>>
    /\ walks = {}
    /\ ackLock = None

-----------------------------------------------------------------------------
(* The inner socket (spec-modelled): send succeeds only while it is open.  *)

Send(pkt) ==
    toServer' = Append(toServer, pkt)

-----------------------------------------------------------------------------
(* User tasks.                                                             *)

\* Client::connect: connect the inner socket, then send CONNECT for nsp.
ClientConnect ==
    /\ pc["connect"] = "idle"
    /\ sock = "new"
    /\ sock' = "open"
    /\ Send([type |-> "Connect", nsp |-> Nsp, id |-> None, from |-> "connect"])
    /\ pc' = [pc EXCEPT !["connect"] = "done"]
    /\ UNCHANGED <<now, acks, req, ackLock, toClient, dispVars>>

\* Client::disconnect, first await: send DISCONNECT; its error is returned.
DisconnectSend ==
    /\ pc["disconnect"] = "idle"
    /\ \/ /\ sock = "open"
          /\ Send([type |-> "Disconnect", nsp |-> Nsp, id |-> None,
                   from |-> "disconnect"])
          /\ pc' = [pc EXCEPT !["disconnect"] = "sent"]
       \/ /\ sock # "open"
          /\ pc' = [pc EXCEPT !["disconnect"] = "failed"]
          /\ UNCHANGED toServer
    /\ UNCHANGED <<now, sock, acks, req, ackLock, toClient, dispVars>>

\* Client::disconnect, second await: close the inner socket.
DisconnectClose ==
    /\ pc["disconnect"] = "sent"
    /\ sock' = "closed"
    /\ pc' = [pc EXCEPT !["disconnect"] = "done"]
    /\ UNCHANGED <<now, acks, req, ackLock, toServer, toClient, dispVars>>

\* Client::emit: one send of an EVENT without id.
Emit(e) ==
    /\ pc[e] = "idle"
    /\ \/ /\ sock = "open"
          /\ Send([type |-> "Event", nsp |-> Nsp, id |-> None, from |-> e])
          /\ pc' = [pc EXCEPT ![e] = "done"]
       \/ /\ sock # "open"
          /\ pc' = [pc EXCEPT ![e] = "failed"]
          /\ UNCHANGED toServer
    /\ UNCHANGED <<now, sock, acks, req, ackLock, toClient, dispVars>>

\* The id emit_with_ack draws: any value of the range, whatever is
\* outstanding.
DrawIds == Ids

\* emit_with_ack up to its first await: draw an id, build the packet and
\* the Ack, and take the write lock.
EmitWithAckLock(e) ==
    /\ pc[e] = "idle"
    /\ ackLock = None
    /\ \E id \in DrawIds, to \in Timeouts :
         req' = [req EXCEPT ![e] = [id |-> id, started |-> now, timeout |-> to, cb |-> e]]
    /\ ackLock' = e
    /\ pc' = [pc EXCEPT ![e] = "locked"]
    /\ UNCHANGED <<now, sock, acks, toServer, toClient, dispVars>>

\* push(ack) under the guard, which the end of the statement drops.
EmitWithAckPush(e) ==
    /\ pc[e] = "locked"
    /\ acks' = Append(acks, req[e])
    /\ ackLock' = None
    /\ pc' = [pc EXCEPT ![e] = "pushed"]
    /\ UNCHANGED <<now, sock, req, toServer, toClient, dispVars>>

\* emit_with_ack's last await: send the packet. A failed send returns the
\* error and leaves the Ack in outstanding_acks.
EmitWithAckSend(e) ==
    /\ pc[e] = "pushed"
    /\ \/ /\ sock = "open"
          /\ Send([type |-> "Event", nsp |-> Nsp, id |-> req[e].id, from |-> e])
          /\ pc' = [pc EXCEPT ![e] = "sent"]
       \/ /\ sock # "open"
          /\ pc' = [pc EXCEPT ![e] = "failed"]
          /\ UNCHANGED toServer
    /\ UNCHANGED <<now, sock, acks, req, ackLock, toClient, dispVars>>

-----------------------------------------------------------------------------
(* The server and the clock.                                               *)

\* The server answers an emit_with_ack it received with an ACK of its id.
ServerAck(e, form) ==
    /\ sock = "open"
    /\ Len(toClient) < MaxInbound
    /\ \E i \in 1..Len(toServer) : toServer[i].from = e
    /\ ~\E j \in 1..Len(toClient) : toClient[j].reply = e
    /\ toClient' = Append(toClient,
         [type  |-> IF "binary" \in form THEN "BinaryAck" ELSE "Ack",
          nsp   |-> Nsp, id |-> req[e].id,
          data  |-> IF "text" \in form THEN "text" ELSE "none",
          name  |-> None, att |-> "binary" \in form, reply |-> e])
    /\ UNCHANGED <<now, sock, acks, userVars, toServer, dispVars>>

\* The server, or the transport below, sends a packet of its own.
ServerSend(p) ==
    /\ sock = "open"
    /\ Len(toClient) < MaxInbound
    /\ toClient' = Append(toClient, p)
    /\ UNCHANGED <<now, sock, acks, userVars, toServer, dispVars>>

Tick ==
    /\ now < MaxTime
    /\ now' = now + 1
    /\ UNCHANGED <<sock, acks, userVars, toServer, toClient, dispVars>>

-----------------------------------------------------------------------------
(* The dispatcher: Client::poll_next and the handlers it runs.             *)

\* Client::callback for an event: the callback registered for it runs, if
\* there is one (`ran`).
Fire(ev, n) == {[n |-> n, ev |-> ev, ran |-> ev \in Registered]}

\* Mutant of ForNamespace: the namespace is not compared.
ForAnyNamespace(p) == TRUE

\* poll_next's filter: only packets of this namespace are handled and
\* returned; the others are skipped.
ForNamespace(p) == p.nsp = Nsp

\* Mutants of Matches: the id is not compared; the last ack is not walked.
MatchesAnyId(id) == SelectSeq([i \in 1..Len(acks) |-> i], LAMBDA i : TRUE)
MatchesButLast(id) ==
    SelectSeq([i \in 1..Len(acks) - 1 |-> i], LAMBDA i : acks[i].id = id)

\* handle_ack: the indices of the outstanding acks whose id matches, in
\* ascending order (to_be_removed).
Matches(id) == SelectSeq([i \in 1..Len(acks) |-> i], LAMBDA i : acks[i].id = id)

\* handle_ack: the ack is still within its timeout.
InTime(a) == now - a.started < a.timeout

\* handle_ack: the callback runs once with the text data, then once with the
\* first attachment, for each one present.
AckPayloads(a, p, n) ==
    LET call(kind) == <<[cb |-> a.cb, payload |-> kind, n |-> n, at |-> now]>>
    IN (IF p.data # "none" THEN call("text") ELSE <<>>)
       \o (IF p.att THEN call("binary") ELSE <<>>)

\* Mutant of BinaryEventName: no default when the packet has no data.
BinaryEventNameRaw(p) == p.name

\* handle_binary_event: the event is the data with its quotes stripped, or
\* Message when there is no data.
BinaryEventName(p) == IF p.name \in Custom THEN p.name ELSE Message

\* handle_event: the event an EVENT packet's JSON array is delivered under.
\* handle_binary_event: the unquoted data, or Message, if an attachment is
\* there. The others map to a fixed event.
EventsOf(p) ==
    CASE p.type = "Event" /\ p.data = "many" ->
             {IF p.name \in Custom THEN p.name ELSE Message}
      [] p.type = "Event" /\ p.data = "one"  -> {Message}
      [] p.type = "Event"                    -> {}
      [] p.type = "BinaryEvent" /\ p.att     -> {BinaryEventName(p)}
      [] p.type = "BinaryEvent"              -> {}
      [] p.type = "Connect"                  -> {Connect}
      [] p.type = "Disconnect"               -> {Close}
      [] p.type = "ConnectError"             -> {Error}

\* handle_event unwraps contents.get(0) of an empty array: a panic.
Panics(p) == p.type = "Event" /\ p.data = "empty"

NextPacket == toClient[rd + 1]

\* poll_next gets an error from the socket: Error callback, then Err.
PollError ==
    /\ dpc = "poll"
    /\ rd < Len(toClient)
    /\ NextPacket.type = "Err"
    /\ rd' = rd + 1
    /\ fired' = fired \cup Fire(Error, rd + 1)
    /\ yielded' = Append(yielded, rd + 1)
    /\ UNCHANGED <<now, sock, acks, userVars, toServer, toClient,
                   dpc, toRemove, cur, ackCalls, walks>>

\* poll_next skips a packet of another namespace and polls again.
PollForeign ==
    /\ dpc = "poll"
    /\ rd < Len(toClient)
    /\ NextPacket.type # "Err"
    /\ ~ForNamespace(NextPacket)
    /\ rd' = rd + 1
    /\ UNCHANGED <<now, sock, acks, userVars, toServer, toClient,
                   dpc, toRemove, cur, ackCalls, fired, yielded, walks>>

\* poll_next runs handle_socketio_packet on a non-ACK packet and returns it.
\* handle_socketio_packet checks the namespace again before any callback.
PollPacket ==
    /\ dpc = "poll"
    /\ rd < Len(toClient)
    /\ LET p == NextPacket
       IN /\ p.type \notin AckTypes \cup {"Err"}
          /\ ForNamespace(p)
          /\ ~(Panics(p) /\ p.nsp = Nsp)
          /\ rd' = rd + 1
          /\ fired' = fired \cup
                UNION {Fire(ev, rd + 1) : ev \in IF p.nsp = Nsp THEN EventsOf(p) ELSE {}}
          /\ yielded' = Append(yielded, rd + 1)
    /\ UNCHANGED <<now, sock, acks, userVars, toServer, toClient,
                   dpc, toRemove, cur, ackCalls, walks>>

\* handle_event on an EVENT whose array is empty: the unwrap panics and the
\* task polling the stream dies.
PollPanic ==
    /\ dpc = "poll"
    /\ rd < Len(toClient)
    /\ ForNamespace(NextPacket)
    /\ Panics(NextPacket) /\ NextPacket.nsp = Nsp
    /\ rd' = rd + 1
    /\ dpc' = "panicked"
    /\ UNCHANGED <<now, sock, acks, userVars, toServer, toClient,
                   toRemove, cur, ackCalls, fired, yielded, walks>>

\* poll_next runs handle_ack: under one write lock, walk the outstanding
\* acks, run the callback of each in-time match and note its index. With no
\* match (or no id) the packet is returned at once; otherwise the indices
\* are removed next, one write lock each.
PollAck ==
    /\ dpc = "poll"
    /\ rd < Len(toClient)
    /\ LET p == NextPacket
           n == rd + 1
           M == IF p.id = None \/ p.nsp # Nsp THEN <<>> ELSE Matches(p.id)
           due == SelectSeq(M, LAMBDA i : InTime(acks[i]))
       IN /\ p.type \in AckTypes
          /\ ForNamespace(p)
          /\ p.id = None \/ ackLock = None
          /\ rd' = n
          /\ ackCalls' = ackCalls \o
                FlattenSeq([k \in 1..Len(due) |-> AckPayloads(acks[due[k]], p, n)])
          /\ walks' = IF p.id = None \/ p.nsp # Nsp THEN walks
                       ELSE walks \cup {[n |-> n, at |-> now]}
          /\ IF M = <<>>
               THEN /\ yielded' = Append(yielded, n)
                    /\ UNCHANGED <<dpc, toRemove, cur>>
               ELSE /\ dpc' = "removing"
                    /\ toRemove' = M
                    /\ cur' = n
                    /\ UNCHANGED yielded
    /\ UNCHANGED <<now, sock, acks, userVars, toServer, toClient, fired>>

\* handle_ack's write() finds the lock taken by an emit_with_ack: it is
\* Pending, ready! returns Pending from poll_next, and the boxed future is
\* dropped with the ACK poll_next took from the socket.
PollAckCancelled ==
    /\ dpc = "poll"
    /\ rd < Len(toClient)
    /\ NextPacket.type \in AckTypes
    /\ ForNamespace(NextPacket)
    /\ NextPacket.id # None
    /\ ackLock # None
    /\ rd' = rd + 1
    /\ UNCHANGED <<now, sock, acks, userVars, toServer, toClient,
                   dpc, toRemove, cur, ackCalls, fired, yielded, walks>>

\* Mutant of VecRemove: the index is taken as 0-based on a 1-based Vec.
VecRemoveNext(v, i) == RemoveAt(v, i + 1)

\* Vec::remove(index) on an index within the Vec.
VecRemove(v, i) == RemoveAt(v, i)

\* handle_ack's removal loop: `outstanding_acks.write().await.remove(index)`
\* with the indices taken before the first removal; Vec::remove panics on
\* an index past the end. After the last one the ACK is returned.
AckRemove ==
    /\ dpc = "removing"
    /\ ackLock = None
    /\ LET i == Head(toRemove)
       IN \/ /\ i > Len(acks)
             /\ dpc' = "panicked"
             /\ UNCHANGED <<acks, toRemove, yielded>>
          \/ /\ i <= Len(acks)
             /\ acks' = VecRemove(acks, i)
             /\ toRemove' = Tail(toRemove)
             /\ IF Tail(toRemove) = <<>>
                  THEN dpc' = "poll" /\ yielded' = Append(yielded, cur)
                  ELSE UNCHANGED <<dpc, yielded>>
    /\ UNCHANGED <<now, sock, userVars, toServer, toClient, rd, cur,
                   ackCalls, fired, walks>>

\* One removal's write() is Pending: the future is dropped with the rest of
\* to_be_removed, and the ACK is never returned.
AckRemoveCancelled ==
    /\ dpc = "removing"
    /\ ackLock # None
    /\ dpc' = "poll"
    /\ toRemove' = <<>>
    /\ UNCHANGED <<now, sock, acks, userVars, toServer, toClient, rd, cur,
                   ackCalls, fired, yielded, walks>>

-----------------------------------------------------------------------------

Next ==
    \/ ClientConnect
    \/ DisconnectSend
    \/ DisconnectClose
    \/ \E e \in PlainEmitters : Emit(e)
    \/ \E e \in AckEmitters :
          EmitWithAckLock(e) \/ EmitWithAckPush(e) \/ EmitWithAckSend(e)
    \/ \E e \in AckEmitters, form \in AckForms : ServerAck(e, form)
    \/ \E p \in ServerPackets : ServerSend(p)
    \/ Tick
    \/ PollError
    \/ PollForeign
    \/ PollPacket
    \/ PollPanic
    \/ PollAck
    \/ PollAckCancelled
    \/ AckRemove
    \/ AckRemoveCancelled

\* The dispatcher task is polled by the executor whenever a packet is
\* ready, and a user task that has started an emit runs to its end.
Dispatch ==
    \/ PollError \/ PollForeign \/ PollPacket \/ PollAck \/ PollAckCancelled
    \/ AckRemove \/ AckRemoveCancelled

Fairness ==
    /\ WF_vars(Dispatch)
    /\ \A e \in AckEmitters : WF_vars(EmitWithAckPush(e) \/ EmitWithAckSend(e))
    /\ WF_vars(DisconnectClose)

Spec == Init /\ [][Next]_vars /\ Fairness

-----------------------------------------------------------------------------
(* Properties of the ack path.                                             *)

\* The deadline of the emit_with_ack call e.
Deadline(e) == req[e].started + req[e].timeout

\* An ack callback runs only for the server's answer to that very
\* emit_with_ack: handle_ack matches on the id and the namespace, never on
\* another emit's ACK or a foreign namespace's.
AckCallbackFromOwnReply ==
    \A k \in 1..Len(ackCalls) : toClient[ackCalls[k].n].reply = ackCalls[k].cb

\* An ACK that handle_ack walked before the deadline of the emit it answers
\* has run that emit's callback: push-before-send in emit_with_ack and the
\* match in handle_ack never lose an answer that came in time.
AckDelivered ==
    \A w \in walks :
        LET e == toClient[w.n].reply
        IN e \in AckEmitters /\ w.at < Deadline(e) =>
               \E k \in 1..Len(ackCalls) : ackCalls[k].cb = e

\* An ACK the Client stream has returned leaves no outstanding Ack of the
\* emit it answers: the removal loop of handle_ack, run to its end, removes
\* exactly the entries the walk matched, by indices taken before the first
\* removal.
AckedEntriesRemoved ==
    \A i \in 1..Len(acks), k \in 1..Len(yielded) :
        toClient[yielded[k]].reply # acks[i].cb

\* Entries whose deadline has passed are reaped whenever handle_ack walks
\* the outstanding list (spec 4.5): after a walk no entry it found timed out
\* is left.
TimedOutReaped ==
    dpc = "poll" =>
        \A i \in 1..Len(acks) :
            ~\E w \in walks : acks[i].started + acks[i].timeout <= w.at

-----------------------------------------------------------------------------
(* Properties of the dispatcher.                                           *)

\* A packet of another namespace never reaches a user callback and is never
\* returned by the Client stream (poll_next and handle_socketio_packet).
NamespaceIsolation ==
    LET own(n) == toClient[n].nsp = Nsp \/ toClient[n].type = "Err"
    IN /\ \A k \in 1..Len(yielded) : own(yielded[k])
       /\ \A f \in fired : f.ran => own(f.n)

\* The Client stream returns every packet of its namespace that poll_next
\* takes from the socket, once handle_socketio_packet is done with it (spec
\* 6: it yields the packets of this namespace in receive order; spec 7:
\* per-packet errors do not end it). Only the ACK whose removals are under
\* way may still be pending.
OwnPacketsYielded ==
    \A n \in 1..rd :
        toClient[n].nsp = Nsp =>
            n \in Range(yielded) \/ (dpc = "removing" /\ n = cur)

====
