--------------------------- MODULE PollingTransport ---------------------------
(***************************************************************************)
(* The long-polling TransportClient of src/src/transport.rs. Its methods   *)
(* take &mut self, so one caller runs them one at a time: each call is one *)
(* step, its awaits included. The HTTP server is the environment: it       *)
(* answers the handshake and queues packets for the next poll.             *)
(***************************************************************************)
EXTENDS Naturals, Sequences, SequencesExt

CONSTANTS
    Registered,     \* callbacks the caller set: subset of {"open", "packet", "data"}
    HandshakeBodies,\* bodies the server may answer the handshake GET with
    ServerKinds,    \* engine.io packet kinds the server may queue
    CallerKinds,    \* engine.io packet kinds the caller emits
    MaxQueued,      \* bound on the packets the server queues
    MaxCalls,       \* bound on the caller's calls
    None

\* The handshake body abstracted: empty, "0{...}" with valid JSON, or other.
Bodies == {"empty", "open", "garbage"}
Kinds == {"Open", "Close", "Ping", "Pong", "Message", "Upgrade", "Noop"}

ASSUME /\ HandshakeBodies \subseteq Bodies
       /\ ServerKinds \subseteq Kinds /\ CallerKinds \subseteq Kinds
       /\ MaxQueued \in Nat /\ MaxCalls \in Nat

Results == {"ok", "ActionBeforeOpen", "InvalidUrl", "HandshakeError",
            "HttpError", "Network", "Decode"}

VARIABLES
    connected,  \* TransportClient.connected
    address,    \* TransportClient.address is Some
    handshake,  \* TransportClient.connection_data is Some
    panicked,   \* None, or the expression the caller's task panicked at
    last,       \* the Result of the last call
    calls,      \* calls made so far
    queue,      \* packets the server holds for the next poll
    sent,       \* packets the server has queued so far (they are numbered)
    delivered,  \* packets decoded by poll(), in order
    cbs,        \* callback invocations, in order: [cb, pkt]
    posted      \* packet kinds emit() POSTed

vars == <<connected, address, handshake, panicked, last, calls, queue, sent,
          delivered, cbs, posted>>

Packet == [kind : Kinds, n : Nat]

Init ==
    /\ connected = FALSE
    /\ address = FALSE
    /\ handshake = FALSE
    /\ panicked = None
    /\ last = None
    /\ calls = 0
    /\ queue = <<>>
    /\ sent = 0
    /\ delivered = <<>>
    /\ cbs = <<>>
    /\ posted = <<>>

\* A call of the caller's task: it is alive and has calls left.
Call == panicked = None /\ calls < MaxCalls /\ calls' = calls + 1

Panic(at) == panicked' = at /\ UNCHANGED last

\* Calling a callback the caller set; an unset one is skipped.
Invoke(cb, p) == IF cb \in Registered THEN <<[cb |-> cb, pkt |-> p]>> ELSE <<>>

-----------------------------------------------------------------------------
(* open(address)                                                           *)

\* A connected client returns Ok. Otherwise a valid URL is stored and the
\* handshake GET is sent; the body without its first byte must parse as
\* HandshakeData, and slicing an empty body panics.
Open ==
    /\ Call
    /\ IF connected
         THEN last' = "ok" /\ UNCHANGED <<address, handshake, panicked, cbs>>
         ELSE \/ last' = "InvalidUrl" /\ UNCHANGED <<address, handshake, panicked, cbs>>
              \/ /\ address' = TRUE
                 /\ \/ last' = "Network" /\ UNCHANGED <<handshake, panicked, cbs>>
                    \/ \E body \in HandshakeBodies :
                         CASE body = "empty"   -> Panic("slice") /\ UNCHANGED <<handshake, cbs>>
                           [] body = "garbage" -> last' = "HandshakeError"
                                                  /\ UNCHANGED <<handshake, panicked, cbs>>
                           [] body = "open"    -> /\ handshake' = TRUE
                                                  /\ cbs' = cbs \o Invoke("open", None)
                                                  /\ last' = "ok"
                                                  /\ UNCHANGED panicked
    /\ UNCHANGED <<connected, queue, sent, delivered, posted>>

-----------------------------------------------------------------------------
(* emit(packet) and poll()                                                 *)

RefuseWhenNotConnected == ~connected

\* The guard both methods start with: Err(ActionBeforeOpen) when connected.
Refuse == connected

\* emit: connection_data.unwrap() for the sid, then the POST; a status
\* other than 200 is an HttpError.
Emit ==
    /\ Call
    /\ \E k \in CallerKinds :
         IF Refuse THEN last' = "ActionBeforeOpen" /\ UNCHANGED <<panicked, posted>>
         ELSE IF ~handshake THEN Panic("unwrap") /\ UNCHANGED posted
         ELSE \/ /\ posted' = Append(posted, k)
                 /\ last' \in {"ok", "HttpError"}
                 /\ UNCHANGED panicked
              \/ last' = "Network" /\ UNCHANGED <<panicked, posted>>
    /\ UNCHANGED <<connected, address, handshake, queue, sent, delivered, cbs>>

\* Only a MESSAGE is handed to on_data.
IsData(p) == p.kind = "Message"

\* Close, Open, Upgrade, Ping and Pong reach todo!().
Unhandled(p) == p.kind \in {"Close", "Open", "Upgrade", "Ping", "Pong"}

\* The callbacks the loop runs for one packet: on_packet, then on_data.
Reaction(p) == Invoke("packet", p) \o (IF IsData(p) THEN Invoke("data", p) ELSE <<>>)

\* poll: connection_data.unwrap(), a GET that the server holds until it has
\* packets, decode_payload, then for each packet in order its callbacks;
\* the first packet the match does not handle panics after its on_packet.
\* The GET fails before the server flushed its queue, or the response that
\* flushed it fails to be read (bytes()) or decoded: those packets are gone.
Poll ==
    /\ Call
    /\ IF Refuse THEN last' = "ActionBeforeOpen"
                      /\ UNCHANGED <<panicked, queue, delivered, cbs>>
       ELSE IF ~handshake THEN Panic("unwrap") /\ UNCHANGED <<queue, delivered, cbs>>
       ELSE \/ last' = "Network" /\ UNCHANGED <<panicked, queue, delivered, cbs>>
            \/ /\ queue # <<>>
               /\ queue' = <<>>
               /\ last' \in {"Network", "Decode"}
               /\ UNCHANGED <<panicked, delivered, cbs>>
            \/ /\ queue # <<>>
               /\ queue' = <<>>
               /\ LET stop == SelectInSeq(queue, Unhandled)
                      done == IF stop = 0 THEN queue ELSE SubSeq(queue, 1, stop)
                  IN /\ delivered' = delivered \o done
                     /\ cbs' = cbs \o FlattenSeq([i \in 1..Len(done) |->
                                  IF i = stop THEN Invoke("packet", done[i])
                                              ELSE Reaction(done[i])])
                     /\ IF stop = 0 THEN last' = "ok" /\ UNCHANGED panicked
                                    ELSE Panic("todo")
    /\ UNCHANGED <<connected, address, handshake, sent, posted>>

-----------------------------------------------------------------------------
(* The server                                                              *)

\* Once the session is open the server queues packets for the next poll;
\* a PING comes every pingInterval.
ServerQueue ==
    /\ handshake
    /\ sent < MaxQueued
    /\ \E k \in ServerKinds : queue' = Append(queue, [kind |-> k, n |-> sent + 1])
    /\ sent' = sent + 1
    /\ UNCHANGED <<connected, address, handshake, panicked, last, calls,
                   delivered, cbs, posted>>

Next == Open \/ Emit \/ Poll \/ ServerQueue

Spec == Init /\ [][Next]_vars

-----------------------------------------------------------------------------
(* Properties.                                                             *)

\* The test test_connection opens and then emits: once the handshake has
\* succeeded, neither emit() nor poll() is refused with ActionBeforeOpen.
UsableAfterOpen == handshake => last # "ActionBeforeOpen"


\* Every method returns Result: a failed handshake, a call before open and
\* a packet poll() cannot handle are all meant to come back as an Err
\* (HandshakeError, ActionBeforeOpen, InvalidPacket), never as a panic of
\* the caller's task: at response[1..] of open, connection_data.unwrap() of
\* emit and poll, or todo!() in poll's match.
CallerNeverPanics == panicked = None

====
