------------------------- MODULE WebsocketTransport -------------------------
(***************************************************************************)
(* AsyncWebsocketGeneralTransport of                                       *)
(* src/engineio/src/async_transports/mod.rs: a WebSocket split into a      *)
(* sender and a receiver half, each behind its own tokio Mutex.            *)
(*                                                                         *)
(* Actors: one task running upgrade(), the tasks of Emitters each running  *)
(* emit() once, the tasks of Pollers each running poll() once, and the     *)
(* engine.io server at the other end of the WebSocket.                     *)
(* Every `.lock().await`, `send(..).await` and `next().await` of the code   *)
(* is a step of its own. A lock is granted to any waiter while it is free; *)
(* tokio's FIFO hand-over is one of these orders.                          *)
(***************************************************************************)
EXTENDS Naturals, Sequences

CONSTANTS
    Emitters,         \* emit() calls
    Pollers,          \* poll() calls
    ProbeReplies,     \* what the server may answer to the PING probe
    MaxDown,          \* bound on the frames the server sends
    None

Upgrader == "upgrade"
Tasks == {Upgrader} \cup Emitters \cup Pollers

\* Engine.IO packets on the WebSocket, abstracted to what tells them apart:
\* "2probe", "3probe", "5", a data packet of an emitter or of the server,
\* and any other packet (a NOOP, say).
Probe   == "ping-probe"
Pong    == "pong-probe"
UpgradePkt == "upgrade"
Other   == "other"

ASSUME /\ Emitters \cap Pollers = {}
       /\ ProbeReplies \subseteq {Pong, Other} /\ ProbeReplies # {}
       /\ MaxDown \in Nat

Payloads == {Probe, Pong, UpgradePkt, Other, "server"} \cup Emitters
Frames == [type : {"text", "binary"}, pkt : Payloads]
\* What poll() returns: the payload, and whether it got the MESSAGE prefix.
PolledBytes == [pkt : Payloads, message : BOOLEAN]

VARIABLES
    rcvOwner,   \* the task holding the receiver Mutex, or None
    sndOwner,   \* the task holding the sender Mutex, or None
    upc,        \* upgrade(): control point
    epc,        \* emit(): control point of each emitter
    ppc,        \* poll(): control point of each poller
    got,        \* what each poll() returned
    up,         \* frames on the wire to the server, in send order
    down,       \* frames the server sent, in order
    rcvRd,      \* frames of `down` the receiver stream has yielded
    srvRd,      \* frames of `up` the server has read
    srvUpgraded,\* the server has read UPGRADE
    closed      \* the server has closed the WebSocket

vars == <<rcvOwner, sndOwner, upc, epc, ppc, got, up, down, rcvRd, srvRd,
          srvUpgraded, closed>>
srvVars == <<down, srvRd, srvUpgraded, closed>>

UpgradeStates == {"idle", "lockRecv", "lockSend", "sendProbe", "awaitPong",
                  "sendUpgrade", "done", "failed"}

TypeOK ==
    /\ rcvOwner \in Tasks \cup {None}
    /\ sndOwner \in Tasks \cup {None}
    /\ upc \in UpgradeStates
    /\ epc \in [Emitters -> {"idle", "lock", "send", "done", "failed"}]
    /\ ppc \in [Pollers -> {"idle", "lock", "recv", "done", "failed"}]
    /\ got \in [Pollers -> PolledBytes \cup {None}]
    /\ up \in Seq(Frames)
    /\ down \in Seq(Frames)
    /\ rcvRd \in 0..Len(down)
    /\ srvRd \in 0..Len(up)
    /\ srvUpgraded \in BOOLEAN
    /\ closed \in BOOLEAN

Init ==
    /\ rcvOwner = None
    /\ sndOwner = None
    /\ upc = "idle"
    /\ epc = [e \in Emitters |-> "idle"]
    /\ ppc = [p \in Pollers |-> "idle"]
    /\ got = [p \in Pollers |-> None]
    /\ up = <<>>
    /\ down = <<>>
    /\ rcvRd = 0
    /\ srvRd = 0
    /\ srvUpgraded = FALSE
    /\ closed = FALSE

-----------------------------------------------------------------------------
(* The WebSocket halves.                                                   *)

\* sender.send(..).await: fails once the connection is closed.
SinkSend(f) ==
    \/ /\ ~closed
       /\ up' = Append(up, f)
    \/ /\ closed
       /\ UNCHANGED up

SendOk == ~closed

\* receiver.next().await is ready: a frame, or the end of a closed stream.
StreamReady == rcvRd < Len(down) \/ closed

-----------------------------------------------------------------------------
(* upgrade(): both locks, PING "probe", await the PONG, UPGRADE.           *)

UpgradeCall ==
    /\ upc = "idle"
    /\ upc' = "lockRecv"
    /\ UNCHANGED <<rcvOwner, sndOwner, epc, ppc, got, up, rcvRd, srvVars>>

UpgradeLockReceiverSkipped ==
    /\ upc = "lockRecv"
    /\ upc' = "lockSend"
    /\ UNCHANGED <<rcvOwner, sndOwner, epc, ppc, got, up, rcvRd, srvVars>>

UpgradeLockReceiver ==
    /\ upc = "lockRecv"
    /\ rcvOwner = None
    /\ rcvOwner' = Upgrader
    /\ upc' = "lockSend"
    /\ UNCHANGED <<sndOwner, epc, ppc, got, up, rcvRd, srvVars>>

UpgradeLockSenderSkipped ==
    /\ upc = "lockSend"
    /\ upc' = "sendProbe"
    /\ UNCHANGED <<rcvOwner, sndOwner, epc, ppc, got, up, rcvRd, srvVars>>

UpgradeLockSender ==
    /\ upc = "lockSend"
    /\ sndOwner = None
    /\ sndOwner' = Upgrader
    /\ upc' = "sendProbe"
    /\ UNCHANGED <<rcvOwner, epc, ppc, got, up, rcvRd, srvVars>>

\* Leaving upgrade() with an error drops both guards.
UpgradeFail ==
    /\ upc' = "failed"
    /\ rcvOwner' = None
    /\ sndOwner' = None

UpgradeSendProbe ==
    /\ upc = "sendProbe"
    /\ SinkSend([type |-> "text", pkt |-> Probe])
    /\ IF SendOk THEN upc' = "awaitPong" /\ UNCHANGED <<rcvOwner, sndOwner>>
                 ELSE UpgradeFail
    /\ UNCHANGED <<epc, ppc, got, rcvRd, srvVars>>

IsPingProbe(f) == f.pkt = Probe

\* The reply compares equal to the bytes of PONG "probe".
IsPong(f) == f.pkt = Pong

\* The next frame must be exactly "3probe" (else InvalidPacket); the end of
\* the stream is IllegalWebsocketUpgrade.
UpgradeAwaitPong ==
    /\ upc = "awaitPong"
    /\ StreamReady
    /\ IF rcvRd < Len(down)
         THEN /\ rcvRd' = rcvRd + 1
              /\ IF IsPong(down[rcvRd + 1])
                   THEN upc' = "sendUpgrade" /\ UNCHANGED <<rcvOwner, sndOwner>>
                   ELSE UpgradeFail
         ELSE UpgradeFail /\ UNCHANGED rcvRd
    /\ UNCHANGED <<epc, ppc, got, up, srvVars>>

UpgradeSendUpgrade ==
    /\ upc = "sendUpgrade"
    /\ SinkSend([type |-> "text", pkt |-> UpgradePkt])
    /\ IF SendOk THEN /\ upc' = "done"
                      /\ rcvOwner' = None
                      /\ sndOwner' = None
                 ELSE UpgradeFail
    /\ UNCHANGED <<epc, ppc, got, rcvRd, srvVars>>

-----------------------------------------------------------------------------
(* emit(data, is_binary_att) and poll().                                   *)

EmitCall(e) ==
    /\ epc[e] = "idle"
    /\ epc' = [epc EXCEPT ![e] = "lock"]
    /\ UNCHANGED <<rcvOwner, sndOwner, upc, ppc, got, up, rcvRd, srvVars>>

EmitLock(e) ==
    /\ epc[e] = "lock"
    /\ sndOwner = None
    /\ sndOwner' = e
    /\ epc' = [epc EXCEPT ![e] = "send"]
    /\ UNCHANGED <<rcvOwner, upc, ppc, got, up, rcvRd, srvVars>>

\* A binary attachment goes out as a binary frame, anything else as text;
\* text that is not UTF-8 fails before the send. The guard drops on return.
EmitSend(e) ==
    /\ epc[e] = "send"
    /\ sndOwner' = None
    /\ \/ \E t \in {"text", "binary"} :
            /\ SinkSend([type |-> t, pkt |-> e])
            /\ epc' = [epc EXCEPT ![e] = IF SendOk THEN "done" ELSE "failed"]
       \/ /\ epc' = [epc EXCEPT ![e] = "failed"]
          /\ UNCHANGED up
    /\ UNCHANGED <<rcvOwner, upc, ppc, got, rcvRd, srvVars>>

PollCall(p) ==
    /\ ppc[p] = "idle"
    /\ ppc' = [ppc EXCEPT ![p] = "lock"]
    /\ UNCHANGED <<rcvOwner, sndOwner, upc, epc, got, up, rcvRd, srvVars>>

PollLock(p) ==
    /\ ppc[p] = "lock"
    /\ rcvOwner = None
    /\ rcvOwner' = p
    /\ ppc' = [ppc EXCEPT ![p] = "recv"]
    /\ UNCHANGED <<sndOwner, upc, epc, got, up, rcvRd, srvVars>>

PollBytesRaw(f) == f

\* A binary frame gets the MESSAGE packet id put in front; a text frame's
\* bytes are returned as they are.
PollBytes(f) == [pkt |-> f.pkt, message |-> f.type = "binary"]

\* The next frame: binary frames come back as a MESSAGE packet (prefix 4),
\* text frames as they are; the end of the stream is IncompletePacket.
PollRecv(p) ==
    /\ ppc[p] = "recv"
    /\ StreamReady
    /\ rcvOwner' = None
    /\ IF rcvRd < Len(down)
         THEN /\ rcvRd' = rcvRd + 1
              /\ got' = [got EXCEPT ![p] = PollBytes(down[rcvRd + 1])]
              /\ ppc' = [ppc EXCEPT ![p] = "done"]
         ELSE /\ ppc' = [ppc EXCEPT ![p] = "failed"]
              /\ UNCHANGED <<rcvRd, got>>
    /\ UNCHANGED <<sndOwner, upc, epc, up, srvVars>>

-----------------------------------------------------------------------------
(* The engine.io server at the other end.                                  *)

\* It reads the next frame: it answers the probe and takes UPGRADE. After
\* its close frame it sends nothing more.
ServerRecv ==
    /\ ~closed
    /\ srvRd < Len(up)
    /\ srvRd' = srvRd + 1
    /\ LET f == up[srvRd + 1]
       IN /\ IF f.pkt = Probe
               THEN \E r \in ProbeReplies :
                        down' = Append(down, [type |-> "text", pkt |-> r])
               ELSE UNCHANGED down
          /\ srvUpgraded' = (srvUpgraded \/ f.pkt = UpgradePkt)
    /\ UNCHANGED <<rcvOwner, sndOwner, upc, epc, ppc, got, up, rcvRd, closed>>

\* Once upgraded, it sends packets on the WebSocket.
ServerPush ==
    /\ srvUpgraded
    /\ ~closed
    /\ Len(down) < MaxDown
    /\ \E t \in {"text", "binary"} : down' = Append(down, [type |-> t, pkt |-> "server"])
    /\ UNCHANGED <<rcvOwner, sndOwner, upc, epc, ppc, got, up, rcvRd, srvRd,
                   srvUpgraded, closed>>

ServerClose ==
    /\ ~closed
    /\ closed' = TRUE
    /\ UNCHANGED <<rcvOwner, sndOwner, upc, epc, ppc, got, up, down, rcvRd,
                   srvRd, srvUpgraded>>

-----------------------------------------------------------------------------

UpgradeSteps ==
    UpgradeLockReceiver \/ UpgradeLockSender \/ UpgradeSendProbe
    \/ UpgradeAwaitPong \/ UpgradeSendUpgrade

Next ==
    \/ UpgradeCall \/ UpgradeSteps
    \/ \E e \in Emitters : EmitCall(e) \/ EmitLock(e) \/ EmitSend(e)
    \/ \E p \in Pollers : PollCall(p) \/ PollLock(p) \/ PollRecv(p)
    \/ ServerRecv \/ ServerPush \/ ServerClose

\* The executor keeps running a task that can make progress; a task waiting
\* on a Mutex gets it once it is released often enough (strong fairness).
\* The server reads what it is sent. Calls, the server's own packets and
\* its close are not forced.
Fairness ==
    /\ SF_vars(UpgradeSteps)
    /\ \A e \in Emitters : SF_vars(EmitLock(e)) /\ WF_vars(EmitSend(e))
    /\ \A p \in Pollers : SF_vars(PollLock(p)) /\ WF_vars(PollRecv(p))
    /\ WF_vars(ServerRecv)

Spec == Init /\ [][Next]_vars /\ Fairness

-----------------------------------------------------------------------------
(* Properties.                                                             *)

\* Where upgrade() stands, as the abstract channel sees it: its probe is on
\* the wire from the send of "2probe" until UPGRADE or an error.
Phase ==
    CASE upc \in {"idle", "lockRecv", "lockSend", "sendProbe"} -> "none"
      [] upc \in {"awaitPong", "sendUpgrade"}                  -> "probing"
      [] upc = "done"                                          -> "done"
      [] upc = "failed"                                        -> "failed"

Channel == INSTANCE WsChannel
    WITH wire <- up, phase <- Phase,
         ProbeFrame <- [type |-> "text", pkt |-> Probe],
         UpgradeFrame <- [type |-> "text", pkt |-> UpgradePkt],
         DataFrames <- [type : {"text", "binary"}, pkt : Emitters]

\* The transport implements WsChannel: emit() frames go out whole and in
\* order, and none of them lands between upgrade()'s "2probe" and its "5",
\* because upgrade() holds the sender Mutex across the PONG await.
ChannelRefined == Channel!Spec

\* The server's "3probe" is read by upgrade() and never handed to a caller
\* of poll(): upgrade() holds the receiver Mutex from before the probe is
\* sent until it has read the reply.
PongNeverPolled == \A p \in Pollers : got[p] = None \/ got[p].pkt # Pong

ServerRefusedProbe == \E i \in 1..Len(down) : down[i].pkt = Other

\* How a started upgrade() may end: with UPGRADE sent, or with a failure
\* the server caused (it closed the WebSocket or did not answer PONG).
UpgradeEnded == upc = "done" \/ (upc = "failed" /\ (closed \/ ServerRefusedProbe))

\* A started upgrade() returns, and it fails only when the server closed
\* the WebSocket or answered the probe with something other than PONG.
UpgradeCompletes == upc # "idle" ~> UpgradeEnded

\* Once upgrade() holds the receiver Mutex it returns, with the same
\* outcomes, whatever emit() and poll() calls run beside it: emitters only
\* hold the sender Mutex across one send, a waiting poll() cannot read
\* the PONG, and the server answers the probe it reads.
UpgradeCompletesOnceLocked == rcvOwner = Upgrader ~> UpgradeEnded

\* A started emit() returns: upgrade() takes the receiver Mutex before the
\* sender Mutex, so the PONG it awaits cannot be taken by a poll() and its
\* wait ends; every path out of it drops the sender guard, and an emitter
\* holds that guard only across one send.
EmitCompletes == \A e \in Emitters : epc[e] = "lock" ~> epc[e] \in {"done", "failed"}

====
