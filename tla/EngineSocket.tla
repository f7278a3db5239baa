---------------------------- MODULE EngineSocket ----------------------------
(***************************************************************************)
(* EngineSocket of src/src/engineio/socket.rs: user threads share one      *)
(* Arc<RwLock<TransportClient>> through clones of the socket; bind() opens *)
(* the session and spawns a thread that runs poll_cycle() in a loop.       *)
(*                                                                         *)
(* Every `read()?`/`write()?` section of the code is one atomic step:      *)
(* nothing else touches the TransportClient while it is held, and the     *)
(* lock is released between two sections. The TransportClient itself      *)
(* (crate::engineio::transport) is not under src/; its open, emit and      *)
(* poll_cycle are modelled from spec 4.1-4.3. Its callback cells are those *)
(* of src/src/transport.rs: an Arc<Option<Box<dyn Fn>>> that a setter     *)
(* replaces, so a clone keeps the callbacks set when it was made.         *)
(***************************************************************************)
EXTENDS Naturals, Sequences

CONSTANTS
    Users,      \* threads holding a clone of the EngineSocket
    Callbacks,  \* the callback kinds a user may register (on_open, on_data, ...)
    MaxOps,     \* calls per user thread
    None

ASSUME MaxOps \in Nat

VARIABLES
    connected,  \* TransportClient.connected (Arc<AtomicBool>)
    callbacks,  \* the callbacks set on the shared TransportClient
    sessions,   \* handshakes that opened a session
    closes,     \* sessions the server closed
    upc,        \* each user thread's control point
    ops,        \* calls each user thread has made
    pending,    \* the callback an on_* call is about to set
    threads,    \* spawned poll threads: [st, snap] with snap the clone's callbacks
    posted      \* packets emit() POSTed: the session they were sent in

vars == <<connected, callbacks, sessions, closes, upc, ops, pending, threads, posted>>

ThreadStates == {"spawned", "polling", "done", "panicked"}

Init ==
    /\ connected = FALSE
    /\ callbacks = {}
    /\ sessions = 0
    /\ closes = 0
    /\ upc = [u \in Users |-> "idle"]
    /\ ops = [u \in Users |-> 0]
    /\ pending = [u \in Users |-> None]
    /\ threads = <<>>
    /\ posted = <<>>

\* Type invariant: every variable holds a value of its kind. The callbacks
\* set on the shared TransportClient, and those a poll thread's clone holds,
\* are only functions some on_* call passed in (its check hands the
\* function to its write-locked set).
TypeOK ==
    /\ connected \in BOOLEAN
    /\ callbacks \subseteq Callbacks
    /\ sessions \in Nat /\ closes \in Nat
    /\ upc \in [Users -> {"idle", "bindOpen", "bindSpawn", "emit", "register"}]
    /\ ops \in [Users -> 0..MaxOps]
    /\ pending \in [Users -> Callbacks \cup {None}]
    /\ threads \in Seq([st : ThreadStates, snap : SUBSET Callbacks])
    /\ posted \in Seq(Nat)

Live(t) == threads[t].st \in {"spawned", "polling"}

\* A call of user thread u starts from "idle" and counts against MaxOps.
Call(u) == upc[u] = "idle" /\ ops[u] < MaxOps

Return(u) ==
    /\ upc' = [upc EXCEPT ![u] = "idle"]
    /\ ops' = [ops EXCEPT ![u] = ops[u] + 1]

-----------------------------------------------------------------------------
(* bind(address)                                                           *)

\* The `connected` test of bind, under a read lock that is then dropped.
BindRefused == connected

BindCheck(u) ==
    /\ Call(u)
    /\ IF BindRefused
         THEN Return(u)
         ELSE /\ upc' = [upc EXCEPT ![u] = "bindOpen"]
              /\ UNCHANGED ops
    /\ UNCHANGED <<connected, callbacks, sessions, closes, pending, threads, posted>>

\* TransportClient::open returns Ok at once on a connected client.
OpenReturnsEarly == connected

\* write()?.open(address)?: an open client returns Ok at once; otherwise
\* the handshake opens a session (on_open runs) or fails and bind returns
\* its error.
BindOpen(u) ==
    /\ upc[u] = "bindOpen"
    /\ \/ /\ OpenReturnsEarly
          /\ upc' = [upc EXCEPT ![u] = "bindSpawn"]
          /\ UNCHANGED <<connected, sessions, ops>>
       \/ /\ ~OpenReturnsEarly
          /\ connected' = TRUE
          /\ sessions' = sessions + 1
          /\ upc' = [upc EXCEPT ![u] = "bindSpawn"]
          /\ UNCHANGED ops
       \/ /\ ~OpenReturnsEarly
          /\ Return(u)
          /\ UNCHANGED <<connected, sessions>>
    /\ UNCHANGED <<callbacks, closes, pending, threads, posted>>

BindSpawn(u) ==
    /\ upc[u] = "bindSpawn"
    /\ threads' = Append(threads, [st |-> "spawned", snap |-> {}])
    /\ Return(u)
    /\ UNCHANGED <<connected, callbacks, sessions, closes, pending, posted>>

-----------------------------------------------------------------------------
(* The poll thread.                                                        *)

\* let mut s = cl.read().unwrap().clone();
PollClone(t) ==
    /\ threads[t].st = "spawned"
    /\ threads' = [threads EXCEPT ![t] = [st |-> "polling", snap |-> callbacks]]
    /\ UNCHANGED <<connected, callbacks, sessions, closes, upc, ops, pending, posted>>

\* One poll_cycle() of the loop. It returns Ok once the server closes the
\* session (the client is then no longer connected) and the loop breaks;
\* an HTTP error panics the thread. Any other error restarts poll_cycle,
\* a step that changes nothing.
PollCycleClosed(t) ==
    /\ threads[t].st = "polling"
    /\ connected
    /\ connected' = FALSE
    /\ closes' = closes + 1
    /\ threads' = [threads EXCEPT ![t].st = "done"]
    /\ UNCHANGED <<callbacks, sessions, upc, ops, pending, posted>>

PollCyclePanics(t) ==
    /\ threads[t].st = "polling"
    /\ threads' = [threads EXCEPT ![t].st = "panicked"]
    /\ UNCHANGED <<connected, callbacks, sessions, closes, upc, ops, pending, posted>>

-----------------------------------------------------------------------------
(* emit / emit_binary_attachment, and on_open ... on_error                 *)

EmitCheck(u) ==
    /\ Call(u)
    /\ IF connected
         THEN /\ upc' = [upc EXCEPT ![u] = "emit"]
              /\ UNCHANGED ops
         ELSE Return(u)
    /\ UNCHANGED <<connected, callbacks, sessions, closes, pending, threads, posted>>

\* read()?.emit(packet, is_binary): the transport refuses when not
\* connected; otherwise it POSTs the packet (an HTTP error is returned).
EmitSend(u) ==
    /\ upc[u] = "emit"
    /\ \/ /\ connected
          /\ posted' = Append(posted, sessions)
       \/ UNCHANGED posted
    /\ Return(u)
    /\ UNCHANGED <<connected, callbacks, sessions, closes, pending, threads>>

\* The is_connected() test of on_*, under a read lock that is then dropped.
RegisterRefused == connected

\* Mutant of RegisterCheck: the callback is not carried to the set step.
RegisterCheckNoPending(u, cb) ==
    /\ Call(u)
    /\ IF RegisterRefused
         THEN Return(u)
         ELSE /\ upc' = [upc EXCEPT ![u] = "register"]
              /\ UNCHANGED ops
    /\ UNCHANGED <<connected, callbacks, sessions, closes, pending, threads, posted>>

RegisterCheck(u, cb) ==
    /\ Call(u)
    /\ IF RegisterRefused
         THEN Return(u) /\ UNCHANGED pending
         ELSE /\ upc' = [upc EXCEPT ![u] = "register"]
              /\ pending' = [pending EXCEPT ![u] = cb]
              /\ UNCHANGED ops
    /\ UNCHANGED <<connected, callbacks, sessions, closes, threads, posted>>

\* write()?.set_on_*(function); Ok(())
RegisterSet(u) ==
    /\ upc[u] = "register"
    /\ callbacks' = callbacks \cup {pending[u]}
    /\ pending' = [pending EXCEPT ![u] = None]
    /\ Return(u)
    /\ UNCHANGED <<connected, sessions, closes, threads, posted>>

-----------------------------------------------------------------------------

Next ==
    \/ \E u \in Users :
          \/ BindCheck(u) \/ BindOpen(u) \/ BindSpawn(u)
          \/ EmitCheck(u) \/ EmitSend(u) \/ RegisterSet(u)
          \/ \E cb \in Callbacks : RegisterCheck(u, cb)
    \/ \E t \in DOMAIN threads :
          PollClone(t) \/ PollCycleClosed(t) \/ PollCyclePanics(t)

\* Only safety is checked of this module; no fairness is assumed.
Spec == Init /\ [][Next]_vars

-----------------------------------------------------------------------------
(* Properties.                                                             *)

\* At most one poll thread runs per socket: bind() refuses a socket that is
\* already connected, so a second poll loop never competes with the first
\* for the same session.
OnePollThread ==
    \A t1, t2 \in DOMAIN threads : Live(t1) /\ Live(t2) => t1 = t2

\* Every callback an on_* call accepted is one the poll thread runs: the
\* thread's clone of the TransportClient holds all registered callbacks,
\* because registration is refused once the socket is connected.
AcceptedCallbacksRun ==
    \A t \in DOMAIN threads : threads[t].st = "polling" => threads[t].snap = callbacks

====
