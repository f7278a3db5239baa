# TLA+ models of rust-socketio

Model-checked TLA+ specifications of the Socket.IO / Engine.IO client in
`src/`. Every module is translated from the source files named below. The
`map` of `PROJECT.json` gives, for each definition, the lines it models.

## 1. Inventory

The repository holds five source files from different stages of the crate.
Together they cover the two layers the spec describes.

| Component | Source | State it keeps | Operations |
|---|---|---|---|
| Socket.IO async client (C5) | `src/socketio/src/asynchronous/client/client.rs` | `outstanding_acks: RwLock<Vec<Ack>>` (id, time_started, timeout, callback); `on: RwLock<HashMap<Event, Callback>>`; `nsp`; the inner `Socket` | `connect`, `emit`, `emit_with_ack`, `disconnect`, `poll_next` (the `Stream`), `handle_socketio_packet`, `handle_ack`, `handle_event`, `handle_binary_event`, `callback` |
| Async WebSocket transport (C2) | `src/engineio/src/async_transports/mod.rs` | a `sender` and a `receiver` half, each behind its own tokio `Mutex` | `upgrade` (PING probe, PONG check, UPGRADE), `emit` (text or binary frame), `poll` (next frame; binary frames get the `4` prefix) |
| Engine.IO socket, sync (C3) | `src/src/engineio/socket.rs` | `transport_client: Arc<RwLock<TransportClient>>` with its `connected` flag and callbacks | `bind` (open, then spawn the poll thread that loops on `poll_cycle`), `emit`, `emit_binary_attachment`, `on_open/close/packet/data/error`, `is_connected` |
| Engine.IO polling transport (early version) | `src/src/transport.rs` | `connected: AtomicBool`, `address`, `connection_data` (handshake), callbacks | `open` (handshake GET), `emit` (POST), `poll` (GET, decode, run `on_packet`/`on_data`; CLOSE, OPEN, UPGRADE, PING and PONG reach `todo!()`) |
| Sync Socket.IO facade | `src/src/lib.rs` | a `TransportClient` holding `nsp` | `SocketBuilder::new/set_namespace/on/connect`; `Socket::on/connect/emit/emit_with_ack` |
| Module declarations | `src/socketio/src/client/mod.rs` | none | none |

The packet codecs (C1, C4), the socket.io `TransportClient` behind
`lib.rs`, the async engine.io socket behind `client.rs` and the callback
wrapper are not under `src/`. The models abstract a packet to a record of
its kind, namespace, ack id and payload shape. The inner socket's
connect/send/close is modelled from the spec (marked `spec_modelled`).

**How the parts interact.** In the async stack, user tasks call `emit*` on
a `Client`. Each call builds a Socket.IO packet and hands it to the inner
socket, which writes it through a transport such as the WebSocket one. One
task polls the `Client` stream. `poll_next` pulls decoded packets from the
inner socket, drops packets of other namespaces and runs
`handle_socketio_packet`. That runs the user callbacks and resolves
outstanding acks. The emitters and the dispatcher share `outstanding_acks`:
emitters push, the dispatcher scans and removes. In the sync stack,
`EngineSocket::bind` opens the transport and spawns a thread that polls it.
User threads emit and register callbacks through the same
`RwLock<TransportClient>`.

**What is hard.**
- The tasks interleave at every `.await`. In `handle_ack` the lock is taken
  once for the scan and then once more for every removal. A random id may
  collide with an outstanding one.
- `poll_next` polls a freshly boxed `handle_socketio_packet` future once,
  under `ready!`. If a lock inside it is Pending, the future is dropped
  together with the packet it took from the socket.
- The ack deadline is compared when the ACK is handled, not when it arrives.
- An emit's send can fail after its Ack has been recorded.
- The WebSocket transport holds two locks across network awaits during the
  probe upgrade.
- `bind` and the `on_*` registrations check `connected` and then act under a
  different lock acquisition.
- The polling transport panics on heartbeat packets.

**What makes each part correct.**
- Client: an ack callback runs only for its own answer, only before the
  deadline, and never gets lost. Handled and timed-out entries leave the
  list. Every packet of the namespace that the stream takes is handled and
  returned, and nothing of another namespace reaches the user. A malformed
  packet does not kill the dispatcher. An EVENT falls back to the Message
  callback.
- WebSocket transport: nothing is sent between the probe and UPGRADE. An
  honest PONG is never stolen by `poll`. The upgrade terminates.
- Engine socket: at most one poll thread exists, no callback is registered
  after open, and emits before open are refused.
- Polling transport: it refuses an emit before the handshake, answers the
  heartbeat and parses the handshake without a panic.

## 2. Plan and status

1. **`SocketIOClient`** (done): `client.rs`. It models emit_with_ack
   tasks, plain emit, connect, disconnect, the dispatcher, and a server that
   answers and sends packets of its own. MC module: `MC_SocketIOClient`.
2. **`WebsocketTransport`** (done): `async_transports/mod.rs`, with the
   abstract `WsChannel` it refines. MC module: `MC_WebsocketTransport`.
3. **`EngineSocket`** (done): `src/src/engineio/socket.rs`. MC module:
   `MC_EngineSocket`.
4. **`PollingTransport`** (done): `src/src/transport.rs`. MC module:
   `MC_PollingTransport`.
5. **`lib.rs` facade**: not modelled. Spec 1 puts the builder surface out
   of scope. Each of its operations is a one-step argument check or a call
   into a socket.io `TransportClient` that is not under `src/`. That
   `TransportClient` is the only code between the facade and
   `EngineSocket`, so a composition would be mostly spec-modelled.
   `Socket::on` and `Socket::connect` are `pub(crate)`, and
   `SocketBuilder::connect` consumes the builder. A program using the
   public API therefore registers every callback before the single
   `connect`. The races of `es_bind_race` and `es_register_race` need two
   crate-internal callers.
6. **Second pass** (done):
   - The `outstanding_acks` write lock that `emit_with_ack` holds is its own
     step, so the dispatcher can find it taken. `poll_next`'s drop of a
     Pending handler is modelled (`ack_lost`).
   - The upgrade's liveness is checked beside the safety properties
     (`UpgradeCompletesOnceLocked` in `ws_upgrade`).
   - The polling transport's panics are checked (`pt_panics`).
   - An `emit` behind the upgrade's sender lock returns (`EmitCompletes` in
     `ws_upgrade`).
7. **Third pass** (done): `PollingTransport.Poll` loses the packets of a
   response whose read or decode fails. `acks` and `es_concurrent` use
   symmetry sets, which lets them run with larger bounds: two timeouts on a
   longer clock, and four calls per thread.
8. **Next**: a composition of `SocketIOClient` over `WebsocketTransport`, to
   check outbound FIFO order from `emit` to the wire end to end. It needs a
   run slot, which would have to come from merging two existing runs.

## 3. Module `SocketIOClient`

State, and how it maps to the code:
- `acks` is `outstanding_acks`: a sequence of `[id, started, timeout, cb]`.
  `cb` names the emit_with_ack call whose callback it is.
- `pc`/`req` are the user tasks' control points and the Ack each one
  pushed.
- `toServer` is the outbound wire. `toClient` is the inbound packet
  history. `rd` is how far the dispatcher has read it.
- `dpc`, `toRemove` and `cur` are the dispatcher's control point,
  `to_be_removed` and the ACK being handled.
- `ackLock` is the user task holding the `outstanding_acks` write lock, if
  any. The dispatcher's own lock sections are atomic steps.
- `ackCalls`, `fired`, `yielded` and `walks` are history: ack callback
  invocations, `Client::callback` calls, stream items, and ACK walks with
  their time.
- `now` is the tokio clock. `sock` is the inner socket's connection state.

Actions split each handler at its `.await` points, because other tasks can
run there:
- `EmitWithAckLock` draws the id, builds the packet and the Ack, and takes
  the write lock. `EmitWithAckPush` pushes the Ack and drops the guard.
  `EmitWithAckSend` sends the packet; a failed send leaves the Ack
  outstanding.
- `PollAck` is the scan under one write lock: callbacks of in-time matches,
  text first, then binary. `AckRemove` is one `remove(index)` per lock
  acquisition. It panics when the index is past the end.
- `PollAckCancelled` and `AckRemoveCancelled` are the same steps when the
  write lock is taken. The `write()` is Pending, `ready!` returns Pending
  from `poll_next`, and the boxed future is dropped: the ACK is lost, with
  or without its callbacks.
- `PollPacket`, `PollPanic`, `PollForeign` and `PollError` are the other
  branches of `poll_next`/`handle_socketio_packet`.
- `DisconnectSend` and `DisconnectClose` are the two awaits of `disconnect`.

The environment actions are `ServerAck`, `ServerSend` and `Tick`.
Fairness: the dispatcher is weakly fair (the executor polls the stream
whenever a packet is ready). So are an emit that has started its send and
a disconnect that has sent DISCONNECT. Users and the server need not act.
Deadlock checking is off because the bounded client runs out of inputs and
then waits for I/O, as the real one does.

### Runs

| Run | Expect | Checks | Bounds |
|---|---|---|---|
| `acks` | pass | `AckCallbackFromOwnReply`, `AckDelivered`, `AckedEntriesRemoved` (of the ACKs the stream returned) | 2 ack tasks (symmetric), ids {1,2}, timeouts 1 and 2, clock 0..3, 3 inbound packets, answers text/binary/both plus a foreign-namespace ACK with id 1; `CONSTRAINT DistinctIds` (the random draws did not collide) |
| `dispatch` | pass | `TypeOK`, `NamespaceIsolation` | every unsolicited packet kind on both namespaces, a transport error, the empty-array EVENT, 2 inbound packets, a plain emit, and 2 ack tasks whose ids always collide (this reaches the `remove` panic) |
| `ack_collision` | violation | `AckDelivered` | 3 ack tasks, ids {1,2} |
| `ack_lost` | violation | `OwnPacketsYielded` | as `acks`, with timeout 1 and clock 0..2 |
| `reap` | violation | `TimedOutReaped` | 2 ack tasks, one never answered, clock 0..1 |

What they show:
- **Without collisions the ack path is correct.** The push happens before
  the send, so a fast answer always finds its entry. The namespace and id
  checks keep a foreign ACK with a live id from running a callback. Each
  handled entry leaves the list. `AckDelivered` covers only answers that
  `handle_ack` scanned before their deadline. An answer that `poll_next`
  drops before the scan is the subject of `ack_lost`. An answer that
  arrives in time but is scanned late is dropped by the deadline test at
  line 233, and no run states which instant should count.
- `DistinctIds` keeps collisions out of `acks`, so there `AckDelivered`
  and `AckedEntriesRemoved` never see the index shift of `ack_collision`.
- **Id collisions lose unrelated acks** (`ack_collision`, a code bug).
  Take acks `a1` (id 1), `a2` (id 1) and `a3` (id 2). The ACK for id 1
  gives `to_be_removed = [0, 1]`. After `remove(0)`, `remove(1)` deletes
  `a3`, whose timely ACK then finds nothing. The same path panics when the
  second index is past the end; `dispatch` reaches that state.
- **A Pending lock loses the packet** (`ack_lost`, a code bug at
  `client.rs:381`, the `ready!` around the boxed handler). This needs no id collision. Task `a1` emits and is
  answered. Task `a2` takes the write lock for its push while the
  dispatcher is handling `a1`'s ACK. The handler's `write()` is Pending,
  and `poll_next` drops the boxed future. The ACK is gone: its callback
  never runs, its entry stays and the stream never yields it. If the drop
  happens during the removal loop, the callbacks have run but the entries
  stay. On a multi-threaded runtime the window is one `push`, but the
  outcome is certain once the lock is contended. tokio's cooperative budget
  can make the same `write()` Pending without contention; that is not
  modelled. The same invariant fails, in three steps, for the EVENT `2[]`:
  `handle_event` unwraps `contents.get(0)` and panics the polling task
  (`client.rs:304`).
- **Timed-out acks are never reaped** (`reap`): `outstanding_acks` leaks,
  which contradicts spec 4.5.

The bounds are enough. Two ack tasks give every order of push, send, answer
and walk. Three tasks with two ids are the smallest case where a collision
shifts an unrelated entry. Clock values 0..2 with timeout 1 give answers
both before and at the deadline. Two or three inbound packets are enough to
put a foreign packet before an own one and to answer both tasks.

## 4. Module `WebsocketTransport` (and `WsChannel`)

State, and how it maps to `AsyncWebsocketGeneralTransport`:
- `rcvOwner` and `sndOwner` are the tokio `Mutex`es around the receiver
  and sender halves. Each holds the task that owns the guard, or `None`.
- `upc`, `epc` and `ppc` are the control points of the `upgrade` task, of
  each `emit` call and of each `poll` call. `got` is what each `poll`
  returned.
- `up` is the frames written to the sink. `down` is the frames the server
  sent, and `rcvRd` is how many of them the stream has yielded. `srvRd`,
  `srvUpgraded` and `closed` are the server's side.

Each `.lock().await`, `send().await` and `next().await` is its own
action. A send fails once the server has closed, and `next()` yields
`None` after a close. An error return drops both guards (`UpgradeFail`).
`poll` puts the MESSAGE id in front of a binary frame (`PollBytes`). A
text `emit` whose bytes are not UTF-8 fails before it sends.

The server answers the probe with a value from `ProbeReplies`. It sends
its own frames only after it has read UPGRADE, and nothing after its
close. A waiting task gets a free lock in any order, so tokio's FIFO
hand-over is one of the orders checked.

`WsChannel` is the promise of spec 5: frames go out in order, and the
probe and UPGRADE are adjacent on the wire. `ChannelRefined` checks
`Channel!Spec` with `wire <- up`. Its `phase` is derived from `upc`:
"probing" runs from the sent probe until UPGRADE or an error.

Fairness: the upgrade steps and the emit/poll lock acquisitions are
strongly fair, because a task waiting on a tokio `Mutex` gets it once the
lock is released often enough. The sends and reads are weakly fair, and so
is the server reading its socket. Calls and the server's own pushes and
close are not forced.

| Run | Expect | Checks | Bounds |
|---|---|---|---|
| `ws_upgrade` | pass | `TypeOK`, `PongNeverPolled`, `ChannelRefined`, `UpgradeCompletesOnceLocked`, `EmitCompletes` | upgrade, 2 emitters and 1 poller, all started at any time; PONG or another reply; server pushes up to 2 frames and may close |
| `ws_poll_deadlock` | violation | `UpgradeCompletes` | 1 emitter, 1 poller started at any time, an honest server |

What they show: holding the sender lock across the PONG await keeps
emits off the wire between "2probe" and "5". Holding the receiver lock
from before the probe keeps `poll` from taking the PONG. Once `upgrade`
holds the receiver lock, it always returns, whatever emits and polls run
beside it, and it fails only on a close or a refused probe
(`UpgradeCompletesOnceLocked`). Every `emit` that was started returns
(`EmitCompletes`), including one that waits for the sender lock behind
`upgrade`. This depends on `upgrade` taking the receiver lock before the
sender lock (lines 39-40). If it did not hold the receiver lock, a poll
could take the PONG, and `upgrade` would wait holding the sender lock, with
the emits stuck behind it. The mutant that skips the receiver lock is
found. A `poll` that gets the receiver lock first, though, holds
the receiver lock inside `next().await`. The server sends nothing until
the upgrade, so `upgrade` waits until the server closes the WebSocket (a
real engine.io server does so after its upgrade timeout), and then fails
against an honest server. In the model the server need never close, so
TLC shows it waiting forever. This is a spec gap: the code
relies on its caller for that order. Two emitters and one poller are
enough to put an emit between any two steps of `upgrade`, and a poller
before, during and after it.

## 5. Module `EngineSocket`

State: `connected` is the transport's `AtomicBool`. `callbacks` is the
set of callbacks set on the shared `TransportClient`. `threads` is the
spawned poll threads, each with its state and the callbacks of the clone
it took at line 53. `upc` holds each user thread's step within `bind`,
`emit` or `on_*`. `sessions` and `closes` count handshakes and server
closes, and `posted` is the packets emit POSTed.

Each `read()?`/`write()?` section is one step, and the lock is released
between sections. That is exactly where the code checks and then acts.
`bind` is `BindCheck`, `BindOpen` and `BindSpawn`. `on_*` is
`RegisterCheck` and `RegisterSet`. The poll thread is `PollClone`, then
`PollCycleClosed` (the loop breaks on Ok) or `PollCyclePanics` (HTTP
error). A retry after any other error changes nothing and is a stutter
step.

The `TransportClient` behind this file (`crate::engineio::transport`) is
not under `src/`. Two of its behaviours are assumptions, taken from the
older `src/src/transport.rs` and from the spec, and `OpenReturnsEarly` is
mapped as spec-modelled. First, its `open` returns at once on a connected
client (as `src/src/transport.rs:54` does); otherwise it handshakes and
sets `connected`. Second, its callback cells are replaced on set, so a
clone keeps the old ones (modelled on `transport.rs:13`, whose struct is
not itself `Clone`). `es_register_race`'s "never runs" rests on the
second assumption.
Only safety is checked, so no fairness is assumed.

| Run | Expect | Checks | Bounds |
|---|---|---|---|
| `es_concurrent` | pass | `TypeOK` | 2 user threads (symmetric), 4 calls each, 2 callback kinds |
| `es_bind_race` | violation | `OnePollThread` | 2 user threads, 2 calls each |
| `es_register_race` | violation | `AcceptedCallbacksRun` | 2 user threads, 2 calls each |

What they show: two concurrent `bind`s both pass the `connected` test.
The second `open` returns early, and both spawn a poll thread (a code
bug). `es_concurrent` checks the type invariant over every interleaving
of four calls per thread. That includes that only a callback an `on_*`
call carried is ever set on the shared client.
An `on_*` call that passed its `is_connected` test before another thread's
`bind` still sets its callback and returns Ok, after the poll thread has
cloned the client. The callback never runs, against spec 10's
IllegalActionAfterOpen. Two threads with two calls each are the smallest
case for both races. `es_concurrent` gives each thread four calls, enough
for a session to be opened, closed by the server and opened again.

The user threads of `es_concurrent` and the ack tasks of `acks` form
symmetry sets (`symmUsers` and `symmAckEmitters`, in the MC modules). No
action or property tells two of them apart except by identity, and both
runs check only invariants. `ws_upgrade` checks temporal properties, so it
uses no symmetry set.

## 6. Module `PollingTransport`

State: `connected`, `address` and `handshake` are the fields
`connected`, `address` and `connection_data` of `src/src/transport.rs`.
`panicked` records where the caller's task panicked, and `last` is the
last call's result. `queue`, `sent`, `delivered`, `cbs` and `posted` are
the server's queue and the histories of decoded packets, callback calls
and POSTs.

The methods take `&mut self`, so calls never overlap. Each call is one
action, with the URL, network, status, handshake body and decode outcome
as inputs. `Poll` runs `on_packet` and then `on_data` for each packet in
order. At the first packet the `match` does not handle, it stops with a
panic after that packet's `on_packet`.
A GET can fail before the server has flushed its queue, and then the
packets stay queued for the next poll. It can also fail after the flush,
when `bytes()` or `decode_payload` fails on the response. The packets in
that response are then lost, and the model empties the queue without
delivering them (`transport.rs:136-137`).

| Run | Expect | Checks | Bounds |
|---|---|---|---|
| `pt_session` | pass | `UsableAfterOpen` | 4 calls; handshake body valid or garbage; the server queues up to 3 MESSAGE/NOOP packets |
| `pt_panics` | violation | `CallerNeverPanics` | 3 calls; handshake body empty, valid or garbage; MESSAGE and PING packets |

What it shows: once the handshake has succeeded, nothing is refused with ActionBeforeOpen. That
holds only because the inverted test (`if connected`) and the never-set
flag cancel out. The mutant that corrects only the test breaks it.
The callbacks of one poll response run in payload order by construction:
a sequential `for` loop builds both `on_packet` and `on_data` calls from
the same packet list, in the same step. So no property is stated about
that order.

`pt_panics` shows that the caller's task panics where the code means to
return an error. The shortest case is an empty handshake body, which is
sliced at `response[1..]` (`transport.rs:71`). The same invariant fails for
`emit`/`poll` before `open`, at `connection_data.unwrap()` (lines 95 and
129). It also fails for a PING in a poll response, which reaches `todo!()`
(line 163), so the heartbeat is never answered.

## 7. Seen in the model but not kept as runs

Each of these is reached by a single step of one actor, so no search is
needed to exhibit it. Each is a plain divergence that a unit test shows.
The run cap went to the cases above.
- `client.rs:217`: an EVENT whose name has no callback is dropped. Spec
  4.5 says it goes to Message.
- `socket.rs:62`: an HTTP error panics the poll thread and leaves
  `connected` set (`PollCyclePanics`). Spec 7 says the session moves to
  Closing. This one is listed as a hazard.

## 8. Not modelled

- The codecs, and wording, formatting and JSON payload contents. The
  properties only tell packets apart by kind, namespace, id and payload
  shape.
- The callback wrapper (`callback.rs`, not under `src/`). Callbacks are
  recorded as invoked. `client.rs` calls each callback and discards the
  `BoxFuture` it returns without polling it (lines 218, 235 and 242), so
  an async closure body never runs. What the wrapper does with that future
  is outside the sources.
- Reconnection, builder and TLS are out of scope per the spec.
- The `lib.rs` facade (see the plan), and `get_random_t` and URL
  formatting in `transport.rs`.
- The socket.io and engine.io `TransportClient`s that `lib.rs` and
  `socket.rs` drive are not under `src/`. Only the parts `EngineSocket`
  relies on are modelled, from the spec.
- Where the project ends: every state-changing operation of the code under
  `src/` is an action. The unmapped lines are doc comments, imports, tests,
  the `lib.rs` facade and cache-buster formatting. Three hazards have no
  property (`socket.rs:62`, `socket.rs:64`, `transport.rs:136`). Each would
  need a violation run of its own, and all twelve run slots go to the
  findings above.
