# Formal verification of the IoT dashboard

TLA+ models of the backend in `src/src/` (a C++23 server that connects MQTT
devices, an SQLite database, a REST API and WebSocket clients). The modules are checked with TLC on small
instances; theorems about them are proved with TLAPS for every value of the
constants. `PROJECT.json` relates every definition to the source lines it models.

## 1. Inventory

| Part | State | Operations | Talks to |
|---|---|---|---|
| `WsServer`, `WsSession` (`network/websocket`) | `m_sessions`, `m_topics` (one mutex), `m_running`; per session a write queue and `m_writing` (own mutex) | accept, read, `Send`, `Broadcast`, `BroadcastToTopic`, `Subscribe`, `Unsubscribe`, `Stop` | called by Paho's thread, the heartbeat thread and its own io threads |
| `MqttClient` (`network/mqtt`) | `m_connected`, `m_subscriptions`, `m_connectDone`, `m_connectSuccess` | `Connect` (blocks), `Disconnect`, `Subscribe`, `Unsubscribe`, `Publish`, Paho callbacks, `ResubscribeAll` | Paho C library, broker |
| `DeviceManager` (`devices`), `SqliteDeviceRepository` (`database`) | table `devices`; two callbacks | `Register`, `Unregister`, `SendCommand`, `SubscribeAll`, handlers of status, sensor and heartbeat messages | repository, MQTT client, application callbacks |
| `HeartbeatMonitor` (`devices`) | `m_devices`, `m_timeoutCallback`, `m_running`, poll thread | `Register`, `Unregister`, `RecordHeartbeat`, `SetTimeoutCallback`, `Start`, `Stop`, `PollLoop` | calls `WsServer::Broadcast` |
| `Application` (`api`), `main.cpp` | owns everything; `m_running` | `Initialize`, `Start`, `Stop`, wiring of callbacks, signal handler | all |
| `HttpServer`, `HttpSession`, `HttpRouter` (`network/http`) | routes and middlewares under one mutex, which `Dispatch` holds while the handler runs | read request, dispatch, write response, `Stop` | controllers |
| `AuthenticationService`, `JwtHandler`, `AccessControl`, middleware (`security`, `api`) | users, revoked tokens | `RegisterUser`, `Login`, `RefreshToken`, `Logout`, `ValidateToken` | router |
| `RuleEngine`, `RuleRepository`, `ConditionEvaluator` (`automation`) | `m_rules` | `Evaluate`, `Add`, `Update`, `Remove`, `Enable`, `Disable` | sensor callback |
| `SqliteSensorRepository`, `SqliteConnection`, `MigrationManager` (`database`) | table `sensor_readings`, schema version, one shared connection | `Add`, `AddBatch`, `Query`, `Purge`, `Migrate` | SQLite |
| Flutter client (`flutter/lib`) | channel, reconnect and ping timers, tokens | `connect`, `send`, `_scheduleReconnect`, `dispose`; REST repositories | server |

What is hard here, and what makes each part correct:

* **WebSocket write path.** `Send` comes from any thread while the strand moves
  between `DoWrite`, an asynchronous write and `OnWrite`. Correct: one write in
  flight, no queued message without a writer, order kept, nothing after a loss.
* **Session and topic tables.** Two tables, changed by reads, write errors and
  subscriptions in any order, with no check across them. Correct: no id without
  a reader, nothing queued on a removed session.
* **MQTT reconnection.** The link goes and comes on another thread between any
  two steps of a call. Correct: flag and link agree, recorded subscriptions are
  renewed, an unsubscription lasts.
* **Device rows.** Read-modify-write without a lock, against HTTP requests.
  Correct: only registration creates a row, topics match rows, online devices
  have been announced, commands go to registered devices.
* **Heartbeats.** Collection under a mutex, callbacks without it, `Stop` at any
  moment. Correct: one report in each silence, none after `Stop`, none missed.
* **Requests and tokens.** Handlers of all connections share one mutex and one
  chain of middlewares; tokens are strings made from whole seconds; the read
  buffer is emptied between requests. Correct: a logout is final, nobody is refused
  what the role allows (this fails, section 4), a new token works, clients that wait for their
  answers are heard, `Stop` returns.
* **Rules under evaluation.** A reading is matched against a copy of the enabled
  rules while HTTP requests change them. Correct: what fires was due, what was due
  all the time fires, and no write of a rule is undone.
* **One connection, several mutexes.** A transaction of one repository takes in
  what another executes; the process may end between any two statements.
  Correct: schema and version rows agree, nothing is skipped, acknowledged writes last.
* **Life of the process.** Signals on any thread, starts that fail half way,
  destructors that stop what still runs. Correct: no handler outlives what it
  uses, no thread is destroyed unjoined, the process exits; what throws, throws before
  there are threads.
* **Not modelled**: the reconnecting WebSocket client in Dart (section 6).

## 2. Modules

| Module | What it is |
|---|---|
| `FrameChannel` | abstract: a FIFO channel per connection that may lose a frame and then carries nothing more |
| `WsServer` | `WsServer`, `WsSession` and the message handler of `Application::WireWebSocketHandlers`; implements `FrameChannel` |
| `WsServer_proofs` | theorems about `WsServer` |
| `SubscriptionService` | abstract: an MQTT client whose broker carries out every call at once |
| `MqttClient` | `MqttClient`, with the Paho library and the broker as its environment; implements `SubscriptionService` |
| `MqttClient_proofs` | theorems about `MqttClient` |
| `DeviceManager` | `DeviceManager`, the row operations of `SqliteDeviceRepository`, their callers in the HTTP controllers, the application callbacks |
| `DeviceManager_proofs` | theorems about `DeviceManager` |
| `HeartbeatMonitor` | `HeartbeatMonitor` with a clock |
| `HeartbeatMonitor_proofs` | theorems about `HeartbeatMonitor` |
| `Authentication` | `AuthenticationService`, `JwtHandler`, `AccessControl` over a clock: what the operations read and write |
| `RestApi` | `HttpServer`, `HttpSession`, `HttpRouter`, the middlewares and the controllers as handlers, composed with `Authentication` |
| `RestApi_proofs` | theorems about `RestApi` |
| `RuleEngine` | `RuleRepository`, `RuleEngine`, `ConditionEvaluator`, `AutomationController`, the sensor callback |
| `RuleEngine_proofs` | theorems about `RuleEngine` |
| `Database` | `SqliteConnection`, `MigrationManager`, the writes of both repositories, with crashes |
| `Database_proofs` | theorems about `Database` |
| `Application` | `main`, `Application`, the threads of the heartbeat monitor and of the two servers, signals, destructors |
| `Application_proofs` | theorems about `Application` |
| `MCDeviceManager`, `MCRuleEngine` | symmetry sets and inputs for TLC |

Each definition marked "Mutant of ..." is a plausible wrong version of the
definition after it; no specification uses it. It is there so that one can see
that the property named beside it in `PROJECT.json` would notice that error.

### WsServer

A connection's variables follow the code: `writeQueue` and `writing` are
`m_writeQueue` and `m_writing`; `posted` counts `DoWrite` handlers on the strand,
`deferred` and `completed` are async_writes in the reactor and with `OnWrite`
due, `chained` is `OnWrite` between the release of `m_writeMutex` and its call of
`DoWrite`, where a `Send` can fall. `sockLoad` is the kernel's send buffer;
`wire` and `garbled` are history. `sessions` and `topics` are the two tables. The
empty sets that `OnSessionDisconnected` leaves in `m_topics` are not told apart
from absent topics: no operation does either.

One action is one critical section with the thread-local work around it. The
strand is the guard `StrandReady` together with `chained`. `Broadcast` holds
`m_sessionsMutex` over all its `Send`s, so it is one step; a concurrent `DoWrite`
of a session sees it as one `Send`. Two threads in `Broadcast` exclude each
other, so `Caller` need not be a set of threads. `Stop` has three steps (acceptor
closed; `Close` posted for each session under the mutex; io_context stopped) and
handlers run in between. The handlers that are still queued then never run.

The close handshake that the posted handler performs blocks the strand in the
code; here the connection is unusable when it begins. A failing `Start` leaves
the server as it was. The log, the connect and disconnect callbacks (never
installed) and `OnClose` (never called) are left out.

### MqttClient

`callbacks` is what Paho's thread is about to run, and nothing else in the
library happens while it is not empty: Paho calls `onSuccess`, then the connected
callback, and one callback at a time. `OnConnected` has two steps, the flag and
`ResubscribeAll`, as application threads run in between. `commands` are the
requests in the library, which the broker carries out in order; a loss of the
link keeps or drops them, and the broker keeps or forgets the session
(`m_cleanSession` is FALSE by default; a broker may restart without a store).
One application thread at a time calls the client: the main thread until `Start`
returns, then HTTP handlers one at a time (the router's mutex). Subscribe acks
and refusals by the broker, QoS, TLS and `Publish` are left out; the code looks
at none of the first.

`Disconnect` has three steps: the look at the flag, `MQTTAsync_disconnect`, and the reset
of the flag. Losses, reconnections and callbacks come between them, so that the link which
is closed need not be the one that set the flag.

`overtaken`, `straddled`, `released` and `crossed` are history that states exactly which
interleavings the code does not handle (section 4).

### DeviceManager

A row is its status and whether its other columns come from the last
registration of the id (`latest`), which is all the properties tell apart; the
flag takes the place of a registration counter, so registrations are unbounded.
A handler is split where it leaves a critical section: `GetById` and `Update` are two
steps, with the row copied in between (`paho.copy`). A register request
has its insertion, the question `IsConnected` and three subscriptions as steps.
HTTP requests exclude each other by the router's mutex and start after
`SubscribeAll`; MQTT messages are handled one at a time on Paho's thread, and
`SendCommand` may come from both. `ConnectionChanges` is the MQTT client seen
from outside. `Subscribe` may be refused although the client says that it is connected:
`m_connected` is reset by a callback, after the library has lost the connection.
`missed` names the devices a disconnected client left as they were.
`Restart` ends the process between any two steps and starts it again over the rows it
left: nothing has been announced then, and `announced` is "inherited" for a row that is
online already. `announced` is what this process has broadcast last.
`last_seen`, JSON, listing and failing SQLite calls other than a
violated constraint are left out.

### HeartbeatMonitor

Time is the age of each device's `m_lastSeen` in seconds, no further than the
longest timeout, beyond which no comparison can tell two ages apart. `elapsed` is
what the poll thread computes from its own `now`, read before the mutex is taken.
The poll interval is left out: a sleeping thread may wake at any time, which
allows every interval. `Start` and `Stop` are called by one owner one after the
other, as `Application` does.

### Authentication and RestApi

A token is its payload: HS256 is deterministic, so equal payloads are equal
strings. `Authentication` has no step but the clock; `RestApi` calls its
operations from the handlers. A connection's `phase` is where its session is:
`reading` (async_read), `received` (in `OnRead`, before the router's mutex),
`guarding` and `handling` (in `Dispatch`, with the mutex), `writing` and
`answered` (the client may have the answer before `OnWrite` runs). `inbox` is
what is in the socket. What async_read leaves in `m_buffer` (whole requests or a
part of one) is chosen at `DoRead`, which empties it; it is nothing for a client
that waits for each answer (`Pipelining` are those that do not). Of the bytes of
a request only its kind, its user and its token remain, so the conversions in
`HttpSession` and the parsing in the controllers end in one of these kinds or in
`other`; `view` is a request that reads devices, sensors or metrics, `resource` any
other one of a controller. The middlewares of one request are a single step (each one
validates
the same token again, and nothing but the clock can change in between, as
`Dispatch` holds the mutex). Passwords and signatures are right or wrong: a wrong
one makes a request `other`, or its token `NoToken`. The set of revoked tokens is
never purged in the code, nor here.

### RuleEngine

A rule is its switch and its conditions. `calls` are `EnableRule` and
`DisableRule` between `GetById` and `Update`. Paho's thread takes a reading
(`ReadingArrives`, which covers the broadcast that comes first), evaluates it
over a copy (`EvaluateRules`) and sends one command at a time. `due` and `steady`
are history: what the reading met at some moment since it arrived, and all the
time. Doubles are natural numbers, which is enough as they are only compared.
`UpdateRule`, `EnableRule` and `DisableRule` have no route: they are called by
users of the library and its tests.

### Database

`disk` is what a crash leaves, `work` what the connection sees, `tx` whether a
transaction is open. A statement takes effect, fails, or fails so badly that
SQLite rolls the transaction back. `DeviceWrites` has all three, as the return
value of `Step` is not looked at. `migration` is the place in `Initialize`: after `Open`
comes `CurrentVersion`, whose `Step` may fail, which counts as version 0 (`misread`), or
whose `prepare` may throw, which ends the start (`GiveUp`);
`BatchBegins`, `BatchInserts` and `BatchEnds` are `AddBatch` with device writes of
other threads in between. A failed `prepare` in `AddBatch` throws with the
transaction open: `leaked`. Rows are told apart by key. `Remove` and `Update` read
`sqlite3_changes` without a lock over both calls, so that the answer may be the
wrong one of success and `DeviceNotFound`; both say the same about the row, and
the model does not tell them apart. `Add`, `AddBatch` and `Purge` of readings are
called by users of the library only: the program itself queries.

### Application

`alive` counts the members of `Application` in the order of their declaration,
and destructors take them from the end. A group of threads is `running`, asked to
stop, `ended` or joined. `stop` is the one call of `Application::Stop` that was
let in by the exchange of `m_running`, on the thread that took the signal. `Uncaught`
is an exception that leaves `Initialize` or `Start`: only the opening of the database is in
a `try` (`application.cpp:24`), so a statement that cannot be prepared, in `Migrate` (a
`--db` file that is not a database) or in `SubscribeAll`, and a failing
`MQTTAsync_create` go through `main` and end the process by `std::terminate`. That memory
and threads can be had is taken for granted, and what handlers throw on the io threads is
left out. There
is nothing to instantiate: the run is exhaustive. Paho's thread is left out
as a group, as nothing waits for it: `Disconnect` is asynchronous, so a message
callback may still run when the objects it uses are destroyed.

## 3. Runs

| Run | Instance | What it asks |
|---|---|---|
| `ws_server` | 1 connection, 2 topics, 3 messages, send buffer of 1 | one writer, no lost wakeup, tables, removed sessions, refinement of `FrameChannel`, delivery, forgetting |
| `ws_frames` | 1 connection, 3 messages | finding: frame contents |
| `mqtt_subscriptions` | 2 topics, 3 links, 2 queued commands | flag, renewal, unsubscription |
| `mqtt_connect` | 1 topic, 1 link | finding: `Connect` and `IsConnected` |
| `device_rows` | 2 devices, 2 HTTP threads, restarts | rows, topics, announcements, commands |
| `device_latest` | 1 device, 1 HTTP thread | finding: overwritten registration |
| `heartbeat` | 2 devices, timeouts 1 and 2 | reports, stop, no missed silence |
| `rest_api` | 2 connections (1 pipelines), 2 threads, 1 user with any of 2 roles, 2 seconds | logout, new tokens, lost requests, `Stop` |
| `viewer_read` | 1 connection, 1 user with any of 3 roles, 2 seconds | finding: a Viewer's right to read |
| `rules` | 2 rules, 1 caller of `EnableRule`, 1 sensor type, 2 values, 2 bodies | evaluation, lost updates |
| `database` | 2 devices, 2 migrations | versions, acknowledged writes, transactions |
| `lifecycle` | no parameter | objects and threads, termination |

Why the bounds are enough. *WebSocket*: every property is about one session,
and sessions share only the two tables, in which an operation on one leaves the entries
of the others alone; that no number of them makes a difference is what
the theorems of section 5 add, which hold for any `Conn`. With two topics a session is
removed from some entries of `m_topics`, or from all. With a buffer of one frame the second
message is deferred, and with three messages one is queued, one deferred and one
on the wire. `MaxMsg` bounds replies to pings too. *MQTT*: a third link is
needed for a subscription recorded across one reconnection and renewed by the
next; two topics give `ResubscribeAll` an order. `MaxCommands` bounds commands at
the moment one is issued; `ResubscribeAll` may go past it. *Devices*: two HTTP
threads are what the router's mutex keeps apart; devices interact through the
shared threads only. *Heartbeat*: two devices with different timeouts make a
batch of two and rounds in which one is silent and the other is not. *REST*: two
connections contend for the mutex, one waits and one pipelines; access tokens
of this second expire in the next, and refresh tokens outlive them; the user is
an Admin or a Viewer (an Operator passes the same middlewares as an Admin).
*Rules*: rules do not interact, and two make a batch of commands; the bodies have
one condition, two on one sensor, and an operator that is not known.
*Database*: two migrations have a crash between them, and two devices make a batch
of two with writes of the other kind in between. Crashes and restarts are not
bounded, nor are operations in `rules` and `database`: their state spaces are finite
as they are.

Deadlock is checked for `DeviceManager`, `HeartbeatMonitor`, `RuleEngine` and
`Database`, which always have a step, and for `Application`, where `Over` is the only
stop. It is off for `WsServer` (the server stops, and the connections are used
up) for `RestApi` (the server stops and time ends), and for `MqttClient` (the client is
destroyed).

Symmetry is used in safety runs only. `OnlyRegisterCreates` is a property of single
steps, for which it is sound.

### Fairness

* `WsServer`: each kind of handler that stays runnable runs (the io threads take
  handlers from a queue), and a socket that stays writable is reported. A client
  that has stopped reading either reads or is given up (`StalledPeer`: Beast's
  suggested timeouts, set in the constructor of `WsSession`). Nothing is assumed of
  clients that send, of callers, or of `Stop`.
* `MqttClient`: Paho's thread runs its callbacks, and the broker answers while
  the link is up. Reconnection is not assumed.
* `HeartbeatMonitor`: the poll thread goes on and `join` returns when it can. The
  callback returns (it broadcasts, which does not block).
* `RestApi`: the steps of `Dispatch` and of handlers go on (they run to their end on
  an io thread), a mutex that stays free is taken, and `join` returns when it can.
  Nothing is assumed of clients, of the clock or of `Stop`.
* `Application`: main and the threads that run go on, and handlers that are at
  work return. `Stop` is assumed to go on only on the thread of main: anywhere
  else it may have interrupted a thread that holds a mutex it needs.

## 4. What the runs show

Everything listed as a property of a passing run holds on its instance.
Stated with the exceptions that the code really has:

* `NoSubscriptionForgotten` leaves out topics recorded after a `ResubscribeAll`
  but issued before it: `Subscribe` records last (`mqtt_client.cpp:163`).
* `UnsubscribedIsGone` covers topics whose `Unsubscribe` was not overtaken by a
  reconnection: `Unsubscribe` erases last.
* `FlagTracksLink` leaves out two outcomes of `Disconnect`. A reconnection that
  `MQTTAsync_disconnect` does not see, as it comes after it or without the flag, leaves the
  flag unset with a link that is up. And a loss and a reconnection between the check
  (`mqtt_client.cpp:122`) and the reset (`:131`), with the connected callback still due,
  leave the flag set with no link: `OnConnected` (`:245`) runs after the reset (`crossed`).
* `OnlineIsAnnounced` leaves out rows that were online when the process started:
  `Application::Start` announces none of them, and an earlier process may have ended
  between `Update` (`device_manager.cpp:243`) and the callback (`:254`), so that nobody
  was ever told. The next status message of the device ends the exception.
* `RecordedMatchesRows` leaves out devices whose last call met a disconnected
  client; nothing in the code repeats those calls.
* `NoLostWakeup` and `SingleWriter` tell of `m_writing` after a failed write: it
  stays set, which is harmless as the session has left the tables.
* `FreshTokenWorks` leaves out a token whose equal was logged out in the same
  second: both are one string.
* `OnlyPipelinedIsLost` leaves out clients that send before they have their answer.
* `UpdatesKept` leaves out rules written while an `EnableRule` or `DisableRule` has
  a copy: `Update` writes back all of it (`rule_engine.cpp:67`).
* `SchemaIsVersioned` leaves out a version row that was refused: `Migrate` does not
  look at `Step` and commits the migration without it, so that the next start
  runs it again (`migration_manager.cpp:75`). It also leaves out a version that could not be
  read: `CurrentVersion` returns 0 when `Step` fails (`:36-40`), and every migration
  runs again. What remains in both cases is that none is skipped.
* `CrashKeepsPromises` leaves out device writes that failed (they are acknowledged
  all the same) or that fell into an `AddBatch` transaction, and the transaction of
  an `AddBatch` whose `prepare` threw: it is never ended, and everything after it is
  lost in a crash.
* `NoAbort` is about threads that are destroyed unjoined or join themselves, and a `Stop` that
  meets destroyed objects. An uncaught exception in `Initialize` or `Start` does end the process by
  `std::terminate`; of it the property says that none of the threads has been started.
* `ThreadsOutlived`, `NoAbort` and `Terminates` leave out signals that are handled by
  another thread than that of main. `Stop` then joins the thread it runs on, or
  races with the destructors.

`migration_manager.hpp:27-30` says more than the code does: "applies only migrations whose
version exceeds the stored value" does not hold of a version that cannot be read, and
"any failure rolls back and returns an error" does not hold of a version row that is
refused, which is committed without. No run ends in this counterexample;
`SchemaIsVersioned` without `unrecorded` or without `misread` shows it.

Seen while modelling, and stated here as no run is about it: `RefreshToken` takes
access tokens as well; rules with
conditions on two sensor types never fire, as one reading has one type; `Application`
registers no device with the monitor, so its callback is never called; a second
`POST /devices` with an id that exists is answered 201 where `API.md:269` and `:887` promise a refusal;
`application.hpp:131` wants the controllers to outlive the HTTP server, and they are
destroyed before it (harmless after `Stop`, and in a failed start, as
`ThreadsOutlived` shows).

Four runs end in a counterexample to something the repository says:

1. `ws_frames`: `DoWrite` gives `async_write` a buffer that lives in its own frame.
   A write that completes later sends other bytes than the message.
2. `mqtt_connect`: `Connect` returns before `m_connected` is set.
3. `device_latest`: a message handled across an unregistration and a registration
   overwrites the new row with the old columns.
4. `viewer_read`: a Viewer is refused when reading devices, sensors or metrics.
   `access_control.hpp:34`, the test `ViewerCanReadAllowedResources`
   (`access_control_test.cpp:55-60`) and `ARCHITECTURE.md:533` give it that right, and
   `AccessControl::CanAccess` does too; but middlewares are global, and those for writing
   refuse it on every route. (It cannot log out either.)

## 5. Proofs

`WsServer_proofs` holds theorems for any sets of connections and topics, any
number of messages and any positive buffer size (`WsAssumption`):

* `TypeCorrect`: `Spec => []TypeOK`, one case per action (`TypeStep`).
* `OneWriter`, `NoWakeupLost`: from the invariant `WriterInv ==
  SingleWriter /\ NoLostWakeup`. Neither is inductive alone: that `OnWrite` may
  reset `m_writing` needs the one write that is under way to be the one it
  completes, and that a `Send` need not post when `m_writing` is set needs
  `m_writing` to mean that a writer is under way.
* `NoOrphanId`: the tables hold only sessions being read. The step that
  matters is that a session reads a message, so subscribes, only in the phase
  whose end removes it.
* `ImplementsChannel`: `Spec => ChannelSpec` under the mapping `pending` =
  deferred writes followed by the queue, `lost` = failed. A `DoWrite` that
  defers is a stutter; one that finds room is a `Transmit` because `WriterInv`
  says no deferred write is ahead of it. `ConcatAppend` and `ConcatHeadTail` are
  the facts about sequences it needs.
* `RemovedStaysQuiet`: `Spec => NothingQueuedAfterRemoval`; every `SendEach` has
  a subset of the session table (`QuietStep`), which is the lookup that
  `BroadcastToTopic` makes.
* `BroadcastsAreOrdered`: `Spec => []SameOrder`. Any two clients receive the frames
  that both receive in the same order, and none twice, whatever threads broadcast and
  to which topics. `OrderInv` says it of the chains: what is on the wire, then what is
  deferred, then the queue. It also says that the message that comes next is in no chain
  yet, which holds of a reply although its number is given when its ping arrives. The proof
  goes by the moves of `FrameChannel` (`ChannelMoves`): `Transmit` leaves the chain as
  it is, `Lose` takes one message out (`Embeds`), and one `Enqueue` puts the same message
  at the end of all its chains, which is what holding `m_sessionsMutex` over the loop is
  for. TLC finds `OrderInv` invariant on an instance with two connections, one topic
  and two messages.

`MqttClient_proofs` is about any finite set of topics, persistent and clean
sessions, and any number of connections and queued commands (`MqttAssumption`):

* `MqttTypes`: `Spec => []TypeOK`.
* `FlagIsTrue`: from `LinkInv`, which lists the callbacks that can be due together
  and what flag and link are while they are: a lost link has its callback due or run
  before a new one comes, so that no order of both leaves the flag set without a link
  before `Disconnect`, and after it only if the connected callback was due at the reset.
* `SubscriptionsRenewed`: from `RenewInv`. A topic that is issued and not yet recorded
  is held by the broker too, unless a `ResubscribeAll` has passed it by; then the
  step that records it adds nothing that is not held.
* `ReleasedStaysGone`: from `GoneInv`, which says the same of a topic between the two
  steps of `Unsubscribe`.
* `ImplementsService`: `Spec => Service!Spec`. The mapping takes the commands in the
  library for carried out (`Held`), calls a connection new until `ResubscribeAll` has
  run on it, and lets a `Subscribe` begin when the library takes it. The broker's and
  most callbacks' steps are stutters; `ResubscribeAll` is one step of the service, in
  whatever order it walks the table. TLC finds the same on the instance of
  `mqtt_subscriptions`, with `Service!Spec` as its property.
* `HoldsIssued`, `HoldsExecuted` and `HoldsRenewed` are what they need to know of
  queues: the last command for a topic decides, the first one may be carried out, and a
  walk of m topics in m steps meets each.

`HeartbeatMonitor_proofs` is about any set of devices and any timeouts with a
longest one (`HeartbeatAssumption`, which the abstraction of time needs):

* `MonitorTypes`: `Spec => []TypeOK`.
* `ReportsSilentOnly`, `ReportsOnce`, `StopIsFinal`: from `MonitorInv`, which adds
  three facts to the properties. `ElapsedBehind`: the poll thread reads its
  `now` before it takes the mutex, so what it computes never exceeds the
  truth. `ToldIsMarked`: a device reported in this silence still has
  `timedOut` set, so collection skips it. `PollMatchesOwner`: a batch exists only
  while the poll thread makes its calls, and it is gone once `Stop` has joined it.

`DeviceManager_proofs` is about any sets of devices and of HTTP threads:

* `DeviceTypes`: `Spec => []TypeOK`, with a lemma for each kind of thread.
* `CommandsAreSafe`: from `CommandInv == OneRequest /\ CommandedIsRegistered`.
  `OneRequest` is the router's mutex; a step of a request finds the
  other threads idle (`HttpAlone`), so no removal is between check and publish.
* `RowsAreRegistered`: `Spec => OnlyRegisterCreates`. Paho's thread keeps absent
  rows absent (`PahoRows`) because `Update` of a removed row writes nothing.
* `OnlineIsTold`: from `AnnounceInv`, which adds to `OnlineIsAnnounced` what the
  message in progress owes to the rows (`MessageIsTrue`). The hard part is the
  copy that a heartbeat writes back later: if it is online it has been
  announced or was inherited, since status messages wait for the same thread. A restart
  makes every row that is online inherited (`AnnounceRestart`).
* `TopicsMatchRows`: from `TopicInv`, which says for each place in a request which of
  the three topics of its device are recorded. A request finds the others idle, so
  they change nothing about them; topics of different devices are different.

`RestApi_proofs` is about any users, connections, threads, lifetimes and length of
time, and any set of pipelining clients (`AuthAssumption`, `RestAssumption`):

* `RestTypes`, `LogoutIsFinal`, `FreshTokensWork`: from `RestInv`.
  `Mutex` is the router's; with it `Admitted`, what the middlewares have seen, stays
  true until the handler has answered, since only the handler of a logout revokes
  (`LogoutKeeps`: nobody else is in the router then). `Genuine` ties the role in a
  token to the user, and bounds its time by the clock; `Gone` says that a revoked
  token made in this second was logged out in it, from which the action property
  follows for the two readings of the clock in `Login`.
* `WaitingClientsAreHeard`: `OnlyPipelinedIsLost` is inductive with the types.

`RuleEngine_proofs` is about any rules, callers, sensor types, values and bodies
(`RuleAssumption`):

* `RuleTypes`: an operator that is not known becomes one that is (`FromJsonType`).
* `EvaluatesExactly`: every write of the table keeps `due` and `steady` true for the
  reading in work (`StoreKeepsEvaluation`).
* `UpdatesAreKept`: `UpdatesKept` needs `CopyIsCurrent`: a copy whose rule nobody has
  written since has the conditions that were last written.

`Database_proofs` is about any devices and any set of positive versions
(`DatabaseAssumption`):

* `DatabaseTypes`: with a lemma for each kind of statement.
* `SchemaStaysVersioned`: from `SchemaInv`. `CurrentVersion` is a maximum, so what is
  skipped is right only if no version is there without those below it
  (`Recorded`), and if what is not pending is there (`Applied`). After a version that could
  not be read everything is pending, which skips nothing. `Seen` says how far
  the connection is ahead of the disk at each place in `Migrate`.
* `CrashesKeepPromises`: from `PromiseInv`. What callers were told is what the
  connection sees, and, if not in a transaction, what is on disk (`Told`).

`Application_proofs` is about a module without parameters, which TLC checks
exhaustively; the proofs give the argument:

* `LifeTypes`, `ObjectsOutliveThreads`, `NeverAborts`: from `LifeInv`. On the way up, the
  groups that run are those that the place in `Start` tells (`Running`). In the loop,
  `Stop` on the thread of main has joined the groups before the present one and left
  those behind it running (`StopProgress`), and main leaves only when it has come to
  its end. On the way down, a group that still works is the monitor's or the WebSocket
  server's, after a failed start, and what it uses is not behind the member that is
  destroyed next; a group that was asked to stop is that of the very server in
  destruction, so it is joined. An exception leaves main only from places where no
  group runs.

Every invariant and action property of the runs is proved. Only model-checked are the
liveness properties, `RecordedIsSubscribed`, `QueuedIsSent`, `BrokenIsForgotten`,
`SilentIsReported`, both `StopReturns` and `Terminates` (liveness under fairness and
ENABLED are out of the prover's reach). The counterexamples are TLC's too.

## 6. Plan and what is not modelled

Next, in this order:

1. `WebSocketClient` (Dart): connect, timers, dispose; composed with `WsServer`'s
   topic table to show what a reconnection loses.
2. `DeviceManager` over `SubscriptionService` in place of its own view of the
   client, to show which devices the broker is heard from.

Not modelled: the Flutter client. Its widgets have no control worth checking, its
REST layer makes one call after the other, and its WebSocket client shares no state
with the server; the server's properties hold for any client. Also left out are
build files, logging, JSON and HTTP parsing, Base64, password hashing and
signatures (pure functions that are tested as such), queries, and memory use.
