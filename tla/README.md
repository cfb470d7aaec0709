# Smart home network system: models, model checking and proofs

A TLA+ development kept beside the C++ sources of the smart home network system:
a TCP server with a pool of worker threads, a registry of simulated devices, a
VLSM address plan, routing and ARP tables, and an interactive client. Paths below
are relative to the repository (`src/src/...` are its `.cpp` files,
`src/include/...` its headers).

## 1. The system

| Component | State | Operations | Talks to |
|---|---|---|---|
| Thread pool (`utils/ThreadPool`) | `tasks_`, `stop_`, `queueMutex_`, `condition_`, the workers' locals | constructor, worker loop, `enqueue`, destructor | owned by `acceptClients`, runs its closures |
| Server life cycle (`server/Server`) | `running_` (atomic), `serverSocket_` (a plain descriptor), the accept loop's locals | `start`, `initSocket`, `acceptClients`, `stop`, `cleanupSocket`, destructor | kernel sockets, the pool |
| Connection handler (`server/ClientHandler`) | `clientSocket_`, a raw `Server*` | `handle`: `readMessage`, `processCommand`, `sendMessage`; the destructor closes the socket | one client, the server |
| Command processing (`Server::processCommand`) | `devices_` under `devicesMutex_` | dispatch, three device handlers, the device list, PING, ARP | devices, routing, ARP, subnets |
| Devices (`devices/`) | power, brightness, target temperature, armed, ... each under `deviceMutex_` | setters, status | called by the handlers |
| Subnet manager (`network/SubnetManager`) | `subnets_`, `allocatedIPs_`, `nextHost_`; no mutex | `initializeSubnets`, `allocateIP`, `releaseIP`, `findSubnet` | `initializeNetwork`, `initializeDevices`, ARP command |
| Address arithmetic (`network/NetworkConfig`) | none | text to `uint32_t` and back, masks, `isInSubnet`, the plan | everything under `network/` |
| Routing table (`network/RoutingTable`) | routes and a default route under `tableMutex_` | add, remove, longest prefix lookup | PING command |
| ARP table (`network/ARPTable`) | entries under `arpMutex_` | resolve, add, remove, `arpRequest`, flush | ARP command, `initializeDevices` |
| Text protocol (`protocol/HttpProtocol`) | none | `buildRequest`, `parseRequest`, `getPathSegments`, the same for responses | client, `processCommand` |
| Client (`client/Client`, `main_client`) | `socket_`, `connected_`, the line typed, the state of standard input | `connectToServer`, `disconnect`, `sendCommand`, prompt loop | server |
| Ping (`protocol/ICMPHandler`) | none of consequence | which packets are answered, random latencies | PING command |
| Logger, socket helpers, the server's `main` | none of consequence | output | |

How they interact. `start()` builds the network and the devices on one thread,
opens the listening socket and enters the accept loop. Every accepted socket
becomes a task of a `ThreadPool` of four threads; the task constructs a
`ClientHandler`, whose `handle()` reads a request, calls `processCommand` and
sends the answer until the client is gone. `processCommand` takes
`devicesMutex_` for a whole device command; PING looks an address up in the
routing table, ARP in the ARP table and in the subnet manager. `stop()` may be
called by any other thread; it sets `running_` and closes the listening socket.

What is hard:

* *Interleaving.* Workers, `enqueue` and the pool's destructor around one
  condition variable; `stop()` against `start()`, both touching `running_` and an
  unsynchronised `serverSocket_`; handlers against each other around the registry;
  `arpRequest`, which looks up and inserts in two critical sections.
* *Failure.* `socket`, `bind`, `accept` and `send` may fail, clients leave at any
  point, `processCommand` may throw and nothing on the thread catches. A message
  may be cut anywhere by the stream that carries it, and both ends take what one
  recv returns for one message.
* *Waiting.* accept blocked on a socket another thread closes; a destructor that
  waits for handlers blocked in `recv`; clients queued behind four busy threads.
* *Boundaries.* Clamped values, NaN, the first and last host of a block, address
  arithmetic on 32 bits, a host counter that never goes back.
* *Long sequences of legal calls.* Routes added twice and removed, a network
  initialised again, leases released and taken again.

What makes each component correct is stated in section 4, next to the run that
checks it; `PROJECT.json` lists every hazard at its line with the properties that
would notice it.

## 2. The modules

    TaskPool  <--implements-- ThreadPool <-- ThreadPoolProofs
       ^
       | INSTANCE
    Server <-- MCServer, ServerProofs

    Devices <-- DeviceRegistry <--implements-- Commands <-- MCCommands, CommandsProofs

                HttpProtocol <-- MCCommands

    NetworkConfig <-- SubnetManager <-- SubnetProofs
          ^                 ^
          |                 | EXTENDS (both)
          +--- RoutingTable <-- RoutingProofs
                            ^
                     HomeNetwork <-- MCHomeNetwork, HomeProofs

    ARPTable <-- MCARPTable, ARPProofs

    ClientSession <-- MCClientSession, SessionProofs

**ThreadPool** is `ThreadPool.cpp` step by step. A critical section nothing can
interrupt is one action; the only one that gives the mutex up half-way is
`condition_.wait`, so a worker with a false predicate goes through `Wait` (mutex
held, about to sleep) and `Block` (mutex released and thread blocked, in one
step). `Enqueue` and `NotifyOne` are two actions, as are `RequestStop` and
`NotifyAll`, because the notifications are outside the mutex. `NotifyOne` picks
any blocked worker or none, `SpuriousWakeup` needs no reason.

**TaskPool** is the promise: a FIFO queue, a slot per worker, a teardown that
happens once everything accepted has run. It has no mutex and no condition
variable.

**Server** is the accept loop's thread (`main` is its program counter), the
thread that calls `stop()` (`stopper`), the handlers (`hpc`, one per pool slot),
the clients and the kernel's side of the sockets. It uses the pool through
`TaskPool`, which is legitimate because `ThreadPool` implements it (`Refinement`
below). `running_` is read and written atomically, each access a step of its own.
`serverSocket_` is raced on: `cleanupSocket` is three steps, its test, its close and
its assignment, in the thread that calls `stop()` and in that of a failing
`initSocket`, so either may use the descriptor between any two steps of the other.
A data race on `serverSocket_` is taken as a choice between the old value and the
new. A close of a descriptor that was closed before sets `listener` to
`"reclosed"`. `CreateSocket` is one step because nobody else can know the
descriptor before it is assigned. The kernel (listener, backlog, `sock`,
`wire`) is external; `CloseWakesAccept` says whether closing a socket wakes a
thread blocked in accept on it (Windows) or not (Linux, where the blocked thread
keeps the listener alive and may still accept a last connection).

| Action | Code |
|---|---|
| `CreateSocket`, `BindAndListen`, `BindFails` | `initSocket` |
| `InitCleanup`, `InitClose`, `InitClear` | `cleanupSocket` in its two early returns |
| `SetRunning`, `TestRunning`, `CallAccept` | `running_ = true`, the loop's test, entering accept |
| `Accept`, `AcceptFails`, `Enqueue` | the three ways out of accept, `pool.enqueue` |
| `ClosePool`, `JoinPool` | `~ThreadPool` when `acceptClients` ends |
| `Destroy` | `~Server` |
| `Stop`, `CleanupTest`, `CleanupClose`, `CleanupClear` | `stop()` and its `cleanupSocket` |
| `BeginHandler` ... `SendFails` | `ClientHandler::handle` and its destructor |
| `Connect`, `SendCommand`, `ReceiveResponse`, `Leave` | the client program, as the server sees it |

**Devices** holds the device methods and the per-device commands as pure
functions: every method runs under `deviceMutex_` from its first line to its last
and is called by a thread that holds `devicesMutex_`, so it is one step. A
request is its verb and its words (the segments of a path, or what follows PING
or ARP); a body is what it is about and the data it carries. Temperatures are
whole degrees or NaN, the one double the clamp treats differently.

**Commands** is `processCommand` for any number of threads: dispatch, `Lock`,
`Handle` (one device command), `ListDevice` (one iteration of the list loop, so
that a torn list is possible unless the mutex prevents it), `Unlock`, `Return`.
`Terminate` is an exception out of `std::stoi` in `lookupRoute` or `findSubnet`.
**DeviceRegistry** is what it promises: each request takes effect and is answered
in one step between its call and its return.

**HttpProtocol** is the request side of the text protocol on words: a text is a
sequence of lines, a line of words, a word of the pieces between its slashes.
`Received` is the dispatch of `processCommand` on a raw text: PING and ARP are taken
by the first letters of the text, their argument from its first blank on. MCCommands gets its
requests by sending what a user types through `buildRequest` and `Received`.

**ClientSession** is one connection from both ends: the client program with its
prompt loop, the handler, and two streams of units, each unit marked with the
command it belongs to. `send` and `recv` move any number of units, at least one,
so a message can be cut at every place. `whole` is history.

| Action | Code |
|---|---|
| `Connect`, `ConnectFails` | `connectToServer`, and `main` returning 1 |
| `ReadCommand`, `EndOfInput`, `RepeatLast`, `Quit` | `std::getline` and the prompt loop; after the end of the input `getline` leaves the line it last read, so an unterminated last line is sent again |
| `Send`, `Recv`, `CallFails` | `sendCommand` |
| `Disconnect` | `disconnect`, called at the end of `main` and by `~Client` |
| `ReadMessage`, `ProcessCommand`, `SendMessage`, `HandlerEnds` | `ClientHandler::handle`; `sendMessage` loops, the client's `send` does not |
| `ServerGone` | the server process ends or the connection is reset |

**NetworkConfig** and **SubnetManager** translate the address functions and the
allocator. A `uint32_t` is a pair of 16-bit halves (TLC's integers end at
2^31 - 1), and `Plus` wraps like the code's addition. An address is the sequence
of its octets. `issued` is history: what `allocateIP` returned since
`initializeSubnets`.

**RoutingTable** has one action per method under `tableMutex_`; `lookupRoute` takes
a step per route (`BeginLookup`, `Examine`, `EndLookup`), so that its loop can be
checked against the definition of longest prefix match and so that the mutex has
something to protect. `Kept` (NetworkConfig) is `std::remove_if` with `erase`.
`removed` is history.

**HomeNetwork** composes the two: `InitializeNetwork` is
`Server::initializeNetwork`, which fills both from the one plan and, when called
again, resets the leases and adds every route a second time. `received` is which
packets of a ping are answered. The subnet manager has no mutex: its calls are
made by the thread that starts the server, or between lookups, never inside one
(`next = 0`). `altered` records that somebody else changed the routes.

**ARPTable** has one action per method under `arpMutex_`, except `arpRequest`:
`ArpHit` is a lookup that succeeds, `ArpMiss` and `ArpInsert` are the two critical
sections of one that does not, and anything may run in between. `Tick` is one
second of the steady clock. `configured`, `overtaken` and `told` are history.
`generateMAC` is computed with its 32-bit hash on 16-bit halves.

The `MC*` modules only give constants their values. Operators that a comment calls
MUTANT are deliberate bugs, not part of any specification: each shows that a
property can fail.

## 3. Assumptions and bounds

* `ThreadPool`: at least one worker (the server asks for four) and each task
  enqueued once. Checked with 2 workers and 4 tasks: two workers are enough for
  one to be notified while the other takes the task, four tasks for a queue
  longer than the number of workers while one more call is between its push and
  its notification. The theorems hold for any finite sets.
* `Server`: each client connects once; `MaxRequests` bounds what it sends.
  Safety: 3 clients, 2 workers, a backlog of 2, so that the backlog is full, a
  connection waits in the pool, and both workers are busy. `stop()` is called at
  most once. Liveness: 2 clients and 1 worker, so that one waits for the other.
* `Commands`: 2 threads. A word below, within and above each range and one that
  is no number; every branch of every handler has a request, unknown actions and
  missing values included.
  `NumbersAssumption` says only that what `std::stoi` returns is an integer and
  that NaN is none; `CommandsAssumption` that nobody is called `Free`.
* `HomeNetwork`: a plan with blocks of 8 and 4 addresses, used up in full;
  `MaxIssued` (8) is above either. `MaxRoutes` (4) holds the plan twice, or the
  plan with a cheaper copy of a route and a more specific one. The queries are an
  address in both a subnet and the more specific route, one in the other subnet,
  one in none. `PlanAssumption`, `HomeAssumption` and `RoutingAssumption` are what
  the code needs of a plan (hosts apart, subnets apart and inside the house's
  network, prefix lengths up to 32); TLC evaluates the first for the real plan
  too (`RealPlanSound`), with its masks and gateways (`RealPlanConsistent`).
* `ARPTable`: 2 threads and 2 addresses, so that two threads can be in the gap of
  one address or of two; ages up to `AgeCap` (2) seconds and limits of -1 and 1,
  so that entries are flushed at once, or after some time, or not.
  `ARPAssumption` says that an address is four octets.
* `ClientSession`: messages of 2 units, a `Buffer` of 3, so that a recv may take a
  piece, a message, or a message and a piece of the next; `MaxCommands` (3), so
  that a shifted answer meets the next command and the one after it.

Fairness. Pool: a thread that can run does, and tasks return; nothing forces a
spurious wake-up, a call of `enqueue` or the start of the destructor, and mutex
acquisition needs only weak fairness because a worker in `acquire` is disabled
only while another is about to block. Server: every thread and the pool make progress;
accept is strongly fair because a shortage of descriptors is assumed to end; no
client has to connect, send or leave, `bind` need not succeed and `stop()` need
not be called. `ClientsLeave`, used only by the two runs about `stop()`, says
that a client at its prompt, or whose connection was reset, leaves in the end:
without it `~ThreadPool` waits for ever for a handler blocked in `recv`, and a
client can wait for ever behind those that stay. Commands: threads run, and the
lock is strongly fair (a thread that keeps asking for a mutex gets it); nobody
has to send. Session: a call on either socket goes on when it can; nobody has to
type anything, and no connection has to fail.

`CHECK_DEADLOCK FALSE` is used where the system really stops: a destroyed pool, a
server that returned, a process that `std::terminate` ended, a client that ended.
The network and ARP runs check deadlock.

## 4. The runs

| Run | Module, cfg | Shows |
|---|---|---|
| `pool` | ThreadPool | `NoLostWakeup`: while a worker is blocked, each queued task is matched by a worker on its way or by a pending notification. `StopReachesAll`: nobody sleeps through `stop_`. `ExactlyOnce`: an accepted task is in one place only. `DestructorDrains`. `ImplementsTaskPool`. `EveryTaskRuns`, `DestructorReturns` |
| `server_safety` | MCServer, Server.cfg | `ConnectionsConserved`: an accepted socket has exactly one owner, the loop's local, the queue or a handler. `RequestsConserved`: requests and answers alternate on a connection. `NoHandlerOutlivesStart`: the raw `Server*` never dangles. `ListenerOwned`: an open listener can still be closed by somebody |
| `server_stop` | MCServer, ServerStop.cfg | On a platform where close wakes accept, and once the server has said it is running: `SocketClosedOnce` (`stop()`, a failing `initSocket` and `~Server` close the descriptor once between them), `StopSticks`, `NoAcceptAfterStop`, `StopReturns`, `RequestsAnswered` |
| `server_stop_race` | MCServer, ServerStopRace.cfg | violation of `StopSticks` when `stop()` comes during `start()` |
| `server_stop_linux` | MCServer, ServerStopLinux.cfg | violation of `StopReturns` where close does not wake accept |
| `commands` | MCCommands, Commands.cfg | `ListIsSnapshot`, `ArmedIsOn`, `BrightnessInRange`, `TemperatureInRange`, `ImplementsRegistry`, `EveryCommandReturns` (a command returns unless the process ended) |
| `commands_nan` | MCCommands, CommandsNaN.cfg | violation of `TemperatureInRange` |
| `commands_throw` | MCCommands, CommandsThrow.cfg | violation of `CommandAnswered` |
| `network` | MCHomeNetwork, Network.cfg | `LeasesUnique`, `LeasesUsable` (mapped back by `findSubnet`, no network, gateway or broadcast address), `UsedUpBeforeThrow` (allocation fails only when every usable address was issued). `LookupIsLongest` (the longest prefix wins, of equal ones the first added, whatever the metric), `RemovedStaysAway` (no copy of a removed route is left). `PingAgreesWithArp`: the interface PING routes an address by is the subnet ARP names for it, and the ping is answered, also after a second initialisation |
| `subnets_release` | MCHomeNetwork, SubnetsRelease.cfg | violation of `ReleasedComesBack` |
| `arp` | MCARPTable, ARPTable.cfg | `StaticSurvives`: a static entry stays until it is replaced or removed, unless a request was in its gap when it was made. `AnswersStand`: all who ask for an address hear what the table says, with the same exception |
| `session` | MCClientSession, Session.cfg | `AnswerComing`: client and handler never both wait, however the messages are cut. `AnswersPaired`: while every call moved a whole message, an answer belongs to its command. `AnswersInOrder`: however they are cut, no command gets an older answer than the one before it. `CommandReturns` |

Each of these specifications also has one type invariant (that of `network` is the
subnet manager's). TLC evaluates, besides, facts about constants: `RealPlanSound`, `RealPlanConsistent`, `MacsDistinct` (the
addresses of the house get different MACs), `RequestsRoundTrip` (`parseRequest`
inverts `buildRequest`), `ShortRequests`, `HelpReachesHandlers`.

What the exceptions in the properties say of the code: a static ARP entry made
while a request for its address is between its two critical sections is
overwritten by the generated one (`overtaken`); after one cut message the answers of a session may be shifted by one command for
good (`whole`), though never back (`AnswersInOrder`).

### Where code and documentation disagree

* `Server.h:41` "Stop the server gracefully": `running_ = true`
  (`Server.cpp:57`) overwrites a `stop()` that came during `initSocket`; the loop
  then spins on a closed socket (`server_stop_race`).
* The same line: `cleanupSocket` only closes the listener. On Linux that does not
  wake the thread in accept, so `start()` does not return unless one more client
  happens to connect (`server_stop_linux`).
* `tests/test_devices.cpp:112` and `:116` expect a clamped temperature: NaN, which
  `std::stod` accepts, passes both comparisons (`commands_nan`).
* `Server.h:50` "Process an incoming command and return a response": `std::stoi`
  in `ipToUint32` throws through `processCommand` and ends the process
  (`commands_throw`).
* `SubnetManager.h:22` "Release an IP back to the pool": a released address is
  never allocated again (`subnets_release`).

Also met, with no run of its own:

* `cleanupSocket` tests, closes and clears `serverSocket_` without a lock, so a
  `stop()` beside an `initSocket` that failed to bind or listen may close the
  descriptor a second time. With `StopFrom <- AnyTime` TLC finds `SocketClosedOnce`
  violated.
* `tests/test_network.cpp:199` "Flush expired - static entries survive": a static entry
  added between the lookup and the insertion of an `arpRequest` is overwritten by a
  dynamic one, which a flush removes. `StaticSurvives` leaves this case out.
* After a failed `send` or `recv` `connected_` is false, and neither `disconnect` in
  `main` nor the one in `~Client` closes the descriptor (`closes` stays 0 in
  ClientSession).
* `ClientHandler.h:15` speaks of a thread per connection where the code has a pool
  of four, so a fifth client waits until one of the first four leaves (which is
  why `RequestsAnswered` needs `ClientsLeave`).
* The client's help offers `PING <ip>` and `ARP <ip>` (`Client.cpp:145-146`), but
  the client sends them as the path of a GET, which names no resource: the answer
  is 404. The second conjunct of `HelpReachesHandlers` shows it; the tests, which
  send the bare line, do reach the tools.
* `ClientHandler.h:30` "Read a complete message from the socket": it is one recv.
* At the end of its input the prompt loop spins, or sends an unterminated last line
  for ever (`RepeatLast`).
* `RouteEntry` has a metric that no lookup compares.

## 5. What is proved

All theorems hold for every value of the constants that meets the named
assumptions; tlapm checks every proof.

* **ThreadPoolProofs.** `TypeCorrect`, `WakeupsKept`, `NobodySleepsThroughStop`,
  `TasksConserved`, `PoolDrains`, from the inductive invariant `IInv` of
  ThreadPool: types, `MutexInv` (a worker about to sleep holds the mutex and its
  predicate is still false), `StopInv`, `TaskInv` and the properties themselves.
  `MutexInv` is what makes `NoLostWakeup` and `StopReachesAll` inductive: between
  the test of the predicate and the block, nothing can be pushed and `stop_`
  cannot change. `NoLostWakeup` counts: a push adds one task and one pending
  notification, a notification turns itself into a worker on its way, a worker
  that leaves takes a task with it. `Refinement`: `Spec => ImplementsTaskPool`.
* **ServerProofs.** `HandlersEndFirst` (`NoHandlerOutlivesStart`) from `Owned`
  (each accepted connection is the loop's local, queued or in a slot), `LoopInv`
  (the local is set exactly while the loop is about to enqueue, and the pool is
  closed only after the loop) and `QuietInv` (nothing accepted before the loop or
  after the join); when the join returns, `Owned` leaves an accepted connection
  no place to be. `ListenerStaysOwned` (`ListenerOwned`) from what the two
  threads know of the socket while they race. `ConnectionsKept`
  (`ConnectionsConserved`) from `ConnInv`: the loop's local, the queue and the
  slots never share a connection (`OneHome`), what they hold is accepted, what the
  backlog holds is waiting, and a client that has not connected is in none of them;
  `Owned` gives the other half, that each accepted connection is somewhere.
  `RequestsAlternate` (`RequestsConserved`) rests on it, because a handler's step
  must not touch the request of another handler's client: `RequestInv` says of each
  connection that was not reset that a waiting client's request is either on the
  wire (going or coming) or with a handler past its read, never both, and that a
  client at its prompt has neither. `ServerTypes` types the whole state.
  `StopIsFinal` (`StopSticks`), `SocketClosesOnce` (`SocketClosedOnce`) and
  `StopAcceptsNoMore` (`NoAcceptAfterStop`) hold under `LateStop`, that `stop()` comes
  when the accepting thread has left `initSocket` and set `running_`, and the last
  where close wakes accept. Both
  conditions are real: `server_stop_race` shows `StopSticks` violated without the
  first, and on Linux the thread blocked in accept may accept once more. Given them,
  `LateInv` says that a `stop()` that has begun finds nothing left that would set
  `running_`, and that after its close nobody listens, and `OnceInv` that
  `serverSocket_` names a closed descriptor only between the close and the clear of
  the thread that closed it. `ServerUsesTaskPool`:
  `Spec => Pool!Spec`, each step of the server is a step of TaskPool or leaves it
  alone; with `Refinement` above, by which ThreadPool implements that same
  specification, this is what entitles Server to use the abstract pool.
* **CommandsProofs.** `ListsAreSnapshots` from the mutex invariant: while a
  thread has written part of a list it holds `devicesMutex_`, and only its holder
  changes a device. `CommandsAreAtomic`: `Spec => ImplementsRegistry`; the
  linearisation point of a device command is `Handle`, of a list its last step,
  which by the snapshot invariant shows the registry of that moment.
  `ArmedCameraPowered`, `BrightnessHeld` and `CommandTypes` from what every device
  command preserves of the registry. `TemperatureHeld` assumes that `std::stod`
  yields numbers only: the run `commands_nan` shows that it has to.
* **SubnetProofs.** From `PlanAssumption` and the invariant that the k-th address
  issued in a subnet is that of host k + 1 and `nextHost_` is one past the last:
  `SubnetTypes`, `BlockUsedUp`
  (`UsedUpBeforeThrow`). `LeasedOnce` and `LeasedAddressesUsable` add that what is
  leased was issued, and that releasing only takes away.
* **RoutingProofs.** `LookupsAreLongest` from the loop invariant of `lookupRoute`:
  after k routes, either none of them covers the address and the default is kept,
  or the best match is the first of the longest among them. `RemovalIsComplete`
  from the invariant that no route of the table has a removed prefix. Both for
  tables of any length.
* **HomeProofs.** `HomeInv` joins the loop invariant with: unless somebody else
  changed them, all routes are routes of the plan and, once the network is
  initialised, each is there. From it and
  `HomeAssumption`, `PingAndArpAgree`. `HomeLookups` carries the routing table's
  promises over; `HomeLeases` shows that the composition implements the subnet
  manager's specification and so keeps its four invariants.
* **ARPProofs.** `StaticEntriesSurvive` and `AnswersAgree` from one invariant per
  address (`Sound`): while a request for an address is in its gap, and nobody
  set an entry meanwhile, the table has nothing for it or the generated MAC, and
  nobody was told another. `ARPTypes`: a MAC in the table or told is a configured one
  or five octets (the first, constant byte is left out), as `generateMAC` must give
  for whatever address is asked for. Its hash is a fold
  over the address's text; `HashFold` shows by induction over the text's length that
  the fold stays a pair of 16-bit halves, whatever the text. The induction is the
  least-number principle, an instance of a theorem of `WellFoundedInduction` about
  sets, which needs no operator as a parameter.
* **SessionProofs.** `AnswersNeverGoBack` (`AnswersInOrder`): the command last
  answered, the units on their way down, the handler's piece and the units on their way
  up are in this order one sequence that never falls (`OrderInv`), so the head of the
  lower stream is no older than the answer before it. `NeverBothWait` and
  `OwnAnswers` from `StreamInv`: the streams hold units of commands sent, and
  while `whole`, each stream holds exactly the message the two program counters
  say it does. `SessionTypes` from `UnitInv`: a unit on a stream belongs to a
  command that was sent, so no answer names a command to come.

Every invariant and every action property of a passing run is stated by one of
these theorems. Only model-checked:

* everything under fairness (`EveryTaskRuns`, `DestructorReturns`, `StopReturns`,
  `RequestsAnswered`, `EveryCommandReturns`, `CommandReturns`): it needs ENABLED,
  which the prover does not reach;
* the facts about constants that TLC evaluates: that the addresses of the house get
  different MACs (`MacsDistinct`, said of those 256 addresses only), that the real
  plan meets what the proofs assume (`RealPlanSound`, `RealPlanConsistent`), and what
  the text protocol computes (`RequestsRoundTrip`, `ShortRequests`,
  `HelpReachesHandlers`), on the requests listed there only.

## 6. What is not modelled

* The bytes of a message: a stream carries units, a text words. `Server` moves
  whole messages; `ClientSession` cuts them, for one client. The values of
  responses beyond status and topic, `HttpResponse` and its serialisation.
* `setColor`, `setMode`, `simulateMotion`: no command reaches them, only tests call
  them on devices of their own.
* Two calls of `start()` at once. A second call after the first returned, with
  devices that hold their addresses, is listed under the hazards.
* Signals: SIGPIPE on a send to a reset connection.
* Ping's latencies, averages and the two ICMP messages nobody branches on.
* The logger, the printed tables, the server's `main`, the socket helpers nobody
  includes.

## 7. Plan

Done, in this order: ThreadPool and its abstraction; Server on top of it;
Commands and DeviceRegistry; SubnetManager; ARPTable; RoutingTable and
HomeNetwork; HttpProtocol and ClientSession; then the theorems of section 5, which
state every invariant and action property of the runs. Next:

1. Proofs: that `parseRequest` inverts `buildRequest` for every request, by the
   induction `HashFold` uses; that the real plan keeps its subnets apart, for every
   address and without evaluating it.
2. The devices' own addresses: `initializeDevices` over SubnetManager and ARPTable, with
   the exception that breaks it off and the initialisation that leases again what
   devices still hold.
3. Server and Commands composed, requests and replies carrying values, so that a
   client's answer is the answer to its own request whichever worker serves it.
