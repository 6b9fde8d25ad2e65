# Formal model of monitoring-tool

monitoring-tool watches the pods and nodes of a Kubernetes cluster, turns what it
sees into alerts, stores every alert in PostgreSQL, and pushes it to browsers over
WebSocket and to an operator by e-mail.  It is one Go process of a dozen goroutines
that talk through bounded channels, plus a browser page.  This directory holds a
TLA+ model of it, the TLC runs that check the model, and TLAPS proofs.

## 1. Inventory of the system

| Part | State it keeps | Operations | Who calls whom | What is hard |
|---|---|---|---|---|
| Worker pool `internal/pool` | `stopped`, `stopChan`, `taskQueue` (300), wait group | Start, Submit, SubmitWithContext, worker, Stop, StopWithTimeout | watchers submit, main stops | Submit checks and sends in two steps; Stop closes the queue; two Stops at once |
| Evaluator, state manager `internal/processor` | none of their own | ProcessAlert = store, then publish | run by pool workers | one of two steps failing; no publish for what was not stored |
| Event bus `internal/processor/event_bus.go` | observers, `eventChan` (200), `stopCh` | Subscribe, Publish, dispatcher, notifyObservers, Stop | state manager publishes; hub and e-mail observe | a goroutine per notification: slow observers, reordering, shutdown |
| WebSocket hub `internal/websocket` | `clients`, `register`, `unregister` (unbuffered), `broadcast` (500), a write mutex per client | Run, Register, Unregister, Broadcast, OnAlert, ServeWS (reader and pinger per client) | event bus, HTTP handler | the loop sends to itself; goroutines blocked on unbuffered channels after shutdown |
| Pod and node watchers `internal/collector` | `eventChan` (500 / 300), `stopCh`, wait group | watchPods/watchNodes, eventDispatcher, processEvent, Stop | Kubernetes API, pool, state manager | reconnects, dropped events, shutdown |
| Metrics watcher, metrics client | `stopCh`, wait group, ticker | metricsLoop, checkAllMetrics, checkPodMetrics, checkNodeMetrics, Stop | metrics API, pool, state manager | periodic work racing Stop |
| Alert rules `pod_collector.go`, `node_collector.go`, `alert_builder.go`, `constants.go` | none | evaluatePodConditions, evaluateNodeConditions, Build*Alert | processEvent, metric checks | boundaries of thresholds, which container an alert names |
| Kubernetes client `k8s_client.go` | `stopCh`, `mu` | NewK8sClient, Stop | main, watchers | two Stops |
| Repository and service `internal/repository`, `internal/service` | the alerts table | Create, List, GetBySeverity, counts | state manager, HTTP handlers | limits, counts read in several queries |
| E-mail notifier `internal/notifier` | none | OnAlert (two attempts) | event bus | retries, time budget of an observer |
| Start-up and shutdown `cmd/monitoring-tool` | every component | init, main, shutdown | all | order of stops, what still runs when the database closes |
| Configuration, logger, models, storage, health, routes | values read once | Load, Validate, handlers | main | numeric edges in settings |
| Browser page `web/static/js` | alerts shown, counters, socket, timers | connect, heartbeat, addAlert, fetchAlerts, refreshCounts | HTTP API, WebSocket | pushes racing snapshots, stale socket events |

Messages flow in one direction: Kubernetes API → watcher → `eventChan` → dispatcher
→ worker pool → state manager → PostgreSQL and event bus → hub and e-mail →
browser.  Stop signals flow the other way: one application context is cancelled,
and `shutdown` then calls the Stops in a fixed order.  What makes each part correct:

- **Pool**: an accepted task is run once, a refused one never; Stop leaves nothing
  running and always returns; the pool starves no task.
- **Bus**: an event is handed to every observer or to none; observers do not hold up
  each other, the dispatcher or Stop.
- **Hub**: one writer per connection; no client is left in the map without a reader
  to remove it; a connected client receives the stream without a gap.
- **Watchers**: states of an object reach the pool in order; what happened while no
  stream was open is learned from the next one; no goroutine outlives Stop.
- **The program**: nothing is submitted to a closed pool, nothing is stored in a
  closed database, an alert that was stored is published, and shutdown ends.
- **Rules**: an alert for every condition, whatever else is wrong, naming a container
  that has it (though not always the one it was raised for).
- **Metrics**: what could be read is reported for exactly what its load is over,
  whatever else vanishes, changes or fails during the check.
- **Page**: no alert twice in the list, a number at the bell while one is unread, and
  in the end what the database has; one connection at a time, opened again for good.

## 2. Modules

| Module | Models | State ↔ code |
|---|---|---|
| `TaskService` | what the pool promises (abstract) | `phase` of each task, `closed` |
| `WorkerPool` | `pool/worker_pool.go` | `stopped`, `stopChan`, `taskQueue`, `queueClosed` are the fields; `worker`, `submit`, `stop`, `timed` are the program counters of the goroutines, `holds` the received task; `runs` and `finished` are history |
| `EventBus` | `processor/event_bus.go` | `observers`, `eventChan`, `stopCh`; `dispatcher`, `pending` the loop over observers; `call` the goroutine of each notification |
| `Hub` | `websocket/hub.go`, its handler | `clients`, `broadcast`; `run`, `targets` the loop; `reader`, `pinger`, `writeMu`, `conn` per client; `log`, `got`, `since` are history |
| `Watcher` | `pod_collector.go`, `node_collector.go` up to the pool | `stream` the watch, `eventChan`, `stopCh`; `loop`, `dispatcher` the two goroutines; `handed`, `lost` are history |
| `AlertFlow` | what the program promises of an alert (abstract) | `fate`, `told`, `open` |
| `MonitoringTool` | `main.go`, `init.go`, `state_manager.go`, `evaluator.go`, the checks the workers run, the metrics watcher's loop | `main` is the program counter of main; it composes `WorkerPool` (as `Pool`) and `EventBus` (as `Bus`), whose actions it conjoins with its own |
| `MCMonitoringTool` | which checks raise which alerts in the runs | |
| `AlertRules` | `evaluatePodConditions`, `evaluateNodeConditions`, `alert_builder.go` | operators only |
| `PodAlerts`, `NodeAlerts` | `processEvent` over the life of a pod and of a node | `containers`, `conditions` the status as Kubernetes reports it; `stored` the alerts created for it |
| `LoadChecks` | `metrics_client.go`, `checkPodMetrics`, `checkNodeMetrics`, the thresholds of `config.go` | `todo` the list still to read, `usage` the answer of the first of the two calls for a resource, `metrics`, `alerts` the loops' data; `cluster` changes between the calls; `disturbed` is history |
| `Collectors`, `MCCollectors` | `PodAlerts`, `NodeAlerts` and `LoadChecks` side by side; the instance of the run | `collector`: the one that runs |
| `WebSocketClient` | `websocket.js` | `ws`, `reconnectTimer`, `heartbeatInterval`, `missedHeartbeats`, `intentionallyClosed` are the fields; `sockets`, `timers`, `intervals` what the browser keeps behind these handles, also of what the manager has let go; `shown` is the page's `wsConnected` |
| `Dashboard` | `app.js`, `api.js`, and behind them `handlers/alert.go`, `alert_service.go`, `repository/alert.go` | `alerts`, `severityCounts`, `unreadCount`, `readAlertIds` are the page's data; `fetches` the answers each running `fetchAlerts` has so far; `db` the alerts table |
| `Page`, `MCPage` | `Dashboard` and `WebSocketClient` side by side; the instance of the run | `half`: the one that runs |
| `WorkerPoolProofs`, `EventBusProofs`, `HubProofs`, `WatcherProofs`, `MonitoringToolProofs`, `CollectorsProofs`, `PageProofs` | the theorems about the module each is named for, see section 5 | each begins with its inductive invariant |
| `SequenceLemmas` | what the proofs need to know of the sequences that stand for channels and slices | |

An action is a step between two points where a goroutine can be descheduled: a
channel operation, a lock, a call of another component.  `Submit` of the pool, for
example, is `CheckStopped` (under the read lock) and then `SendAccepted`, `SendFull`
or `SendOnClosed`, because the lock is released in between.  A `select` is a choice
among its ready cases, without priority.

`Collectors` and `Page` put modules side by side that share no variable.  The
evaluations of the collectors do run at the same time, on the workers of the pool, but
none reads what another writes, and every property speaks of one of them; so it is
enough to let one run and keep the others where they start, and the products of their
states need not be enumerated.  The two halves of the page have one thing in common, a
push, and `Dashboard` lets a push come late, twice, out of order or never, which is all
a connection can do to it.

In `LoadChecks` a resource is a list of parts with what each uses and what it is
measured against: the containers and requests of a pod, or the one part and the
capacity of a node.  `Over` compares a percentage without the division the code makes.
That is the same but for two things, which it has too.  A base of zero: 0/0 is no number
and over no threshold, n/0 is infinite and over every one.  And a load exactly at the
threshold: the code's `float64(usage)/float64(base)*100` may come out a little higher, so
that 55m of 100m is over 55%.  `RoundsUp` says for which thresholds it does (7, 14, 28,
55, 56, 109 to 112, ...; neither 80 nor 85, the ones of `config.yaml`); it is right for
thresholds below 12800, and nothing but the threshold itself is affected as long as
threshold times base is below 2^51, which for memory is some 26 terabytes at 85%.

In `Dashboard` the requests of one `fetchAlerts` are answered one by one at instants of
their own, those for the severities in the order of `GetSeverityCounts`, and several
fetches overlap: `x-init` calls `init()` once more than Alpine does by itself
(`index.html:82`), and each call fetches, connects and starts an interval.

The peers of a connection, the Kubernetes API server, the kubelet and the node
controller are outside `src/`; they are modelled as the code uses them and may do
whatever the code has to cope with.

Each module also holds a few operators marked "a faulty variant".  They are what the
code would be with a plausible mistake in it, and no action of `Next` uses them; put
in the place of the definition they vary, each makes a property fail, which shows
that the property speaks about that code.

## 3. Runs

| Run | Question | Bounds, and why they are enough |
|---|---|---|
| `pool` | Are tasks accounted for, does the pool implement `TaskService`, does Stop return, do accepted tasks run? | 2 workers, queue of 1, 3 tasks (1 submitted with a context), a Stop and a StopWithTimeout: the queue fills, two workers compete, two Stops overlap |
| `pool_submit` | Does Submit return an error when the pool is stopped? **No.** | 1 Stop, 2 tasks |
| `bus` | Are events handed out completely or not at all, and do observers hold up nobody? | 3 events, 2 observers, channel of 1: an event waits, one is dispatched, one is dropped |
| `hub` | One writer, no ghosts, no gaps | 2 clients, 2 messages, channel of 1, peers that stall, resume and fail |
| `hub_live` | Delivery, removal of dead connections, end of pingers | 2 clients, 1 message |
| `hub_stop` | Does Run stop when the context is cancelled? **No.** | 1 client, 1 message |
| `watcher` | Order, resynchronisation, Stop | 2 objects, 2 versions each, channel of 2, `MaxCuts` = 1 stream ended by the server |
| `tool` | Shutdown order, store-then-publish, `AlertFlow` | 2 workers, 2 checks, 3 alerts, queue and channel of 1, e-mail off |
| `tool_live` | Does shutdown end, are stored alerts told? | 1 worker, 1 alert, 1 HTTP request, e-mail on |
| `rules` | Does every trouble of a pod, a node or a load become the right alert? | Pod: 2 containers, `MaxRestarts` = 2, threshold 1, `MaxEvents` = 2 deliveries of a status. Node: all five conditions, 2 deliveries. Metrics: 2 resources, `MaxChanges` = 2 changes during a check, thresholds of 55, which a float64 rounds up, and 75, which it does not, each resource absent or of one of four shapes: exactly at the one, and exactly at the other; without request or capacity; with one request of two; two containers of which one requests nothing, together between the two |
| `pods_recent` | Are the restarts of the restart alert recent? **No.** | the pod of `rules` |
| `page` | Does the page come to show what is stored, and to be connected? | Dashboard: 3 alerts, a list of 2, a cap of 1 on the unread ones, 2 severities, `FetchCount` = 2 fetches at a time, `MaxPushes` = 1 pushed alert that is new to the list (those it has already are not counted); the alert whose value may be infinite is one that a newer pair can displace. Connection: `MaxFaults` = 3 of network and server, `MaxCalls` = 3 of user and browser, 4 sockets at a time, 3 missed heartbeats as in the code |

Deadlock is checked in `pods_recent`, where the pod can always go on.  The other
systems do stop: a check of the metrics returns, a page nobody has opened waits, a
pool, a bus or a watcher that has been stopped takes no further step, and neither does
the program when main has returned.

Symmetry is not used: most runs check liveness, where it is not sound.

### What disagrees with the code

- `pool_submit` (`worker_pool.go:98`): Submit checks `stopped` under the lock and
  sends after releasing it.  A Stop that closes the queue in between makes the send
  panic, although Submit is documented to return an error.  `NoPanic` of `tool` shows
  that the program itself is safe from it, because it stops its watchers first.
- `hub_stop` (`hub.go:95`): when a write fails, Run sends the client on the
  unregister channel that only Run receives from, and waits for ever: neither the
  cancellation nor any later message is handled.
- `pods_recent` (`pod_collector.go:243`): the restart rule counts the restarts of the
  pod's whole life, the configuration file speaks of five minutes.

Noticed while reading, without a run of their own: a second Stop of the pool returns
while the first still waits; a worker may begin a queued task after the cancellation;
Stop of the bus does not wait for the notifications it has spawned; a crash loop is
stored as high, where the README says critical; the README says records are updated,
where every event creates new ones and the page looks for a `fingerprint` no alert has.

Of the alerts of a pod: the loop over the containers raises an alert for each one in
trouble, but the builder looks for the container again and takes the first that has that
trouble (`alert_builder.go:149-187`).  When two cannot pull their images, both alerts name
the first and none the second; of two killed for memory, or in a crash loop, the second
alert carries the restarts of the second container and the name of the first.  The test
"should handle pod with multiple image pull errors" has a pod with one.  No document says
that each container is named, so there is no run that refutes it; `NamesOneInTrouble` says
what does hold, in particular that no alert of one kind names a container in trouble of
another.

Of the metrics: the usage and the requests of a pod may be those of two pods of the same
name; a node whose capacity is zero has a load of +Inf, which JSON cannot express:
`Hub.OnAlert` returns without a push of its alert (`hub.go:126`), and the list it is in
cannot be fetched until it is no longer among the newest (`CatchesUp` excuses that); the
numbers in the environment are read by `Sscanf`, which leaves the old value when there
is none and takes the 8 of `8x`; there is no default for a threshold that is not set,
and zero is over-sensitive rather than off; `metrics_check_interval` is never read, and
a negative `metrics_interval` makes the ticker panic.

Of the page: a fetch sets `unreadCount` to anything up to 100, although `app.js:25` caps
it at 50; the second `init()` leaves a second manager behind, with toasts twice, and an
interval that cannot be stopped; an older fetch that ends last overwrites the answer of
the newer one until the next; a fetch that fails replaces `critical` by `degraded`; a
socket that `disconnect()` let go keeps its close handler, which a later `connect()` does
not remove, so its late event takes down the new connection's heartbeat and opens
another one (`NeverStranded` and `ComesBack` hold all the same, and the page never calls
`disconnect()`); `InMemoryAlertRepo.GetRecent` returns the oldest first, unlike the
PostgreSQL one; two tabs overwrite each other's set of read alerts.

## 4. Fairness

Liveness is checked under weak fairness of each goroutine that can run, which is what
the Go scheduler gives, and of every call that has been begun.  Beyond that:

- *Pool*: a task returns.  The tasks of this program are calls to PostgreSQL and to
  the Kubernetes API with a context that ends.  Nobody is made to submit or to stop.
- *Bus*: a spawned notification gets to run; no observer is made to return, since
  SMTP has no deadline.
- *Hub*: strong fairness where a mutex is taken, since a Go mutex starves nobody; a
  read on a dead connection fails, since the reader sets a read deadline; the ticker
  ticks.  `SpecResponsive` adds that peers read what they are sent: a push has no
  write deadline, so a peer that does not would stall Run for good.
- *Watcher*: the API server cannot refuse every Watch (strong fairness of `Connect`);
  a select of which the stop case is ready takes it eventually, since it picks among
  ready cases at random.
- *Metrics*: only safety is checked.
- *Connection*: a pending timer fires, the heartbeat ticks, an attempt to connect ends
  one way or the other, a closing socket closes, and a healthy peer answers a ping before
  the next one thirty seconds later.  Faults are bounded, as they must be for "in the
  end"; nobody is made to load the page or to call anything.
- *Dashboard*: the interval runs, the oldest fetch goes on until it ends, and it does not
  fail for ever (strong fairness of `Finish`).  Nothing is made to be stored or pushed.
- *Program*: main goes on except for the signal, which may never come.  Requests may
  be answered or not.

## 5. Proofs

Every invariant that a passing run checks, and every property of steps, is also a theorem,
proved for all values of the constants.  `Safety` is a module's specification without
its fairness; the specifications the runs check imply it.

| Module | Theorem | Statement |
|---|---|---|
| `WorkerPoolProofs` | `TypeCorrect` | `Safety => []TypeOK` |
| | `Quiescence` | `Safety => []StopIsQuiescent` |
| | `RunsAtMostOnce` | `Safety => []AtMostOnce` |
| | `NothingIsLost` | `Safety => []Accounted` |
| | `PoolIsAService` | `Safety => Service!Safety`: the pool implements `TaskService` but for its fairness |
| `EventBusProofs` | `TypeCorrect` | `Safety => []TypeOK` |
| | `FanOutHolds` | `Safety => []FanOut` |
| `HubProofs` | `TypeCorrect` | `Safety => []TypeOK` |
| | `WritesAreApart` | `Safety => []OneWriter` |
| | `MapIsExact` | `Safety => []NoGhosts` |
| | `StreamsAreGapless` | `Safety => []Gapless` |
| `WatcherProofs` | `TypeCorrect` | `Safety => []TypeOK` |
| | `StopIsAJoin` | `Safety => []StopJoins` |
| | `HandedInOrder` | `Safety => InOrder`, a property of steps |
| `MonitoringToolProofs` | `TypeCorrect` | `Safety => []TypeOK` |
| | `PoolInside`, `BusInside` | `Safety => Pool!Safety`, `Safety => Bus!Safety` |
| | `ProgramNeverPanics` | `Safety => []NoPanic` |
| | `DatabaseIsLast` | `Safety => []DatabaseOutlivesWork` |
| | `NoAlertIsSkipped` | `Safety => []NoneSkipped` |
| | `ProgramIsAService` | `Safety => ImplementsFlow`: the program implements `AlertFlow` |
| `CollectorsProofs` | `TypeCorrect` | `CollectorsSpec => []CollectorsTypeOK` |
| | `NothingMasksTrouble` | `CollectorsSpec => []NoneMasked` |
| | `KillingIsReported` | `CollectorsSpec => []OOMSurvivesRestart` |
| | `NameIsRight` | `CollectorsSpec => []NamesOneInTrouble` |
| | `SilentNodeIsOneAlert` | `CollectorsSpec => []SilenceIsOneAlert` |
| | `LoadsAreReported` | `CollectorsSpec => []StableLoadsReported` |
| `PageProofs` | `TypeCorrect` | `PageSpec => []PageTypeOK` |
| | `OneConnection` | `PageSpec => []OneOfEach` |
| | `AlwaysAWayBack` | `PageSpec => []NeverStranded` |
| | `ListIsDistinct` | `PageSpec => []NoDuplicates` |
| | `BadgeShows` | `PageSpec => []BadgeNeverHides` |

### Along which arguments

Few of these are inductive as they stand.  Each proof module begins with what has to be
added, proves it from the initial state and over every action, and ends with the
theorems.

- **Pool.**  That all workers are gone is known before Stop closes the queue, when the
  wait group has let it through, and stays so because a stopped pool cannot be started
  (`ShutdownInv`).  `WorkInv` places every accepted task in exactly one of the queue
  (`QueueInv`), the hands of one worker (`HeldInv`) and the finished ones (`DoneInv`),
  leaves it no other place (`PlaceInv`), and counts how often it has been begun in each.
  The phase that `TaskService` sees is determined by that place (`PhaseInv`), so each
  step of the pool is one of the service's steps or none.
- **Bus.**  That nobody is told twice rests on an event being on the channel once
  (`ChanInv`), on its being off the channel while the loop has it and on the loop's
  observers being distinct (`LoopInv`).
- **Hub.**  `NoGhosts` is inductive.  `OneWriter` is not: `LockInv` says who holds each
  mutex.  For `Gapless`, `StreamInv` says that the channel is the end of the log and that
  Run is sending the message just before it (`LogInv`), that Run's loop is over clients
  still in the map (`LoopInv`), and how much of the log each client has by then
  (`GotInv`).
- **Watcher.**  `InOrder` speaks of what the pool is handed; `OrderInv` follows an
  object's states from the cluster over the stream and the channel to the dispatcher and
  the pool: nowhere on the way is one overtaken by an earlier one, also where the stream
  is cut and the next one begins with a list of what exists.
- **Program.**  A step of the program is a step of the pool and of the bus or leaves
  them alone (`PoolInside`, `BusInside`), so the theorems about these, and the invariants
  they rest on, hold inside it: their proof modules are instantiated with the program's
  variables and cited, not proved again.  `MainInv` adds what main contributes: it goes on
  from a Stop only when that watcher has left its loop (`WatcherInv`), and how far the
  pool and the bus have stopped follows from where main is (`StopInv`).  That is why no
  Submit is between its two steps when the queue is closed.  That the bus inside is
  `EventBus` needs main too: there Subscribe comes before any Publish (`SubscribeInTime`),
  because the slice of observers has no lock, and here it does because no worker runs
  until main has subscribed both observers (`StartInv`).  `FlowInv` follows the alerts
  of a check through the loop over them; with the fact that an event on the bus is a
  stored alert it gives `NoneSkipped` and each step of `AlertFlow`.
- **Collectors.**  `PodInv` relates the alerts stored for a pod to the status they were
  stored for: each of them names a container that has its trouble (`Right`), and of each type there are as many as the deliveries
  of the status times the containers in that trouble.  `NodeInv` says that the kubelet's conditions of a
  silent node are all unknown.  `LoadInv` says that what has been read is what the cluster
  had (`ReadRight`), that no resource which did not change has been forgotten
  (`NoneForgotten`), and that the alerts so far are those of what the loop has worked
  through (`Progress`).  The rules build lists with `FlattenSeq` and sums with `FoldLeft`;
  what these compute is proved for every length, by induction over the length.
- **Page.**  That there is one of each thing holds because whatever runs is what the
  manager has a handle of (`HandleInv`), although sockets it let go still close and are
  still heard of (`SilentInv`).  That there is always a socket for `connect` to use is
  counted: of the sockets let go, those that are not free again are no more than the calls
  that let them go.  For `NoDuplicates`, `DashInv` describes the answers every running fetch has so far
  (`Fetch`), each list among them being of distinct stored alerts (`Lists`); that is so
  because of two stored alerts one is later, so that they have different ranks in
  `GetRecent`'s order.

Induction over data is done without the library's induction theorems, which take an
operator as a parameter: `Induction` in `CollectorsProofs` and `LeastOf` in `PageProofs`
are about a *set* of numbers, and follow from the least element of its complement.

### From which assumptions

Each is stated with the constants it is about, and the runs evaluate it.

| Assumption | What it asks | Why the code gives it |
|---|---|---|
| `PoolAssumption` | Sizes are integers; the values for "nothing" are none of the tasks | `NewWorkerPool` takes any two integers and replaces those below one |
| `BusAssumption`, `HubAssumption` | Channels have room for at least one | the capacities are written in the code, 200 and 500 |
| `WatcherAssumption` | The same; finitely many objects and versions | the capacities are 500 and 300; the initial list is finite |
| `ToolAssumption` | A check raises no alert twice, and two checks raise different ones | every alert that is built has an ID of its own |
| `PodAssumption`, `ThresholdAssumption`, `LoadAssumption` | Thresholds and counts are natural numbers, the thresholds of the metrics below 12800; a pod has a container | a threshold is a percentage, and above 12800 `RoundsUp` would need more cases; Kubernetes admits no pod without a container |
| `DashboardAssumption` | The list has room for one, two fetches can overlap; severities are distinct, and none is called "recent" | `GetRecent` has a limit of 100; "recent" is the model's name for the request that is about no severity |
| `ClientAssumption` | More sockets than calls | a browser does not run out of sockets: the bound on them is not met before the one on calls |

### What stays with TLC

Everything about liveness, which is outside what the prover handles: `StopReturns`,
`AcceptedRuns` and the fair half of `ImplementsService` of the pool, `Isolation` of the
bus, `Delivered` and `Reaped` of the hub, `Resync` and `StopReturns` of the watcher,
`ShutdownEnds` and `StoredIsTold` of the program, `ComesBack` and `CatchesUp` of the page.
The three runs that find a disagreement show a counterexample, and there is nothing to
prove of them.

## 6. Not modelled

- Time: tickers, timeouts and pauses may expire at any moment; a five-second context
  given to observers is left out because neither observer looks at it.
- The wording of messages, JSON, logging, routing, the origin check and the upgrade.
- Configuration but for the thresholds of the metrics, logger, migrations, opening the
  database, failures that end `init`.
- The Kubernetes client's own Stop: it closes a channel that nobody receives from.
- The counts of all and of the firing alerts: one more query each, like the one for a
  severity, whose answers the page shows and uses for nothing.
- The e-mail notifier's two attempts: the notification they belong to is a goroutine of
  its own, which nothing waits for, and `Isolation` holds even if it never returns.
- Toasts, filters and formatting on the page; `refreshCounts` and `markAlertAsRead`,
  which nothing calls; the length of the pauses between attempts to connect.
- The in-memory repository, which only tests use, and `Resolve`, which nothing calls:
  every alert fires for ever.

## 7. Plan

Done, the core first: `WorkerPool` with its service, `EventBus`, `Hub`, `Watcher`,
`MonitoringTool` with `AlertFlow`, `AlertRules` with `PodAlerts` and `NodeAlerts`,
`LoadChecks`, `WebSocketClient`, `Dashboard`; then the proofs of section 5, in the same
order.

Left: in the model, the failures that end `init` half-way; in the proofs, the steps of the
liveness arguments that are not themselves about liveness, such as that a Stop which has
begun is never without a step to take.
