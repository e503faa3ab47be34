# A TLA+ model of go-scada

This directory specifies the concurrent core of go-scada: the alert service,
which turns process values into alarm states, the retain service, which keeps
the last value of every subject, the stream client, by which programs write and
read the shared bus, and the Modbus service, which polls devices. The modules
are checked with TLC on small instances, and their safety properties are proved
with TLAPS for every size, those about summaries and acknowledgements under
hypotheses on what others write.

## 1. The system

go-scada is a set of Go processes that talk over core NATS. NATS keeps nothing;
the *retain service* subscribes to everything and answers requests for the last
value of a subject.

| Component | Source | State | Operations | Interacts with |
|---|---|---|---|---|
| Retain store, server | `retain/`, `retain-service/` | `values`, `dirty`, a batch in a SQLite transaction, the file | `Put`, `Get`, `Subjects`, flush every 10 ms, requeue, `Close` | ingests all NATS traffic, answers Get/List of every client |
| Stream client | `stream/client.go`, `registry.go` | known subjects, sequence numbers | `Set`, `Get`, `List`, announce new subjects | retain service, NATS |
| Subscriptions | `stream/subscribe.go` | last delivered message per subject | subscribe, catch up, drop duplicates, stop, drain | handlers of the services |
| Exact subscriptions | `stream/interest.go` | watched subjects, worker queues | `Watch`, `Add`, `Remove`, `Stop` | alert service |
| Alert evaluator | `alert/evaluator.go`, `model.go`, `protocol.go` | none | evaluate, apply to a state, acknowledge, validate | alert service |
| Alert service | `alert/service.go` | configs, properties, inputs, states, dirty, parents | load, reconcile configs, properties, inputs and states, propagate to summaries | publishes `.alert` subjects and watches them |
| Modbus service | `modbus/service.go` | connections, points, workers, clients, last published | reconcile, poll, publish on change | devices, stream |
| Modbus grouping | `modbus/group.go`, `reader.go`, `config.go` | none | merge points into requests, decode | Modbus service |
| Designer API | `designer/` | none of its own | CRUD of configuration records, acknowledge an alert, live feed | stream client |
| Descriptors | `address/` | none | parse and validate JSON | Modbus service, designer |
| UI, simulator, CLI, demos | `designer-ui/`, `simulator/`, `scada-cli/`, `app1/`, `app2/` | presentation and fixtures | | |

What is hard here:

* the retain store accepts puts while a flush is in a transaction, the
  transaction may fail, the process may die, and shutdown has two flushes;
* the alert service watches the subjects it publishes, so it must tell its own
  echoes, acknowledgements and foreign writes apart, and each answer is a new
  message;
* summaries form a graph that configs change at run time, and a change of one
  leaf has to reach every summary above it;
* after a restart everything is rebuilt from retained values, in name order;
* a publication may fail, a write may fall between load and watch, and the
  value read by `Add` may be older than messages already handled;
* a subscription listens first and reads the last value afterwards, in another
  goroutine; duplicates are recognised by the publishers' clocks;
* whether a subject is new is asked before it is written, by several clients at
  a time;
* NATS callbacks outlive `Unsubscribe`, and `Stop` closes what they use;
* Modbus definitions change while goroutines poll with copies of the old ones,
  and are stopped and waited for under the reconciliation lock.

Properties that make each component correct: the store never loses track of
the newest value and makes it durable; an alert is active exactly when its
input says so; a summary follows its members; an episode stops being pending
only through an operator; the bus converges to the canonical state; the service
comes to rest; the lifecycle never builds a state its own validation refuses;
a new subject is announced; a subscription ends up with the newest value and
hands out nothing twice; stopping returns; a request is one
the Modbus protocol allows and each value comes from its own registers; every
defined point is polled by one goroutine and its value arrives; none is
left when the service has stopped.
PROJECT.json lists the hazards behind them, each at its line.

## 2. Modules

| Module | Models | Role |
|---|---|---|
| `RetainStore` | `retain/store.go`, ingest and `Close` of `server.go`, shutdown of `main.go` | state machine |
| `LastValues` | what readers of the retain service rely on | abstract specification, refined by `RetainStore` |
| `RetainStoreProofs` | | theorems about `RetainStore` |
| `AlertEvaluator` | `evaluator.go`, `model.go`, validation of `protocol.go` | pure operators |
| `AlertEvaluatorProofs` | | lemmas about evaluation, lifecycle and acknowledgement |
| `AlertService` | `alert/service.go`, the parts of `interest.go` it uses, `designer/alerts.go` | state machine over `AlertEvaluator` and the bus |
| `AlertServiceProofs` | | theorems about `AlertService` |
| `ModbusService` | `modbus/service.go` | state machine |
| `ModbusServiceProofs` | | theorems about `ModbusService` |
| `ModbusGroups` | `group.go`, `readGroup` and decoding of `reader.go`, `ParsePoint` | algorithm, one step per point |
| `ModbusGroupsProofs` | | theorems about `ModbusGroups` |
| `StreamBus` | `stream/client.go`, `registry.go`, NATS, `handleIngest` and `handleGet` | writers and the bus |
| `StreamSubscribe` | `stream/subscribe.go`, `handleList` | readers, extends `StreamBus` |
| `ExactSubscribe` | `stream/interest.go` | readers, extends `StreamBus` |
| `Stream` | | composition of the three |
| `StreamProofs` | | theorem about the writers, in `Stream` |
| `StreamSubscribeProofs` | | theorems about subscriptions, in `Stream` |
| `ExactSubscribeProofs` | | theorems about exact subscriptions and types, in `Stream` |
| `MC...` | | TLC instances |

### RetainStore

`values`, `dirty`, `batch` and `disk` are functions from subjects to the number
of the write that produced the value (0: none), so a larger number is newer.
`HandleIngest` and `Put` are the two halves of the NATS callback: the callback
can be inside `handleIngest` when `Server.Close` unsubscribes. `TakeBatch`,
`Commit` and `FlushFails` are the parts of `flushDirty` between which the mutex
is free; a failed `Commit` may or may not have written the rows. `plan` counts
the two flushes after `stopFlush`. `Exit` follows a completed shutdown, `Crash`
happens anywhere; `Open` reads the file again.

`ImplementsLastValues` maps this to `LastValues`: `values` is what a reader sees
(nothing, while the process is down) and `disk` what the next start finds. A
batch, a transaction, a requeue and the shutdown are invisible to readers.

### AlertEvaluator

An alert is named by the common part of its subjects. A state has the fields
the code branches on: active, pending, acknowledged, whether each of the three
times is set, presentation (property, priority, requires acknowledgement),
dominant member, the set of raised members, and a numbered episode (0 is the
empty id). Text and colours are left out; a time is whether it is set, so two
acknowledgements of one episode give equal states. `EvaluateSummary` replaces
the loop over the members by the member that no other dominates, the first one
in configured order. `Lifecycle` is what `ApplyEvaluation` builds, and
`ApplyEvaluation` adds the validation of the state before and after.

### AlertService

Every handler runs under `reconcileMu`. A handler is one action up to
`evaluateAncestorsLocked`; each iteration of that loop is an action of its own
(`EvaluateAncestor`), as are the iterations of `reconcilePropertyLocked`
(`RefreshDefinition`) and `evaluateAllSummariesLocked` (`SweepSummary`), and
`Unlocked` keeps other handlers out meanwhile. So a crash can fall between two
publications of one handler. Go's map order is an arbitrary choice.

The bus is `retained` (last values) plus one queue per subject. Messages of one
subject arrive in order, of different subjects in any order. `inbox[a].live` is
the queue of the watch and `inbox[a].added` the value that `Add` reads after
the registry announced a new subject; it is handled past the queue
(`HandleCreated`, `HandleAdded`). Configs come by the same kind of watch;
`configAdded[a]` is the config that `Add` has read and not
handed over yet, beside the queue `configQ[a]` of the watch. `SubscribeGlobals`
includes the catch-up of the registry subscription (`LastAnnounced`): at a start
the last announcement is delivered once more, and `Add` reads a subject that
`load` has read before. `Registered` are the subjects it may be about.

A payload is a value of its type, `Garbage` (a string that does not parse) or
`Mistyped` (a value that is no string, or bytes that do not decode). The watches
log a `Mistyped` value and do not answer it, so it stays on the bus; `load` and
`catchUpStateLocked` cannot read it. Requests and watches that concern a subject
in `Unreliable` may fail: `load` skips the subject, an accepted summary does
without the state of the member, an accepted leaf without its input, and a leaf
whose source cannot be watched is rejected.
`Publish` lets any publication fail within `MaxFailures`, which leaves the
alert dirty. `LoadStates` and `LoadProperties` read all subjects in one step:
no handler can run before the first config is loaded, because nothing is
watched. The designer's acknowledgement is two steps, `ReadAlert` and
`AcknowledgeAlert`, and what it publishes is an invalid state (pending and
acknowledged), as in the code.

`missed` and `older` are history variables. `missed` holds the alerts whose last
message the service neither took nor answered: written between load and watch,
unusable while the alert had no definition, or overtaken by the older value that
`Add` read. The code promises nothing for them, and `BusConverges` leaves them
out. `older` holds the alerts that ever took a state which was not the last one
on the bus, until the next restart. Such an alert may hold an episode that was
acknowledged before: its config is withdrawn, it takes the pending state that
`Add` read before the acknowledgement, and when the config comes back it
publishes that state, so `missed` does not hold it any more; then the echo of
its own acknowledged state, still under way, acknowledges the episode again.
TLC finds this with five operations. `AckNeedsOperator` leaves alerts in `older`
out.

### ModbusService

Reconciliation holds `reconcileMu` while it stops and starts workers and closes
clients; `todo` is what it has left to do, and the lock is free when `todo` is
empty. `StopWorker`, `CancelWorker`, `JoinWorker` and `StartWorker` are the steps
of `restartConnection`, with the goroutines of `poll` running in between:
`PollBegins` (the timer fires, `clientFor`), `ReadGroup` or `ReadFails` for each
group, `SkipPoint`, `PublishPoint` or `PublishFails` for each point,
`RememberPublished`, `PollDone`, and `PollerEnds` when the select takes
`ctx.Done`. A cancelled goroutine may still poll, since Go chooses at random
between two ready cases.

A connection is its endpoint, a descriptor what `reconcileAddress` and
`connectionPointsLocked` look at; `Disabled` stands for all that is disabled,
invalid or of another driver, `Mistyped` for a value that is no string. The points
of one register table form one group.

Descriptors come in three ways, for connections and for addresses: `load`, which
lists the subjects and reads one after the other; the catch-up goroutine of the
subscription, which does the same beside it; and the callback for live messages.
Each has at most one message in hand. `ListSubjects`, `ReadDescriptor` and their
failures are those of the two readers; `CatchUpAccepts` and `CallbackAccepts` are
`accept` with the times of the publishers' clocks (`Skews`), shared by the two
goroutines of a subscription and unknown to `load`; `HandleMessage` is the
reconciliation, which waits for `reconcileMu`, and `HandlerReturns` its end. A
published descriptor goes to the callback at once and to the retain service by
`ingest` (`HandleIngest`), so a reader can get the value of before. NATS calls
one callback at a time, so the messages of a subscription are taken in order;
one sequence for all publishers stands for the order in which they reach the
retain service. `Unsubscribe`, `UnsubscribeConnections` and `Stop` end the
service: each subscription's catch-up finishes what it has in hand, and a callback
that waits for the lock is served before or after `Stop`.

`handled` and `unread` are history variables: the message each subject was
reconciled with last, and the subjects whose `Get` failed in `load`.

### StreamBus, StreamSubscribe, ExactSubscribe, Stream

A message is its number in `log`, the order in which `newMessage` read the
clocks; `at` is the time it got, which `Skew` sets ahead for some hosts. Between
the clock and `Publish` other writers may run. `Set` is up to four steps: what it
knows of the subject, the request of `shouldAnnounce`, `newMessage`, `Publish`
with `markKnown`; the announcement is another `Set`, which asks for nothing. A
request fails at once (`faults`) or the retain service stalls for good
(`RetainStalls`); `shouldAnnounce` takes either for "exists". NATS keeps the
order per connection, so a receiver has one queue per client; the retain service
is a receiver like the others.

A subscription has a catch-up goroutine (`list`, `next`, `get`, `accept`, `handle`)
and the NATS callback (`accept`, `handle`). `accept` is one step and the call of
the handler another, because `accept` releases its lock. `Filters` are the sets
of subjects a name, a suffix or a prefix selects. `history` records what a
property needs: messages published before the subscription, those the retain
service had not ingested when the catch-up looked (`gap`), failed reads, handler
calls, and calls after `Stop`.

In an `ExactSubscription` every watch is a receiver. `callback` is the message its
callback has to dispatch; `Remove` and `Stop` turn it into an orphan that goes on.
`Enqueue`, `GiveUp` and `SendPanics` are the outcomes of the `select` in `dispatch`
(a send on a closed channel panics), and `Stop` is four steps. The owner's calls
are one at a time, and may come after `Stop`.

Each element of `Starts` is what was written before plus the number of calls,
faults, mistyped values, subscriptions and watches that follow.

### ModbusGroups

`groupPoints` is a state machine: `OpenGroup`, `ExtendGroup` or `SplitGroup` for
each point in sorted order, `NextTable` at the end of a table. Conversions to
`uint16` are reductions modulo `AddressSpace`. Registers and bytes are named by
where they are, so a decoded value is the sequence of the bytes it is made of,
after `reorder`. `ReadGroup` reads one group, decodes all its points or none.

### Fairness

`WF_vars(Flush)` for the store, because a ticker drives `flushLoop`,
and `WF_vars(Handlers)` for the alert service: its goroutines are scheduled and
NATS hands over what it has received. The Modbus service has weak fairness for
reconciliation, callbacks and every poller, and strong fairness for
`PollerEnds`: a cancelled poller comes back to a select whose choice is random.
A stream subscription has weak fairness for its catch-up goroutine, its NATS
callback (handlers return) and the end of `Stop`; neither the retain service nor
the worker pool has any.
Nothing is assumed of publishers, operators, devices, failures or crashes.

## 3. Runs

| Run | Instance | Shows |
|---|---|---|
| `retain_store` | 2 subjects, 3 writes, 2 SQLite errors, 1 crash | `NothingForgotten`, `CloseKeepsValues`, `EventuallyDurable`, `ImplementsLastValues` |
| `alert_leaf` | 1 value alert, 3 operations, failing reads and watches, 1 failed publication, 1 restart | `StatesValid`, `NeverFrozen`, `LeafFollowsInput`, `BusConverges`, `AckNeedsOperator`, `ComesToRest` |
| `alert_tree` | summary over a summary and a leaf, 3 operations, 1 restart, the registry's last announcement | `SummariesAcyclic`, `ParentsExact`, `SummaryFollowsMembers`, `SummaryCoversPending` |
| `alert_diamond` | a summary and its inner summary share a leaf | violates `SummaryFollowsMembers` |
| `alert_echo_ack` | a summary over two leaves, acknowledged and raised again | violates `AckNeedsOperator` |
| `alert_episode` | one alert, coming back before it was acknowledged | violates `EpisodeContinues` |
| `modbus_service` | 2 connections, 2 points, 2 changes of definitions or devices, 1 failure, clocks up to 2 ahead; two starts | `OnePoller`, `WorkersFollowDefinitions`, `NothingRunsAfterStop`, `CacheMatchesBus`, `NewestUnlessOvertaken`, `ReconciliationEnds`, `ValuesArrive` |
| `modbus_stale_client` | 1 connection that gets another endpoint | violates `ClientsFollowConnections` |
| `modbus_load_race` | 1 address, deleted while `load` runs | violates `DefinitionsConverge` |
| `modbus_groups` | every placement of 4 points in a bit and a register table, all byte and word orders | `RequestsLegal`, `EveryPointCovered`, `ValuesDecoded`, `FewestRequests` |
| `stream` | 3 writers on 2 clients, one clock ahead, one subject and the registry, a subscription, an exact subscription with 2 workers and channels of length 1; six starts | `NewSubjectsAnnounced`, `NothingRoutedIsLost`, `CaughtUp`, `HandledOnce`, `StopReturns`, `PoolLosesNothing`, `WorkerKeepsOrder`, `PanicNeedsStraggler` |
| `stream_stop` | one subscription to a subject that is written once more | violates `StopIsQuiet` |

Bounds. Two subjects let a flush carry one subject while the other is written;
three writes give an old, a batched and a newer value; two errors fail both
final flushes. For alerts, three operations after a start with an alarm already
up are enough for: acknowledgement read, alarm gone, alarm back in a new episode
and the late acknowledgement; disable, re-enable and a foreign write; a
withdrawn class and an input. The tree has the smallest depth at which an
ancestor is not a parent, and the config choices include one that closes a
cycle; the action constraint `Repeated` lets the registry repeat its last
announcement at a restart only, a config's when one operation is left to meet it,
a state's when none is. The Modbus run has two starts. In the first one (`Steady`) both connections
and points are there, the changes come when the reads of the start are over, and
each can meet a poll at any point of it and the restart that the previous change
caused; the failure is one of a request or a publication. In the second one
(`Arriving`) one point is there and is published while load, catch-up and callback
bring it in, with every skew of the clocks, values that are no strings, and
failing reads and listings. The action constraint `Scope` keeps the two apart: it
counts changes, failures and the end of the service together (`Disturbances`), at
most three in the first start and two in the second, and orders what commutes in
the first start (catch-ups before `load`, retention before the next change).
`Later` does the same for `modbus_stale_client`. Two worker ids are enough:
the lemma `FreeWorker` shows that as many ids as connections never run out, since
a worker is started only when every other goroutine belongs to another
connection. The number of clients ever created is bounded by four in the guard;
a client is only recreated by a poll that meets a reconciliation. The alert and Modbus runs do not check for
deadlock: an alert service whose bounded operations are used up rests, and a
stopped Modbus service has ended; `ReconciliationEnds` excludes the deadlock
that could happen, a worker and its stopper waiting for each other.
`modbus_load_race` shows that `DefinitionsConverge`, which says that the service
ends with what was published last, does not hold; `NewestUnlessOvertaken` says
what does. It compares times, because `accept` drops what a clock behind has
stamped earlier, and excepts subjects on which one handler call overtook another.
In the grouping run an address space of 9, register limit 4 and bit limit 2 make
room for neighbours, overlaps, values nested in longer ones, spans of exactly
the limit and one more, and values at the end of the address space; the code's
limits are covered by the theorems. In the stream run two calls are enough for
two clients to meet on a new subject, for one message to overtake another, and
for a clock that is ahead to hide a later message; four calls of the owner allow
`Add`, `Remove`, `Watch` around two messages. Writers and readers meet in the
starts with a subscription; the starts without one spend the bound on faults or
on the worker pool. Neither run checks for deadlock: bounded calls end.
The largest runs have 1,400,131 states (`alert_tree`), 1,185,208 (`alert_leaf`),
694,001 (`stream`) and 594,145 (`modbus_service`), all within three minutes.
`ValuesArrive` speaks of the endpoint of the client in use, since
`modbus_stale_client` shows that it need not be the configured one.

What the conditions in the stream properties stand for, all of them behaviour of
the code that the run has without them:

* a message published before a subscription and ingested after its catch-up has
  looked reaches it neither way (`gap` in `CaughtUp`);
* a message stamped earlier and published later is dropped as old, also one of
  the registry (`NothingRoutedIsLost` compares times, not publications);
* two messages with one time let a third delivery of the first through
  (`HandledOnce`);
* an announcement may be made twice, by two clients that both found no value,
  and none is made when the request fails (`silent`);
* a callback that NATS had begun, or a watch added after `Stop`, can send on a
  closed channel (`PanicNeedsStraggler`).

Live callback and catch-up may call the handler in the wrong order: no property
of the stream says otherwise, and what it does to a service is the subject of
`DefinitionsConverge` and `NewestUnlessOvertaken`.

`BusConverges` excepts a value that is no string, which the states watch logs and
does not answer, besides dirty alerts and those of `missed`.

What the violations show:

* `alert_diamond`: `evaluateAncestorsLocked` visits each ancestor once, breadth
  first. With `plant = {pump, line}` and `line = {pump}`, and `plant` hooked first,
  `plant` is evaluated with the old state of `line` and then skipped. It stays
  active after everything cleared.
* `alert_echo_ack`: the operator acknowledges a summary; the service publishes
  the acknowledged state. Before that echo arrives, another member raises the
  summary again, in the same episode. The echo has `acknowledged` set and the
  right episode, so the service acknowledges the summary and the new member.
* `modbus_stale_client`: `reconcileConnection` deletes the client, then stops the
  worker. A timer that fires in between makes `clientFor` create a client with
  the old connection, and the restarted worker finds and uses it. The property
  speaks of connections that are defined; that disabling one or stopping the
  service can leave a client behind in the same way is not claimed against.
* `modbus_load_race`: `load` reads an address; the designer disables it and the
  subscription removes it; `load` reconciles what it read and the address is
  polled again, until the next change or restart. The catch-up of the subscription
  can do the same between `accept` and the lock. It can also go the other way: the
  catch-up reconciles the newer descriptor, the callback the older one after it,
  and the live copy of the newer one is dropped as a duplicate.
* `stream_stop`: NATS has begun a callback when `Stop` unsubscribes; `Unsubscribe`
  does not wait for it, `Stop` returns and closes `Closed`, and then the callback
  calls the handler.
* `alert_episode`: the glossary lets an unacknowledged episode continue,
  `ApplyEvaluation` replaces it.

## 4. Proofs

`RetainStoreProofs` proves for any set of subjects and any bounds:

* `TypeCorrect`: `TypeOK` is an invariant.
* `NothingIsForgotten`: `values = Overlay(dirty, Overlay(batch, disk))` while the
  process is not down. It is inductive together with `TypeOK`: taking a batch
  moves entries from the first layer to the second, committing from the second
  to the third, and requeueing puts them back under newer ones.
* `CloseLosesNothing`: from the same invariant and a description of the plan:
  after the last flush `batch` is empty, and `dirty` holds only late subjects
  unless that flush failed.

* `StoreImplementsMap`: every behaviour of the store is one of `LastValues`, by
  the mapping above: `Put` is `Write`, `Commit` and a failed commit that wrote its
  rows are `Persist`, a crash and `Exit` are `Stop`, `Open` is `Start`, the rest
  stutters. It uses the invariants above: what is persisted is not older than
  what is durable and not newer than what readers see.

`ModbusGroupsProofs` proves for any finite set of points that `ParsePoint`
accepts, any tables, and limits below the address space:

* `GroupsTypeCorrect`, `GroupsLegal` (`RequestsLegal`) and `PointsCovered`
  (`EveryPointCovered`) follow from one inductive invariant: every group is a
  legal request that contains its points (`GroupsSound`), the group in work
  begins no later than any point left in its table, which is what the sort is
  for, and the groups divide up the points taken so far (`GroupsDivide`).
* `RequestsFewest` (`FewestRequests`): `GroupsLed` adds that every group has a
  leader, the point that opened it, which ends more than a request away from the
  beginning of each earlier group of its table. So two leaders never fit into one
  request, and by the pigeonhole principle no division into fewer requests
  exists.
* `DecodedOwnRegisters` (`ValuesDecoded`): in a legal request no conversion to
  `uint16` loses anything, so each offset is exact and each range check succeeds.
  A value has one, two or four registers, so the loop of `reorder` is unrolled
  (`LoopFour`, `LoopEight`), and `ReorderPlaces` says where each byte comes from.

`ModbusServiceProofs` proves for any finite set of connections, any points and
descriptors, and at least as many worker ids as connections:

* `TypeCorrect`, `OnePollerHolds` (`OnePoller`), `WorkersFollow`
  (`WorkersFollowDefinitions`), `NothingRuns` (`NothingRunsAfterStop`) and
  `CacheMatches` (`CacheMatchesBus`), from one inductive invariant about the
  goroutines and the tasks the reconciliation has left. A goroutine is the one in
  the map of its connection (`Owned`) or a task has still to cancel or join it
  (`Accounted`, `Stopping`); no task that starts one precedes a task that waits
  for one (`Ordered`); goroutines exist only between `StartWorkers` and `Stop`
  (`OnlyStarted`); and a connection whose goroutine does not fit its definitions
  has a task (`Fresh`), in such a way that no point is ever in two goroutines
  (`Homed`).
* `Convergence` (`NewestUnlessOvertaken`), for any clocks and any interleaving of
  load, catch-ups and callbacks, from a second invariant about which message is
  where (`Converging`): an id stands for one message, which the retain service has
  or gets (`Identified`); a published message waits for its callback, or `accept`
  has seen a newer one (`Taken`); the definition is what the handler saw last
  (`Reconciled`), and it saw something as soon as `accept` let something pass
  (`Called`); what was there at the start and is not superseded is read by load
  (`Loads`), and nothing else is known before the first message (`FirstRead`).

`StreamProofs`, `StreamSubscribeProofs` and `ExactSubscribeProofs` prove for any
clients, writers, subjects, readers, clocks and bounds:

* `SubjectsAnnounced`: `NewSubjectsAnnounced` is an invariant. `BusInv` adds that
  what a client knows or the retain service has was published (`KnownWritten`),
  and that a writer which decided not to announce did so for a written subject or
  after a fault (`JobSound`). Readers touch neither writers nor the queue of the
  retain service (`SubFrame`, `ExactFrame`). From `StartAssumption`: what was
  written before was announced.
* `HandlerOnce`, `RoutedArrives` and `CatchUpCatchesUp` (`HandledOnce`,
  `NothingRoutedIsLost`, `CaughtUp`), and `StopLeavesOneCall`, follow from one invariant per subscription:
  what it holds was published (`Published`); where its two goroutines can be in
  each state of it (`Life`); a message in the handler has passed `accept`, and
  a second time only with a twin of the same time (`Once`); a routed message has
  passed or is queued (`Arriving`); a message of before, whose subject was read,
  is in the gap, has passed, or is in hand (`Catching`). `Passed` compares times
  only, so clocks may be set in any way. `StopLeavesOneCall` is what is left of
  `StopIsQuiet`: after `Stop` has returned the handler is called at most once.
* `PoolKeepsAll`, `WorkersKeepOrder` and `PanicIsStraggler` (`PoolLosesNothing`,
  `WorkerKeepsOrder`, `PanicNeedsStraggler`): a message that a callback took is in
  the callback, in the channel of its worker, in the worker, or done (`Tracked`,
  `Accounted`), and along this way the order in which callbacks took the messages
  of a subject is kept (`InOrder`); the order of `taken` only grows, so what was
  in order stays so. After `Stop` has unsubscribed only callbacks that outlived
  their watch are left (`Stragglers`).
* `TypeCorrect`: `TypeOK` of the composition.

`AlertEvaluatorProofs` and `AlertServiceProofs` prove for any alerts, properties,
payloads and bounds, from the assumptions of the two modules (the payloads
others publish are configs, properties and states of the right shape, or
undecodable; `Order` lists every alert; no message is mistaken for none):

* `SummariesStayAcyclic`: a walk through members that never ends either passes
  through the definition just accepted, which `summaryCycleLocked` excludes, or
  existed before. Inductive by itself.
* `StatesStayValid`, `NoAlertFreezes` and `TypeCorrect` (`TypeOK`) follow from
  `Inv`: states, bus, properties and definitions are well typed (`Kept`,
  `FeedsOK`), states and definitions are valid, and the loops over definitions
  visit only definitions that exist (`LoopsOK`, without which
  `RefreshDefinition` and `SweepSummary` could evaluate a removed one);
  `TypeCorrect` needs the lists of subjects in hand as well (`Subjects`).
* `NoAlertFreezes` rests on `ApplyNeverRefuses`: the lifecycle takes any *sane*
  evaluation (a dominant member among the reported ones; no presentation without
  a property; an alert that is neither active nor pending is acknowledged or
  needs no acknowledgement) from a valid state to a valid state. `SummarySane`
  shows that summaries evaluate to sane results. It needs `MaximalState`: among
  finitely many members one is dominated by none, by well-founded descent over
  finite subsets.
* `ParentsStayExact` (`ParentsExact`): `parents` is what `hookParentsLocked` makes
  of the definitions (`Hooks`). It rests on `WithoutFilters`: `removeString` keeps
  the other elements and introduces no duplicates, whatever the list.
* `LeavesFollowInput` (`LeafFollowsInput`): each leaf is what definition, input
  and properties say, except for those the loop of `reconcilePropertyLocked` has
  not reached (`LeavesFollow`). A message of the bus cannot disturb this: a leaf
  with a state answers it or acknowledges, and only an alert without definition
  or state takes the state it is sent. `NoneDefined` covers the load, which takes
  over states before there is a definition.
* `BusConvergesToStates` (`BusConverges`): a state is the last message of its
  subject, or that message is no string, or the alert is dirty, or that message is still to be handled, and
  will be answered (`Converges`). `Guarded` supplies the watch: whatever is
  undelivered was written, and a written subject is watched or announced.
* `SummariesFollow` (`SummaryFollowsMembers`), under two hypotheses on what
  others write: no alert is put into two summaries (`Forest`), and a class that
  two alerts use is neither changed nor in `Unreliable` (`ClassesApart`), since a
  class that could not be loaded arrives later like a changed one. `alert_diamond`
  breaks the first and refutes the property. So would a change of a class that two
  members of a summary use: `reconcilePropertyLocked` shares one `seen` map over
  all leaves, and the summary above two of them is evaluated once, after the
  first. `alert_tree` satisfies both, which TLC evaluates as `TreeAssumption`. The invariant
  (`ForestInv`): every alert shows what its config, input and members say
  (`Current`), except for the one that `evaluateAncestorsLocked` visits next
  (`Climbing`) or the one leaf of the loop of `reconcilePropertyLocked`
  (`OneLeaf`). The visit is never skipped: what is in `seen` lies below the next
  summary (`Behind`), and summaries are acyclic. Acknowledgements and the sweep
  change states without a visit of the parents; they are harmless because a
  summary shows the same for members that are `Alike` (`AlikeResults`: the leading
  member is the first active one of the highest priority, `Leads`).
* `SummariesCover` (`SummaryCoversPending`) needs a third hypothesis, now on the
  run: nothing two levels below a summary is pending without an episode
  (`NamedBelow`). Otherwise three levels refute the property: such a member
  survives the acknowledgement of its summary, and a redelivered class makes the
  inner summary pending again after the outer one was visited, because the loop
  of `reconcilePropertyLocked` keeps one `seen` set for all its leaves. The
  invariant (`Cover`) is again that all summaries but those on the way of
  `evaluateAncestorsLocked` are pending when a member waits. An acknowledgement
  keeps it because `acknowledgeTreeLocked` reaches every raised member
  (`CoverAcknowledge`), and the visits that follow do not make a summary pending
  again behind the back of the next (`CoverAgain`), which is where `NamedBelow`
  comes in.
* `SummariesCoverLeaves` replaces the hypothesis on the run by two on what others
  write, which `alert_tree` satisfies: summaries of summaries are of leaves
  (`TwoLevels`), and nobody publishes a state that is pending without an episode
  (`OthersNamed`). Then whatever there is of a leaf names its episode: its state,
  the messages on its subject, the acknowledgements in preparation (`Names`).
* `LeavesAckedByOperators` and `AcknowledgementsNeedOperators` (`AckNeedsOperator`),
  for alerts outside of all summaries (`Apart`; `alert_echo_ack` refutes it for
  others), if nobody but the service and the operators publishes a state that
  names an episode (`OthersNameNone`). `Ledger` keeps account of what the subject
  of an alert carries: no message names an episode that was not given out;
  operators' messages are pending and acknowledged, so they are never adopted as
  states; and once a published state says that an episode was acknowledged,
  neither the state in memory nor the last one published is pending in that
  episode (`Over`). So an echo acknowledges nothing, also after a restart or a
  failed publication. What is shown of the step is `AcknowledgedByOperator`: it hands
  an operator's message to the handler, the message acknowledges the episode the
  alert is in, and it is for this alert, or in general for a summary above it.

These three rest on `CourseStep` and `TakesStep`, which say once for all actions
what a step can put on the subject of an alert, and where the state of an alert
that is no summary can come from: the last message of the bus, an older one, an
evaluation, an acknowledgement.

Induction over data is not available in general: the induction theorems take an
operator as a parameter. Where a proof needs it, it goes by the least counterexample
(`LeastNatural`, in `WithoutFilters` among others) or by a theorem about finite
sets (`FS_PigeonHole`, in `RequestsFewest`).

Only model-checked:

* liveness (`EventuallyDurable`, `ComesToRest`, `ReconciliationEnds`,
  `ValuesArrive`, `StopReturns`), which is out of the prover's reach.

The hypotheses of the theorems on what others write are constant formulas, and TLC
evaluates them in the runs they speak of (`TreeAssumption`, `LeafAssumption`).

## 5. Not modelled

Wire formats, JSON and protobuf, HTTP, logging, display fields, the UI, the
simulator, the command line tools and generated code. Of the alert service:
the failure of a listing or of a subscription at the start (it ends `Run`), of the
`Watch` of a state or of a known subject (it is logged, and the subject stays
unwatched), and of the read in `Add`; an input that arrives between `Watch` and
`Get` of one config update; inputs that do not decode; of its subscriptions to
properties and to the registry, messages that `accept` drops because of the
clocks, and the order of catch-up and callback (both are in `StreamSubscribe`).
The first write of a config is read by `Add` at once. Of the Modbus service: a
failing `Subscribe` (it ends `Run` before anything happened), poll intervals, and
the last conversion of big-endian bytes to a number.

Of the stream client: reading the configuration, connecting, reconnecting and
`Close`, encoding of values; how a suffix or prefix matches names (`Filters` are
the sets they select); messages NATS drops for a slow consumer, which the code
does not notice; a restart of the retain service on the stream bus (it is in
`RetainStore`). Sequence numbers only make message ids distinct.

Of the designer: its handlers read or write one record each and keep no state.
Disabling a connection reads, changes and writes the descriptor without a
version, so the later of two editors wins; no test, comment or document says
otherwise, so there is nothing to check. Its live feed passes subscriptions on to
WebSockets. `address/` parses JSON.

## 6. What could come next

1. `SummariesFollow` for classes shared by alerts that have no summary above them
   in common, and `AckNeedsOperator` for the members of summaries that are only
   acknowledged at the top.
2. Alert service: acknowledgement of a pending summary without an episode,
   inputs around a config update.
