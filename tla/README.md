# Verification of the modular runtime

This directory models the parts of the repository whose correctness is a matter
of concurrency, ordering and failure: the topology service with its reporters,
proxies and dashboards, the broker with its providers and clients, the C++ event
pipeline, the split event pipeline, and the supervisor. TLC checks the models on
small instances; TLAPS proves the invariants, the properties of steps and the
refinements for every value of the constants.

All paths are relative to the repository root. `tlc -config X.cfg MCModule.tla`
runs a check, `tlapm ModuleProofs.tla` checks proofs. `PROJECT.json` maps each
definition to the lines it models, each property to the mutation it catches, and
each hazard to the properties aimed at it.

## Inventory

### Topology (`apps/topology`, `packages/topology-reporter`, `apps/dashboard`)

| component | state | operations |
|---|---|---|
| store, `topology-store.ts` | services and edges by key, with timestamps, pending and total counts | register, unregister, heartbeat, activity, flush, sweep |
| service, `topology-service.ts` | the open watch calls; a sweep and a flush timer | one handler per RPC: run the store operation, broadcast the updates it returns |
| SSE proxy, `topology-proxy.ts` | one upstream watch, the browsers listening, the last snapshot | fetch a snapshot, forward updates, reconnect after a second, stop |
| reporter, `packages/topology-reporter` | registration id, heartbeat and activity stream, the reconnect under way | register, heartbeat, report, reconnect with back-off, shut down |
| reporter proxy, `topology-reporter-proxy.ts` | one reporter per HTTP client, filed under its id | register, report and unregister on behalf of clients without gRPC, stop |
| dashboard hook, `useTopologyStream.ts` | the current snapshot | fold snapshots and updates into it |

What must be right: edges never point from nowhere; published states agree with
the heartbeats and reports they derive from; counts are neither lost nor doubled
between buffer and total; a silent service disappears; a browser that has
received everything shows what the store holds; a program that runs is
registered, one that has shut down is not. What makes it hard: six
operations and two timers in any order, throttled and partial updates, streams
that break, services that crash, answers that come when nobody wants them any
more, and events of a lost stream that arrive after the next one has been opened.

### Broker (`packages/broker`, `packages/common`, `apps/calculator-*`)

The broker keeps a list of registered services and a set of listeners; providers
register, clients look services up and are told of changes. `BrokerClientManager`
and `ClientManager` hold a connection that comes and goes, and re-register on
connect. Rust and C++ clients do the same in their own ways. What must be right: a live
provider is listed while the broker is reachable, a stopped one is not, and a
shutdown ends. What makes it hard: broker restarts, entries that name an
interface and not an instance, a client object replaced while a callback waits.

### Supervisor (`apps/supervisor/src/supervisor.tsx`)

One entry per configured service with its process, status, restart count, stop
flag and restart timer. Exits, timers, spawn errors, keys and signals are its
events. What must be right: a stop is not undone by a restart, no restart waits
beside the process it would replace, the screen is true of that process, a quit ends
and leaves nothing behind.

### Event pipelines (`apps/demo-domain`)

The monolith is one C++ program: reader, parsers, rules, aggregator and writer
threads joined by bounded blocking queues. The split pipeline does the same with
one process per stage, gRPC streams, batches and an orchestrator, with stages in
TypeScript, Rust, Python and Go. What must be right: every line is accounted for
exactly once, whatever the schedule, and the pipeline ends.

`PROJECT.json` lists these and the remaining parts (rendering, generators,
numeric load, generated code), each with the reason where it is not modelled.

## Modules

| module | models | composed of |
|---|---|---|
| `TopologyStore` | the store: six operations and the passing of time | |
| `TopologyWatch` | handlers and timers of the service, its stream to the SSE proxy, browsers | extends `TopologyStore` |
| `TopologyStoreProofs` | six theorems about the store | extends `TopologyStore` |
| `TopologyWatchProofs` | that browsers mirror the store, and that the service runs it | extends `TopologyWatch`, `TopologyStoreProofs` |
| `TopologyReporter` | the reporter a program embeds, and the service as it sees it | |
| `ReporterProxy` | the HTTP proxy that lends reporters, beside embedded ones, and the processes they share | extends `TopologyReporter` |
| `ReporterProxyProofs` | theorems about reporters and the proxy's file | extends `ReporterProxy` |
| `TopologyProxy` | the SSE proxy, its watch and its browsers | |
| `TopologyProxyProofs` | that it holds one watch, and that what it shows is right | extends `TopologyProxy` |
| `Broker` | the registry, and the connection each program keeps to it | |
| `CalculatorServices` | TypeScript and Rust providers, TypeScript, Rust and C++ clients | extends `Broker` |
| `CalculatorServicesProofs` | types, stranded programs, entries, missed registrations | extends `CalculatorServices` |
| `BlockingQueue` | `queue.hpp`: mutex, two condition variables, close | |
| `MonolithPipeline` | the six kinds of thread and the coordinator | extends `BlockingQueue` |
| `MonolithPipelineProofs` | closing, waking, conservation, and the refinement of the job | extends `MonolithPipeline` |
| `AggregateJob` | what a pipeline promises, however it divides the work | refined by `MonolithPipeline` and `SplitPipeline` |
| `SplitPipeline` | the orchestrator and five services, event by event or in batches | |
| `SplitPipelineProofs` | its ends, types, the order of events and of the output, and the refinement of the job | extends `SplitPipeline` |
| `Supervisor` | start, exit, restart timer, keys, shutdown | |
| `SupervisorProofs` | theorems about the supervisor | extends `Supervisor` |

`MC*` modules give instances their constants.

### TopologyStore and TopologyWatch

`services` and `edges` are the two maps of the class, keyed by service id and by
(source, target). A timestamp in the code is only compared, through its distance
to now, with a timeout; the model keeps the distance, in ticks that `Tick`
advances and that stop at a horizon past the largest timeout. This loses nothing:
beyond the horizon every comparison has its final answer. The timeouts are
constants, so an instance fixes their ratios: the shipped configuration removes
after three missed heartbeats and marks stale after two, and so do the instances
that are about it. Times are also part of what is published, and every copy of one, in
an update under way, a snapshot or a picture, grows older with the store's (`Clock`).
Counts are treated alike: requests may go on for ever, and a count stops at
`MaxPending` or `MaxTotal` where the code's goes on. `MaxEdges` bounds the edges
at a time. A throttle of one tick lets an update go out or holds it back, the two
cases the code has.

Each operation is one action, a Node.js handler being run to its end. Its return
value, the updates to broadcast, is an operator of its own (`SweepUpdates` and so
on), which `TopologyWatch` puts on the stream of the service's one watcher, the SSE
proxy; browsers are never clients of the service. The proxy (`StreamData`) passes
on one update at a time to every browser that listens, and a browser listens
(`HandleSse`) before its snapshot is taken (`GetTopology`) and arrives
(`SnapshotFetched`), so updates reach it ahead of an older snapshot that then
overwrites them: `overtaken` records their parts, and `older` how many batches under
way the snapshot already contains. Neither has a counterpart in the code; the
properties need the first to say what a picture is wrong about. A lost watch delivers
some of what was under way, and the next one begins with a snapshot for all.
`applyUpdate` is the reducer of the dashboard hook, and a browser whose connection
fails starts again from nothing (`BrowserLeaves`). What happens when a fetch fails, and
how the proxy keeps to one watch, is in `TopologyProxy`, where the content of the
updates is a version number.

### TopologyReporter and ReporterProxy

`reporter` holds the fields of each `TopologyReporter` object (`heartbeatStream`
and `activityStream` as the registration they were opened for), `call` and
`leaving` its RegisterService and UnregisterService calls, `broken` the streams
that have ended and whose handlers have not run. An action is one continuation,
from an await to the next: `RegisterAnswered` and `RegisterFailed` are the two ways
on from `await this.performRegister()`, `RetryDelayEnds` the back-off timer,
`StreamBroken` the handlers of 'error' and 'end', which do not look which stream
they belong to. Of the service, what its reporters can tell is kept: the ids it
has given out (`issued`) and those it still has. It may crash, answer after the
deadline, sweep a reporter that does not beat, and, as a fault, one that beats too
late. `ActivityEnabled` are the reporters whose options ask for an activity stream.

In `ReporterProxy` the reporters are those of programs (`Direct`) and those made by
`/register`; `services` is the proxy's map, and each request handler and `stop` is
cut at its awaits. A heartbeat or activity request only reads the map. By default
the proxy runs in the process of the topology service and reports to it
(`topology.ts:73-75`, `OwnService`): a crash takes the store, the map and every
lent reporter (`ProxyDies`), as does the exit after a stop (`Exit`), while programs with
reporters of their own go on. `--topology-reporter-topology-address` may name a
service elsewhere, and then either process dies alone (`OtherDies`). The supervisor
does not restart the topology service (`apps/supervisor/config.yaml:28` says `none`):
`Restart` is somebody's command, and no property assumes that it comes.

### TopologyProxy

`watching` holds the watch calls the service serves, with what is under way in each;
`watchStream` is what the proxy takes for its own. A lost connection gives every
call an 'error' and an 'end' event; each clears `watchStream` and starts a timer.
A request for `/events` listens first, fetches a snapshot, and writes it when it
arrives; `overtaken` remembers the parts whose update was written before an older
snapshot was. It is the one variable without a counterpart in the code: the
properties need it to say which parts of a picture are out of date.

### Broker and CalculatorServices

`Broker` has the list of entries, the listeners, the notifications under way and,
for each program, the fields of its `ClientManager` and the calls the broker has
not handled. `link.lost` is what a broken connection still has to tell: the end of
the change stream and the connectivity watch, in any order. All providers offer
the same interface and role, so that a lookup takes the first entry and an
`unregister` removes the first, as the code does by name. `CalculatorServices`
gives the programs a life: bind, connect, register, be told to end, wait for the
answers to `unregister`, exit, or be killed. The Rust server polls the registry
and registers in two calls; the Rust client tries the first entry until it
answers, the C++ client takes it and drops it when a call fails. `Started` gives the
sets of programs a run may start with. A TypeScript client that awaits a lookup when
the broker crashes ends with an unhandled rejection, as the code does.

### BlockingQueue, MonolithPipeline, AggregateJob

A queue call is one step under the mutex; a thread whose wait condition holds
enters the wait set, and a notification takes one waiter, any one, out of it.
Spurious wake-ups are left out because they can only hide a lost notification.
A thread's program counter says whether it takes, gives, leaves (the atomic count
of parsers, separate from the close that follows), closes or is done. Opening
either file may fail. `AggregateJob` has two actions: account for some lines, and
publish. The refinement maps the lines still in the reader, in queues and in hands
to the abstract `todo`.

### SplitPipeline

Each service's stream is a pair of message sequences, `requests` and `responses`,
with the sets of streams that have ended; a message is the sequence of events it
carries. Both values of `--enable-batching` and both workloads are initial states,
so one module stands for the eight streaming handlers and both halves of
`runPipeline`. The ingest service collects a batch of its own and, after writing,
waits for the stream to drain (`HighWater`); its batch also goes out when ten
milliseconds have passed, which may be so at any line. The orchestrator ignores the
result of `write`, so its buffers have no bound. A service may crash at any step,
which includes a file that cannot be opened; the error reaches the orchestrator at
any later step, which exits, or, for the sink, only logs it. In the latter case
the process ends when its last stream does (`Abandon`). Work items are generated
without end where no limit is set (`Endless`, `--max-events 0`, which is the default):
the length of `input` then only bounds how far TLC follows the run, and its end is
never sent.

### Supervisor

`service` holds the entries; `children` the processes that are alive, with the
service they run and whether the shutdown listens for their exit. A process that
failed to spawn is `Broken`: `service.process` is set and will never exit.
Processes exit whenever they like, or never: nothing is assumed of SIGTERM. A
process id may be reused once its exit is handled. The `r` key only sends SIGTERM.

## Runs

| run | question | size |
|---|---|---|
| `topology_store` | do the store's maps, clocks, states and counts agree, is each request counted once, and do edges to nobody expire? | two ids, two descriptions, two targets, one edge |
| `topology_watch` | does a browser that has received everything show what the store holds, and does a service that falls silent leave it? | one id, one edge, one browser, one batch under way |
| `topology_stale_doc` | is a service called stale only when the documented number of heartbeats is missing? (no) | two ids, two descriptions, two targets, two edges, an interval of two ticks, multiplier three |
| `topology_reporters` | do streams, registrations and the proxy's file stay together, and does every program end up listed or gone? | an embedded reporter with, and a lent one without, an activity stream, the proxy in the service's process; six registrations, two faults |
| `topology_proxy` | is there one watch, and is what a browser shows right? | two browsers, two parts, two changes of each, two updates under way, one lost connection |
| `broker_clients` | do connections come back, shutdowns end and providers get found? | a server each in TypeScript and Rust with a TypeScript client, or with a Rust and a C++ client; one crash of the broker; every process may end |
| `monolith_pipeline` | does the pipeline do the job under every schedule? | two parsers, all inputs of at most three lines of four kinds, capacity one |
| `monolith_verify` | does the output depend on the input alone? (no) | as above, two lines |
| `split_pipeline` | does it do the same job, batched or not, and does every run end? | all inputs of at most three lines of four kinds or of work items, batches of two, one crash |
| `split_work_items` | does batching leave the work items workload alone? (no) | as above |
| `supervisor` | do stops, timers, exits and keys agree, does a quit end, and is every announced restart done? | three services, one of each policy, two processes, two restarts of one and one of the others, all keys |
| `supervisor_orphan` | is every process dead when the supervisor exits, with all keys? (no) | two services, three processes |

Why the bounds are enough. Two services are the least that can be each other's
source and target and can outlive each other; one of each description covers the
four ways a target can name a service. Counts up to one pending and two in total
let one request be flushed while another is pending, or follow it. The properties of
the store need no browser and are checked without one. With one, the times multiply
the states, as every copy of one ages by itself, so `topology_watch` keeps the timeouts
that tell a late, a stale and a dead service apart, and the throttle, and takes what is
idle to be so at once, one service that calls by its own name, the unknown health and no
counts. That removals take the right edges along, that totals arrive, and that a changed
health is sent is shown of the operations by the theorem, which has any services, targets
and counts. Browsers do not meet, so one is enough; one batch under way lets the updates of an
operation arrive singly, before and after a snapshot. Two faults let a reporter lose its
stream, reconnect and lose the new one, or have the service crash after it has answered
late; six registrations (`MaxIssued`) are all that two reporters and two faults use up.
A proxy whose service is elsewhere is in the theorems about `ReporterProxy` and in no
run, and neither are two lent reporters: an answer that comes when `stop` has cleared the
map takes only one.
One lost connection already brings two events and
two restarts, and two changes of a part are the least in which an update can
overtake a snapshot that is itself newer than the start. One crash of the broker
(`MaxCrashes`) separates the entries of two incarnations. Every process may end
(`MaxEnded` is their number), so one provider can take the other's entry away while
the other is told to end. Clients do not meet: those that poll only read the list,
so a start of both kinds together would only multiply the states of one by the
other's. A queue of capacity one is full and empty at once, which is where notifications can be lost, and three lines are more than the
queue and one parser hold. Two parsers are the least whose last one must be told
from the others. Three lines and batches of two give the split pipeline a full batch
and a rest in every stage. Two processes at a time let one service have two, the old and
the new, while another waits; the three policies differ in what an exit brings about.
The bounds `MaxIssued`, `MaxFaults`, `MaxVersion`, `MaxInFlight`, `MaxLosses`,
`MaxCrashes` and `MaxEnded` stand in guards of the environment's actions and are
arbitrary naturals in the proofs.

Deadlock is checked for the store and its browsers, which never stop. Elsewhere
it is off, because the system really may stop: the pipelines finish, or hang in the
case `RunReturns` names; the supervisor exits; reporters, proxies and calculator
programs shut down, and once the bounds on faults and changes are used up and
everybody is connected nothing is left to do.

### Disagreements found

- `topology_stale_doc`: a service is stale once it has been silent for more than two
  heartbeat intervals, whatever `timeoutMultiplier` says, which `config.ts` documents as
  the number that counts. In the trace two and a half intervals are enough, with a
  multiplier of three.
- `monolith_verify`: the output file is in hash-map order, which follows the order
  in which parsers deliver; the demo's `--verify` compares files byte for byte.
- `split_work_items`: with batching the rules stage drops every work item, and the
  run reports completion over an empty file.
- `supervisor_orphan`: a toggle key pressed while a service is stopping, or during
  a shutdown, starts a process beside the old one; the supervisor tracks one of the two and
  leaves the other alive when it exits.

One more has no run of its own. `BrokerClientManager.ts:185` documents that the
promise of `shutdown` "resolves when all services are unregistered"; when the broker
has crashed since the registration, its next incarnation knows no entry, and
`unregisterService` (`broker.ts:99`) never calls back: the provider waits for ever.
`ShutdownEnds` therefore makes the crash its exception, and shows that without one
the promise is kept, although providers remove each other's entries.

Some properties name the cases the code gets wrong, or leaves open, and show that there
are no others. `PictureExact`, `BrowserCatchesUp`, `MirrorsStore` and
`SilentServiceLeavesView`: a part whose update overtook the fetched snapshot is shown in
its old state until it changes again, and a removed node does not; `MirrorsStore` also
leaves out the times a throttle holds back and an edge that turned active again and is
not yet flushed, as the code intends. `StaysReported`: a reporter that was swept although
it beats is acknowledged (`topology-service.ts:78`) and never registers again; and it
speaks of a service that is up, or up again, for good. `BeatingIsKnown`: the same of a
lent reporter, and of one whose heartbeat stream broke, which it does not repair.
`NoTimerBesideTracked` and `ShownRunningIsAlive` speak of the process the supervisor
tracks: when it has lost track of one that a key has started, the restart of its exit
starts another beside it, and the screen shows the service stopped meanwhile.
`RunEnds`: a run of work items without a limit does not. `PollingClientRecovers`: an
entry of a dead provider that stands first is tried for ever.

## Fairness

- Topology: the clock and the two interval timers fire for ever (`setInterval`).
  `StreamData` and `WatchTopology` are weakly fair: an open HTTP/2 stream delivers,
  and the proxy retries a lost watch after a second. A browser's own requests are not. The timers are strongly fair
  in `TopologyWatch` only because `MaxInFlight`, a bound of the model, can hold
  them back; the code's write buffers are unbounded. No request is ever assumed to arrive.
- Reporters and their proxy: continuations run, a call is answered or fails by its
  deadline, the sweep timer reaches what does not beat, and a stop that has come to its
  end ends the process. Nobody has to start, request, restart or shut down anything:
  what needs the service to be up says so. Faults are never assumed; they are only finite (`MaxFaults`), which `<>[]` needs.
- SSE proxy: Node.js delivers data, events and timers, and the service answers a
  fetch. Changes and losses are not assumed.
- Broker and calculator: the supervisor starts the broker again, events are
  handled, connections made and calls answered, sleeps end. Nobody has to exit.
- Pipelines: each thread, service and stream is weakly fair (the operating system
  runs a thread that can run, TCP delivers or fails). Crashes are never assumed. The choice of the woken thread is not fair.
- Supervisor: its timers fire. Processes are not assumed to exit.

## Proofs

Every invariant and every property of steps that a passing run checks is proved, and
both refinements of `AggregateJob`, for every value of the constants. What follows is
the argument of each.

`SplitPipelineProofs` needs inductions over data: what a sequence of messages amounts to,
the sum over a set. The library's induction theorems take an operator as a parameter, so
the proofs look at the least counterexample instead (`LeastNatural`, from the library's
fact that the order of the naturals is well founded): the least place at which a
recursive function departs from what is claimed of it has a predecessor at which it does
not. For the same reason the model defines what it does along a sequence as recursive
functions; `SelectSeq` and `FoldLeft`, which take an operator, are opaque to the provers.

`TopologyStoreProofs`: `TypeOK` is inductive (`StoreTyped`); the only delicate
part is that ages stay below their horizons. `EdgeSourceRegistered`,
`StateExplained`, `EdgeNotFresherThanSource` and `ErrorsWithinRequests` are each
inductive relative to the types, the third also to the second one's source: an
edge is touched only together with its source, and time ages both alike
(`OlderKeepsOrder`, including at the horizon). `NoRequestForgotten`, a property of
steps, follows from the types (`RequestsKept`). Assumptions: the timeouts are
naturals, batch sizes are positive, the unknown health is a health value.

`TopologyWatchProofs`: each step of the service is a step of the store or leaves it
alone (`ServiceRunsStore`), so the store's theorems hold here too. `UpdatesMirrorStore`
follows one part of the topology, a node or an edge, at a time: whoever tells of it last
is right about it. That is the last batch under way that touches the part
(`StreamRight`); when none does, the picture of a joined browser (`ViewRight`); and, for one
that still awaits it, the snapshot, when no newer batch does (`FetchedRight`). The lemmas
`...Tells` show of each operation that its batch says something right of each part it
touches, and that every other part stays such that what was right of it still is: this
is where a throttled heartbeat, which sends nothing, must leave all copies within the
delay `MirrorsStore` allows. The parts of a batch arrive singly, but no two updates of a
batch disagree about a part, so the order within it does not matter. Time ages the store
and every copy alike, and keeps the delays, including at the horizons (`ClockKeeps`).

`SupervisorProofs`: the invariant `IInv` adds to the types that a pending timer
stands beside no process and no stop flag, and that a tracked process is a live
child *of the service that tracks it*. The last clause is what makes it inductive:
without it the exit of one service's process could clear another's entry. It gives
`NoTimerBesideTracked`, `StopWins` and `ShownRunningIsAlive` for all keys. `LimitsKept` adds
that an entry's restarts stay within its limit (`RestartsWithin`), and that a shutdown
awaits no more processes than it has exits left to count (`ExitsCounted`).
`NoStartAfterShutdown` and `NoOrphan` are proved under the assumption that toggle keys are unused;
with them the run `supervisor_orphan` violates the latter. `NoOrphan` needs
that during a shutdown every live child is one it awaits, and that it still counts
at least as many exits as there are live children. Assumptions: policies are of the three kinds and the two special
values of `service.process` are no process ids.

`TopologyProxyProofs`: the guard of `startWatchStream` (no stream where there is
one) does not carry `OneWatch`, as a late 'end' clears `watchStream` whatever it
holds. `NoLateEvent` does: such an event never stands beside a watch, because the
events of a loss are handled before the second of the first restart is over.
`PictureExact` rests on four facts: the last update under way of a part is
the service's version of it (`StreamCurrent`); a snapshot is never ahead, and a part
it is behind in has an update under way, or already shown, that it will set back
(`FetchedCurrent`); a request that waits for an old snapshot does so only without a
watch (`RequestsSettled`); and a browser that has joined shows the service's version
of every part that is neither under way nor overtaken (`JoinedCurrent`).

`ReporterProxyProofs`: `Sound` says of each reporter that its streams are those of
its registration, and that it holds none while a call, a retry or its shutdown is
under way; this is what makes the late events harmless. `Listed` says that the service
knows the registration a reporter holds, unless its stream is broken or it was dropped in
spite of its heartbeats, and that an answer under way is not swept. `Filing` adds that
the map files a reporter under ids it was given, the registered ones among them, and that
what `stop` has passed is shut down: an answer that comes when `stop` has cleared the
map is filed in it anew. Deaths keep all three: they take a reporter away with its
registration, or break its streams. From these follow `StreamsMatchRegistration` and
`BeatingIsKnown`.

`CalculatorServicesProofs`: the types, and `LinkSound`, for each program: without a
client, it has a timer or the connectivity event is still to come (which is
`NeverStranded`); where that event came first and the end of the stream is still to
come, the timer runs already; and a connection attempt has no such events left.
`EntriesCoverProviders` compares two numbers, entries and removals to come. The proof
counts claims, the removals each provider may still ask for, as a set, and shows that
each step puts in or takes out at most as many claims as entries (`Covered`, until
the broker crashes). `ClientInformed` follows a connected client from `listen` to
`list` to the answer; a registration in between makes the broker owe it a
notification (`Following`).

`MonolithPipelineProofs`: five theorems on seven invariants, each inductive relative to
those before it.
- `Inv`: `active_parsers` is the number of parsers that have not left, hence a parser
  that closes the queue is the last, and every other queue is closed by its only
  producer when it is done. `ClosedAfterLastPush` follows (`ClosedLast`).
- `Typed`: the queues keep to their capacity, and nobody waits on a queue that is not
  its own (`TypesCorrect`).
- `AllServed`: if threads wait for items, as many others that may take are awake as
  there are items, and likewise for room; this is why `notify_one` suffices
  (`WaitersServed`). It fails if it does not also say that nobody waits on a closed
  queue, and that nobody waits for results when the output cannot be opened.
- `Conserved`: what the reader has read is invalid, filtered, aggregated, or in a queue
  or a hand (`EventsConserved`).
- `OnePlace`, `Flow`, `Published`: a line is in one place only; who has stopped has
  drained its queue; the results up to the aggregator's position are in the file or the
  last queue. With them each step is a step of `AggregateJob` or none
  (`DoesTheJob`): reading and moving change nothing, dropping a line or adding it to
  the totals accounts for it, and the return of `run` publishes.

`SplitPipelineProofs`: five theorems on four invariants.
- `IInv`: `EndIsLast` is inductive together with the fact that the ingest loop sends
  only while it has something to send (`EndComesLast`). Each clause needs its
  neighbours: that nothing is written to a stream after its end follows from the
  stream before it not having ended.
- `PInv` cuts the events under way into the ten pieces they come in, from the
  aggregator's requests back to the ingest service's batch. Every step but the reading
  of a line takes the head of one piece to the end of the next, whole or filtered, or
  out of the first one (`Moves`, `Left`). Hence order and distinctness are kept
  (`EventsKeepOrder`), what is behind a filter has passed it, and the aggregator's
  types are in the order in which the input opens them, each before every event still
  under way (`Groups`); with the bounds on batches this gives `TypesKept`.
- `RInv`: file, requests to the sink and responses of the aggregator, put together,
  are the results. So the file is always a beginning of them, and its groups are in
  order (`OutputInOrder`).
- `JInv` adds that counts are positive and sums are integers. The refinement
  (`DoesTheJob`) needs two facts. A batch of the aggregator is added per type, the
  job's lines are added one by one: the two agree because a sum over a finite set does
  not depend on the order in which elements are taken (`SumsAnyOrder`), by an
  induction over cardinality (`FoldIsTotals`). And when the sink's stream has ended, so
  have all others, from the back to the front; then nothing is under way, and
  the file holds exactly the totals (`FileIsTotals`).

Assumptions on constants, beside those named: batches hold at least one event,
bounds are naturals, the parsers and the supervised services are finitely many, there
is a parser, a picture has other than one part, a work item is no line, and programs
of different kinds are different programs. The value of a line that parses is an
integer (`ValueAssumption`, in both pipelines; the field is an int64,
`packages/proto/pipeline/v1/pipeline.proto:184`).

Only model-checked: everything that needs fairness, that is the liveness properties
`SilentServiceLeavesView`, `UnresolvedEdgeExpires`, `StaysReported`,
`NothingLeftBehind`, `BrowserCatchesUp`, `Relisted`, `PollingClientRecovers`,
`RunReturns`, `RunEnds`, `WaitingIsRestarted` and the two called `ShutdownEnds`:
ENABLED, and so WF and SF, are out of the prover's reach.

## Plan

The components whose state machines are largest came first: store and dashboards,
monolith, supervisor, split pipeline; then the reporter with the HTTP proxy, the
SSE proxy, and the broker with its programs. What is left, in order:

1. `stop()` of the topology service and of the stack: the five second force against
   the proxies' own shutdowns, which run at the same time.
2. The Rust reporter (`topology-reporter-rust`) as a client of `ReporterProxy`, with
   its own retry of a refused heartbeat.
3. Providers that are started again by the supervisor, which composes `Supervisor`
   with `CalculatorServices`.
4. Proofs: the safety parts of the liveness properties, such as that a pipeline with
   nothing left to do has ended (`RunReturns`, `RunEnds` without their fairness) and
   that whoever waits has somebody who will come.

## Assumptions and what is not modelled

Assumptions of the models about their surroundings, beside those the modules'
comments name:

- The 'error' and 'end' events of a stream, and the failure of calls, come with
  the loss of their connection and are handled before timers of one second or
  more (`TopologyProxy`, `Broker`). In `TopologyReporter`, streams may also break alone.
- A connection attempt fails only while the broker is down (`NotReady`), and a call
  is not lost while it is up.
- A program that has ended is not started again, and is signalled once
  (`CalculatorServices`). The reconnect after 24.8 days, when the deadline of the
  connectivity watch passes, is not modelled.
- A reporter that is not beating is swept, and one is not swept before the answer to
  its own registration has come or failed: the sweep waits for three intervals, the
  call for five seconds.

Not modelled, with the reasons in `PROJECT.json`: user interface rendering, the
command lines, logging and metrics, the demo scripts, random data generation,
floating-point load, generated protocol code; the stages of the split pipeline in
other languages, which stand in for those of `SplitPipeline`; the Rust reporter, which
repeats a protocol that is modelled; `stop()` of the
topology service.

Not represented in the models there are: spawn environments and paths, the text of
updates and events, the write buffer between the SSE proxy and a browser (what is
written counts as shown), the exact bytes of the parser's scanner (the model keeps
which lines it drops), overflow of 64-bit sums, and Ctrl-C, which the terminal library
handles itself while the raw mode is on.
