# TLA+ models of the AIBooster engine

The engine is a Go proxy core: `v2/` (the HTTP/gRPC facing core with its
lifecycle, profiles and configuration builder) around `aibooster-sing-box/`, a
fork of sing-box with an outbound monitor, balancer groups and a daemon service.
This directory holds TLA+ models of the parts where several goroutines meet, the
TLC configurations that check them on small instances, and TLAPS proofs.

Paths below are relative to the repository (`S` = `aibooster-sing-box`).

## 1. Inventory

| Component | State | Operations | Talks to |
|---|---|---|---|
| Event broadcaster `S/common/monitoring/brodcaster.go` | channel set `subs` behind a RWMutex, a context | Subscribe, Unsubscribe, Publish, Close, watchContext/closeAll | monitor (group events), core (status, log) |
| Outbound test scheduler `S/common/monitoring/outbound_monitoring.go` | two bounded task queues; per outbound `invalid`, `testing`, `queued`, `priorityQueued`, `enqueuedCycle`; `cycleSeq`, `cycleRunning`, `currentLinkIndex` | workerLoop/executeTask/applyResult, enqueueTask, TestNow, InvalidateTest, startCycleOnce/runCycle/runStage, Close | broadcaster, groups, endpoints' `IsReady`, cache file |
| Monitor ticker (same file) | `mainTicker`, `workersRunning`, `lastActive` | Touch, scheduleLoop, stopTimerWorkers | scheduler, pause manager |
| Group notifiers (same file) | `notifyCh`, debounce timer, `since` | emitGroupEvent, SignalChange, groupNotifierLoop | broadcaster, the balancers' workers, streams of proxy information |
| Monitor history (same file) | `history`, `cacheDirty` | saveHistory, loadHistory | cache file |
| Core lifecycle `v2/hcore/{start,stop,restart,custom,static_data}.go` | `static.CoreState`, `static.StartedService`, `static.lock` | Start, Stop, Restart, errorWrapper, StopAndAlert | daemon service, status stream |
| Daemon service `S/daemon/{started_service,instance}.go` | `serviceStatus`, `instance`, `serviceAccess` | StartOrReloadService, CloseService, SetError, waitForStarted, read-only streams | box |
| Box `S/box.go` | managers, `done` | Start, Close | everything below |
| Core status stream `v2/hcore/coreinfo.go` | none (reads `static`) | SetCoreStatus, CoreInfoListener | broadcaster |
| Balancer group `S/protocol/group/balancer/` | per strategy: selected outbounds, rotation and index, delays, session cache | Select, UpdateOutboundsInfo, worker | monitor (events and histories), connections |
| URL test group `S/protocol/group/urltest.go` | ticker, `lastActive`, `checking`, the selected outbound of each network, the history storage | Touch, Close, loopCheck, urlTest, performUpdateCheck, Select | connections, pause manager |
| Selector group `S/protocol/group/selector.go`, `S/common/interrupt/` | `selected`, the registered connections, the tag in the cache file | Start, SelectOutbound, pingSelected, dial | monitor, cache file |
| gRPC servers `v2/hcore/grpc_server.go` | map of servers by mode | setup, close | core |
| Profiles `v2/profile`, `v2/db` | rows, content files, active setting | add, delete, activate, update | core (Parse) |
| Configuration builder `v2/config`, link parser `ray2sing` | none | pure translation | - |
| Extensions, service manager, tunnel service, system proxy | UI and OS state | sequential | core |
| Routing, DNS, protocols, transports (sing-box) | per connection | I/O | - |

What is hard here:

* **Concurrency.** Publishers against `closeAll`; workers, postponed tests, the
  cycle and callers over the same per-outbound flags; overlapping
  Start/Stop/Restart, of which some steps do not hold the mutex; the daemon
  service, which releases its mutex in the middle of a reload and of a start;
  selections that change while connections are dialled; profile calls that
  overlap across a download.
* **Failure.** Any step of a start may fail or panic, a box may fail to start or
  to close, an outbound may never get ready, the process may end between the
  writes that make up a profile or a selection.
* **Ordering.** Results of one test stage against the next, a status that is read
  again after an unlocked section, a STARTED published before a waiter
  subscribes.
* **Bounds.** Full subscriber buffers and full queues, 16-bit delays.

What correctness means, component by component: a broadcaster never panics,
never strands a reader and never reorders; the scheduler keeps every invalid
outbound testable, and neither loses nor waits for results that do not come; no
subscriber of a group is left behind by debouncing and dropped events; the core
reports the truth and has one box at most; the daemon leaks no box (but one that
is closed during its own start, section 6) and reports STARTED for a running box only, and those who wait for a start hear how
it ended; the groups route to outbounds that the last results justify, and
connections follow a change; a profile's row, content and active setting agree.

## 2. Modules

| Module | Models | State |
|---|---|---|
| `Broadcaster` | `brodcaster.go` | one control state per Subscribe caller, publisher and the watcher; the RWMutex as `writer`, `readers`, `waiting` |
| `LossyFeed` | what a broadcaster promises | `status`, `stream`, `taken` of each subscription, `ended` |
| `OutboundMonitor` | the scheduler part of `outbound_monitoring.go` | the `outboundState` flags by name, both queues, workers, postponed tasks, the cycle with its stage, callers |
| `CoreService` | `v2/hcore` lifecycle | `coreState`, the published service, what became of every service, the mutex |
| `StartedService` | `daemon/started_service.go` start, reload, close, error | `status`, `instance`, the life of each box, the starters |
| `GroupNotifier` | the notifier of one group with its consumers: the worker of a balancer, a stream of proxy information | the token in `notifyCh`, the timers, who is subscribed, what each consumer has read |
| `MonitorTicker` | Touch, scheduleLoop, startTimerWorkers, stopTimerWorkers | the fields by name, which tickers tick and which the pause manager knows, one control state per connection, loop and closer |
| `StatusWaiters` | `waitForStarted` and the status observer, composed with `StartedService` | the statuses on their way to the observer, one inbox per waiter |
| `GroupMembers` | what the next two know of their outbounds | constants only |
| `Balancer` | the four strategies of `protocol/group/balancer` and its worker | the fields of the strategies by name, the outcomes of the hash |
| `URLTestGroup` | `protocol/group/urltest.go` and the history storage | ticker and loops, the running check and its phase, results, the selected outbounds |
| `Selector` | `protocol/group/selector.go` and `common/interrupt` | `selected`, the saved tag, one control state per call, the connections |
| `Profiles` | `v2/profile/profile_repository.go` over `v2/db` | rows, content files, the active setting, one control state per call |
| `ProfilesProofs`, `BroadcasterProofs`, `CoreServiceProofs`, `StartedServiceProofs`, `SelectorProofs`, `OutboundMonitorProofs` | TLAPS proofs about the module of that name | - |
| `MonitorProofs` | TLAPS proofs about `GroupNotifier` and `MonitorTicker` | - |
| `GroupProofs` | TLAPS proofs about `URLTestGroup` and `Balancer` | - |
| `MC*` | constants and symmetry for TLC | - |

Every critical section that other goroutines can observe is cut at the points
where the code releases or takes a lock, calls out, or reads a value that it
uses later.  A section that is not observable is one step. Where two components
share a module of proofs, the names of their specifications carry the
component's (`URLTestSpec`, `BalancerSpec`, `NotifierSpec`).

**Broadcaster.** `Subscribe`, `Unsubscribe` and `closeAll` are *ask for the
lock, get it, do the work and unlock*; `Publish` takes the read lock, copies the
key set (a range loop over a map that cannot change while the read lock is held)
and visits one channel per step, so receives, cancellation and other publishers
come in between. The select of `Publish` is three actions: `PublishSend` (room,
or a closed channel, which panics), `PublishDrop` (the default case),
`PublishReturn` (the end of the loop, or `ctx.Done`). Go panics are recorded in
`panicked`. An event is its publisher and the number of its call.

**LossyFeed.** `Join`, `Deliver`, `Take`, `End`, `EndFeed`. The mapping:
`stream` is what the channel accepted, `status` is *closed* for a closed channel
and *open* for a registered one.

**OutboundMonitor.** A task is its tag, cycle number, priority and the stage that
waits for it (0: nobody). `EnqueueTask` is `enqueueTask` including the flags it
sets before the send. `Take` is the start of `executeTask` with the readiness
test, `Postpone` the return that leaves a goroutine to queue the task again
(`retry`, a bag: these goroutines are anonymous), with `testing` set in between;
`ApplyResult`, `Report` and `EndTask` are its test goroutine, the
send on `resultCh` and the return. The cycle is `StartCycleOnce`,
`CollectTarget` per outbound, which locks one after the other, `Collected`,
`StageEnqueue` per target, `StageResult` per result and
`StageEnd`. `TestNow` of an outbound also requests those that dial through it;
of a group, those that dial through it with priority and its members without. `Age` is the passage of
`mainInterval`, `BecomeReady` the `readyChecker` of an endpoint. A result is
only a success or a failure: delays and IP information do not steer the
scheduler.

**CoreService.** One control state per API client. `static.lock` covers Start
and Stop but not three places: `errorWrapper` after a panic (the deferred unlock
runs first), `StopAndAlert` from Parse and GenerateConfig, and the cancelled
wait of Restart. `Unguarded` is the disjunction of these steps; the history
variable `calm` tells whether one has been taken. The constants `MayPanic` and
`WaitsForTun` switch them on, and the run does.
`svc` is what became of every `StartedService` object, so a box that runs
unpublished can be seen. `Panic` is a panic while a service is built; it may
leave a box up. A panic while one is closed is not a step: `Box.Close` closes
each component in a goroutine of its own (`closeWithTimeout`), where a panic is
recovered by nobody and ends the process.

**StartedService.** `StartFresh` and `Reload` are the two ways through
`startOrReloadServiceImp`; `CloseOld`, `Recreate`, `BoxStart` and `StartFinish`
are its sections between lock operations. `CloseService` and `SetError` hold the
mutex throughout and are one step each. `done` holds the boxes whose `Close` was
called. `Box.Start` does not look at it and managers that are not started yet
have nothing to close, so a box closed during its start may come up or not,
whatever `Start` returns, and a second `Close` does nothing. The history variable
`alone` tells
whether two starts have overlapped.

**StatusWaiters.** Every step of `StartedService` together with the statuses it
hands to `serviceStatusSubscriber` in the same critical section. The observer's
goroutine (`Dispatch`, external) passes them on one by one; both buffers drop
what does not fit. `waitForStarted` is a look at the status under the lock, a
subscription without it, and receives until a status other than STARTING. The
history variable `lossless` tells whether the first buffer has dropped one.

**GroupNotifier.** `ApplyResult` is the end of `applyResult` with its
non-blocking send, `SignalCall` and `SignalSend` the blocking one of
`SignalChange`. `NotifyReceived`, `EmitGroupEvent` and `NotifierExit` are the
three cases of `groupNotifierLoop`. The observer is the promise of `LossyFeed`
with capacity 1: an event reaches every subscriber whose buffer is empty.
Consumers start, subscribe, receive, read one history after the other
(`OutboundsHistory` takes one mutex at a time) and leave; a stream sends a first
list before it subscribes and debounces once more. A history is the number of
results it has seen. The `tags` and `since` of an event are left out, since no
consumer reads them.

**MonitorTicker.** Every access to `workersRunning`, `mainTicker` and
`pauseCallback` is a step of its own, since the loop and Close do not take
`m.access`. A tick of a monitor in use starts a cycle (the subject of
`OutboundMonitor`) and changes nothing here; `LoopTick` is the tick that finds
it idle. A use of a nil ticker sets `panicked`,
and the process ends. The pause manager is what RegisterTicker and
UnregisterCallback do to the set of registered tickers.

**Balancer.** The helpers of `common.go` are operators over 16-bit delays with
the conversions of the code: an untested outbound counts as timed out, a cached
delay as 20 seconds slower, the acceptable delay wraps. The ratio, a float that
nothing validates, is a fraction `RatioNum / RatioDen`, 0 if it is not set. A strategy's mutex makes
`Select` and the update atomic. `jumpHash` depends on a random seed, so a run
starts with any outcome of it (`hash`); the sticky strategy mixes in the time
and may land anywhere at each attempt. `info`, `turns` and `served` record the
last report, the last selections and what a session got.

**URLTestGroup.** `Touch`, `Close` and the loop with its early look at
`lastActive`; a check is `CheckBegin`, one `TestEnds` per outbound, `BatchDone`,
`UpdateSelected` per network and `CheckEnd`, and `checking` is who holds the
flag. What a nested group stands for changes (`Switch`) and may be nothing the
outbound manager knows; the callback that Touch registers stops the ticks while
the device or the network is paused (`PauseOrWake`). Time is `Idle` and `ResultExpires`: the last activity and the results get older.
A failing dial stores a timeout under the outbound it went to, which need not be
selected any more.

**Selector.** `SelectOutbound` is swap, store, interrupt and the deferred ping,
each a step, with no lock around them. A connection loads the selection when the
dial begins and is registered when it ends. `Restart` is the end of the process
at any point followed by `Start`. `told`, `orderly` and `late` are history: the
monitor was told of the outbound in use, no store failed or overlapped, a change
overtook the dial.

**Profiles.** One step per file or table operation, since a table operation
opens its database exclusively; each may fail, and `Crash` ends all calls. Ids
are fresh, and `DeleteProfile` and `UpdateProfile` take any id except that of an
add under way, which nobody has been told (`Nameable`). `removed`, `upserted`,
`abandoned` and `exclusive` are history: ids whose deletion has begun, rows that
`UpdateProfile` put in, files that a failure left behind, and whether adds of one
URL kept apart. In this repository no server registers `ProfileRepositoryServer`; it is
modelled as the package offers it.

## 3. Runs

| Run | Instance | Shows |
|---|---|---|
| `broadcaster` | 2 channels, 2 publishers with 1 event, buffer 1 | `NoPanic`, `NoOrphan`, the refinement of `LossyFeed`, `ReadersReleased`, `CallsReturn` |
| `monitor` | 2 outbounds, one dialling through the other, 2 groups, 2 workers, 1 caller, 1 cycle of 2 URLs | `RetestOnItsWay`, `StageBalance`, `NoStragglers`, with dependents and group tests |
| `monitor_notready` | 1 outbound that may never get ready, readiness ignored from cycle 3 | `CycleEnds`, `CloseQuiesces` |
| `monitor_invalidate` | 1 outbound that is not ready | violation: section 6 |
| `core` | 2 clients, 2 services, panics and cancelled restarts | `Truthful` and `OneBox` until a panic or a cancelled restart; `Settles`, `CallsReturn` |
| `daemon` | 2 starters, 2 boxes, 1 waiter, buffers of 2 | `NoLeakedBox` but for boxes closed during their start, `OneReload`, `StartedIsRunning` until two starts overlap, `StartSettles`, `WaitersReturn` |
| `notifier` | 1 outbound with 2 results, 1 balancer, 1 stream, 1 signaller | `WakeupPending`, `NewsArrives`, `SignalReturns` |
| `ticker` | 2 connections, 3 tickers, Close | until Close `NotDeaf`, `OneLoop`, `NoNilTicker`; `CloseReturns` |
| `balancer` | 3 outbounds (2 with UDP), reports of 5 kinds each, ratio 2, 2 retries, 1 session | `FollowsReport`, `RobinFair`, `HashSound`, `HashConsistent`, `SessionsStick` |
| `urltest` | an outbound and a nested group (with UDP) that stands for a loaded or an unknown outbound, delays around the tolerance and timeouts, 2 loops, pauses | `LoopPerTicker`, `TolerantChoice`, `ResultsRenewed` |
| `selector` | 3 outbounds with the second as default, a foreign tag, 2 clients, 1 connection | `ConnsFollow`, `SavedIsLive`, `SelectionTested` |
| `profiles` | 3 ids, 1 URL, 2 callers | `ContentMatches`, `OneProfilePerUrl`, `ActiveExists` |

Bounds. Two channels are the least for which a publisher can be between two
sends when the registry changes; buffer 1 makes full channels the normal case.
With one event per publisher the run cannot see two events of one publisher in
the wrong order; that is left to the proofs (`EventsInOrder` and
`BroadcasterImplementsFeed`), which cover any number. Two workers are
the least that run two tasks for one outbound at once, a cycle of two URLs
reaches the ways a stage follows another, and the queue capacities exceed what
the bounded callers and cycles can queue (a full queue is a hazard of its own,
below). Two services let a start meet the box of the one before. Two boxes let
a reload replace the box of a start that has not ended, and fail when both are
used; any number is left to the proofs. The buffers of the status subscriber are
2 instead of 4, so that a full one is reached with few boxes.
Two results let the second come at every stage of the news of the first; a
result between the reading of two histories is left to the proof, which covers
any number of outbounds. The delays of the balancer are chosen so that two are
within the ratio, one is from the cache, and twice the largest exceeds 16 bits;
those of the URL test group so that one pair is within the tolerance and one
beyond. One session and one connection are enough since sessions and connections
do not interact. Three ids let a deleted profile, a failed add and a new one
exist at once. Monitors and URL test groups stop at the bounds on cycles, calls,
results and tickers, and after `Close`, so those runs do not check for deadlock;
the other runs do. Callers, workers and ids are interchangeable, so `monitor` and
`profiles`, which check no liveness, use symmetry.

Fairness. Every goroutine that can run does (weak fairness of its steps); a
mutex is granted to a waiter that asks again and again (strong fairness of the
lock steps: Go's mutexes have a starvation mode, and a waiting writer keeps new
readers out). A select chooses at random among its ready cases, so tokens do not
starve a debounce timer (weak fairness of the timer cases), and a receive from a
full channel lets the sender that waits longest in (strong fairness of
`SignalSend`). A URL test ends by its timeout and the three second timer fires. A check
of a URL test group goes on and its ticker keeps ticking unless it is paused; the observer of the
daemon's status and the waiters run (`WaitFairSpec`).
Nobody is obliged to subscribe, publish, receive, close, call the API, dial, give
up a wait, make an outbound ready or start a cycle.

## 4. Proofs

`BroadcasterProofs` proves, for every set of channels and publishers, every
buffer size and every number of events:

* `TypeCorrect`, `NeverPanics`, `NoChannelOrphaned`, `EventsInOrder`: types, no
  panics, no orphaned channels, order and no repetition within a publisher;
* `InvariantHolds`: the inductive invariant `IInv`;
* `BroadcasterImplementsFeed`: the refinement of `LossyFeed`.

Assumed: the buffer size is a natural number, and channels, publishers, the
watcher and *no thread* are distinct.

None of the four invariants is inductive. `NoPanic` needs that a publisher only
has registered channels before it (`TodoInv`) and that these are open unless
`closeAll` is at work (`RegistryInv`); both rest on the mutual exclusion of
`LockInv`, which ties the holder of the mutex to the control states. `InOrder`
needs that a channel a publisher has still to visit holds no event with the
number it is sending (`OrderInv`), and `SentInv` that numbers start at 1. `Safe`
is their conjunction; there is one lemma per action. The refinement uses `Safe`
too: a send is a `Deliver` because the channel is open and the event is newer
than every event of its publisher on it, and the end of `closeAll` is a stutter
because every registered channel is already closed.

`CoreServiceProofs` proves for any number of clients and services, with panics
and cancelled restarts, `CoreTypeCorrect`, `CoreFollowsMutex`, `CoreTruthful` and
`CoreOneBox`. `Truthful` speaks of unlocked states only, so the invariant
`CoreInv` says what holds at each control state of the holder of the mutex: who
holds it (`MutexInv`), and how far state, service and box have been taken apart or
put together (`ProgressInv`). It holds as long as `calm` does, that is until a
step is taken outside the mutex; from then on the two properties promise nothing
(section 6).

`StartedServiceProofs` proves for any number of starters and boxes
`DaemonTypeCorrect`, `ReloadOwnsService`, `NoBoxLeaks` and `ReloadsExclusive`,
from the assumption that *no box* is not a box. That a box closed during its own
start can outlive it is part of what they state: `NoLeakedBox` excepts it. `OneReload` is not inductive: it
needs that a reload in progress keeps the status at STOPPING or FATAL, from which
neither a start nor a close proceeds, and that the old instance stays in place
(`ReloadInv`). `NoLeakedBox` needs in addition that the old box is closed when
the mutex is taken again, and that only a box on which `Close` was called can be
up without being held.
`StartedMeansRunning` (`StartedIsRunning`) rests on `StartOwnsStarting`: as long
as no two starts overlap, the one that is under way made the instance, and
STARTING goes with its box being started or, before the last look at the status,
running (`AloneInv`). The property itself only speaks of STARTED, so a step to it
could not be justified without. The run `daemon` checks the service together with
its waiters; `WaitersImplementService` shows that these never change what it does
(`WaitSpec => Spec`), so that `SafeWithWaiters` has the invariants for both.

`MonitorProofs` proves of `GroupNotifier` `NotifierTypeCorrect` and
`NoWakeupLost`, for any number of outbounds, balancers, streams and signallers. `WakeupPending` is
inductive together with the types: every step hands the wake-up on, from token to
timer, from timer to event, from event to a read that still has the history
before it.

Of `MonitorTicker` it proves for any number of connections and tickers
`TickerTypeCorrect`, and for the time until Close is called `NeverDeaf`,
`SingleLoop` and `TickerNotNil`. They rest on `TickerOwned`: although the loop
changes them without the mutex, `mainTicker` and `workersRunning` are handed from
the Touch that starts a ticker to its loop (`TouchInv`, `LoopInv`), and have no
other owner (`OwnerInv`). Close breaks this, see section 6.

`OutboundMonitorProofs` proves for any outbounds with any dependencies, workers,
callers, URLs, queue capacities and cycles:

* `MonitorTypeCorrect`: types, and that a running cycle has a number greater than
  0 (`CycleNumbered`, without which a stage number could not be told from *no
  stage*), and that a worker in `executeTask` has its task (`TaskHeld`);
* `StageIsClosed`: the inductive invariant, `TaskInv` and `StageInv`;
* `StagesDoNotMix` (`NoStragglers`) and `ResultsFit`: a stage begins with no task
  of an earlier one anywhere, and the channel of a stage has room for every result
  a worker owes, so the `default` of the send in `executeTask` (570) drops none;
* `StageWaitsForItsResults` (`StageBalance`), if every outbound is ready;
* `FlagsHaveTasks` and, if every outbound is ready, `InvalidIsRetested`
  (`RetestOnItsWay`), in behaviours in which neither queue is ever full.

Assumed: outbounds and workers are finitely many, and *no task* is not a task.

`StageInv` has three parts. `StageLocal`: a task waits for the stage under way or
for nobody. `OneTaskPerTarget`: the tasks of a stage are tasks of different
targets that have been enqueued, so that queue, workers and postponed tasks can
be counted as sets and a step moves exactly one of them. `StageBound`: results in
the channel and results owed are no more than expected. With outbounds that are
not ready, only this inequality holds: a postponed task may be refused, and its
result stays expected (section 6). If all are ready nothing is postponed, or at a
worker about to postpone it (`ReadyInv`), and the two sides are equal. The three parts hold with
full queues, since a refused task is not expected either. The flags are another
matter: `enqueueTask` sets them before it finds the queue full, so `FlagsBacked`
and what follows from it need `Room`, a hypothesis about the behaviour and not a
bound of the model; the run `monitor`, whose queues are never full, satisfies it.

`SelectorProofs` proves for any outbounds, clients and connections
`SelectorTyped`, `SelectorConnsFollow`, `SelectorSavedIsLive` and
`SelectorTested`. The inductive invariant `SelInv` adds that a dial no change has
overtaken goes to the selected outbound (`DialInv`), that while no changes
overlap the one call about to store has the outbound in use in hand
(`StoreInv`), and that somebody will still tell the monitor if it has not been
told (`PingInv`): a ping that loaded an old selection was overtaken by a change,
whose own ping is still to come.

`GroupProofs`: for the URL test group, with any list of outbounds and any number
of loops,

* `TickerHasOneLoop` (`LoopPerTicker`). `LoopInv` adds what the property leaves
  out after Close has closed `g.close`: a running loop still has the ticker, so
  that a Touch cannot start a second one; and a loop that holds `g.checking` is in
  its check, so that the end of a check cannot revive a loop that has exited;
* `ChoiceIsTolerant` (`TolerantChoice`). Along the list the fold of `SelectBest`
  keeps `Tolerant`: what it holds is tested, no tested outbound so far beats it by
  more than the tolerance, and it is the current selection or beats that by more
  than the tolerance. The sums do not wrap for results in the range the property
  states (`NoWrap`);
* `URLTestTyped`, from `LoopInv` and `ChoiceInv`.

For the balancer, with any lists, reports, ratio and sessions:

* `RoutesFollowReport` (`FollowsReport`). For lowest delay the fold of `MinDelay`
  finds a least delay (`MinDelayLeast`). For round robin `SortByDelay` sorts
  (`SortSorts`): *goes before* is a strict linear order of the positions, so ranks
  grow along it, and by the pigeonhole principle every rank is taken once
  (`RankTaken`); and `AcceptableIndex` is the greatest place that is fast enough
  (`AcceptableLast`);
* `RobinTakesTurns` (`RobinFair`), from `RotationInv`: the last turns are those
  of consecutive places of the sorted list, counted back from `idx` and around
  (`Place`), and never more than there are places. An index that an update leaves
  beyond the rotation is harmless, since the turns start anew with it;
* `HashFindsAlive` (`HashSound`, whose second half needs a ratio of 1 or more) and `HashKeepsSessions` (`HashConsistent`), for
  any hash and number of retries, from `HashInv`. A session takes the first of
  its tries that is alive, or else the first outbound of the list that is; when
  fewer are alive, the sets of both only shrink, and the least place stays the
  least as long as it is in them (`MinStays`);
* `SessionsStay` (`SessionsStick`), from `SessionInv`: a served session is in the
  cache, under the index of the outbound it got unless that index is beyond the
  list of the network;
* `BalancerTyped`: no index is ever beyond its list.

The lists are folded by the code's loops, so these proofs need to know what a
`FoldLeft` computes for a list of any length. It is defined as the choice of a
recursive function on sets of indices. `FoldExists` shows that the function
exists, which makes its equation usable: the value for the first k + 1 outbounds
is one step from the value for the first k (`FilterFold`, `MinDelayFold`,
`SelectFold`). The library's induction theorems cannot be instantiated, but a
least counterexample can be chosen (`LeastNat`, by `WFMin`), and `UpTo` is
induction in that form, over a set.

Assumed are only the types of the options (`MemberAssumption`,
`URLTestAssumption`, `BalancerAssumption`): the group has an outbound, the
balancer's list none twice, reports are 16-bit delays, the ratio is a fraction of
naturals, 0 included, and a nested group stands for some tag, known or not. That the list of a network
holds outbounds of the group, none twice and at least one, is a lemma
(`FilterFacts`).

`ProfilesProofs` proves for any number of ids, URLs and callers `ProfilesTyped`,
`ProfilesContentMatches`, `ProfilesOnePerUrl` and `ProfilesActiveExists`.
`ProfInv` adds that an add has its id to itself and writes the file before the
row, and that an activation is of a profile that was inserted (`JobInv`);
that a file which outlasts a deletion was left behind (`RemovedInv`); and that an
add that was let through is the only one of its URL (`UrlInv`).

The type invariants of all these modules are proved, but for that of
`StatusWaiters`, which is stated for the reader.

Only model-checked is liveness (`ReadersReleased`, `CallsReturn`, `CycleEnds`,
`CloseQuiesces`, `Settles`, `StartSettles`, `WaitersReturn`, `NewsArrives`,
`SignalReturns`, `CloseReturns`, `ResultsRenewed`): the prover has no support for
fairness. Every invariant and action property of a passing run is a theorem, under
the hypotheses named above.

## 5. What is not modelled

The parts listed as *not modelled* in `PROJECT.json`: I/O (protocols,
transports, the tunnel service), pure translation (configuration builder, link
parser), and what sing-box brings (routing, DNS, managers). In the modelled
parts: delays, IP information and its backoff, the text of messages and logs,
the order in which a box starts its managers, the read-only streams of the
daemon, the saved history of the monitor (a cache of earlier delays on whose
completeness nothing depends), and the contents of profiles. The outbound manager
knows the same tags throughout a run of the URL test group; `Select` reads the
results of a network and what its nested groups stand for in one step; a tick
that was in the channel when the ticker stopped is not taken. Negative and
infinite ratios of the balancer are left out, and so is a panic in
`CloseService`'s own code: it would leave `serviceAccess` locked, which
`started_service.go:231-251` unlocks without `defer`. `CoreInfoListener`
only forwards what a subscription with a buffer of one delivers, which is
`Broadcaster`.

## 6. What the models say about the code

**A postponed priority test is lost** (`monitor_invalidate`).
`outbound_monitoring.go:417` says InvalidateTest marks a result "so it will be
retested". For an outbound that is not ready, `executeTask` (539-549) puts the
task off and calls `enqueueTask` again, which refuses it at line 755:
`priorityQueued` is still set by the task itself. Only `applyResult` clears the
flag, and no task is left to reach it: `collectCycleTargets` skips the outbound
from then on, and later InvalidateTest and TestNow calls of it are refused as
well. What still tests it is a TestNow of a group it belongs to, whose task has
no priority (380-381) and is accepted.

Some more properties hold only on part of the behaviours. They are recorded here
and as hazards, and the runs above keep to the part where they hold: the bad case
is then an exception of the property, not something it would catch. One of them
contradicts a document (`ConnsFollow` below); of the others no comment or test
promises the rest.

* `StageBalance` fails when a group `TestNow` and a cycle both test an outbound
  that is not ready: the postponed stage task, renumbered, can meet its own
  number in `enqueuedCycle`, is refused, and the stage waits for its result
  forever (`cycleRunning` stays set, so no cycle starts again).
* `Truthful` and `OneBox` hold until `calm` ends: after a panic `errorWrapper`
  runs without the mutex and can close what another client has just started, and
  a cancelled Restart publishes STOPPED without the mutex.
* `StartedIsRunning` holds while `alone` does. When two starts overlap, after
  `instance.Start` the status is read again but not the instance, so the first
  starter can report STARTED for the second one's box, which is still starting.
* `NoLeakedBox` excepts a box that is closed during its own start. If CloseService
  or a reload closes it after line 213 has released the mutex and before
  `instance.Start()` has got far, the close finds managers that have not started,
  `Box.Start` (`box.go:450-522`) never reads `done`, and the box comes up with
  nobody referring to it. If that start fails, its own `s.Close()` returns
  `os.ErrClosed` and closes nothing.
* `WaitersReturn` counts from a subscription during STARTING. `waitForStarted`
  looks at the status first and subscribes later, so it can miss the end of the
  start and wait for the next change; and a quick series of statuses can fill
  the subscriber's buffer and lose the one a waiter needs.
* `SignalReturns` promises nothing after `Close`: the notifier has gone, and the
  second SignalChange finds the channel full and blocks for ever.
* `WakeupPending` counts from the subscription. A stream of proxy information
  sends its first list before it subscribes, so a result published in between
  shows up only with the next one.
* `NoNilTicker`, `NotDeaf` and `OneLoop` do not hold after Close is called. It
  can find the flag set and `mainTicker` not yet assigned, or clear it before a
  new loop reads it: a nil dereference. A Touch after Close starts
  a ticker that nobody stops.
* A ticker is not always registered with the pause manager: the old loop
  unregisters whatever `pauseCallback` holds after it has saved the history, and
  a Touch may have put the next ticker's callback there.

* `TolerantChoice` leaves out 0 ms and timed-out results. `urltest.go:314` adds
  the tolerance as a 16-bit number, and 65535 + 50 is 49: a timed-out outbound
  looks faster than every good one and replaces it; a delay of 0 counts as no
  minimum.
* A Touch that comes between the loop's look at `lastActive` and its lock does
  not keep the ticker of a URL test group; Close of a group without a ticker
  leaves `g.close` open, so a later Touch starts a loop that nothing ends.
* A failing dial through a nested group marks the tag of the group, under which
  no result is looked up.
* The acceptable delay of the balancer wraps when the fastest outbound is slower
  than 65535 ms divided by the ratio: round robin is left with the fastest one
  (`FollowsReport`), and to the hashing strategies nothing may be alive
  (`HashSound` excepts it). Since a faster outbound counts as 100 ms here, a ratio
  of 656 or more makes it wrap for every fast outbound; the proof of `HashSound`
  brought this up, the ratio of the run being 2, as `v2/config/builder.go` sets it.
  The option itself has no default: unset it is 0, and then no tested outbound is
  alive to the hashing strategies. An untested outbound, delay 0, is
  alive to these strategies.
* A sticky session is keyed by source and destination, not by network, so a UDP
  connection can move the TCP ones (`SessionsStick` excepts it). The
  hashing strategies interrupt connections after every report, round robin only
  when the number of acceptable outbounds changes.
* `SavedIsLive` does not hold when two SelectOutbound calls overlap between swap
  and store: the cache file may keep the one that is not in use.
* `ConnsFollow` excepts connections whose dial was overtaken by the change: they
  are registered after Interrupt has run and stay on the old outbound, although
  `S/docs/configuration/outbound/selector.md:38` says that internal connections
  "will always be interrupted".
* AddByUrl of a known URL ignores that it is to be marked as active; overlapping
  adds, or a lookup that fails, insert a second profile of one URL; UpdateProfile
  inserts a row without content for a deleted or unknown id (`ContentMatches`
  excepts it); DeleteProfile and
  SetActiveProfile by an unknown name dereference a nil response; and a deleted
  profile stays the active one.

## 7. Plan

Done: the broadcaster, the scheduler, the core, the daemon with its waiters, the
notifier, the ticker, the three kinds of groups and the profiles; proofs of every
safety property of these. To come:

1. Proofs: the types of `StatusWaiters`.
2. The saved history of the monitor, should something come to depend on it.
3. The gRPC servers of the core by mode.
