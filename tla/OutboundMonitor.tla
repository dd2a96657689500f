-------------------------- MODULE OutboundMonitor --------------------------
(***************************************************************************)
(* The test scheduler of common/monitoring/outbound_monitoring.go: test    *)
(* tasks in two bounded queues, workers that run them, the goroutines that *)
(* re-queue the test of an outbound that is not ready, the monitoring      *)
(* cycle that waits for the results of its stage, and the callers of       *)
(* TestNow and InvalidateTest.  Per outbound the flags of outboundState    *)
(* decide whether a new task is accepted and whether a cycle may pick it.  *)
(*                                                                         *)
(* Delays, IP information and the cache are left out: a result is only a   *)
(* success or a failure.  The result of a stage is due when its task, if   *)
(* accepted, runs; a stage is named by a number, its result channel.       *)
(***************************************************************************)
EXTENDS Integers, Sequences, FiniteSets, Bags

CONSTANTS Outbound,     \* tags that are not groups
          Worker,       \* workerLoop goroutines
          Caller,       \* goroutines calling TestNow and InvalidateTest
          Dependents,   \* [Outbound -> SUBSET Outbound], transitive dependenciesInverse
          Group,        \* groups: the outbounds in them, and those that dial through them
          NotReady,     \* outbounds that start with IsReady() = false
          PriorityCap,  \* capacity of priorityQueue (1000 in the code)
          NormalCap,    \* capacity of normalQueue (10000 in the code)
          Urls,         \* len(m.urls)
          ReadyCycle,   \* from this cycle on readiness is ignored (10 in the code)
          MaxCycle,     \* bound: cycles that are started
          MaxCalls,     \* bound: calls of TestNow and InvalidateTest
          NoTask

ASSUME SizeAssumption ==
    /\ PriorityCap \in Nat \ {0} /\ NormalCap \in Nat \ {0}
    /\ Urls \in Nat \ {0} /\ ReadyCycle \in Nat
    /\ MaxCycle \in Nat /\ MaxCalls \in Nat
ASSUME OutboundAssumption ==
    /\ Dependents \in [Outbound -> SUBSET Outbound]
    /\ Group \subseteq [members : SUBSET Outbound, parents : SUBSET Outbound]
    /\ NotReady \subseteq Outbound
ASSUME FiniteAssumption == IsFiniteSet(Outbound) /\ IsFiniteSet(Worker)

VARIABLES ctxDone,      \* m.ctx is cancelled (Close)
          invalid, testing, queued, priorityQueued, enqueuedCycle,  \* outboundState
          due,          \* the last result is older than mainInterval
          ready,        \* outbounds whose IsReady() holds
          priorityQueue, normalQueue,
          retry,        \* bag of tasks waiting 3 seconds to be re-queued
          wpc, wtask,   \* control state and task of each worker
          cpc,          \* control state of runCycle; "off" iff ~cycleRunning
          cycleSeq,
          link,         \* currentLinkIndex
          tags,         \* targets of the running cycle
          todo,         \* outbounds to look at, then targets to enqueue
          round,        \* index of the URL loop of runCycle
          expected,     \* results runStage still waits for
          results,      \* contents of resultCh: TRUE is a success
          success,      \* successes collected in this stage
          pend, cur,    \* tests a caller has to request, and its current task
          calls

stateVars == <<invalid, testing, queued, priorityQueued, enqueuedCycle, due>>
flagVars == <<queued, priorityQueued, enqueuedCycle>>
queueVars == <<priorityQueue, normalQueue>>
workerVars == <<wpc, wtask>>
cycleVars == <<cpc, cycleSeq, link, tags, todo, round, expected, success>>
callVars == <<pend, cur, calls>>
vars == <<ctxDone, stateVars, ready, queueVars, retry, workerVars, cycleVars, results, callVars>>

\* The result channel of the running stage.
Stage == (cycleSeq - 1) * Urls + round + 1

\* testTask; stage 0 stands for resultCh = nil.
Task == [tag : Outbound, cycle : Nat, priority : BOOLEAN, stage : Nat]

ASSUME NoTaskAssumption == NoTask \notin Task

TypeOK ==
    /\ ctxDone \in BOOLEAN
    /\ invalid \in [Outbound -> BOOLEAN]
    /\ testing \in [Outbound -> BOOLEAN]
    /\ queued \in [Outbound -> BOOLEAN]
    /\ priorityQueued \in [Outbound -> BOOLEAN]
    /\ enqueuedCycle \in [Outbound -> Nat]
    /\ due \in [Outbound -> BOOLEAN]
    /\ ready \in SUBSET Outbound
    /\ priorityQueue \in Seq(Task) /\ Len(priorityQueue) <= PriorityCap
    /\ normalQueue \in Seq(Task) /\ Len(normalQueue) <= NormalCap
    /\ IsABag(retry) /\ BagToSet(retry) \subseteq Task
    /\ wpc \in [Worker -> {"outer", "inner", "postpone", "test", "passed", "failed",
                           "end", "exited"}]
    /\ wtask \in [Worker -> Task \cup {NoTask}]
    /\ cpc \in {"off", "collect", "stage"}
    /\ cycleSeq \in Nat /\ expected \in Nat /\ success \in Nat
    /\ link \in 0..Urls-1 /\ round \in 0..Urls-1
    /\ tags \in SUBSET Outbound /\ todo \in SUBSET Outbound
    /\ results \in Seq(BOOLEAN) /\ Len(results) <= Cardinality(tags)
    /\ pend \in [Caller -> SUBSET (Outbound \X BOOLEAN)]
    /\ cur \in [Caller -> Task \cup {NoTask}]
    /\ calls \in Nat

\* After Start: every outbound is registered as invalid.
Init ==
    /\ ctxDone = FALSE
    /\ invalid = [o \in Outbound |-> TRUE]
    /\ testing = [o \in Outbound |-> FALSE]
    /\ queued = [o \in Outbound |-> FALSE]
    /\ priorityQueued = [o \in Outbound |-> FALSE]
    /\ enqueuedCycle = [o \in Outbound |-> 0]
    /\ due = [o \in Outbound |-> TRUE]
    /\ ready = Outbound \ NotReady
    /\ priorityQueue = <<>> /\ normalQueue = <<>>
    /\ retry = EmptyBag
    /\ wpc = [w \in Worker |-> "outer"]
    /\ wtask = [w \in Worker |-> NoTask]
    /\ cpc = "off" /\ cycleSeq = 0 /\ link = 0
    /\ tags = {} /\ todo = {} /\ round = 0
    /\ expected = 0 /\ results = <<>> /\ success = 0
    /\ pend = [k \in Caller |-> {}]
    /\ cur = [k \in Caller |-> NoTask]
    /\ calls = 0

-----------------------------------------------------------------------------
(* enqueueTask *)

\* The duplicate test of enqueueTask.
Accepts(t) ==
    IF t.priority THEN ~priorityQueued[t.tag] ELSE enqueuedCycle[t.tag] # t.cycle

HasRoom(t) ==
    IF t.priority THEN Len(priorityQueue) < PriorityCap ELSE Len(normalQueue) < NormalCap

\* What enqueueTask returns.
Enqueued(t) == ~ctxDone /\ Accepts(t) /\ HasRoom(t)

\* The flags are set before the send, and stay set when the queue is full.
EnqueueTask(t) ==
    IF ctxDone \/ ~Accepts(t)
    THEN UNCHANGED <<flagVars, queueVars>>
    ELSE IF t.priority
    THEN /\ priorityQueued' = [priorityQueued EXCEPT ![t.tag] = TRUE]
         /\ priorityQueue' = IF HasRoom(t) THEN Append(priorityQueue, t) ELSE priorityQueue
         /\ UNCHANGED <<queued, enqueuedCycle, normalQueue>>
    ELSE /\ enqueuedCycle' = [enqueuedCycle EXCEPT ![t.tag] = t.cycle]
         /\ queued' = [queued EXCEPT ![t.tag] = TRUE]
         /\ normalQueue' = IF HasRoom(t) THEN Append(normalQueue, t) ELSE normalQueue
         /\ UNCHANGED <<priorityQueued, priorityQueue>>

-----------------------------------------------------------------------------
(* InvalidateTest, TestNow and its group form *)

InvalidateTest(k, o) ==
    /\ pend[k] = {} /\ cur[k] = NoTask
    /\ calls < MaxCalls
    /\ calls' = calls + 1
    /\ invalid' = [invalid EXCEPT ![o] = TRUE]
    /\ cur' = [cur EXCEPT ![k] = [tag |-> o, cycle |-> cycleSeq, priority |-> TRUE, stage |-> 0]]
    /\ UNCHANGED <<ctxDone, testing, flagVars, due, ready, queueVars, retry,
                   workerVars, cycleVars, results, pend>>

\* testParents requests the outbounds that dial through o, testNow o itself.
TestNow(k, o) ==
    /\ pend[k] = {} /\ cur[k] = NoTask
    /\ calls < MaxCalls
    /\ calls' = calls + 1
    /\ pend' = [pend EXCEPT ![k] = (Dependents[o] \cup {o}) \X {TRUE}]
    /\ UNCHANGED <<ctxDone, stateVars, ready, queueVars, retry, workerVars,
                   cycleVars, results, cur>>

\* The same of a group: testParents requests what dials through it, testNow
\* its members, without priority.
TestNowGroup(k, g) ==
    /\ pend[k] = {} /\ cur[k] = NoTask
    /\ calls < MaxCalls
    /\ calls' = calls + 1
    /\ pend' = [pend EXCEPT ![k] = (g.parents \X {TRUE}) \cup (g.members \X {FALSE})]
    /\ UNCHANGED <<ctxDone, stateVars, ready, queueVars, retry, workerVars,
                   cycleVars, results, cur>>

\* testNow builds the next task; it reads cycleSeq before it takes any lock.
BuildTask(k, r) ==
    /\ cur[k] = NoTask
    /\ r \in pend[k]
    /\ pend' = [pend EXCEPT ![k] = @ \ {r}]
    /\ cur' = [cur EXCEPT ![k] = [tag |-> r[1], cycle |-> cycleSeq, priority |-> r[2], stage |-> 0]]
    /\ UNCHANGED <<ctxDone, stateVars, ready, queueVars, retry, workerVars,
                   cycleVars, results, calls>>

EnqueueCall(k) ==
    /\ cur[k] # NoTask
    /\ EnqueueTask(cur[k])
    /\ cur' = [cur EXCEPT ![k] = NoTask]
    /\ UNCHANGED <<ctxDone, invalid, testing, due, ready, retry, workerVars,
                   cycleVars, results, pend, calls>>

-----------------------------------------------------------------------------
(* workerLoop *)

\* executeTask begins.  Nothing is done for a task taken after cancellation,
\* and the test of an outbound that is not ready is postponed.
Take(w, t) ==
    IF ctxDone
    THEN /\ wpc' = [wpc EXCEPT ![w] = "outer"]
         /\ UNCHANGED <<wtask, testing>>
    ELSE /\ wpc' = [wpc EXCEPT ![w] = IF t.cycle < ReadyCycle /\ t.tag \notin ready
                                     THEN "postpone" ELSE "test"]
         /\ wtask' = [wtask EXCEPT ![w] = t]
         /\ testing' = [testing EXCEPT ![t.tag] = TRUE]

TakePriority(w) ==
    /\ wpc[w] \in {"outer", "inner"}
    /\ priorityQueue # <<>>
    /\ Take(w, Head(priorityQueue))
    /\ priorityQueue' = Tail(priorityQueue)
    /\ UNCHANGED <<ctxDone, invalid, flagVars, due, ready, normalQueue, retry,
                   cycleVars, results, callVars>>

\* The default case of the outer select: no priority task is waiting.
NoPriority(w) ==
    /\ wpc[w] = "outer"
    /\ priorityQueue = <<>>
    /\ ~ctxDone
    /\ wpc' = [wpc EXCEPT ![w] = "inner"]
    /\ UNCHANGED <<ctxDone, stateVars, ready, queueVars, retry, wtask,
                   cycleVars, results, callVars>>

TakeNormal(w) ==
    /\ wpc[w] = "inner"
    /\ normalQueue # <<>>
    /\ Take(w, Head(normalQueue))
    /\ normalQueue' = Tail(normalQueue)
    /\ UNCHANGED <<ctxDone, invalid, flagVars, due, ready, priorityQueue, retry,
                   cycleVars, results, callVars>>

\* Mutant: the inner select has no ctx.Done case.
MutWorkerStaysInner(w) ==
    /\ wpc[w] = "outer"
    /\ ctxDone
    /\ wpc' = [wpc EXCEPT ![w] = "exited"]
    /\ UNCHANGED <<ctxDone, stateVars, ready, queueVars, retry, wtask,
                   cycleVars, results, callVars>>

WorkerExit(w) ==
    /\ wpc[w] \in {"outer", "inner"}
    /\ ctxDone
    /\ wpc' = [wpc EXCEPT ![w] = "exited"]
    /\ UNCHANGED <<ctxDone, stateVars, ready, queueVars, retry, wtask,
                   cycleVars, results, callVars>>

-----------------------------------------------------------------------------
(* executeTask *)

\* executeTask returns and its deferred function clears testing.
Leave(w) ==
    /\ wpc' = [wpc EXCEPT ![w] = "outer"]
    /\ wtask' = [wtask EXCEPT ![w] = NoTask]
    /\ testing' = [testing EXCEPT ![wtask[w].tag] = FALSE]

\* The outbound was not ready: a goroutine is left to re-queue the task 3
\* seconds later.
Postpone(w) ==
    /\ wpc[w] = "postpone"
    /\ retry' = retry (+) SetToBag({wtask[w]})
    /\ Leave(w)
    /\ UNCHANGED <<ctxDone, invalid, flagVars, due, ready, queueVars,
                   cycleVars, results, callVars>>

\* Mutant: applyResult does not reset priorityQueued.
MutApplyKeepsPriority(w, ok) ==
    /\ wpc[w] = "test"
    /\ ~ctxDone
    /\ LET o == wtask[w].tag IN
       /\ queued' = [queued EXCEPT ![o] = FALSE]
       /\ enqueuedCycle' = [enqueuedCycle EXCEPT ![o] = 0]
       /\ invalid' = [invalid EXCEPT ![o] = ~ok]
       /\ due' = [due EXCEPT ![o] = FALSE]
    /\ wpc' = [wpc EXCEPT ![w] = IF ok THEN "passed" ELSE "failed"]
    /\ UNCHANGED <<ctxDone, testing, priorityQueued, ready, queueVars, retry, wtask,
                   cycleVars, results, callVars>>

\* tester returns and applyResult stores the outcome.
ApplyResult(w, ok) ==
    /\ wpc[w] = "test"
    /\ ~ctxDone
    /\ LET o == wtask[w].tag IN
       /\ queued' = [queued EXCEPT ![o] = FALSE]
       /\ priorityQueued' = [priorityQueued EXCEPT ![o] = FALSE]
       /\ enqueuedCycle' = [enqueuedCycle EXCEPT ![o] = 0]
       /\ invalid' = [invalid EXCEPT ![o] = ~ok]
       /\ due' = [due EXCEPT ![o] = FALSE]
    /\ wpc' = [wpc EXCEPT ![w] = IF ok THEN "passed" ELSE "failed"]
    /\ UNCHANGED <<ctxDone, testing, ready, queueVars, retry, wtask, cycleVars, results, callVars>>

\* The send on resultCh, which is dropped if the channel is full.
Report(w) ==
    /\ wpc[w] \in {"passed", "failed"}
    /\ results' = IF wtask[w].stage = Stage /\ cpc = "stage" /\ Len(results) < Cardinality(tags)
                  THEN Append(results, wpc[w] = "passed") ELSE results
    /\ wpc' = [wpc EXCEPT ![w] = "end"]
    /\ UNCHANGED <<ctxDone, stateVars, ready, queueVars, retry, wtask, cycleVars, callVars>>

\* The worker sees done closed, or stops waiting when the context is done.
EndTask(w) ==
    /\ wpc[w] = "end" \/ (ctxDone /\ wpc[w] \in {"test", "passed", "failed"})
    /\ Leave(w)
    /\ UNCHANGED <<ctxDone, invalid, flagVars, due, ready, queueVars, retry,
                   cycleVars, results, callVars>>

\* Mutant: the postponed task keeps its cycle number and is a duplicate.
MutRetrySameCycle(t) ==
    /\ BagIn(t, retry)
    /\ retry' = retry (-) SetToBag({t})
    /\ EnqueueTask(t)
    /\ UNCHANGED <<ctxDone, invalid, testing, due, ready, workerVars,
                   cycleVars, results, callVars>>

\* The goroutine of a postponed task wakes up.
Retry(t) ==
    /\ BagIn(t, retry)
    /\ retry' = retry (-) SetToBag({t})
    /\ EnqueueTask([t EXCEPT !.cycle = @ + 1])
    /\ UNCHANGED <<ctxDone, invalid, testing, due, ready, workerVars,
                   cycleVars, results, callVars>>

-----------------------------------------------------------------------------
(* startCycleOnce, runCycle and runStage *)

\* A tick, an interface update or the start of scheduleLoop.
StartCycleOnce ==
    /\ cpc = "off"
    /\ cycleSeq < MaxCycle
    /\ cpc' = "collect"
    /\ cycleSeq' = cycleSeq + 1
    /\ todo' = Outbound
    /\ UNCHANGED <<ctxDone, stateVars, ready, queueVars, retry, workerVars,
                   link, tags, round, expected, results, success, callVars>>

\* Nothing of the outbound is under way, and its result is missing or old.
IsTarget(o) ==
    /\ ~(testing[o] \/ queued[o] \/ priorityQueued[o])
    /\ invalid[o] \/ due[o]

\* runStage makes a new result channel and starts its loop over the targets.
EnterStage(targets, n) ==
    /\ cpc' = "stage"
    /\ tags' = targets
    /\ todo' = targets
    /\ round' = n
    /\ expected' = 0 /\ success' = 0 /\ results' = <<>>

\* runCycle returns and cycleRunning is cleared.
EndCycle ==
    /\ cpc' = "off"
    /\ tags' = {} /\ todo' = {} /\ round' = 0
    /\ expected' = 0 /\ success' = 0 /\ results' = <<>>

\* collectCycleTargets locks one outbound at a time.
CollectTarget(o) ==
    /\ cpc = "collect"
    /\ o \in todo
    /\ todo' = todo \ {o}
    /\ tags' = IF IsTarget(o) THEN tags \cup {o} ELSE tags
    /\ UNCHANGED <<ctxDone, stateVars, ready, queueVars, retry, workerVars,
                   cpc, cycleSeq, link, round, expected, success, results, callVars>>

\* runCycle returns at once when there are no targets.
Collected ==
    /\ cpc = "collect" /\ todo = {}
    /\ IF tags = {} THEN EndCycle ELSE EnterStage(tags, 0)
    /\ UNCHANGED <<ctxDone, stateVars, ready, queueVars, retry, workerVars,
                   cycleSeq, link, callVars>>

\* Mutant: runStage expects a result for a task that was refused.
MutStageCountsRefused(o) ==
    /\ cpc = "stage"
    /\ o \in todo
    /\ EnqueueTask([tag |-> o, cycle |-> cycleSeq, priority |-> FALSE, stage |-> Stage])
    /\ expected' = expected + 1
    /\ todo' = todo \ {o}
    /\ UNCHANGED <<ctxDone, invalid, testing, due, ready, retry, workerVars,
                   cpc, cycleSeq, link, tags, round, results, success, callVars>>

\* One iteration of the loop of runStage; the order depends on the delays.
StageEnqueue(o) ==
    /\ cpc = "stage"
    /\ o \in todo
    /\ LET t == [tag |-> o, cycle |-> cycleSeq, priority |-> FALSE, stage |-> Stage] IN
       /\ EnqueueTask(t)
       /\ expected' = IF Enqueued(t) THEN expected + 1 ELSE expected
    /\ todo' = todo \ {o}
    /\ UNCHANGED <<ctxDone, invalid, testing, due, ready, retry, workerVars,
                   cpc, cycleSeq, link, tags, round, results, success, callVars>>

\* All targets are enqueued: runStage waits for the results.
StageResult ==
    /\ cpc = "stage" /\ todo = {}
    /\ expected > 0
    /\ results # <<>>
    /\ success' = IF Head(results) THEN success + 1 ELSE success
    /\ results' = Tail(results)
    /\ expected' = expected - 1
    /\ UNCHANGED <<ctxDone, stateVars, ready, queueVars, retry, workerVars,
                   cpc, cycleSeq, link, tags, todo, round, callVars>>

\* Mutant: runStage does not wait for the results it expects.
MutStageNoWait ==
    /\ cpc = "stage" /\ todo = {}
    /\ IF success > 0 \/ round = Urls - 1
       THEN EndCycle /\ UNCHANGED link
       ELSE EnterStage(tags, round + 1) /\ link' = (link + 1) % Urls
    /\ UNCHANGED <<ctxDone, stateVars, ready, queueVars, retry, workerVars,
                   cycleSeq, callVars>>

\* runStage returns; runCycle ends, or moves on to the next URL.
StageEnd ==
    /\ cpc = "stage" /\ todo = {}
    /\ expected = 0 \/ ctxDone
    /\ IF success > 0 \/ round = Urls - 1
       THEN EndCycle /\ UNCHANGED link
       ELSE EnterStage(tags, round + 1) /\ link' = (link + 1) % Urls
    /\ UNCHANGED <<ctxDone, stateVars, ready, queueVars, retry, workerVars,
                   cycleSeq, callVars>>

-----------------------------------------------------------------------------
\* The endpoint finishes its start-up (readyChecker).
BecomeReady(o) ==
    /\ o \notin ready
    /\ ready' = ready \cup {o}
    /\ UNCHANGED <<ctxDone, stateVars, queueVars, retry, workerVars, cycleVars, results, callVars>>

\* mainInterval passes without a new result.
Age(o) ==
    /\ ~due[o]
    /\ due' = [due EXCEPT ![o] = TRUE]
    /\ UNCHANGED <<ctxDone, invalid, testing, flagVars, ready, queueVars, retry,
                   workerVars, cycleVars, results, callVars>>

Close ==
    /\ ~ctxDone
    /\ ctxDone' = TRUE
    /\ UNCHANGED <<stateVars, ready, queueVars, retry, workerVars, cycleVars, results, callVars>>

WorkerStep(w) ==
    \/ TakePriority(w) \/ NoPriority(w) \/ TakeNormal(w) \/ WorkerExit(w)
    \/ Postpone(w)
    \/ \E ok \in BOOLEAN : ApplyResult(w, ok)
    \/ Report(w) \/ EndTask(w)

RetryStep == \E t \in BagToSet(retry) : Retry(t)

CycleStep ==
    \/ \E o \in Outbound : CollectTarget(o) \/ StageEnqueue(o)
    \/ Collected \/ StageResult \/ StageEnd

CallStep(k) ==
    \/ \E r \in pend[k] : BuildTask(k, r)
    \/ EnqueueCall(k)

Next ==
    \/ \E k \in Caller :
          \/ \E o \in Outbound : InvalidateTest(k, o) \/ TestNow(k, o)
          \/ \E g \in Group : TestNowGroup(k, g)
          \/ CallStep(k)
    \/ \E w \in Worker : WorkerStep(w)
    \/ RetryStep
    \/ StartCycleOnce
    \/ CycleStep
    \/ \E o \in Outbound : BecomeReady(o) \/ Age(o)
    \/ Close

Spec == Init /\ [][Next]_vars

(* Goroutines run, a URL test ends by its timeout, the 3 second timer       *)
(* fires.  Nothing makes an outbound ready, starts a cycle or calls in.     *)
Fairness ==
    /\ \A w \in Worker : WF_vars(WorkerStep(w))
    /\ \A o \in Outbound : WF_vars(\E t \in BagToSet(retry) : t.tag = o /\ Retry(t))
    /\ WF_vars(CycleStep)
    /\ \A k \in Caller : WF_vars(CallStep(k))

FairSpec == Spec /\ Fairness

-----------------------------------------------------------------------------
(* Properties *)

\* Tasks that are queued, running or waiting to be re-queued.
QueuedTasks == {priorityQueue[i] : i \in DOMAIN priorityQueue}
               \cup {normalQueue[i] : i \in DOMAIN normalQueue}
RunningTasks == {wtask[w] : w \in {v \in Worker : wpc[v] \in {"postpone", "test"}}}
CallTasks == {cur[k] : k \in {l \in Caller : cur[l] # NoTask}}
OnItsWay(o) ==
    \E t \in QueuedTasks \cup RunningTasks \cup CallTasks \cup BagToSet(retry) : t.tag = o

\* InvalidateTest (and a failed test) leaves an outbound that will be tested
\* again: a task for it exists, or no flag keeps the next cycle from
\* picking it, apart from a worker that is just leaving executeTask.
RetestOnItsWay ==
    ~ctxDone =>
        \A o \in Outbound :
            invalid[o] => \/ OnItsWay(o)
                          \/ ~queued[o] /\ ~priorityQueued[o]

\* A worker between the take and the report of its task.
Busy == {"postpone", "test", "passed", "failed"}

\* What still owes the running stage a result: positions of the queue,
\* workers and postponed tasks.
QueueOwes == {i \in DOMAIN normalQueue : normalQueue[i].stage = Stage}
WorkerOwes == {w \in Worker : wpc[w] \in Busy /\ wtask[w].stage = Stage}
RetryOwes == {t \in BagToSet(retry) : t.stage = Stage}
Owing == Cardinality(QueueOwes) + Cardinality(WorkerOwes) + Cardinality(RetryOwes)

\* A running stage waits for exactly the results that are buffered or still
\* to come: it can neither block forever on a result nobody will send nor
\* return before its tests are over.
StageBalance ==
    cpc = "stage" /\ ~ctxDone => expected = Len(results) + Owing

\* A worker, a re-queued task or a result of an earlier stage never reaches
\* a later one: by the time a stage starts its predecessors are settled.
NoStragglers ==
    ~ctxDone => \A t \in QueuedTasks \cup RunningTasks \cup BagToSet(retry) :
                    t.stage \in {0} \cup (IF cpc = "stage" THEN {Stage} ELSE {})

\* Every cycle ends, so the next tick can start another one.
CycleEnds == cpc # "off" ~> cpc = "off"

\* After Close every worker exits, every postponed task is dropped and the
\* cycle goroutine returns: Close does not wait forever.
CloseQuiesces ==
    ctxDone ~> (\A w \in Worker : wpc[w] = "exited") /\ retry = EmptyBag /\ cpc = "off"
-----------------------------------------------------------------------------
(* The inductive invariants behind NoStragglers, StageBalance and           *)
(* RetestOnItsWay                                                           *)

\* A running cycle has a number, so its stages differ from 0.
CycleNumbered == cpc # "off" => cycleSeq > 0

\* A worker has a task until it leaves executeTask.
TaskHeld == \A w \in Worker : wpc[w] \in Busy \cup {"end"} => wtask[w] # NoTask

\* Only a cycle makes tasks with a result channel, and never with priority.
TaskInv ==
    /\ \A k \in Caller : cur[k] # NoTask => cur[k].stage = 0
    /\ \A i \in DOMAIN priorityQueue : priorityQueue[i].priority /\ priorityQueue[i].stage = 0
    /\ \A i \in DOMAIN normalQueue : ~normalQueue[i].priority
    /\ \A t \in BagToSet(retry) : t.priority => t.stage = 0
    /\ \A w \in Worker : wpc[w] = "postpone" /\ wtask[w].priority => wtask[w].stage = 0
    /\ IsFiniteSet(BagToSet(retry))

\* Nothing of an earlier stage is left, a worker about to report included.
StageLocal ==
    ~ctxDone =>
        LET live == {0} \cup (IF cpc = "stage" THEN {Stage} ELSE {})
        IN  /\ \A i \in DOMAIN normalQueue : normalQueue[i].stage \in live
            /\ \A w \in Worker : wpc[w] \in Busy => wtask[w].stage \in live
            /\ \A t \in BagToSet(retry) : t.stage \in live

\* A target has at most one task of the running stage, wherever it is, and
\* none before runStage has reached it.
OneTaskPerTarget ==
    ~ctxDone /\ cpc = "stage" =>
        /\ \A i \in QueueOwes : normalQueue[i].tag \notin todo
        /\ \A w \in WorkerOwes : wtask[w].tag \notin todo
        /\ \A t \in RetryOwes : t.tag \notin todo /\ retry[t] = 1
        /\ \A i, j \in QueueOwes : normalQueue[i].tag = normalQueue[j].tag => i = j
        /\ \A w, v \in WorkerOwes : wtask[w].tag = wtask[v].tag => w = v
        /\ \A t, u \in RetryOwes : t.tag = u.tag => t = u
        /\ \A i \in QueueOwes, w \in WorkerOwes : normalQueue[i].tag # wtask[w].tag
        /\ \A i \in QueueOwes, t \in RetryOwes : normalQueue[i].tag # t.tag
        /\ \A w \in WorkerOwes, t \in RetryOwes : wtask[w].tag # t.tag

\* No result comes that runStage does not wait for, and the channel has room
\* for all of them.
StageBound ==
    ~ctxDone /\ cpc = "stage" =>
        /\ Len(results) + Owing <= expected
        /\ expected + Cardinality(todo) <= Cardinality(tags)

\* A stage ends only when nothing of it is left.
StageInv == StageLocal /\ OneTaskPerTarget /\ StageBound

\* The flags of an outbound that is ready from the start are backed by a task
\* that is queued or running.
FlagsBacked ==
    ~ctxDone =>
        \A o \in Outbound \ NotReady :
            queued[o] \/ priorityQueued[o] =>
                \E t \in QueuedTasks \cup RunningTasks : t.tag = o

\* No queue is full, so no task that enqueueTask has flagged is dropped.
Room == Len(priorityQueue) < PriorityCap /\ Len(normalQueue) < NormalCap
=============================================================================
