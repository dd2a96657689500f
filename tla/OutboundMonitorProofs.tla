----------------------- MODULE OutboundMonitorProofs -----------------------
(***************************************************************************)
(* For any outbounds, workers and callers: a task of one stage never meets *)
(* the next, a stage never waits for more results than were asked for, and *)
(* an outbound that is ready keeps no flag without a task behind it.       *)
(***************************************************************************)
EXTENDS OutboundMonitor, FiniteSetTheorems, SequenceTheorems, TLAPS

-----------------------------------------------------------------------------
(* Bags, queues and numbers *)

\* C is B with one more, or one less, t.
AddsOne(B, C, t) ==
    /\ IsABag(C)
    /\ DOMAIN C = DOMAIN B \cup {t}
    /\ t \notin DOMAIN B => C[t] = 1
    /\ \A u \in DOMAIN B \ {t} : C[u] = B[u]
DropsOne(B, C, t) ==
    /\ IsABag(C)
    /\ DOMAIN C = IF B[t] = 1 THEN DOMAIN B \ {t} ELSE DOMAIN B
    /\ \A u \in DOMAIN B \ {t} : C[u] = B[u]

\* What adding a task to the postponed ones does.
LEMMA BagAddOne ==
  ASSUME NEW B, IsABag(B), NEW t
  PROVE  AddsOne(B, B (+) SetToBag({t}), t)
  BY DEF IsABag, SetToBag, (+), AddsOne

\* What taking one of them away does.
LEMMA BagDropOne ==
  ASSUME NEW B, IsABag(B), NEW t \in DOMAIN B
  PROVE  DropsOne(B, B (-) SetToBag({t}), t)
  BY DEF IsABag, SetToBag, (-), DropsOne

\* A stage of a cycle has a result channel.
LEMMA StagePositive ==
  ASSUME NEW c \in Nat, c > 0, NEW n \in Nat
  PROVE  (c - 1) * Urls + n + 1 \in Nat \ {0}
  <1>1. Urls \in Nat  BY SizeAssumption
  <1>2. \A a, b \in Nat : a * b \in Nat  OBVIOUS
  <1>3. c - 1 \in Nat  OBVIOUS
  <1>4. (c - 1) * Urls \in Nat  BY <1>1, <1>2, <1>3
  <1> QED  BY <1>4

-----------------------------------------------------------------------------
(* Types *)

\* enqueueTask keeps flags and queues well-formed, and the queues bounded.
LEMMA EnqueueTyped ==
  ASSUME TypeOK, NEW t \in Task, EnqueueTask(t)
  PROVE  /\ queued' \in [Outbound -> BOOLEAN]
         /\ priorityQueued' \in [Outbound -> BOOLEAN]
         /\ enqueuedCycle' \in [Outbound -> Nat]
         /\ priorityQueue' \in Seq(Task) /\ Len(priorityQueue') <= PriorityCap
         /\ normalQueue' \in Seq(Task) /\ Len(normalQueue') <= NormalCap
  <1> USE SizeAssumption
  <1>1. CASE ctxDone \/ ~Accepts(t)
    BY <1>1 DEF EnqueueTask, flagVars, queueVars, TypeOK
  <1>2. CASE ~(ctxDone \/ ~Accepts(t)) /\ t.priority
    <2>1. priorityQueue' \in Seq(Task) /\ Len(priorityQueue') <= PriorityCap
      <3>1. priorityQueue' = IF Len(priorityQueue) < PriorityCap
                             THEN Append(priorityQueue, t) ELSE priorityQueue
        BY <1>2 DEF EnqueueTask, HasRoom
      <3> QED  BY <3>1, AppendProperties DEF TypeOK
    <2>2. priorityQueued' \in [Outbound -> BOOLEAN]
      BY <1>2 DEF EnqueueTask, TypeOK, Task
    <2> QED  BY <1>2, <2>1, <2>2 DEF EnqueueTask, TypeOK
  <1>3. CASE ~(ctxDone \/ ~Accepts(t)) /\ ~t.priority
    <2>1. normalQueue' \in Seq(Task) /\ Len(normalQueue') <= NormalCap
      <3>1. normalQueue' = IF Len(normalQueue) < NormalCap
                           THEN Append(normalQueue, t) ELSE normalQueue
        BY <1>3 DEF EnqueueTask, HasRoom
      <3> QED  BY <3>1, AppendProperties DEF TypeOK
    <2>2. queued' \in [Outbound -> BOOLEAN] /\ enqueuedCycle' \in [Outbound -> Nat]
      BY <1>3 DEF EnqueueTask, TypeOK, Task
    <2> QED  BY <1>3, <2>1, <2>2 DEF EnqueueTask, TypeOK
  <1> QED  BY <1>1, <1>2, <1>3

\* executeTask takes a task of either queue.
LEMMA TakeTyped ==
  ASSUME TypeOK, NEW w \in Worker, NEW t \in Task, Take(w, t)
  PROVE  /\ wpc' \in [Worker -> {"outer", "inner", "postpone", "test", "passed", "failed",
                                 "end", "exited"}]
         /\ wtask' \in [Worker -> Task \cup {NoTask}]
         /\ testing' \in [Outbound -> BOOLEAN]
  <1>1. CASE ctxDone
    BY <1>1 DEF Take, TypeOK
  <1>2. CASE ~ctxDone
    <2> DEFINE l == IF t.cycle < ReadyCycle /\ t.tag \notin ready THEN "postpone" ELSE "test"
    <2>1. l \in {"postpone", "test"}  OBVIOUS
    <2>2. /\ wpc' = [wpc EXCEPT ![w] = l] /\ wtask' = [wtask EXCEPT ![w] = t]
          /\ testing' = [testing EXCEPT ![t.tag] = TRUE]
      BY <1>2 DEF Take
    <2> HIDE DEF l
    <2> QED  BY <2>1, <2>2 DEF TypeOK
  <1> QED  BY <1>1, <1>2

\* executeTask puts a task off.
LEMMA PostponeTyped ==
  ASSUME TypeOK, TaskHeld, NEW w \in Worker, Postpone(w)
  PROVE  TypeOK'
  <1>1. wtask[w] \in Task  BY DEF Postpone, TaskHeld, TypeOK, Busy
  <1>2. IsABag(retry') /\ DOMAIN retry' = DOMAIN retry \cup {wtask[w]}
    <2>1. retry' = retry (+) SetToBag({wtask[w]})  BY DEF Postpone
    <2>2. IsABag(retry)  BY DEF TypeOK
    <2> QED  BY <2>1, <2>2, BagAddOne, Zenon DEF AddsOne
  <1>3. BagToSet(retry') \subseteq Task  BY <1>1, <1>2 DEF TypeOK, BagToSet
  <1>4. /\ wpc' \in [Worker -> {"outer", "inner", "postpone", "test", "passed", "failed",
                                "end", "exited"}]
        /\ wtask' \in [Worker -> Task \cup {NoTask}]
        /\ testing' \in [Outbound -> BOOLEAN]
    BY DEF Postpone, Leave, TypeOK
  <1> QED  BY <1>2, <1>3, <1>4
           DEF Postpone, TypeOK, flagVars, queueVars, cycleVars, callVars

\* A new stage and the end of a cycle leave an empty result channel.
LEMMA EnterTyped ==
  ASSUME NEW S \in SUBSET Outbound, NEW n \in 0..Urls-1, EnterStage(S, n)
  PROVE  /\ cpc' \in {"off", "collect", "stage"}
         /\ expected' \in Nat /\ success' \in Nat
         /\ round' \in 0..Urls-1
         /\ tags' \in SUBSET Outbound /\ todo' \in SUBSET Outbound
         /\ results' \in Seq(BOOLEAN) /\ Len(results') <= Cardinality(tags')
  <1>1. Cardinality(S) \in Nat
    BY FS_Subset, FS_CardinalityType, FiniteAssumption
  <1> QED  BY <1>1 DEF EnterStage

\* runCycle returns.
LEMMA EndTyped ==
  ASSUME EndCycle
  PROVE  /\ cpc' \in {"off", "collect", "stage"}
         /\ expected' \in Nat /\ success' \in Nat
         /\ round' \in 0..Urls-1
         /\ tags' \in SUBSET Outbound /\ todo' \in SUBSET Outbound
         /\ results' \in Seq(BOOLEAN) /\ Len(results') <= Cardinality(tags')
  BY FS_EmptySet, SizeAssumption DEF EndCycle

\* Callers: InvalidateTest, TestNow and what they go on to do.
LEMMA CallsTyped ==
  ASSUME TypeOK, NEW k \in Caller
  PROVE  /\ \A o \in Outbound : InvalidateTest(k, o) \/ TestNow(k, o) => TypeOK'
         /\ \A g \in Group : TestNowGroup(k, g) => TypeOK'
         /\ CallStep(k) => TypeOK'
  <1> USE OutboundAssumption DEF stateVars, flagVars, queueVars, workerVars, cycleVars
  <1>1. ASSUME NEW o \in Outbound, InvalidateTest(k, o) PROVE TypeOK'
    <2>1. [tag |-> o, cycle |-> cycleSeq, priority |-> TRUE, stage |-> 0] \in Task
      BY DEF TypeOK, Task
    <2> QED  BY <1>1, <2>1 DEF InvalidateTest, TypeOK
  <1>2. ASSUME NEW o \in Outbound, TestNow(k, o) PROVE TypeOK'
    <2>1. (Dependents[o] \cup {o}) \X {TRUE} \in SUBSET (Outbound \X BOOLEAN)  OBVIOUS
    <2>2. pend' \in [Caller -> SUBSET (Outbound \X BOOLEAN)]
      BY <1>2, <2>1, Zenon DEF TestNow, TypeOK
    <2>3. calls' \in Nat  BY <1>2 DEF TestNow, TypeOK
    <2> QED  BY <1>2, <2>2, <2>3, Zenon DEF TestNow, TypeOK
  <1>3. ASSUME NEW g \in Group, TestNowGroup(k, g) PROVE TypeOK'
    <2>1. (g.parents \X {TRUE}) \cup (g.members \X {FALSE}) \in SUBSET (Outbound \X BOOLEAN)
      <3>1. g.parents \subseteq Outbound /\ g.members \subseteq Outbound  OBVIOUS
      <3> QED  BY <3>1
    <2>2. pend' \in [Caller -> SUBSET (Outbound \X BOOLEAN)]
      BY <1>3, <2>1, Zenon DEF TestNowGroup, TypeOK
    <2>3. calls' \in Nat  BY <1>3 DEF TestNowGroup, TypeOK
    <2> QED  BY <1>3, <2>2, <2>3, Zenon DEF TestNowGroup, TypeOK
  <1>4. ASSUME NEW r \in pend[k], BuildTask(k, r) PROVE TypeOK'
    <2>1. r[1] \in Outbound /\ r[2] \in BOOLEAN  BY DEF TypeOK
    <2>2. [tag |-> r[1], cycle |-> cycleSeq, priority |-> r[2], stage |-> 0] \in Task
      BY <2>1 DEF TypeOK, Task
    <2> QED  BY <1>4, <2>2 DEF BuildTask, TypeOK
  <1>5. CASE EnqueueCall(k)
    <2>1. cur[k] \in Task  BY <1>5 DEF EnqueueCall, TypeOK
    <2>2. EnqueueTask(cur[k])  BY <1>5 DEF EnqueueCall
    <2> QED  BY <1>5, <2>1, EnqueueTyped, <2>2 DEF EnqueueCall, TypeOK
  <1> QED  BY <1>1, <1>2, <1>3, <1>4, <1>5 DEF CallStep

\* The workers.
LEMMA WorkersTyped ==
  ASSUME TypeOK, TaskHeld, NEW w \in Worker, WorkerStep(w)
  PROVE  TypeOK'
  <1> USE DEF stateVars, flagVars, queueVars, workerVars, cycleVars, callVars
  <1>1. CASE TakePriority(w)
    <2>1. /\ Head(priorityQueue) \in Task
          /\ priorityQueue' \in Seq(Task) /\ Len(priorityQueue') <= PriorityCap
      BY <1>1, HeadTailProperties, SizeAssumption DEF TakePriority, TypeOK
    <2>2. Take(w, Head(priorityQueue))  BY <1>1 DEF TakePriority
    <2> QED  BY <1>1, <2>1, <2>2, TakeTyped DEF TakePriority, TypeOK
  <1>2. CASE NoPriority(w)  BY <1>2 DEF NoPriority, TypeOK
  <1>3. CASE TakeNormal(w)
    <2>1. /\ Head(normalQueue) \in Task
          /\ normalQueue' \in Seq(Task) /\ Len(normalQueue') <= NormalCap
      BY <1>3, HeadTailProperties, SizeAssumption DEF TakeNormal, TypeOK
    <2>2. Take(w, Head(normalQueue))  BY <1>3 DEF TakeNormal
    <2> QED  BY <1>3, <2>1, <2>2, TakeTyped DEF TakeNormal, TypeOK
  <1>4. CASE WorkerExit(w)  BY <1>4 DEF WorkerExit, TypeOK
  <1>5. ASSUME NEW ok \in BOOLEAN, ApplyResult(w, ok) PROVE TypeOK'
    BY <1>5 DEF ApplyResult, TypeOK
  <1>6. CASE Report(w)
    <2>1. Cardinality(tags) \in Nat
      BY FS_Subset, FS_CardinalityType, FiniteAssumption DEF TypeOK
    <2>2. results' \in Seq(BOOLEAN) /\ Len(results') <= Cardinality(tags)
      <3>1. CASE UNCHANGED results  BY <3>1 DEF TypeOK
      <3>2. CASE /\ Len(results) < Cardinality(tags)
                 /\ results' = Append(results, wpc[w] = "passed")
        <4>1. results \in Seq(BOOLEAN) /\ (wpc[w] = "passed") \in BOOLEAN  BY Zenon DEF TypeOK
        <4>2. results' \in Seq(BOOLEAN) /\ Len(results') = Len(results) + 1
          BY <3>2, <4>1, AppendProperties, Zenon
        <4>3. Len(results) \in Nat  BY <4>1
        <4> QED  BY <3>2, <4>2, <4>3, <2>1
      <3> QED  BY <1>6, <3>1, <3>2 DEF Report
    <2> QED  BY <1>6, <2>2 DEF Report, TypeOK
  <1>7. CASE EndTask(w)  BY <1>7 DEF EndTask, Leave, TypeOK
  <1> QED  BY <1>1, <1>2, <1>3, <1>4, <1>5, <1>6, <1>7, PostponeTyped DEF WorkerStep

\* They have a task until they leave executeTask.
LEMMA WorkersHold ==
  ASSUME TypeOK, TaskHeld, NEW w \in Worker, WorkerStep(w)
  PROVE  TaskHeld'
  <1>1. ASSUME NEW t \in Task, Take(w, t) PROVE TaskHeld'
    BY <1>1, NoTaskAssumption DEF Take, TaskHeld, TypeOK, Busy
  <1>2. CASE TakePriority(w)
    <2>1. Head(priorityQueue) \in Task
      BY <1>2, HeadTailProperties DEF TakePriority, TypeOK
    <2> QED  BY <1>1, <1>2, <2>1 DEF TakePriority
  <1>3. CASE TakeNormal(w)
    <2>1. Head(normalQueue) \in Task
      BY <1>3, HeadTailProperties DEF TakeNormal, TypeOK
    <2> QED  BY <1>1, <1>3, <2>1 DEF TakeNormal
  <1>4. CASE NoPriority(w) \/ WorkerExit(w)
    BY <1>4 DEF NoPriority, WorkerExit, TaskHeld, TypeOK, Busy
  <1>5. ASSUME NEW ok \in BOOLEAN, ApplyResult(w, ok) PROVE TaskHeld'
    BY <1>5 DEF ApplyResult, TaskHeld, TypeOK, Busy
  <1>6. CASE Report(w)
    BY <1>6 DEF Report, TaskHeld, TypeOK, Busy
  <1>7. CASE EndTask(w) \/ Postpone(w)
    BY <1>7 DEF EndTask, Postpone, Leave, TaskHeld, TypeOK, Busy
  <1> QED  BY <1>2, <1>3, <1>4, <1>5, <1>6, <1>7 DEF WorkerStep

\* A postponed task is re-queued with the next cycle number.
LEMMA RetryTyped ==
  ASSUME TypeOK, NEW t \in BagToSet(retry), Retry(t)
  PROVE  TypeOK'
  <1>1. t \in Task /\ [t EXCEPT !.cycle = @ + 1] \in Task
    <2>1. t \in Task  BY DEF TypeOK
    <2> QED  BY <2>1 DEF Task
  <1>2. IsABag(retry) /\ t \in DOMAIN retry  BY DEF TypeOK, BagToSet
  <1>3. IsABag(retry') /\ DOMAIN retry' \subseteq DOMAIN retry
    <2>1. retry' = retry (-) SetToBag({t})  BY DEF Retry
    <2>2. DropsOne(retry, retry', t)  BY <1>2, <2>1, BagDropOne, Zenon
    <2> QED  BY <2>2 DEF DropsOne
  <1>4. BagToSet(retry') \subseteq Task  BY <1>3 DEF TypeOK, BagToSet
  <1>5. EnqueueTask([t EXCEPT !.cycle = @ + 1])  BY DEF Retry
  <1> QED  BY <1>1, <1>3, <1>4, <1>5, EnqueueTyped
           DEF Retry, TypeOK, workerVars, cycleVars, callVars

\* startCycleOnce, runCycle and runStage.
LEMMA CycleTyped ==
  ASSUME TypeOK, CycleNumbered, StartCycleOnce \/ CycleStep
  PROVE  TypeOK'
  <1> USE DEF stateVars, flagVars, queueVars, workerVars, cycleVars, callVars
  <1>1. CASE StartCycleOnce  BY <1>1 DEF StartCycleOnce, TypeOK
  <1>2. CASE Collected
    <2>1. tags \in SUBSET Outbound /\ 0 \in 0..Urls-1  BY SizeAssumption DEF TypeOK
    <2>2. EndCycle \/ EnterStage(tags, 0)  BY <1>2 DEF Collected
    <2> QED  BY <1>2, <2>1, <2>2, EndTyped, EnterTyped DEF Collected, TypeOK
  <1>3. ASSUME NEW o \in Outbound, StageEnqueue(o) PROVE TypeOK'
    <2> DEFINE t == [tag |-> o, cycle |-> cycleSeq, priority |-> FALSE, stage |-> Stage]
    <2>1. cycleSeq \in Nat /\ Stage \in Nat
      <3>1. cycleSeq \in Nat /\ cycleSeq > 0 /\ round \in Nat
        BY <1>3, SizeAssumption DEF CycleNumbered, StageEnqueue, TypeOK
      <3> QED  BY <3>1, StagePositive DEF Stage
    <2>2. t \in Task  BY <2>1 DEF Task
    <2>3. EnqueueTask(t)  BY <1>3 DEF StageEnqueue
    <2>4. expected' \in Nat /\ todo' \in SUBSET Outbound  BY <1>3 DEF StageEnqueue, TypeOK
    <2> HIDE DEF t
    <2> QED  BY <1>3, <2>2, <2>3, <2>4, EnqueueTyped DEF StageEnqueue, TypeOK
  <1>4. CASE StageResult
    <2>1. results' \in Seq(BOOLEAN) /\ Len(results') = Len(results) - 1 /\ Len(results) \in Nat
      <3>1. results \in Seq(BOOLEAN) /\ results # <<>> /\ results' = Tail(results)
        BY <1>4 DEF StageResult, TypeOK
      <3> QED  BY <3>1, HeadTailProperties
    <2>2. Cardinality(tags) \in Nat
      BY FS_Subset, FS_CardinalityType, FiniteAssumption DEF TypeOK
    <2>3. /\ success \in Nat
          /\ success' = success + 1 \/ success' = success
          /\ expected \in Nat /\ expected > 0 /\ expected' = expected - 1
      BY <1>4 DEF StageResult, TypeOK
    <2>4. success' \in Nat /\ expected' \in Nat  BY <2>3
    <2>5. Len(results) <= Cardinality(tags) /\ tags' = tags /\ todo' = todo
      BY <1>4 DEF StageResult, TypeOK
    <2>6. Len(results') <= Cardinality(tags')  BY <2>1, <2>2, <2>5
    <2> HIDE DEF cycleVars
    <2> QED  BY <1>4, <2>1, <2>4, <2>6, Zenon DEF StageResult, TypeOK
  <1>5. CASE StageEnd
    <2>1. link' \in 0..Urls-1  BY <1>5, SizeAssumption DEF StageEnd, TypeOK
    <2>2. CASE EndCycle  BY <1>5, <2>1, <2>2, EndTyped DEF StageEnd, TypeOK
    <2>3. CASE round # Urls - 1 /\ EnterStage(tags, round + 1)
      <3>1. round + 1 \in 0..Urls-1 /\ tags \in SUBSET Outbound
        BY <2>3, SizeAssumption DEF TypeOK
      <3> QED  BY <1>5, <2>1, <2>3, <3>1, EnterTyped DEF StageEnd, TypeOK
    <2> QED  BY <1>5, <2>2, <2>3 DEF StageEnd
  <1>6. ASSUME NEW o \in Outbound, CollectTarget(o) PROVE TypeOK'
    <2>1. tags \subseteq tags' /\ tags' \in SUBSET Outbound
      BY <1>6 DEF CollectTarget, TypeOK
    <2>2. /\ Cardinality(tags) <= Cardinality(tags')
          /\ Cardinality(tags) \in Nat /\ Cardinality(tags') \in Nat
      BY <2>1, FS_Subset, FS_CardinalityType, FiniteAssumption
    <2>3. results' = results /\ results \in Seq(BOOLEAN) /\ Len(results) <= Cardinality(tags)
      BY <1>6 DEF CollectTarget, TypeOK
    <2>4. Len(results') <= Cardinality(tags')
      <3>1. Len(results) \in Nat  BY <2>3, LenProperties
      <3> QED  BY <2>2, <2>3, <3>1
    <2> QED  BY <1>6, <2>1, <2>4 DEF CollectTarget, TypeOK
  <1> QED  BY <1>1, <1>2, <1>3, <1>4, <1>5, <1>6 DEF CycleStep

\* Every step keeps the types.
LEMMA MonitorStepTyped ==
  ASSUME TypeOK, CycleNumbered, TaskHeld, [Next]_vars
  PROVE  TypeOK' /\ CycleNumbered' /\ TaskHeld'
  <1> USE DEF stateVars, flagVars, queueVars, workerVars, cycleVars, callVars
  <1>1. TypeOK'
    <2>1. CASE UNCHANGED vars  BY <2>1 DEF vars, TypeOK
    <2>2. ASSUME NEW o \in Outbound, BecomeReady(o) \/ Age(o) PROVE TypeOK'
      BY <2>2 DEF BecomeReady, Age, TypeOK
    <2>3. CASE Close  BY <2>3 DEF Close, TypeOK
    <2> HIDE DEF stateVars, flagVars, queueVars, workerVars, cycleVars, callVars
    <2> QED  BY <2>1, <2>2, <2>3, CallsTyped, WorkersTyped, RetryTyped, CycleTyped, Zenon
             DEF Next, RetryStep
  <1>2. CycleNumbered'
    <2>1. CASE UNCHANGED <<cpc, cycleSeq>>  BY <2>1 DEF CycleNumbered
    <2>2. CASE StartCycleOnce  BY <2>2 DEF StartCycleOnce, CycleNumbered, TypeOK
    <2>3. CASE Collected \/ StageEnd
      BY <2>3 DEF Collected, StageEnd, EndCycle, EnterStage, CycleNumbered
    <2>4. CASE UNCHANGED vars  BY <2>1, <2>4 DEF vars
    <2>5. CASE Next
      BY <2>1, <2>2, <2>3, <2>5, Zenon
         DEF Next, InvalidateTest, TestNow, TestNowGroup, CallStep, BuildTask, EnqueueCall,
             WorkerStep, TakePriority, NoPriority, TakeNormal, WorkerExit, ApplyResult, Report,
             EndTask, Postpone, RetryStep, Retry, CycleStep, CollectTarget, StageEnqueue, StageResult,
             BecomeReady, Age, Close
    <2> QED  BY <2>4, <2>5
  <1>3. TaskHeld'
    <2>1. CASE UNCHANGED <<wpc, wtask>>  BY <2>1 DEF TaskHeld
    <2>2. ASSUME NEW w \in Worker, WorkerStep(w) PROVE TaskHeld'  BY <2>2, WorkersHold
    <2> QED
      BY <2>1, <2>2, Zenon
         DEF Next, InvalidateTest, TestNow, TestNowGroup, CallStep, BuildTask, EnqueueCall,
             RetryStep, Retry, StartCycleOnce, CycleStep, CollectTarget, Collected, StageEnqueue,
             StageResult, StageEnd, BecomeReady, Age, Close, vars
  <1> QED  BY <1>1, <1>2, <1>3

\* The scheduler's state is well-formed, its queues and its result channel
\* never hold more than their capacity.
THEOREM MonitorTypeCorrect == Spec => [](TypeOK /\ CycleNumbered /\ TaskHeld)
  <1>1. Init => TypeOK /\ CycleNumbered /\ TaskHeld
    <2> SUFFICES ASSUME Init PROVE TypeOK /\ CycleNumbered /\ TaskHeld  OBVIOUS
    <2>1. IsABag(retry) /\ BagToSet(retry) = {}
      BY DEF Init, IsABag, EmptyBag, SetToBag, BagToSet
    <2>2. Cardinality(tags) = 0  BY FS_EmptySet DEF Init
    <2>3. CycleNumbered /\ TaskHeld  BY DEF Init, CycleNumbered, TaskHeld, Busy
    <2>4. pend \in [Caller -> SUBSET (Outbound \X BOOLEAN)]  BY Zenon DEF Init
    <2>5. /\ priorityQueue \in Seq(Task) /\ Len(priorityQueue) <= PriorityCap
          /\ normalQueue \in Seq(Task) /\ Len(normalQueue) <= NormalCap
          /\ results \in Seq(BOOLEAN) /\ Len(results) <= Cardinality(tags)
      BY <2>2, SizeAssumption DEF Init
    <2>6. link \in 0..Urls-1 /\ round \in 0..Urls-1  BY SizeAssumption DEF Init
    <2> QED  BY <2>1, <2>3, <2>4, <2>5, <2>6 DEF Init, TypeOK
  <1>2. TypeOK /\ CycleNumbered /\ TaskHeld /\ [Next]_vars
        => (TypeOK /\ CycleNumbered /\ TaskHeld)'
    BY MonitorStepTyped
  <1> QED  BY <1>1, <1>2, PTL DEF Spec

-----------------------------------------------------------------------------
(* Tasks: where they are and what they may be *)

\* enqueueTask appends to the queue of the task's kind, or to none.
LEMMA EnqueueEffect ==
  ASSUME TypeOK, NEW t \in Task, EnqueueTask(t)
  PROVE  /\ priorityQueue' = priorityQueue \/ (t.priority /\ priorityQueue' = Append(priorityQueue, t))
         /\ normalQueue' = normalQueue \/ (~t.priority /\ normalQueue' = Append(normalQueue, t))
  <1>1. CASE ctxDone \/ ~Accepts(t)  BY <1>1 DEF EnqueueTask, flagVars, queueVars
  <1>2. CASE ~(ctxDone \/ ~Accepts(t)) /\ t.priority  BY <1>2, Zenon DEF EnqueueTask
  <1>3. CASE ~(ctxDone \/ ~Accepts(t)) /\ ~t.priority  BY <1>3, Zenon DEF EnqueueTask
  <1> QED  BY <1>1, <1>2, <1>3

\* Where the elements of an appended queue come from.
LEMMA AppendElements ==
  ASSUME NEW q \in Seq(Task), NEW t \in Task
  PROVE  /\ Append(q, t) \in Seq(Task)
         /\ DOMAIN Append(q, t) = DOMAIN q \cup {Len(q) + 1}
         /\ Len(q) + 1 \notin DOMAIN q
         /\ Append(q, t)[Len(q) + 1] = t
         /\ \A i \in DOMAIN q : Append(q, t)[i] = q[i]
  <1>1. DOMAIN q = 1..Len(q) /\ Len(q) \in Nat  BY LenProperties
  <1>2. Append(q, t) \in Seq(Task) /\ Len(Append(q, t)) = Len(q) + 1  BY AppendProperties
  <1>3. DOMAIN Append(q, t) = 1..Len(q) + 1  BY <1>2, LenProperties
  <1> QED  BY <1>1, <1>2, <1>3, AppendProperties

\* What is left of a queue whose head is taken.
LEMMA TailElements ==
  ASSUME NEW q \in Seq(Task), q # <<>>
  PROVE  /\ Tail(q) \in Seq(Task)
         /\ Head(q) = q[1] /\ 1 \in DOMAIN q /\ Head(q) \in Task
         /\ \A i \in DOMAIN Tail(q) : i + 1 \in DOMAIN q /\ i \in Nat \ {0} /\ Tail(q)[i] = q[i + 1]
         /\ \A i \in DOMAIN q \ {1} : i - 1 \in DOMAIN Tail(q) /\ i \in Nat \ {0}
  <1>1. DOMAIN q = 1..Len(q) /\ Len(q) \in Nat \ {0} /\ q[1] \in Task
    BY LenProperties, ElementOfSeq, EmptySeq
  <1>2. Head(q) = q[1] /\ Tail(q) \in Seq(Task) /\ Len(Tail(q)) = Len(q) - 1
    BY HeadTailProperties
  <1>3. DOMAIN Tail(q) = 1..Len(q) - 1  BY <1>1, <1>2, LenProperties
  <1>4. \A i \in 1..Len(Tail(q)) : Tail(q)[i] = q[i + 1]  BY HeadTailProperties
  <1> QED  BY <1>1, <1>2, <1>3, <1>4

\* A task is accepted into a queue.
LEMMA EnqueueTasks ==
  ASSUME TypeOK, TaskInv, NEW t \in Task, t.priority => t.stage = 0, EnqueueTask(t)
  PROVE  /\ \A i \in DOMAIN priorityQueue' : priorityQueue'[i].priority /\ priorityQueue'[i].stage = 0
         /\ \A i \in DOMAIN normalQueue' : ~normalQueue'[i].priority
  <1>1. priorityQueue \in Seq(Task) /\ normalQueue \in Seq(Task)  BY DEF TypeOK
  <1>2. \A i \in DOMAIN priorityQueue' : priorityQueue'[i].priority /\ priorityQueue'[i].stage = 0
    <2>1. CASE priorityQueue' = priorityQueue  BY <2>1 DEF TaskInv
    <2>2. CASE t.priority /\ priorityQueue' = Append(priorityQueue, t)
      BY <1>1, <2>2, AppendElements DEF TaskInv
    <2> QED  BY <2>1, <2>2, EnqueueEffect
  <1>3. \A i \in DOMAIN normalQueue' : ~normalQueue'[i].priority
    <2>1. CASE normalQueue' = normalQueue  BY <2>1 DEF TaskInv
    <2>2. CASE ~t.priority /\ normalQueue' = Append(normalQueue, t)
      BY <1>1, <2>2, AppendElements DEF TaskInv
    <2> QED  BY <2>1, <2>2, EnqueueEffect
  <1> QED  BY <1>2, <1>3

\* What Take does unless the context is cancelled.
LEMMA TakeEffect ==
  ASSUME TypeOK, NEW w \in Worker, NEW t \in Task, Take(w, t), ~ctxDone
  PROVE  /\ wpc'[w] \in {"postpone", "test"} /\ wtask'[w] = t
         /\ wpc'[w] = "postpone" => t.tag \notin ready
         /\ \A v \in Worker \ {w} : wpc'[v] = wpc[v] /\ wtask'[v] = wtask[v]
  BY DEF Take, TypeOK

\* A worker puts its task off.
LEMMA PostponeEffect ==
  ASSUME TypeOK, TaskHeld, NEW w \in Worker, Postpone(w)
  PROVE  /\ wtask[w] \in Task /\ AddsOne(retry, retry', wtask[w])
         /\ wpc[w] = "postpone" /\ wpc'[w] = "outer"
         /\ \A v \in Worker \ {w} : wpc'[v] = wpc[v] /\ wtask'[v] = wtask[v]
         /\ UNCHANGED <<ctxDone, queued, priorityQueued, priorityQueue, normalQueue, ready, results,
                        cur, cpc, cycleSeq, round, tags, todo, expected>>
  <1>1. wtask[w] \in Task /\ wpc[w] = "postpone"  BY DEF Postpone, TaskHeld, TypeOK, Busy
  <1>2. AddsOne(retry, retry', wtask[w])
    <2>1. retry' = retry (+) SetToBag({wtask[w]})  BY DEF Postpone
    <2>2. IsABag(retry)  BY DEF TypeOK
    <2> QED  BY <2>1, <2>2, BagAddOne, Zenon
  <1>3. /\ wpc'[w] = "outer"
        /\ \A v \in Worker \ {w} : wpc'[v] = wpc[v] /\ wtask'[v] = wtask[v]
    BY DEF Postpone, Leave, TypeOK
  <1> QED  BY <1>1, <1>2, <1>3 DEF Postpone, flagVars, queueVars, cycleVars, callVars

\* A postponed task is woken up.
LEMMA RetryEffect ==
  ASSUME TypeOK, NEW t \in BagToSet(retry), Retry(t)
  PROVE  /\ DropsOne(retry, retry', t)
         /\ t \in Task /\ t \in DOMAIN retry
         /\ [t EXCEPT !.cycle = @ + 1] \in Task
         /\ [t EXCEPT !.cycle = @ + 1].tag = t.tag
         /\ [t EXCEPT !.cycle = @ + 1].stage = t.stage
         /\ [t EXCEPT !.cycle = @ + 1].priority = t.priority
         /\ EnqueueTask([t EXCEPT !.cycle = @ + 1])
  <1>1. t \in Task  BY DEF TypeOK
  <1>2. IsABag(retry) /\ t \in DOMAIN retry  BY DEF TypeOK, BagToSet
  <1>3. retry' = retry (-) SetToBag({t})  BY DEF Retry
  <1>4. DropsOne(retry, retry', t)
    BY <1>2, <1>3, BagDropOne, Zenon
  <1>5. /\ [t EXCEPT !.cycle = @ + 1] \in Task
        /\ [t EXCEPT !.cycle = @ + 1].tag = t.tag
        /\ [t EXCEPT !.cycle = @ + 1].stage = t.stage
        /\ [t EXCEPT !.cycle = @ + 1].priority = t.priority
    BY <1>1 DEF Task
  <1>6. EnqueueTask([t EXCEPT !.cycle = @ + 1])  BY DEF Retry
  <1> QED  BY <1>1, <1>2, <1>4, <1>5, <1>6

\* A step that moves no task; a caller's new task has no result channel.
LEMMA TasksStay ==
  ASSUME TypeOK, TaskInv, UNCHANGED <<queueVars, retry>>,
         \A k \in Caller : cur'[k] # NoTask => cur'[k] = cur[k] \/ cur'[k].stage = 0,
         \A w \in Worker : wpc'[w] = "postpone" => wpc[w] = "postpone" /\ wtask'[w] = wtask[w]
  PROVE  TaskInv'
  BY DEF TaskInv, queueVars, BagToSet

\* Callers and workers keep TaskInv.
LEMMA CallerTasks ==
  ASSUME TypeOK, TaskInv, NEW k \in Caller,
         \/ \E o \in Outbound : InvalidateTest(k, o) \/ TestNow(k, o)
         \/ \E g \in Group : TestNowGroup(k, g)
         \/ CallStep(k)
  PROVE  TaskInv'
  <1> USE DEF stateVars, flagVars, workerVars
  <1>1. ASSUME NEW o \in Outbound, InvalidateTest(k, o) PROVE TaskInv'
    BY <1>1, TasksStay DEF InvalidateTest, TypeOK
  <1>2. ASSUME NEW o \in Outbound, TestNow(k, o) PROVE TaskInv'
    BY <1>2, TasksStay DEF TestNow
  <1>3. ASSUME NEW g \in Group, TestNowGroup(k, g) PROVE TaskInv'
    BY <1>3, TasksStay DEF TestNowGroup
  <1>4. ASSUME NEW r \in pend[k], BuildTask(k, r) PROVE TaskInv'
    BY <1>4, TasksStay DEF BuildTask, TypeOK
  <1>5. CASE EnqueueCall(k)
    <2>1. cur[k] \in Task /\ cur[k].stage = 0  BY <1>5 DEF EnqueueCall, TypeOK, TaskInv
    <2>2. EnqueueTask(cur[k])  BY <1>5 DEF EnqueueCall
    <2> QED  BY <1>5, <2>1, <2>2, EnqueueTasks DEF EnqueueCall, TypeOK, TaskInv, BagToSet
  <1> QED  BY <1>1, <1>2, <1>3, <1>4, <1>5 DEF CallStep

\* A worker takes the head of a queue.
LEMMA TakeTasks ==
  ASSUME TypeOK, TaskInv, NEW w \in Worker, NEW t \in Task,
         t.priority => t.stage = 0, Take(w, t), UNCHANGED <<cur, retry>>,
         \A i \in DOMAIN priorityQueue' : priorityQueue'[i].priority /\ priorityQueue'[i].stage = 0,
         \A i \in DOMAIN normalQueue' : ~normalQueue'[i].priority
  PROVE  TaskInv'
  <1>1. \A v \in Worker : wpc'[v] = "postpone" /\ wtask'[v].priority => wtask'[v].stage = 0
    <2>1. CASE ctxDone  BY <2>1 DEF Take, TypeOK, TaskInv
    <2>2. CASE ~ctxDone  BY <2>2, TakeEffect DEF TaskInv
    <2> QED  BY <2>1, <2>2
  <1> QED  BY <1>1 DEF TaskInv, BagToSet

\* What a worker takes, tests and reports is what the queues held.
LEMMA WorkerTasks ==
  ASSUME TypeOK, TaskHeld, TaskInv, NEW w \in Worker, WorkerStep(w)
  PROVE  TaskInv'
  <1> USE DEF stateVars, flagVars, callVars
  <1>1. CASE TakePriority(w)
    <2> DEFINE t == Head(priorityQueue)
    <2>1. priorityQueue \in Seq(Task) /\ priorityQueue # <<>> /\ priorityQueue' = Tail(priorityQueue)
      BY <1>1 DEF TakePriority, TypeOK
    <2>2. /\ t \in Task /\ t.stage = 0
          /\ \A i \in DOMAIN priorityQueue' : priorityQueue'[i].priority /\ priorityQueue'[i].stage = 0
      BY <2>1, TailElements DEF TaskInv
    <2>3. \A i \in DOMAIN normalQueue' : ~normalQueue'[i].priority
      BY <1>1 DEF TakePriority, TaskInv
    <2>4. Take(w, t) /\ UNCHANGED <<cur, retry>>  BY <1>1 DEF TakePriority
    <2> HIDE DEF t
    <2> QED  BY <2>2, <2>3, <2>4, TakeTasks
  <1>2. CASE TakeNormal(w)
    <2> DEFINE t == Head(normalQueue)
    <2>1. normalQueue \in Seq(Task) /\ normalQueue # <<>> /\ normalQueue' = Tail(normalQueue)
      BY <1>2 DEF TakeNormal, TypeOK
    <2>2. /\ t \in Task /\ ~t.priority
          /\ \A i \in DOMAIN normalQueue' : ~normalQueue'[i].priority
      BY <2>1, TailElements DEF TaskInv
    <2>3. \A i \in DOMAIN priorityQueue' : priorityQueue'[i].priority /\ priorityQueue'[i].stage = 0
      BY <1>2 DEF TakeNormal, TaskInv
    <2>4. Take(w, t) /\ UNCHANGED <<cur, retry>>  BY <1>2 DEF TakeNormal
    <2> HIDE DEF t
    <2> QED  BY <2>2, <2>3, <2>4, TakeTasks
  <1>3. CASE NoPriority(w)  BY <1>3, TasksStay DEF NoPriority, TypeOK
  <1>4. CASE WorkerExit(w)  BY <1>4, TasksStay DEF WorkerExit, TypeOK
  <1>5. ASSUME NEW ok \in BOOLEAN, ApplyResult(w, ok) PROVE TaskInv'
    BY <1>5, TasksStay DEF ApplyResult, TypeOK
  <1>6. CASE Report(w)  BY <1>6, TasksStay DEF Report, TypeOK
  <1>7. CASE EndTask(w)  BY <1>7, TasksStay DEF EndTask, Leave, TypeOK
  <1>8. CASE Postpone(w)
    <2>1. /\ BagToSet(retry') = BagToSet(retry) \cup {wtask[w]}
          /\ wtask[w].priority => wtask[w].stage = 0
      BY <1>8, PostponeEffect DEF AddsOne, BagToSet, TaskInv
    <2>2. IsFiniteSet(BagToSet(retry'))  BY <2>1, FS_AddElement DEF TaskInv
    <2> QED  BY <1>8, <2>1, <2>2, PostponeEffect DEF TaskInv
  <1> QED  BY <1>1, <1>2, <1>3, <1>4, <1>5, <1>6, <1>7, <1>8 DEF WorkerStep

\* Re-queued tasks.
LEMMA RetryTasks ==
  ASSUME TypeOK, TaskInv, NEW t \in BagToSet(retry), Retry(t)
  PROVE  TaskInv'
  <1> DEFINE n == [t EXCEPT !.cycle = @ + 1]
  <1>1. n \in Task /\ n.stage = t.stage /\ n.priority = t.priority /\ EnqueueTask(n)
    BY RetryEffect
  <1>2. DOMAIN retry' \subseteq DOMAIN retry  BY RetryEffect DEF DropsOne
  <1>3. IsFiniteSet(BagToSet(retry'))  BY <1>2, FS_Subset DEF TaskInv, BagToSet
  <1>4. n.priority => n.stage = 0  BY <1>1 DEF TaskInv
  <1> HIDE DEF n
  <1>5. /\ \A i \in DOMAIN priorityQueue' : priorityQueue'[i].priority /\ priorityQueue'[i].stage = 0
        /\ \A i \in DOMAIN normalQueue' : ~normalQueue'[i].priority
    BY <1>1, <1>4, EnqueueTasks
  <1>6. UNCHANGED <<wpc, wtask, cur>>  BY DEF Retry, workerVars, callVars
  <1> QED  BY <1>2, <1>3, <1>5, <1>6 DEF TaskInv, BagToSet

\* Every step keeps TaskInv.
LEMMA TaskStep ==
  ASSUME TypeOK, CycleNumbered, TaskHeld, TaskInv, [Next]_vars
  PROVE  TaskInv'
  <1> USE DEF stateVars, flagVars, workerVars, callVars
  <1>1. CASE UNCHANGED vars  BY <1>1, TasksStay DEF vars
  <1>2. CASE StartCycleOnce  BY <1>2, TasksStay DEF StartCycleOnce
  <1>3. CASE Collected \/ \E o \in Outbound : CollectTarget(o)
    BY <1>3, TasksStay DEF Collected, CollectTarget
  <1>4. CASE StageResult  BY <1>4, TasksStay DEF StageResult
  <1>5. CASE StageEnd  BY <1>5, TasksStay DEF StageEnd
  <1>6. ASSUME NEW o \in Outbound, BecomeReady(o) \/ Age(o) PROVE TaskInv'
    BY <1>6, TasksStay DEF BecomeReady, Age
  <1>7. CASE Close  BY <1>7, TasksStay DEF Close
  <1>8. ASSUME NEW o \in Outbound, StageEnqueue(o) PROVE TaskInv'
    <2> DEFINE t == [tag |-> o, cycle |-> cycleSeq, priority |-> FALSE, stage |-> Stage]
    <2>1. cycleSeq \in Nat /\ Stage \in Nat
      <3>1. cycleSeq \in Nat /\ cycleSeq > 0 /\ round \in Nat
        BY <1>8, SizeAssumption DEF CycleNumbered, StageEnqueue, TypeOK
      <3> QED  BY <3>1, StagePositive DEF Stage
    <2>2. t \in Task /\ ~t.priority  BY <2>1 DEF Task
    <2>3. EnqueueTask(t) /\ UNCHANGED <<retry, wpc, wtask, cur>>  BY <1>8 DEF StageEnqueue
    <2> HIDE DEF t
    <2> QED  BY <2>2, <2>3, EnqueueTasks DEF TaskInv, BagToSet
  <1> QED  BY <1>1, <1>2, <1>3, <1>4, <1>5, <1>6, <1>7, <1>8, CallerTasks, WorkerTasks, RetryTasks, Zenon
           DEF Next, CycleStep, RetryStep

-----------------------------------------------------------------------------
(* Counting what a stage is owed *)

\* Positions of a queue whose tasks belong to stage s.
StageAt(q, s) == {i \in DOMAIN q : q[i].stage = s}

\* Taking the head of a queue.
LEMMA TailCount ==
  ASSUME NEW q \in Seq(Task), q # <<>>, NEW s
  PROVE  /\ IsFiniteSet(StageAt(q, s)) /\ IsFiniteSet(StageAt(Tail(q), s))
         /\ Cardinality(StageAt(Tail(q), s)) =
                IF Head(q).stage = s THEN Cardinality(StageAt(q, s)) - 1 ELSE Cardinality(StageAt(q, s))
  <1> DEFINE A == StageAt(q, s) \ {1}
             f == [i \in A |-> i - 1]
  <1>1. IsFiniteSet(StageAt(q, s))
    BY LenProperties, FS_Interval, FS_Subset DEF StageAt
  <1>2. /\ IsFiniteSet(A)
        /\ Cardinality(A) = IF 1 \in StageAt(q, s) THEN Cardinality(StageAt(q, s)) - 1
                            ELSE Cardinality(StageAt(q, s))
    BY <1>1, FS_RemoveElement
  <1>3. 1 \in StageAt(q, s) <=> Head(q).stage = s
    BY TailElements DEF StageAt
  <1>4. f \in Bijection(A, StageAt(Tail(q), s))
    <2>1. \A i \in A : i \in Nat \ {0} /\ i - 1 \in StageAt(Tail(q), s)
      BY TailElements DEF StageAt
    <2>2. \A i, j \in A : f[i] = f[j] => i = j  BY <2>1
    <2>3. \A j \in StageAt(Tail(q), s) : j + 1 \in A /\ f[j + 1] = j
      BY TailElements DEF StageAt
    <2>4. f \in [A -> StageAt(Tail(q), s)]  BY <2>1
    <2> HIDE DEF f, A
    <2> QED  BY <2>2, <2>3, <2>4 DEF Bijection, Injection, Surjection, IsInjective
  <1>5. ExistsBijection(A, StageAt(Tail(q), s))  BY <1>4 DEF ExistsBijection
  <1>6. IsFiniteSet(StageAt(Tail(q), s)) /\ Cardinality(StageAt(Tail(q), s)) = Cardinality(A)
    BY <1>2, <1>5, FS_Bijection
  <1> QED  BY <1>1, <1>2, <1>3, <1>6

\* Appending to a queue.
LEMMA AppendCount ==
  ASSUME NEW q \in Seq(Task), NEW t \in Task, NEW s
  PROVE  /\ IsFiniteSet(StageAt(q, s)) /\ Cardinality(StageAt(q, s)) \in Nat
         /\ StageAt(Append(q, t), s) =
                IF t.stage = s THEN StageAt(q, s) \cup {Len(q) + 1} ELSE StageAt(q, s)
         /\ Cardinality(StageAt(Append(q, t), s)) =
                IF t.stage = s THEN Cardinality(StageAt(q, s)) + 1 ELSE Cardinality(StageAt(q, s))
  <1>1. IsFiniteSet(StageAt(q, s))
    BY LenProperties, FS_Interval, FS_Subset DEF StageAt
  <1>2. StageAt(Append(q, t), s) =
            IF t.stage = s THEN StageAt(q, s) \cup {Len(q) + 1} ELSE StageAt(q, s)
    BY AppendElements DEF StageAt
  <1>3. Len(q) + 1 \notin StageAt(q, s)  BY AppendElements DEF StageAt
  <1> QED  BY <1>1, <1>2, <1>3, FS_AddElement, FS_CardinalityType

\* What is counted is finite.
LEMMA OwesFinite ==
  ASSUME TypeOK, TaskInv
  PROVE  /\ IsFiniteSet(QueueOwes) /\ Cardinality(QueueOwes) \in Nat
         /\ IsFiniteSet(WorkerOwes) /\ Cardinality(WorkerOwes) \in Nat
         /\ IsFiniteSet(RetryOwes) /\ Cardinality(RetryOwes) \in Nat
         /\ IsFiniteSet(tags) /\ Cardinality(tags) \in Nat
         /\ IsFiniteSet(todo) /\ Cardinality(todo) \in Nat
         /\ Len(results) \in Nat /\ expected \in Nat
  <1>1. IsFiniteSet(QueueOwes)
    BY LenProperties, FS_Interval, FS_Subset DEF QueueOwes, TypeOK
  <1>2. IsFiniteSet(WorkerOwes)  BY FiniteAssumption, FS_Subset DEF WorkerOwes
  <1>3. IsFiniteSet(RetryOwes)  BY FS_Subset DEF RetryOwes, TaskInv
  <1>4. IsFiniteSet(tags)  BY FiniteAssumption, FS_Subset DEF TypeOK
  <1>5. IsFiniteSet(todo)  BY FiniteAssumption, FS_Subset DEF TypeOK
  <1>6. Len(results) \in Nat /\ expected \in Nat  BY LenProperties DEF TypeOK
  <1> QED  BY <1>1, <1>2, <1>3, <1>4, <1>5, <1>6, FS_CardinalityType

\* A step that neither moves a task nor touches the cycle.
LEMMA StageFrame ==
  ASSUME StageInv, ctxDone' = ctxDone,
         UNCHANGED <<normalQueue, retry, cpc, cycleSeq, round, tags, todo, expected, results>>,
         \A w \in Worker : wpc'[w] \in Busy <=> wpc[w] \in Busy,
         \A w \in Worker : wpc[w] \in Busy => wtask'[w] = wtask[w]
  PROVE  StageInv' /\ (StageBalance => StageBalance')
  <1>1. Stage' = Stage  BY DEF Stage
  <1>2. /\ QueueOwes' = QueueOwes /\ RetryOwes' = RetryOwes
        /\ WorkerOwes' = WorkerOwes
    BY <1>1 DEF QueueOwes, WorkerOwes, RetryOwes, BagToSet
  <1>3. Owing' = Owing  BY <1>2 DEF Owing
  <1>4. \A w \in WorkerOwes : wtask'[w] = wtask[w]  BY DEF WorkerOwes
  <1>5. StageLocal'  BY <1>1 DEF StageInv, StageLocal, BagToSet
  <1>6. OneTaskPerTarget'  BY <1>2, <1>4 DEF StageInv, OneTaskPerTarget
  <1>7. StageBound' /\ (StageBalance => StageBalance')
    BY <1>3 DEF StageInv, StageBound, StageBalance
  <1> QED  BY <1>5, <1>6, <1>7 DEF StageInv

-----------------------------------------------------------------------------
(* The actions that move tasks or the cycle *)

\* A task without a result channel is enqueued.
LEMMA EnqueueOther ==
  ASSUME TypeOK, TaskInv, StageInv, CycleNumbered, NEW t \in Task, t.stage = 0, EnqueueTask(t),
         ctxDone' = ctxDone, UNCHANGED <<retry, wpc, wtask, cycleVars, results>>
  PROVE  StageInv' /\ (StageBalance => StageBalance')
  <1>1. CASE normalQueue' = normalQueue  BY <1>1, StageFrame DEF cycleVars
  <1>2. CASE normalQueue' = Append(normalQueue, t)
    <2> USE DEF cycleVars
    <2> DEFINE l == Len(normalQueue) + 1
    <2>1. normalQueue \in Seq(Task)  BY DEF TypeOK
    <2>2. /\ DOMAIN normalQueue' = DOMAIN normalQueue \cup {l}
          /\ l \notin DOMAIN normalQueue
          /\ normalQueue'[l] = t
          /\ \A i \in DOMAIN normalQueue : normalQueue'[i] = normalQueue[i]
      BY <1>2, <2>1, AppendElements
    <2> HIDE DEF l
    <2>3. Stage' = Stage /\ (cpc = "stage" => Stage # 0)
      BY StagePositive DEF Stage, CycleNumbered, TypeOK
    <2>4. cpc = "stage" => QueueOwes' = QueueOwes  BY <2>2, <2>3 DEF QueueOwes
    <2>5. RetryOwes' = RetryOwes /\ WorkerOwes' = WorkerOwes
      BY <2>3 DEF RetryOwes, WorkerOwes, BagToSet
    <2>6. StageLocal'  BY <2>2, <2>3 DEF StageInv, StageLocal, BagToSet
    <2>7. OneTaskPerTarget'
      <3>1. \A i \in QueueOwes : normalQueue'[i] = normalQueue[i]  BY <2>2 DEF QueueOwes
      <3> QED  BY <2>4, <2>5, <3>1 DEF StageInv, OneTaskPerTarget
    <2>8. StageBound' /\ (StageBalance => StageBalance')
      BY <2>4, <2>5 DEF StageInv, StageBound, StageBalance, Owing
    <2> QED  BY <2>6, <2>7, <2>8 DEF StageInv
  <1> QED  BY <1>1, <1>2, EnqueueEffect

\* A worker takes a task that has no result channel.
LEMMA TakeOther ==
  ASSUME TypeOK, TaskInv, StageInv, CycleNumbered, NEW w \in Worker, NEW t \in Task, t.stage = 0,
         Take(w, t), ~ctxDone, ctxDone' = ctxDone, wpc[w] \in {"outer", "inner"},
         UNCHANGED <<normalQueue, retry, cycleVars, results>>
  PROVE  StageInv' /\ (StageBalance => StageBalance')
  <1> USE DEF cycleVars
  <1>1. Stage' = Stage /\ (cpc = "stage" => Stage # 0)
    BY StagePositive DEF Stage, CycleNumbered, TypeOK
  <1>2. QueueOwes' = QueueOwes /\ RetryOwes' = RetryOwes
    BY <1>1 DEF QueueOwes, RetryOwes, BagToSet
  <1>3. /\ wpc[w] \notin Busy /\ wtask'[w] = t
        /\ \A v \in Worker \ {w} : wpc'[v] = wpc[v] /\ wtask'[v] = wtask[v]
    BY TakeEffect DEF Busy
  <1>4. cpc = "stage" => WorkerOwes' = WorkerOwes  BY <1>1, <1>3 DEF WorkerOwes
  <1>5. \A v \in WorkerOwes : wtask'[v] = wtask[v]  BY <1>3 DEF WorkerOwes
  <1>6. StageLocal'  BY <1>1, <1>3 DEF StageInv, StageLocal, BagToSet
  <1>7. OneTaskPerTarget'  BY <1>2, <1>4, <1>5 DEF StageInv, OneTaskPerTarget
  <1>8. StageBound' /\ (StageBalance => StageBalance')
    BY <1>2, <1>4 DEF StageInv, StageBound, StageBalance, Owing
  <1> QED  BY <1>6, <1>7, <1>8 DEF StageInv

\* A worker takes the head of the normal queue: what it owes moves with it.
LEMMA TakeNormalStage ==
  ASSUME TypeOK, TaskInv, StageInv, NEW w \in Worker, TakeNormal(w), ~ctxDone
  PROVE  StageInv' /\ (StageBalance => StageBalance')
  <1> USE DEF cycleVars
  <1> DEFINE h == Head(normalQueue)
  <1>1. /\ wpc[w] = "inner" /\ Take(w, h)
        /\ ctxDone' = ctxDone
        /\ UNCHANGED <<cpc, cycleSeq, round, tags, todo, expected, results, retry>>
    BY DEF TakeNormal
  <1>2. normalQueue \in Seq(Task) /\ normalQueue # <<>> /\ normalQueue' = Tail(normalQueue)
    BY DEF TakeNormal, TypeOK
  <1>3. /\ h = normalQueue[1] /\ 1 \in DOMAIN normalQueue /\ h \in Task
        /\ \A i \in DOMAIN normalQueue' :
              i + 1 \in DOMAIN normalQueue /\ i \in Nat \ {0} /\ normalQueue'[i] = normalQueue[i + 1]
    BY <1>2, TailElements
  <1>4. Stage' = Stage  BY <1>1 DEF Stage
  <1>5. /\ QueueOwes = StageAt(normalQueue, Stage)
        /\ QueueOwes' = StageAt(Tail(normalQueue), Stage)
    BY <1>2, <1>4 DEF QueueOwes, StageAt
  <1>6. Cardinality(QueueOwes') =
            IF h.stage = Stage THEN Cardinality(QueueOwes) - 1 ELSE Cardinality(QueueOwes)
    BY <1>2, <1>5, TailCount
  <1>7. \A i \in QueueOwes' : i \in Nat /\ i + 1 \in QueueOwes /\ i + 1 # 1
                              /\ normalQueue'[i] = normalQueue[i + 1]
    BY <1>3, <1>4 DEF QueueOwes
  <1>8. h.stage = Stage <=> 1 \in QueueOwes  BY <1>3 DEF QueueOwes
  <1> HIDE DEF h
  <1>9. /\ wpc'[w] \in Busy /\ wpc[w] \notin Busy /\ wtask'[w] = h
        /\ \A v \in Worker \ {w} : wpc'[v] = wpc[v] /\ wtask'[v] = wtask[v]
    BY <1>1, <1>3, TakeEffect DEF Busy
  <1>10. WorkerOwes' = IF h.stage = Stage THEN WorkerOwes \cup {w} ELSE WorkerOwes
    BY <1>4, <1>9 DEF WorkerOwes
  <1>11. RetryOwes' = RetryOwes  BY <1>1, <1>4 DEF RetryOwes, BagToSet
  <1>12. w \notin WorkerOwes /\ \A v \in WorkerOwes : wtask'[v] = wtask[v]
    BY <1>9 DEF WorkerOwes
  <1>13. StageLocal'
    BY <1>1, <1>3, <1>4, <1>9 DEF StageInv, StageLocal, BagToSet
  <1>14. OneTaskPerTarget'
    BY <1>1, <1>3, <1>7, <1>8, <1>9, <1>10, <1>11, <1>12 DEF StageInv, OneTaskPerTarget
  <1>15. Owing' = Owing
    <2>1. IsFiniteSet(WorkerOwes)  BY OwesFinite
    <2>2. Cardinality(WorkerOwes') =
              IF h.stage = Stage THEN Cardinality(WorkerOwes) + 1 ELSE Cardinality(WorkerOwes)
      BY <1>10, <1>12, <2>1, FS_AddElement
    <2> QED  BY <1>6, <1>11, <2>2, OwesFinite DEF Owing
  <1>16. StageBound' /\ (StageBalance => StageBalance')
    BY <1>1, <1>15 DEF StageInv, StageBound, StageBalance
  <1> QED  BY <1>13, <1>14, <1>16 DEF StageInv

\* A worker puts its task off: what it owes stays with the task.
LEMMA PostponeStage ==
  ASSUME TypeOK, TaskHeld, TaskInv, StageInv, NEW w \in Worker, Postpone(w), ~ctxDone
  PROVE  StageInv' /\ (StageBalance => StageBalance')
  <1> DEFINE h == wtask[w]
  <1>1. /\ wpc[w] \in Busy /\ wpc'[w] \notin Busy /\ h \in Task /\ AddsOne(retry, retry', h)
        /\ \A v \in Worker \ {w} : wpc'[v] = wpc[v] /\ wtask'[v] = wtask[v]
        /\ UNCHANGED <<ctxDone, normalQueue, cpc, cycleSeq, round, tags, todo, expected, results>>
    BY PostponeEffect DEF Busy
  <1>2. Stage' = Stage  BY <1>1 DEF Stage
  <1>3. QueueOwes' = QueueOwes  BY <1>1, <1>2 DEF QueueOwes
  <1>4. WorkerOwes' = WorkerOwes \ {w} /\ (w \in WorkerOwes <=> h.stage = Stage)
    BY <1>1, <1>2 DEF WorkerOwes
  <1>5. \A v \in WorkerOwes' : v # w /\ wtask'[v] = wtask[v]  BY <1>1, <1>4 DEF WorkerOwes
  <1> HIDE DEF h
  <1>6. RetryOwes' = IF h.stage = Stage THEN RetryOwes \cup {h} ELSE RetryOwes
    BY <1>1, <1>2 DEF RetryOwes, BagToSet, AddsOne
  <1>7. cpc = "stage" /\ h.stage = Stage =>
            /\ h \notin RetryOwes
            /\ \A u \in RetryOwes : u.tag # h.tag
            /\ h.tag \notin todo
            /\ \A v \in WorkerOwes' : wtask'[v].tag # h.tag
            /\ \A i \in QueueOwes : normalQueue[i].tag # h.tag
    BY <1>4, <1>5 DEF StageInv, OneTaskPerTarget, h
  <1>8. StageLocal'
    <2>1. ~ctxDone => h.stage \in {0} \cup (IF cpc = "stage" THEN {Stage} ELSE {})
      BY <1>1 DEF StageInv, StageLocal, h
    <2> QED  BY <1>1, <1>2, <2>1 DEF StageInv, StageLocal, BagToSet, AddsOne
  <1>9. OneTaskPerTarget'
    <2>1. \A u \in RetryOwes : u # h => retry'[u] = retry[u]
      BY <1>1 DEF RetryOwes, BagToSet, AddsOne
    <2>2. cpc = "stage" /\ h.stage = Stage => retry'[h] = 1
      BY <1>1, <1>7 DEF RetryOwes, BagToSet, AddsOne
    <2>3. h.stage # Stage => h \notin RetryOwes  BY DEF RetryOwes
    <2> QED  BY <1>1, <1>3, <1>4, <1>5, <1>6, <1>7, <2>1, <2>2, <2>3
             DEF StageInv, OneTaskPerTarget
  <1>10. cpc = "stage" => Owing' = Owing
    <2> SUFFICES ASSUME cpc = "stage" PROVE Owing' = Owing  OBVIOUS
    <2>1. Cardinality(RetryOwes') =
              IF h.stage = Stage THEN Cardinality(RetryOwes) + 1 ELSE Cardinality(RetryOwes)
      BY <1>6, <1>7, OwesFinite, FS_AddElement
    <2>2. Cardinality(WorkerOwes') =
              IF h.stage = Stage THEN Cardinality(WorkerOwes) - 1 ELSE Cardinality(WorkerOwes)
      BY <1>4, OwesFinite, FS_RemoveElement
    <2> QED  BY <1>3, <2>1, <2>2, OwesFinite DEF Owing
  <1>11. StageBound' /\ (StageBalance => StageBalance')
    BY <1>1, <1>10 DEF StageInv, StageBound, StageBalance
  <1> QED  BY <1>8, <1>9, <1>11 DEF StageInv

\* A worker reports: the channel has room for its result, so none is dropped.
LEMMA ReportStage ==
  ASSUME TypeOK, TaskInv, StageInv, CycleNumbered, NEW w \in Worker, Report(w), ~ctxDone
  PROVE  StageInv' /\ (StageBalance => StageBalance')
  <1> USE DEF cycleVars
  <1>1. /\ wpc[w] \in {"passed", "failed"} /\ wpc' = [wpc EXCEPT ![w] = "end"]
        /\ ctxDone' = ctxDone
        /\ UNCHANGED <<cpc, cycleSeq, round, tags, todo, expected, retry, wtask, normalQueue>>
    BY DEF Report, queueVars
  <1>2. Stage' = Stage  BY <1>1 DEF Stage
  <1>3. QueueOwes' = QueueOwes /\ RetryOwes' = RetryOwes /\ WorkerOwes' = WorkerOwes \ {w}
    BY <1>1, <1>2 DEF QueueOwes, RetryOwes, WorkerOwes, BagToSet, TypeOK, Busy
  <1>4. w \in WorkerOwes <=> wtask[w].stage = Stage  BY <1>1 DEF WorkerOwes, Busy
  <1>5. StageLocal'  BY <1>1, <1>2 DEF StageInv, StageLocal, BagToSet, TypeOK, Busy
  <1>6. OneTaskPerTarget'  BY <1>1, <1>3 DEF StageInv, OneTaskPerTarget
  <1>7. cpc = "stage" => Len(results') + Owing' = Len(results) + Owing
    <2> SUFFICES ASSUME cpc = "stage" PROVE Len(results') + Owing' = Len(results) + Owing
      OBVIOUS
    <2>1. CASE wtask[w].stage = Stage
      <3>1. Cardinality(WorkerOwes) > 0
        <4>1. WorkerOwes # {}  BY <1>4, <2>1
        <4> QED  BY <4>1, OwesFinite, FS_EmptySet
      <3>2. Len(results) < Cardinality(tags)
        BY <3>1, OwesFinite DEF StageInv, StageBound, Owing
      <3>3. results' = Append(results, wpc[w] = "passed")  BY <2>1, <3>2 DEF Report
      <3>4. results \in Seq(BOOLEAN) /\ (wpc[w] = "passed") \in BOOLEAN  BY Zenon DEF TypeOK
      <3>5. Len(results') = Len(results) + 1  BY <3>3, <3>4, AppendProperties, Zenon
      <3>6. Owing' = Owing - 1
        <4>1. IsFiniteSet(WorkerOwes) /\ w \in WorkerOwes  BY <1>4, <2>1, OwesFinite
        <4>2. Cardinality(WorkerOwes') = Cardinality(WorkerOwes) - 1
          BY <1>3, <4>1, FS_RemoveElement
        <4> QED  BY <1>3, <4>2, OwesFinite DEF Owing
      <3>7. Owing \in Nat  BY OwesFinite DEF Owing
      <3> QED  BY <3>5, <3>6, <3>7, OwesFinite
    <2>2. CASE wtask[w].stage # Stage
      <3>1. results' = results  BY <2>2 DEF Report
      <3>2. WorkerOwes' = WorkerOwes  BY <1>3, <1>4, <2>2
      <3> QED  BY <1>3, <3>1, <3>2 DEF Owing
    <2> QED  BY <2>1, <2>2
  <1>8. StageBound' /\ (StageBalance => StageBalance')
    BY <1>1, <1>7 DEF StageInv, StageBound, StageBalance
  <1> QED  BY <1>5, <1>6, <1>8 DEF StageInv

\* A postponed task wakes up: it is queued again, or it is gone.
LEMMA RetryStage ==
  ASSUME TypeOK, TaskInv, StageInv, CycleNumbered, NEW t \in BagToSet(retry), Retry(t), ~ctxDone
  PROVE  StageInv'
  <1> USE DEF cycleVars
  <1> DEFINE n == [t EXCEPT !.cycle = @ + 1]
             l == Len(normalQueue) + 1
  <1>1. /\ ctxDone' = ctxDone
        /\ UNCHANGED <<cpc, cycleSeq, round, tags, todo, expected, results, wpc, wtask>>
    BY DEF Retry, workerVars
  <1>2. /\ DropsOne(retry, retry', t) /\ t \in Task /\ t \in DOMAIN retry
        /\ n \in Task /\ n.tag = t.tag /\ n.stage = t.stage /\ EnqueueTask(n)
    BY RetryEffect
  <1> HIDE DEF n
  <1>3. normalQueue' = normalQueue \/ normalQueue' = Append(normalQueue, n)
    BY <1>2, EnqueueEffect
  <1>4. Stage' = Stage  BY <1>1 DEF Stage
  <1>5. WorkerOwes' = WorkerOwes  BY <1>1, <1>4 DEF WorkerOwes
  <1>6. normalQueue \in Seq(Task)  BY DEF TypeOK
  <1>7. /\ DOMAIN Append(normalQueue, n) = DOMAIN normalQueue \cup {l}
        /\ l \notin DOMAIN normalQueue
        /\ Append(normalQueue, n)[l] = n
        /\ \A i \in DOMAIN normalQueue : Append(normalQueue, n)[i] = normalQueue[i]
    BY <1>2, <1>6, AppendElements
  <1> HIDE DEF l
  <1>8. StageLocal'
    <2>1. DOMAIN retry' \subseteq DOMAIN retry  BY <1>2 DEF DropsOne
    <2> QED  BY <1>1, <1>2, <1>3, <1>4, <1>7, <2>1 DEF StageInv, StageLocal, BagToSet
  <1>9. CASE t.stage # Stage \/ cpc # "stage"
    <2>1. cpc = "stage" => QueueOwes' = QueueOwes
      BY <1>2, <1>3, <1>4, <1>7, <1>9 DEF QueueOwes
    <2>2. cpc = "stage" => RetryOwes' = RetryOwes
      BY <1>2, <1>4, <1>9 DEF RetryOwes, BagToSet, DropsOne
    <2>3. /\ \A i \in QueueOwes : normalQueue'[i] = normalQueue[i]
          /\ cpc = "stage" => \A u \in RetryOwes : retry'[u] = retry[u]
      BY <1>2, <1>3, <1>7, <1>9 DEF QueueOwes, RetryOwes, BagToSet, DropsOne
    <2>4. OneTaskPerTarget'
      BY <1>1, <1>5, <2>1, <2>2, <2>3 DEF StageInv, OneTaskPerTarget
    <2>5. StageBound'
      BY <1>1, <1>5, <2>1, <2>2 DEF StageInv, StageBound, Owing
    <2> QED  BY <1>8, <2>4, <2>5 DEF StageInv
  <1>10. CASE t.stage = Stage /\ cpc = "stage"
    <2>1. t \in RetryOwes /\ retry[t] = 1
      BY <1>2, <1>10 DEF RetryOwes, BagToSet, StageInv, OneTaskPerTarget
    <2>2. RetryOwes' = RetryOwes \ {t}
      BY <1>2, <1>4, <2>1 DEF RetryOwes, BagToSet, DropsOne
    <2>3. \A u \in RetryOwes' : retry'[u] = retry[u]
      BY <1>2, <2>2 DEF RetryOwes, BagToSet, DropsOne
    <2>4. /\ QueueOwes' = QueueOwes \/ (QueueOwes' = QueueOwes \cup {l} /\ normalQueue'[l] = n)
          /\ l \notin QueueOwes
          /\ \A i \in QueueOwes : normalQueue'[i] = normalQueue[i]
      BY <1>2, <1>3, <1>4, <1>7, <1>10 DEF QueueOwes
    <2>5. OneTaskPerTarget'
      BY <1>1, <1>2, <1>5, <1>10, <2>1, <2>2, <2>3, <2>4 DEF StageInv, OneTaskPerTarget
    <2>6. Owing' <= Owing
      <3>1. Cardinality(RetryOwes') = Cardinality(RetryOwes) - 1
        BY <2>1, <2>2, OwesFinite, FS_RemoveElement
      <3>2. /\ Cardinality(QueueOwes') <= Cardinality(QueueOwes) + 1
            /\ Cardinality(QueueOwes') \in Nat
        <4>1. IsFiniteSet(QueueOwes) /\ Cardinality(QueueOwes) \in Nat  BY OwesFinite
        <4>2. Cardinality(QueueOwes \cup {l}) = Cardinality(QueueOwes) + 1
          BY <2>4, <4>1, FS_AddElement
        <4>3. CASE QueueOwes' = QueueOwes  BY <4>1, <4>3
        <4>4. CASE QueueOwes' = QueueOwes \cup {l}  BY <4>1, <4>2, <4>4
        <4> QED  BY <2>4, <4>3, <4>4
      <3> QED  BY <1>5, <3>1, <3>2, OwesFinite DEF Owing
    <2>7. Owing' \in Nat /\ Owing \in Nat
      <3>1. IsFiniteSet(QueueOwes') /\ IsFiniteSet(RetryOwes')
        BY <2>2, <2>4, OwesFinite, FS_AddElement, FS_RemoveElement
      <3> QED  BY <1>5, <3>1, OwesFinite, FS_CardinalityType DEF Owing
    <2>8. StageBound'
      BY <1>1, <1>10, <2>6, <2>7, OwesFinite DEF StageInv, StageBound
    <2> QED  BY <1>8, <2>5, <2>8 DEF StageInv
  <1> QED  BY <1>9, <1>10

\* runStage enqueues the task of a target, which had none of this stage.
LEMMA EnqueueStage ==
  ASSUME TypeOK, TaskInv, StageInv, CycleNumbered, NEW o \in Outbound, StageEnqueue(o), ~ctxDone
  PROVE  StageInv' /\ (StageBalance => StageBalance')
  <1> DEFINE t == [tag |-> o, cycle |-> cycleSeq, priority |-> FALSE, stage |-> Stage]
             l == Len(normalQueue) + 1
  <1>1. /\ cpc = "stage" /\ o \in todo /\ todo' = todo \ {o}
        /\ EnqueueTask(t)
        /\ expected' = IF Enqueued(t) THEN expected + 1 ELSE expected
        /\ ctxDone' = ctxDone
        /\ UNCHANGED <<retry, wpc, wtask, cpc, cycleSeq, round, tags, results>>
    BY DEF StageEnqueue, workerVars
  <1>2. Stage' = Stage  BY <1>1 DEF Stage
  <1>3. t \in Task
    <2>1. cycleSeq \in Nat /\ cycleSeq > 0 /\ round \in Nat
      BY <1>1, SizeAssumption DEF CycleNumbered, TypeOK
    <2>2. Stage \in Nat  BY <2>1, StagePositive DEF Stage
    <2> QED  BY <2>1, <2>2 DEF Task
  <1>4. t.stage = Stage /\ t.tag = o /\ ~t.priority  OBVIOUS
  <1> HIDE DEF t
  <1>5. \/ normalQueue' = normalQueue /\ expected' = expected
        \/ normalQueue' = Append(normalQueue, t) /\ expected' = expected + 1
    <2>1. CASE Enqueued(t)
      BY <1>1, <1>4, <2>1 DEF Enqueued, EnqueueTask
    <2>2. CASE ~Enqueued(t)
      BY <1>1, <1>4, <2>2 DEF Enqueued, EnqueueTask, queueVars
    <2> QED  BY <2>1, <2>2
  <1>6. normalQueue \in Seq(Task)  BY DEF TypeOK
  <1>7. /\ DOMAIN Append(normalQueue, t) = DOMAIN normalQueue \cup {l}
        /\ l \notin DOMAIN normalQueue
        /\ Append(normalQueue, t)[l] = t
        /\ \A i \in DOMAIN normalQueue : Append(normalQueue, t)[i] = normalQueue[i]
    BY <1>3, <1>6, AppendElements
  <1> HIDE DEF l
  <1>8. WorkerOwes' = WorkerOwes /\ RetryOwes' = RetryOwes
    BY <1>1, <1>2 DEF WorkerOwes, RetryOwes, BagToSet
  <1>9. StageLocal'
    BY <1>1, <1>2, <1>4, <1>5, <1>7 DEF StageInv, StageLocal, BagToSet
  <1>10. Cardinality(todo') = Cardinality(todo) - 1
    BY <1>1, OwesFinite, FS_RemoveElement
  <1>11. CASE normalQueue' = normalQueue /\ expected' = expected
    <2>1. QueueOwes' = QueueOwes  BY <1>2, <1>11 DEF QueueOwes
    <2>2. OneTaskPerTarget'
      BY <1>1, <1>8, <1>11, <2>1 DEF StageInv, OneTaskPerTarget
    <2>3. Owing' = Owing  BY <1>8, <2>1 DEF Owing
    <2>4. StageBound' /\ (StageBalance => StageBalance')
      BY <1>1, <1>10, <1>11, <2>3, OwesFinite DEF StageInv, StageBound, StageBalance
    <2> QED  BY <1>9, <2>2, <2>4 DEF StageInv
  <1>12. CASE normalQueue' = Append(normalQueue, t) /\ expected' = expected + 1
    <2>1. /\ QueueOwes' = QueueOwes \cup {l} /\ l \notin QueueOwes /\ normalQueue'[l] = t
          /\ \A i \in QueueOwes : normalQueue'[i] = normalQueue[i]
      BY <1>2, <1>4, <1>7, <1>12 DEF QueueOwes
    <2>2. OneTaskPerTarget'
      BY <1>1, <1>4, <1>8, <2>1 DEF StageInv, OneTaskPerTarget
    <2>3. Owing' = Owing + 1 /\ Owing \in Nat
      <3>1. IsFiniteSet(QueueOwes) /\ Cardinality(QueueOwes) \in Nat  BY OwesFinite
      <3>2. Cardinality(QueueOwes') = Cardinality(QueueOwes) + 1
        BY <2>1, <3>1, FS_AddElement
      <3> QED  BY <1>8, <3>2, OwesFinite DEF Owing
    <2>4. StageBound' /\ (StageBalance => StageBalance')
      BY <1>1, <1>10, <1>12, <2>3, OwesFinite DEF StageInv, StageBound, StageBalance
    <2> QED  BY <1>9, <2>2, <2>4 DEF StageInv
  <1> QED  BY <1>5, <1>11, <1>12

\* runStage receives a result.
LEMMA ResultStage ==
  ASSUME TypeOK, TaskInv, StageInv, StageResult
  PROVE  StageInv' /\ (StageBalance => StageBalance')
  <1>1. /\ ctxDone' = ctxDone /\ expected > 0 /\ expected' = expected - 1
        /\ results # <<>> /\ results' = Tail(results)
        /\ UNCHANGED <<normalQueue, retry, wpc, wtask, cpc, cycleSeq, round, tags, todo>>
    BY DEF StageResult, queueVars, workerVars
  <1>2. Stage' = Stage  BY <1>1 DEF Stage
  <1>3. QueueOwes' = QueueOwes /\ WorkerOwes' = WorkerOwes /\ RetryOwes' = RetryOwes
    BY <1>1, <1>2 DEF QueueOwes, WorkerOwes, RetryOwes, BagToSet
  <1>4. Len(results') = Len(results) - 1
    <2>1. results \in Seq(BOOLEAN)  BY DEF TypeOK
    <2> QED  BY <1>1, <2>1, HeadTailProperties
  <1>5. Owing' = Owing /\ Owing \in Nat  BY <1>3, OwesFinite DEF Owing
  <1>6. StageLocal'  BY <1>1, <1>2 DEF StageInv, StageLocal, BagToSet
  <1>7. OneTaskPerTarget'  BY <1>1, <1>3 DEF StageInv, OneTaskPerTarget
  <1>8. StageBound' /\ (StageBalance => StageBalance')
    BY <1>1, <1>4, <1>5, OwesFinite DEF StageInv, StageBound, StageBalance
  <1> QED  BY <1>6, <1>7, <1>8 DEF StageInv

\* Nothing but tasks without a result channel is left.
NothingStaged ==
    /\ \A i \in DOMAIN normalQueue : normalQueue[i].stage = 0
    /\ \A w \in Worker : wpc[w] \in Busy => wtask[w].stage = 0
    /\ \A t \in BagToSet(retry) : t.stage = 0

\* A stage that begins, or a cycle that ends, when nothing is left.
LEMMA FreshStage ==
  ASSUME TypeOK, TypeOK', CycleNumbered', NothingStaged,
         UNCHANGED <<normalQueue, retry, wpc, wtask>>,
         EndCycle \/ \E S \in SUBSET Outbound, n \in 0..Urls-1 : EnterStage(S, n)
  PROVE  StageInv' /\ StageBalance'
  <1>1. NothingStaged'  BY DEF NothingStaged, BagToSet
  <1>2. CASE cpc' # "stage"
    <2>1. StageLocal'  BY <1>1, <1>2 DEF StageLocal, NothingStaged
    <2> QED  BY <1>2, <2>1 DEF StageInv, OneTaskPerTarget, StageBound, StageBalance
  <1>3. CASE cpc' = "stage"
    <2>1. todo' = tags' /\ expected' = 0 /\ results' = <<>>
      BY <1>3 DEF EnterStage, EndCycle
    <2>2. Stage' # 0
      <3>1. cycleSeq' \in Nat /\ cycleSeq' > 0  BY <1>3 DEF CycleNumbered, TypeOK
      <3>2. round' \in Nat  BY SizeAssumption DEF TypeOK
      <3> QED  BY <3>1, <3>2, StagePositive DEF Stage
    <2>3. QueueOwes' = {} /\ WorkerOwes' = {} /\ RetryOwes' = {}
      BY <1>1, <2>2 DEF QueueOwes, WorkerOwes, RetryOwes, NothingStaged
    <2>4. Owing' = 0  BY <2>3, FS_EmptySet DEF Owing
    <2>5. StageLocal'  BY <1>1 DEF StageLocal, NothingStaged
    <2>6. OneTaskPerTarget'  BY <2>3 DEF OneTaskPerTarget
    <2>7. Cardinality(tags') \in Nat
      BY FiniteAssumption, FS_Subset, FS_CardinalityType DEF TypeOK
    <2>8. Len(results') = 0  BY <2>1
    <2>9. StageBound' /\ StageBalance'
      BY <2>1, <2>4, <2>7, <2>8 DEF StageBound, StageBalance
    <2> QED  BY <2>5, <2>6, <2>9 DEF StageInv
  <1> QED  BY <1>2, <1>3

\* A cycle begins its first stage.
LEMMA CollectStage ==
  ASSUME TypeOK, TypeOK', CycleNumbered', StageInv, Collected, ~ctxDone
  PROVE  StageInv' /\ StageBalance'
  <1>1. UNCHANGED <<normalQueue, retry, wpc, wtask>>
    BY DEF Collected, queueVars, workerVars
  <1>2. NothingStaged
    BY DEF StageInv, StageLocal, NothingStaged, Collected
  <1>3. EndCycle \/ \E S \in SUBSET Outbound, n \in 0..Urls-1 : EnterStage(S, n)
    <2>1. tags \in SUBSET Outbound  BY DEF TypeOK
    <2>2. 0 \in 0..Urls-1  BY SizeAssumption
    <2> QED  BY <2>1, <2>2 DEF Collected
  <1> QED  BY <1>1, <1>2, <1>3, FreshStage

\* A stage ends: it has received what it was owed.
LEMMA EndStage ==
  ASSUME TypeOK, TypeOK', TaskInv, CycleNumbered', StageInv, StageEnd, ~ctxDone
  PROVE  StageInv' /\ StageBalance'
  <1>1. UNCHANGED <<normalQueue, retry, wpc, wtask>>
    BY DEF StageEnd, queueVars, workerVars
  <1>2. NothingStaged
    <2>1. cpc = "stage" /\ expected = 0  BY DEF StageEnd
    <2>2. Owing = 0 /\ Owing \in Nat
      BY <2>1, OwesFinite DEF StageInv, StageBound, Owing
    <2>3. /\ Cardinality(QueueOwes) = 0 /\ Cardinality(WorkerOwes) = 0
          /\ Cardinality(RetryOwes) = 0
      BY <2>2, OwesFinite DEF Owing
    <2>4. QueueOwes = {} /\ WorkerOwes = {} /\ RetryOwes = {}
      BY <2>3, OwesFinite, FS_EmptySet
    <2> QED  BY <2>1, <2>4 DEF StageInv, StageLocal, NothingStaged, QueueOwes, WorkerOwes, RetryOwes
  <1>3. EndCycle \/ \E S \in SUBSET Outbound, n \in 0..Urls-1 : EnterStage(S, n)
    <2>1. CASE round # Urls - 1 /\ EnterStage(tags, round + 1)
      <3>1. round \in 0..Urls-1 /\ tags \in SUBSET Outbound  BY DEF TypeOK
      <3>2. round + 1 \in 0..Urls-1  BY <2>1, <3>1, SizeAssumption
      <3> QED  BY <2>1, <3>1, <3>2
    <2> QED  BY <2>1 DEF StageEnd
  <1> QED  BY <1>1, <1>2, <1>3, FreshStage

-----------------------------------------------------------------------------
(* Stages do not mix, and none waits for a result that cannot come *)

\* Every step but a postponed task's return also keeps the balance.
LEMMA StageStep ==
  ASSUME TypeOK, TypeOK', CycleNumbered, CycleNumbered', TaskHeld, TaskInv, StageInv, [Next]_vars, ~ctxDone'
  PROVE  StageInv' /\ (StageBalance /\ retry = EmptyBag => StageBalance')
  <1> USE DEF cycleVars
  <1>1. ~ctxDone /\ ctxDone' = ctxDone
    <2>1. ctxDone' = ctxDone \/ ctxDone'
      BY Zenon DEF Next, InvalidateTest, TestNow, TestNowGroup, CallStep, BuildTask, EnqueueCall,
             WorkerStep, TakePriority, NoPriority, TakeNormal, WorkerExit, ApplyResult, Report,
             EndTask, Postpone, RetryStep, Retry, StartCycleOnce, CycleStep, CollectTarget, Collected,
             StageEnqueue, StageResult, StageEnd, BecomeReady, Age, Close, vars
    <2> QED  BY <2>1
  <1>2. CASE UNCHANGED vars
    BY <1>2, StageFrame DEF vars, queueVars, workerVars
  <1>3. ASSUME NEW k \in Caller,
               \/ \E o \in Outbound : InvalidateTest(k, o) \/ TestNow(k, o)
               \/ \E g \in Group : TestNowGroup(k, g)
               \/ \E r \in pend[k] : BuildTask(k, r)
        PROVE  StageInv' /\ (StageBalance => StageBalance')
    BY <1>3, StageFrame
       DEF InvalidateTest, TestNow, TestNowGroup, BuildTask, queueVars, workerVars
  <1>4. ASSUME NEW k \in Caller, EnqueueCall(k)
        PROVE  StageInv' /\ (StageBalance => StageBalance')
    <2>1. cur[k] \in Task /\ cur[k].stage = 0  BY <1>4 DEF EnqueueCall, TypeOK, TaskInv
    <2>2. EnqueueTask(cur[k]) /\ UNCHANGED <<retry, wpc, wtask, cycleVars, results>>
      BY <1>4 DEF EnqueueCall, workerVars
    <2> QED  BY <1>1, <2>1, <2>2, EnqueueOther
  <1>5. ASSUME NEW w \in Worker, WorkerStep(w)
        PROVE  StageInv' /\ (StageBalance => StageBalance')
    <2>1. CASE TakePriority(w)
      <3>1. priorityQueue \in Seq(Task) /\ priorityQueue # <<>>  BY <2>1 DEF TakePriority, TypeOK
      <3>2. Head(priorityQueue) \in Task /\ Head(priorityQueue).stage = 0
        BY <3>1, TailElements DEF TaskInv
      <3>3. /\ Take(w, Head(priorityQueue)) /\ wpc[w] \in {"outer", "inner"}
            /\ UNCHANGED <<normalQueue, retry, cycleVars, results>>
        BY <2>1 DEF TakePriority
      <3> QED  BY <1>1, <3>2, <3>3, TakeOther
    <2>2. CASE TakeNormal(w)  BY <1>1, <2>2, TakeNormalStage
    <2>3. CASE Report(w)  BY <1>1, <2>3, ReportStage
    <2>4. CASE NoPriority(w)  BY <2>4, StageFrame DEF NoPriority, queueVars, TypeOK, Busy
    <2>5. ASSUME NEW ok \in BOOLEAN, ApplyResult(w, ok)
          PROVE  StageInv' /\ (StageBalance => StageBalance')
      BY <2>5, StageFrame DEF ApplyResult, queueVars, TypeOK, Busy
    <2>6. CASE EndTask(w)
      BY <1>1, <2>6, StageFrame DEF EndTask, Leave, queueVars, TypeOK, Busy
    <2>7. CASE Postpone(w)  BY <1>1, <2>7, PostponeStage
    <2> QED  BY <1>1, <1>5, <2>1, <2>2, <2>3, <2>4, <2>5, <2>6, <2>7 DEF WorkerStep, WorkerExit
  <1>6. ASSUME NEW t \in BagToSet(retry), Retry(t)
        PROVE  StageInv' /\ retry # EmptyBag
    <2>1. StageInv'  BY <1>1, <1>6, RetryStage
    <2>2. BagToSet(EmptyBag) = {}  BY DEF EmptyBag, BagToSet, SetToBag
    <2> QED  BY <2>1, <2>2
  <1>7. CASE StartCycleOnce
    <2>1. StageLocal'
      BY <1>1, <1>7 DEF StageInv, StageLocal, StartCycleOnce, queueVars, workerVars, BagToSet
    <2> QED  BY <1>7, <2>1 DEF StageInv, OneTaskPerTarget, StageBound, StageBalance, StartCycleOnce
  <1>8. CASE CycleStep
    <2>1. ASSUME NEW o \in Outbound, CollectTarget(o)
          PROVE  StageInv' /\ (StageBalance => StageBalance')
      <3>1. StageLocal'
        BY <1>1, <2>1 DEF StageInv, StageLocal, CollectTarget, queueVars, workerVars, BagToSet
      <3> QED  BY <2>1, <3>1 DEF StageInv, OneTaskPerTarget, StageBound, StageBalance, CollectTarget
    <2> QED  BY <1>1, <1>8, <2>1, CollectStage, EnqueueStage, ResultStage, EndStage DEF CycleStep
  <1>9. ASSUME NEW o \in Outbound, BecomeReady(o) \/ Age(o)
        PROVE  StageInv' /\ (StageBalance => StageBalance')
    BY <1>9, StageFrame DEF BecomeReady, Age, queueVars, workerVars
  <1> QED  BY <1>1, <1>2, <1>3, <1>4, <1>5, <1>6, <1>7, <1>8, <1>9 DEF Next, CallStep, RetryStep, Close

\* No task of an earlier stage is left, a target has one task of the running
\* stage, and no more results come than runStage waits for; whatever outbounds
\* are not ready, whoever calls in and however full the queues are.
THEOREM StageIsClosed == Spec => [](TaskInv /\ StageInv)
  <1>1. Init => TaskInv /\ StageInv
    <2> SUFFICES ASSUME Init PROVE TaskInv /\ StageInv  OBVIOUS
    <2>1. BagToSet(retry) = {}  BY DEF Init, EmptyBag, SetToBag, BagToSet
    <2>2. TaskInv  BY <2>1, FS_EmptySet DEF Init, TaskInv
    <2>3. StageInv  BY <2>1 DEF Init, StageInv, StageLocal, OneTaskPerTarget, StageBound, Busy
    <2> QED  BY <2>2, <2>3
  <1>2. /\ TypeOK /\ TypeOK' /\ CycleNumbered /\ CycleNumbered'
        /\ TaskHeld /\ TaskInv /\ StageInv /\ [Next]_vars
        => TaskInv' /\ StageInv'
    <2> SUFFICES ASSUME TypeOK, TypeOK', CycleNumbered, CycleNumbered', TaskHeld, TaskInv, StageInv,
                        [Next]_vars
                 PROVE  TaskInv' /\ StageInv'
      OBVIOUS
    <2>1. CASE ctxDone'
      BY <2>1, TaskStep DEF StageInv, StageLocal, OneTaskPerTarget, StageBound
    <2>2. CASE ~ctxDone'  BY <2>2, TaskStep, StageStep
    <2> QED  BY <2>1, <2>2
  <1> QED  BY <1>1, <1>2, MonitorTypeCorrect, PTL DEF Spec

\* By the time a stage starts its predecessors are settled: no queued, running
\* or postponed task has the result channel of another stage.
THEOREM StagesDoNotMix == Spec => []NoStragglers
  <1>1. TaskInv /\ StageInv => NoStragglers
    BY DEF TaskInv, StageInv, StageLocal, NoStragglers, QueuedTasks, RunningTasks, Busy
  <1> QED  BY <1>1, StageIsClosed, PTL

\* The channel made by runStage has room for every result that is still owed,
\* so executeTask's send never takes the default case.
THEOREM ResultsFit ==
  Spec => [](~ctxDone /\ cpc = "stage" /\ WorkerOwes # {} => Len(results) < Cardinality(tags))
  <1>1. ASSUME TypeOK, TaskInv, StageInv, ~ctxDone, cpc = "stage", WorkerOwes # {}
        PROVE  Len(results) < Cardinality(tags)
    <2>1. Cardinality(WorkerOwes) > 0  BY <1>1, OwesFinite, FS_EmptySet
    <2> QED  BY <1>1, <2>1, OwesFinite DEF StageInv, StageBound, Owing
  <1>2. TypeOK /\ TaskInv /\ StageInv =>
            (~ctxDone /\ cpc = "stage" /\ WorkerOwes # {} => Len(results) < Cardinality(tags))
    BY <1>1
  <1> QED  BY <1>2, MonitorTypeCorrect, StageIsClosed, PTL

\* Outbounds that are ready from the start stay so, and no test of theirs is
\* postponed.
ReadyInv ==
    /\ Outbound \ NotReady \subseteq ready
    /\ \A w \in Worker : wpc[w] = "postpone" => wtask[w].tag \in NotReady
    /\ NotReady = {} => retry = EmptyBag

\* No step makes an outbound not ready, and only an unready one is postponed.
LEMMA ReadyStep ==
  ASSUME TypeOK, ReadyInv, [Next]_vars
  PROVE  ReadyInv'
  <1>1. Outbound \ NotReady \subseteq ready'
    <2>1. UNCHANGED ready \/ \E o \in Outbound : ready' = ready \cup {o}
      BY Zenon DEF Next, InvalidateTest, TestNow, TestNowGroup, CallStep, BuildTask, EnqueueCall,
             WorkerStep, TakePriority, NoPriority, TakeNormal, WorkerExit, ApplyResult, Report,
             EndTask, Postpone, RetryStep, Retry, StartCycleOnce, CycleStep, CollectTarget, Collected,
             StageEnqueue, StageResult, StageEnd, BecomeReady, Age, Close, vars
    <2> QED  BY <2>1 DEF ReadyInv
  <1>2. \A v \in Worker : wpc'[v] = "postpone" => wtask'[v].tag \in NotReady
    <2> DEFINE Kept == \A v \in Worker : wpc'[v] = "postpone" => wtask'[v].tag \in NotReady
    <2>1. ASSUME NEW w \in Worker, NEW t \in Task, Take(w, t) PROVE Kept
      <3>1. CASE ctxDone  BY <2>1, <3>1 DEF Take, TypeOK, ReadyInv
      <3>2. CASE ~ctxDone
        <4>1. t.tag \notin ready => t.tag \in NotReady  BY DEF ReadyInv, Task
        <4> QED  BY <2>1, <3>2, <4>1, TakeEffect DEF ReadyInv
      <3> QED  BY <3>1, <3>2
    <2>2. ASSUME NEW w \in Worker, TakePriority(w) PROVE Kept
      <3>1. Head(priorityQueue) \in Task
        BY <2>2, TailElements DEF TakePriority, TypeOK
      <3> QED  BY <2>1, <2>2, <3>1 DEF TakePriority
    <2>3. ASSUME NEW w \in Worker, TakeNormal(w) PROVE Kept
      <3>1. Head(normalQueue) \in Task
        BY <2>3, TailElements DEF TakeNormal, TypeOK
      <3> QED  BY <2>1, <2>3, <3>1 DEF TakeNormal
    <2>4. ASSUME NEW w \in Worker, NoPriority(w) \/ WorkerExit(w) \/ Report(w) PROVE Kept
      BY <2>4 DEF NoPriority, WorkerExit, Report, TypeOK, ReadyInv
    <2>5. ASSUME NEW w \in Worker, EndTask(w) \/ Postpone(w) PROVE Kept
      BY <2>5 DEF EndTask, Postpone, Leave, TypeOK, ReadyInv
    <2>6. ASSUME NEW w \in Worker, NEW ok \in BOOLEAN, ApplyResult(w, ok) PROVE Kept
      BY <2>6 DEF ApplyResult, TypeOK, ReadyInv
    <2>7. ASSUME NEW w \in Worker, WorkerStep(w) PROVE Kept
      BY <2>2, <2>3, <2>4, <2>5, <2>6, <2>7 DEF WorkerStep
    <2>8. ASSUME UNCHANGED workerVars PROVE Kept  BY <2>8 DEF ReadyInv, workerVars
    <2>9. UNCHANGED workerVars \/ \E w \in Worker : WorkerStep(w)
      BY Zenon
         DEF Next, InvalidateTest, TestNow, TestNowGroup, CallStep, BuildTask, EnqueueCall,
             RetryStep, Retry, StartCycleOnce, CycleStep, CollectTarget, Collected, StageEnqueue,
             StageResult, StageEnd, BecomeReady, Age, Close, vars
    <2> QED  BY <2>7, <2>8, <2>9, Zenon
  <1>3. ASSUME NotReady = {} PROVE retry' = EmptyBag
    <2>1. retry = EmptyBag /\ BagToSet(retry) = {}
      BY <1>3 DEF ReadyInv, EmptyBag, BagToSet, SetToBag
    <2>2. \A w \in Worker : ~Postpone(w)  BY <1>3 DEF ReadyInv, Postpone
    <2>3. UNCHANGED retry
      BY <2>1, <2>2, Zenon
         DEF Next, InvalidateTest, TestNow, TestNowGroup, CallStep, BuildTask, EnqueueCall,
             WorkerStep, TakePriority, NoPriority, TakeNormal, WorkerExit, ApplyResult, Report,
             EndTask, RetryStep, StartCycleOnce, CycleStep, CollectTarget, Collected, StageEnqueue,
             StageResult, StageEnd, BecomeReady, Age, Close, vars
    <2> QED  BY <2>1, <2>3
  <1> QED  BY <1>1, <1>2, <1>3 DEF ReadyInv

\* Readiness is never lost.
THEOREM ReadyStaysReady == Spec => []ReadyInv
  <1>1. Init => ReadyInv  BY DEF Init, ReadyInv
  <1>2. TypeOK /\ ReadyInv /\ [Next]_vars => ReadyInv'  BY ReadyStep
  <1> QED  BY <1>1, <1>2, MonitorTypeCorrect, PTL DEF Spec

\* When every outbound is ready from the start, a running stage waits for
\* exactly the results that are buffered or still to come, even if a queue is
\* full.  (With one that is not, a group test can make it wait for ever.)
THEOREM StageWaitsForItsResults ==
  ASSUME NotReady = {}
  PROVE  Spec => []StageBalance
  <1>1. Init => StageBalance  BY DEF Init, StageBalance
  <1>2. /\ TypeOK /\ TypeOK' /\ CycleNumbered /\ CycleNumbered' /\ TaskHeld /\ TaskInv /\ StageInv
        /\ ReadyInv
        /\ StageBalance /\ [Next]_vars
        => StageBalance'
    <2> SUFFICES ASSUME TypeOK, TypeOK', CycleNumbered, CycleNumbered', TaskHeld, TaskInv, StageInv,
                        ReadyInv, StageBalance, [Next]_vars
                 PROVE  StageBalance'
      OBVIOUS
    <2>1. CASE ctxDone'  BY <2>1 DEF StageBalance
    <2>2. CASE ~ctxDone'  BY <2>2, StageStep DEF ReadyInv
    <2> QED  BY <2>1, <2>2
  <1> QED  BY <1>1, <1>2, MonitorTypeCorrect, StageIsClosed, ReadyStaysReady, PTL DEF Spec

-----------------------------------------------------------------------------
(* The flags of an outbound that is ready *)

\* A task for o is queued or running.
Backed(o) ==
    \/ \E i \in DOMAIN priorityQueue : priorityQueue[i].tag = o
    \/ \E i \in DOMAIN normalQueue : normalQueue[i].tag = o
    \/ \E w \in Worker : wpc[w] \in {"postpone", "test"} /\ wtask[w].tag = o

\* The same in the words of FlagsBacked.
LEMMA BackedTask ==
  ASSUME NEW o
  PROVE  /\ Backed(o) <=> \E t \in QueuedTasks \cup RunningTasks : t.tag = o
         /\ Backed(o)' <=> (\E t \in QueuedTasks \cup RunningTasks : t.tag = o)'
  BY DEF Backed, QueuedTasks, RunningTasks

\* A step that sets no flag and takes no task away.
LEMMA FlagsFrame ==
  ASSUME FlagsBacked, ctxDone' = ctxDone,
         \A o \in Outbound : queued'[o] \/ priorityQueued'[o] => queued[o] \/ priorityQueued[o],
         \A o \in Outbound \ NotReady :
             (queued'[o] \/ priorityQueued'[o]) /\ Backed(o) => Backed(o)'
  PROVE  FlagsBacked'
  <1> SUFFICES ASSUME ~ctxDone', NEW o \in Outbound \ NotReady, queued'[o] \/ priorityQueued'[o]
               PROVE  (\E t \in QueuedTasks \cup RunningTasks : t.tag = o)'
    BY DEF FlagsBacked
  <1>1. Backed(o)  BY BackedTask DEF FlagsBacked
  <1>2. Backed(o)'  BY <1>1
  <1> QED  BY <1>2, BackedTask

\* enqueueTask sets a flag only for the task it queues, if there is room.
LEMMA EnqueueFlags ==
  ASSUME TypeOK, FlagsBacked, Room, NEW t \in Task, EnqueueTask(t), ctxDone' = ctxDone,
         UNCHANGED <<wpc, wtask>>
  PROVE  FlagsBacked'
  <1>1. priorityQueue \in Seq(Task) /\ normalQueue \in Seq(Task)  BY DEF TypeOK
  <1>2. \A o \in Outbound : Backed(o) => Backed(o)'
    <2> SUFFICES ASSUME NEW o \in Outbound, Backed(o) PROVE Backed(o)'  OBVIOUS
    <2>1. \A i \in DOMAIN priorityQueue : i \in DOMAIN priorityQueue' /\ priorityQueue'[i] = priorityQueue[i]
      BY <1>1, EnqueueEffect, AppendElements
    <2>2. \A i \in DOMAIN normalQueue : i \in DOMAIN normalQueue' /\ normalQueue'[i] = normalQueue[i]
      BY <1>1, EnqueueEffect, AppendElements
    <2> QED  BY <2>1, <2>2 DEF Backed
  <1>3. CASE ctxDone \/ ~Accepts(t)
    BY <1>2, <1>3, FlagsFrame DEF EnqueueTask, flagVars
  <1>4. CASE ~(ctxDone \/ ~Accepts(t))
    <2>1. Backed(t.tag)'
      <3>1. CASE t.priority
        <4>1. priorityQueue' = Append(priorityQueue, t)
          BY <1>4, <3>1 DEF EnqueueTask, HasRoom, Room
        <4> QED  BY <1>1, <4>1, AppendElements DEF Backed
      <3>2. CASE ~t.priority
        <4>1. normalQueue' = Append(normalQueue, t)
          BY <1>4, <3>2 DEF EnqueueTask, HasRoom, Room
        <4> QED  BY <1>1, <4>1, AppendElements DEF Backed
      <3> QED  BY <3>1, <3>2
    <2>2. \A o \in Outbound : o # t.tag =>
              queued'[o] = queued[o] /\ priorityQueued'[o] = priorityQueued[o]
      BY <1>4 DEF EnqueueTask, TypeOK, Task
    <2> SUFFICES ASSUME ~ctxDone', NEW o \in Outbound \ NotReady, queued'[o] \/ priorityQueued'[o]
                 PROVE  Backed(o)'
      BY BackedTask DEF FlagsBacked
    <2>3. CASE o = t.tag  BY <2>1, <2>3
    <2>4. CASE o # t.tag
      <3>1. Backed(o)  BY <2>2, <2>4, BackedTask DEF FlagsBacked
      <3> QED  BY <1>2, <3>1
    <2> QED  BY <2>3, <2>4
  <1> QED  BY <1>3, <1>4

\* A worker takes a task: it is running now.
LEMMA TakeFlags ==
  ASSUME TypeOK, FlagsBacked, NEW w \in Worker, TakePriority(w) \/ TakeNormal(w), ~ctxDone
  PROVE  FlagsBacked'
  <1>1. UNCHANGED <<queued, priorityQueued, ctxDone>> /\ wpc[w] \in {"outer", "inner"}
    BY DEF TakePriority, TakeNormal, flagVars
  <1>2. ASSUME NEW q \in Seq(Task), q # <<>>, Take(w, Head(q)), NEW o \in Outbound
        PROVE  /\ \A v \in Worker : wpc[v] \in {"postpone", "test"} /\ wtask[v].tag = o =>
                                        wpc'[v] \in {"postpone", "test"} /\ wtask'[v].tag = o
               /\ Head(q).tag = o => wpc'[w] \in {"postpone", "test"} /\ wtask'[w].tag = o
    <2>1. Head(q) \in Task  BY <1>2, TailElements
    <2> QED  BY <1>1, <1>2, <2>1, TakeEffect
  <1>3. ASSUME NEW q \in Seq(Task), q # <<>>, NEW i \in DOMAIN q, NEW o, q[i].tag = o
        PROVE  Head(q).tag = o \/ \E j \in DOMAIN Tail(q) : Tail(q)[j].tag = o
    <2>1. CASE i = 1  BY <1>3, <2>1, TailElements
    <2>2. CASE i # 1
      <3>1. i - 1 \in DOMAIN Tail(q) /\ i \in Nat  BY <1>3, <2>2, TailElements
      <3>2. Tail(q)[i - 1] = q[(i - 1) + 1]  BY <1>3, <3>1, TailElements
      <3>3. (i - 1) + 1 = i  BY <3>1
      <3> QED  BY <1>3, <3>1, <3>2, <3>3
    <2> QED  BY <2>1, <2>2
  <1>4. priorityQueue \in Seq(Task) /\ normalQueue \in Seq(Task)  BY DEF TypeOK
  <1>5. \A o \in Outbound : Backed(o) => Backed(o)'
    <2> SUFFICES ASSUME NEW o \in Outbound, Backed(o) PROVE Backed(o)'  OBVIOUS
    <2>1. CASE TakePriority(w)
      <3>1. /\ priorityQueue # <<>> /\ Take(w, Head(priorityQueue))
            /\ priorityQueue' = Tail(priorityQueue) /\ normalQueue' = normalQueue
        BY <2>1 DEF TakePriority
      <3>2. /\ \A v \in Worker : wpc[v] \in {"postpone", "test"} /\ wtask[v].tag = o =>
                                    wpc'[v] \in {"postpone", "test"} /\ wtask'[v].tag = o
            /\ Head(priorityQueue).tag = o => wpc'[w] \in {"postpone", "test"} /\ wtask'[w].tag = o
        BY <1>2, <1>4, <3>1
      <3>3. \A i \in DOMAIN priorityQueue : priorityQueue[i].tag = o =>
                Head(priorityQueue).tag = o \/ \E j \in DOMAIN priorityQueue' : priorityQueue'[j].tag = o
        BY SMTT(30), <1>3, <1>4, <3>1
      <3> QED  BY <3>1, <3>2, <3>3 DEF Backed
    <2>2. CASE TakeNormal(w)
      <3>1. /\ normalQueue # <<>> /\ Take(w, Head(normalQueue))
            /\ normalQueue' = Tail(normalQueue) /\ priorityQueue' = priorityQueue
        BY <2>2 DEF TakeNormal
      <3>2. /\ \A v \in Worker : wpc[v] \in {"postpone", "test"} /\ wtask[v].tag = o =>
                                    wpc'[v] \in {"postpone", "test"} /\ wtask'[v].tag = o
            /\ Head(normalQueue).tag = o => wpc'[w] \in {"postpone", "test"} /\ wtask'[w].tag = o
        BY <1>2, <1>4, <3>1
      <3>3. \A i \in DOMAIN normalQueue : normalQueue[i].tag = o =>
                Head(normalQueue).tag = o \/ \E j \in DOMAIN normalQueue' : normalQueue'[j].tag = o
        BY <1>3, <1>4, <3>1
      <3> QED  BY <3>1, <3>2, <3>3 DEF Backed
    <2> QED  BY <2>1, <2>2
  <1> QED  BY <1>1, <1>5, FlagsFrame

\* Every step keeps flags and tasks together, as long as the queues have room.
LEMMA FlagsStep ==
  ASSUME TypeOK, CycleNumbered, TaskHeld, FlagsBacked, ReadyInv, Room, [Next]_vars, ~ctxDone'
  PROVE  FlagsBacked'
  <1> USE DEF flagVars, queueVars
  <1>1. ~ctxDone /\ ctxDone' = ctxDone
    <2>1. ctxDone' = ctxDone \/ ctxDone'
      BY Zenon DEF Next, InvalidateTest, TestNow, TestNowGroup, CallStep, BuildTask, EnqueueCall,
             WorkerStep, TakePriority, NoPriority, TakeNormal, WorkerExit, ApplyResult, Report,
             EndTask, Postpone, RetryStep, Retry, StartCycleOnce, CycleStep, CollectTarget, Collected,
             StageEnqueue, StageResult, StageEnd, BecomeReady, Age, Close, vars
    <2> QED  BY <2>1
  <1>2. ASSUME UNCHANGED <<queued, priorityQueued, priorityQueue, normalQueue, wpc, wtask>>
        PROVE  FlagsBacked'
    BY <1>1, <1>2, FlagsFrame DEF Backed
  <1>3. ASSUME NEW w \in Worker, UNCHANGED <<queued, priorityQueued, priorityQueue, normalQueue>>,
               \A v \in Worker : wpc[v] \in {"postpone", "test"} =>
                   wpc'[v] = wpc[v] /\ wtask'[v] = wtask[v]
        PROVE  FlagsBacked'
    BY <1>1, <1>3, FlagsFrame DEF Backed
  <1>4. ASSUME NEW w \in Worker, NEW ok \in BOOLEAN, ApplyResult(w, ok) PROVE FlagsBacked'
    <2> DEFINE p == wtask[w].tag
    <2>1. /\ wpc[w] = "test" /\ wtask' = wtask
          /\ queued' = [queued EXCEPT ![p] = FALSE]
          /\ priorityQueued' = [priorityQueued EXCEPT ![p] = FALSE]
          /\ \A v \in Worker : v # w => wpc'[v] = wpc[v]
          /\ UNCHANGED <<priorityQueue, normalQueue>>
      BY <1>4 DEF ApplyResult, TypeOK
    <2> HIDE DEF p
    <2>2. \A o \in Outbound : queued'[o] \/ priorityQueued'[o] =>
              o # p /\ (queued[o] \/ priorityQueued[o])
      BY <2>1 DEF TypeOK
    <2>3. \A o \in Outbound : o # p /\ Backed(o) => Backed(o)'
      BY <2>1 DEF Backed, p
    <2> QED  BY <1>1, <2>2, <2>3, FlagsFrame
  <1>5. ASSUME NEW w \in Worker, WorkerStep(w) PROVE FlagsBacked'
    <2>1. CASE NoPriority(w)  BY <1>3, <2>1 DEF NoPriority, stateVars, TypeOK
    <2>2. CASE Report(w)  BY <1>3, <2>2 DEF Report, stateVars, TypeOK
    <2>3. CASE EndTask(w)
      BY <1>1, <1>3, <2>3 DEF EndTask, Leave, TypeOK
    <2>4. CASE Postpone(w)
      <3>1. /\ UNCHANGED <<queued, priorityQueued, priorityQueue, normalQueue>>
            /\ wtask[w].tag \in NotReady
            /\ \A v \in Worker \ {w} : wpc'[v] = wpc[v] /\ wtask'[v] = wtask[v]
        BY <2>4, PostponeEffect DEF ReadyInv
      <3>2. \A o \in Outbound \ NotReady : Backed(o) => Backed(o)'  BY <3>1 DEF Backed
      <3> QED  BY <1>1, <3>1, <3>2, FlagsFrame
    <2> QED  BY <1>1, <1>4, <1>5, <2>1, <2>2, <2>3, <2>4, TakeFlags DEF WorkerStep, WorkerExit
  <1>6. ASSUME NEW k \in Caller, EnqueueCall(k) PROVE FlagsBacked'
    <2>1. cur[k] \in Task /\ EnqueueTask(cur[k]) /\ UNCHANGED <<wpc, wtask>>
      BY <1>6 DEF EnqueueCall, TypeOK, workerVars
    <2> QED  BY <1>1, <2>1, EnqueueFlags
  <1>7. ASSUME NEW t \in BagToSet(retry), Retry(t) PROVE FlagsBacked'
    <2> DEFINE n == [t EXCEPT !.cycle = @ + 1]
    <2>1. n \in Task /\ EnqueueTask(n)  BY <1>7, RetryEffect
    <2>2. UNCHANGED <<wpc, wtask>>  BY <1>7 DEF Retry, workerVars
    <2> HIDE DEF n
    <2> QED  BY <1>1, <2>1, <2>2, EnqueueFlags
  <1>8. ASSUME NEW o \in Outbound, StageEnqueue(o) PROVE FlagsBacked'
    <2> DEFINE t == [tag |-> o, cycle |-> cycleSeq, priority |-> FALSE, stage |-> Stage]
    <2>1. cycleSeq \in Nat /\ cycleSeq > 0 /\ round \in Nat
      BY <1>8, SizeAssumption DEF CycleNumbered, StageEnqueue, TypeOK
    <2>2. Stage \in Nat  BY <2>1, StagePositive DEF Stage
    <2>3. t \in Task  BY <2>1, <2>2 DEF Task
    <2>4. EnqueueTask(t) /\ UNCHANGED <<wpc, wtask>>  BY <1>8 DEF StageEnqueue, workerVars
    <2> HIDE DEF t
    <2> QED  BY <1>1, <2>3, <2>4, EnqueueFlags
  <1>9. ASSUME NEW k \in Caller,
               \/ \E o \in Outbound : InvalidateTest(k, o) \/ TestNow(k, o)
               \/ \E g \in Group : TestNowGroup(k, g)
               \/ \E r \in pend[k] : BuildTask(k, r)
        PROVE  FlagsBacked'
    BY <1>2, <1>9 DEF InvalidateTest, TestNow, TestNowGroup, BuildTask, workerVars, stateVars
  <1>10. CASE \/ StartCycleOnce \/ Collected \/ StageResult \/ StageEnd
              \/ \E o \in Outbound : CollectTarget(o)
    BY <1>2, <1>10
       DEF StartCycleOnce, CollectTarget, Collected, StageResult, StageEnd, workerVars, stateVars
  <1>11. ASSUME NEW o \in Outbound, BecomeReady(o) \/ Age(o) PROVE FlagsBacked'
    BY <1>2, <1>11 DEF BecomeReady, Age, workerVars, stateVars
  <1>12. CASE UNCHANGED vars
    BY <1>2, <1>12 DEF vars, workerVars, stateVars
  <1> HIDE DEF flagVars, queueVars
  <1> QED  BY <1>1, <1>5, <1>6, <1>7, <1>8, <1>9, <1>10, <1>11, <1>12
           DEF Next, CallStep, RetryStep, CycleStep, Close

\* As long as no queue is full, an outbound that is ready from the start has a
\* flag set only while a task for it is queued or running.
THEOREM FlagsHaveTasks == Spec /\ []Room => []FlagsBacked
  <1>1. Init => FlagsBacked  BY DEF Init, FlagsBacked
  <1>2. /\ TypeOK /\ CycleNumbered /\ TaskHeld /\ ReadyInv /\ Room /\ FlagsBacked /\ [Next]_vars
        => FlagsBacked'
    <2> SUFFICES ASSUME TypeOK, CycleNumbered, TaskHeld, ReadyInv, Room, FlagsBacked, [Next]_vars
                 PROVE  FlagsBacked'
      OBVIOUS
    <2>1. CASE ctxDone'  BY <2>1 DEF FlagsBacked
    <2>2. CASE ~ctxDone'  BY <2>2, FlagsStep
    <2> QED  BY <2>1, <2>2
  <1> QED  BY <1>1, <1>2, MonitorTypeCorrect, ReadyStaysReady, PTL DEF Spec

\* If every outbound is ready from the start and no queue is ever full, an
\* invalid outbound is tested again: a task for it exists, or no flag keeps
\* the next cycle from picking it.
THEOREM InvalidIsRetested ==
  ASSUME NotReady = {}
  PROVE  Spec /\ []Room => []RetestOnItsWay
  <1>1. FlagsBacked => RetestOnItsWay  BY DEF FlagsBacked, RetestOnItsWay, OnItsWay
  <1> QED  BY <1>1, FlagsHaveTasks, PTL
=============================================================================
