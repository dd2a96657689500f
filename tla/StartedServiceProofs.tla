----------------------- MODULE StartedServiceProofs ------------------------
(***************************************************************************)
(* For any number of starters and boxes: no box is leaked but one that was *)
(* closed during its start, reloads do not overlap, although the mutex is  *)
(* released in the middle of them, and STARTED means a running box until   *)
(* two starts have overlapped.  The same holds with the calls that wait    *)
(* for a start: they only read.                                            *)
(***************************************************************************)
EXTENDS StatusWaiters, TLAPS

\* The service begins idle, without a box.
LEMMA InitDaemon == Init => TypeOK /\ DaemonInv
  <1> SUFFICES ASSUME Init PROVE TypeOK /\ DaemonInv  OBVIOUS
  <1>1. TypeOK  BY DEF Init, TypeOK, Status, BoxState
  <1>2. ReloadInv  BY BoxAssumption DEF Init, ReloadInv
  <1>3. OneReload  BY DEF Init, OneReload
  <1>4. NoLeakedBox  BY DEF Init, NoLeakedBox
  <1> QED  BY <1>1, <1>2, <1>3, <1>4 DEF DaemonInv

\* newInstance keeps the types, whether it succeeds or fails.
LEMMA CreateTyped ==
  ASSUME TypeOK, alone' \in BOOLEAN, NEW t \in Starter, Create(t)
  PROVE  TypeOK'
  <1> USE BoxAssumption DEF TypeOK, Status, BoxState, Goto
  <1>1. ASSUME NEW b \in Box,
               box' = [box EXCEPT ![b] = "starting"], status' = "STARTING",
               instance' = b, mine' = [mine EXCEPT ![t] = b],
               old' = [old EXCEPT ![t] = NoBox],
               Goto(t, "start"), UNCHANGED <<done, failed>>
        PROVE  TypeOK'
    BY <1>1
  <1>2. CASE status' = "FATAL" /\ Return(t) /\ UNCHANGED <<instance, box, done>>
    BY <1>2 DEF Return
  <1> QED  BY <1>1, <1>2 DEF Create

\* No reload is under way, so no live box is left behind.
LEMMA StartFreshInv ==
  ASSUME TypeOK, DaemonInv, alone' \in BOOLEAN, NEW t \in Starter, StartFresh(t)
  PROVE  TypeOK' /\ DaemonInv'
  <1> USE BoxAssumption DEF DaemonInv, StartFresh, Create, Goto, Return, Startable
  <1>1. TypeOK'  BY CreateTyped
  <1>2. ReloadInv'  BY DEF TypeOK, ReloadInv, OneReload
  <1>3. OneReload'  BY DEF TypeOK, ReloadInv, OneReload
  <1>4. NoLeakedBox'  BY DEF TypeOK, ReloadInv, OneReload, NoLeakedBox
  <1> QED  BY <1>1, <1>2, <1>3, <1>4

\* The old instance is the live box, and no other reload has begun.
LEMMA ReloadInvStep ==
  ASSUME TypeOK, DaemonInv, alone' \in BOOLEAN, NEW t \in Starter, Reload(t)
  PROVE  TypeOK' /\ DaemonInv'
  <1> USE BoxAssumption DEF DaemonInv, Reload, Goto, Startable
  <1>1. TypeOK'  BY DEF TypeOK, Status, BoxState
  <1>2. ReloadInv'  BY DEF TypeOK, ReloadInv, OneReload
  <1>3. OneReload'  BY DEF TypeOK, ReloadInv, OneReload
  <1>4. NoLeakedBox'  BY DEF TypeOK, ReloadInv, OneReload, NoLeakedBox
  <1> QED  BY <1>1, <1>2, <1>3, <1>4

\* The box that leaves the reload's hands is closed.
LEMMA CloseOldInv ==
  ASSUME TypeOK, DaemonInv, alone' \in BOOLEAN, NEW t \in Starter, CloseOld(t)
  PROVE  TypeOK' /\ DaemonInv'
  <1> USE BoxAssumption DEF DaemonInv, CloseOld, Close, Goto
  <1>1. TypeOK'  BY DEF TypeOK, Status, BoxState, ReloadInv
  <1>2. ReloadInv'  BY DEF TypeOK, ReloadInv, OneReload
  <1>3. OneReload'  BY DEF TypeOK, ReloadInv, OneReload
  <1>4. NoLeakedBox'  BY DEF TypeOK, ReloadInv, OneReload, NoLeakedBox
  <1> QED  BY <1>1, <1>2, <1>3, <1>4

\* The old instance is closed, and nobody else is in a reload.
LEMMA RecreateInv ==
  ASSUME TypeOK, DaemonInv, alone' \in BOOLEAN, NEW t \in Starter, Recreate(t)
  PROVE  TypeOK' /\ DaemonInv'
  <1> USE BoxAssumption DEF DaemonInv, Recreate, Create, Goto, Return
  <1>1. TypeOK'  BY CreateTyped
  <1>2. ReloadInv'  BY DEF TypeOK, ReloadInv, OneReload
  <1>3. OneReload'  BY DEF TypeOK, ReloadInv, OneReload
  <1>4. NoLeakedBox'  BY DEF TypeOK, ReloadInv, OneReload, NoLeakedBox
  <1> QED  BY <1>1, <1>2, <1>3, <1>4

\* A box that was closed meanwhile is the exception; any other was reachable
\* already.
LEMMA BoxStartInv ==
  ASSUME TypeOK, DaemonInv, alone' \in BOOLEAN, NEW t \in Starter, NEW ok \in BOOLEAN, BoxStart(t, ok)
  PROVE  TypeOK' /\ DaemonInv'
  <1> USE BoxAssumption DEF DaemonInv, BoxStart, Goto
  <1>1. TypeOK'  BY DEF TypeOK, Status, BoxState
  <1>2. ReloadInv'  BY DEF TypeOK, ReloadInv, OneReload
  <1>3. OneReload'  BY DEF TypeOK, ReloadInv, OneReload
  <1>4. NoLeakedBox'
    <2> SUFFICES ASSUME NEW b \in Box, box'[b] \in {"starting", "running"}
                 PROVE  (\/ b = instance
                         \/ \E u \in Starter : pc[u] = "closeOld" /\ old[u] = b
                         \/ b \in done)'
      BY DEF NoLeakedBox
    <2>1. CASE b \in done  BY <2>1
    <2>2. CASE b \notin done
      <3>1. box[b] \in {"starting", "running"}  BY <2>2 DEF TypeOK, BoxState, ReloadInv
      <3> QED  BY <3>1, <2>2 DEF TypeOK, NoLeakedBox
    <2> QED  BY <2>1, <2>2
  <1> QED  BY <1>1, <1>2, <1>3, <1>4

\* A status other than STARTING, that of a reload included, is left alone.
LEMMA StartFinishInv ==
  ASSUME TypeOK, DaemonInv, alone' \in BOOLEAN, NEW t \in Starter, StartFinish(t)
  PROVE  TypeOK' /\ DaemonInv'
  <1> USE BoxAssumption DEF DaemonInv, StartFinish, Goto, Return
  <1>1. TypeOK'  BY DEF TypeOK, Status, BoxState
  <1>2. ReloadInv'  BY DEF TypeOK, ReloadInv, OneReload
  <1>3. OneReload'  BY DEF TypeOK, ReloadInv, OneReload
  <1>4. NoLeakedBox'  BY DEF TypeOK, ReloadInv, OneReload, NoLeakedBox
  <1> QED  BY <1>1, <1>2, <1>3, <1>4

\* STARTING and STARTED exclude a reload.
LEMMA CloseServiceInv ==
  ASSUME TypeOK, DaemonInv, alone' \in BOOLEAN, CloseService
  PROVE  TypeOK' /\ DaemonInv'
  <1> USE BoxAssumption DEF DaemonInv, CloseService, Close, Closable
  <1>1. TypeOK'  BY DEF TypeOK, Status, BoxState
  <1>2. ReloadInv'  BY DEF TypeOK, ReloadInv, OneReload
  <1>3. OneReload'  BY DEF TypeOK, ReloadInv, OneReload
  <1>4. NoLeakedBox'  BY DEF TypeOK, ReloadInv, OneReload, NoLeakedBox
  <1> QED  BY <1>1, <1>2, <1>3, <1>4

\* The same if the box fails to close.
LEMMA CloseServiceFailsInv ==
  ASSUME TypeOK, DaemonInv, alone' \in BOOLEAN, CloseServiceFails
  PROVE  TypeOK' /\ DaemonInv'
  <1> USE BoxAssumption DEF DaemonInv, CloseServiceFails, Close, Closable
  <1>1. TypeOK'  BY DEF TypeOK, Status, BoxState
  <1>2. ReloadInv'  BY DEF TypeOK, ReloadInv, OneReload
  <1>3. OneReload'  BY DEF TypeOK, ReloadInv, OneReload
  <1>4. NoLeakedBox'  BY DEF TypeOK, ReloadInv, OneReload, NoLeakedBox
  <1> QED  BY <1>1, <1>2, <1>3, <1>4

\* FATAL admits neither a start nor a close.
LEMMA SetErrorInv ==
  ASSUME TypeOK, DaemonInv, alone' \in BOOLEAN, SetError
  PROVE  TypeOK' /\ DaemonInv'
  <1> USE BoxAssumption DEF DaemonInv, SetError
  <1>1. TypeOK'  BY DEF TypeOK, Status, BoxState
  <1>2. ReloadInv'  BY DEF TypeOK, ReloadInv, OneReload
  <1>3. OneReload'  BY DEF TypeOK, ReloadInv, OneReload
  <1>4. NoLeakedBox'  BY DEF TypeOK, ReloadInv, OneReload, NoLeakedBox
  <1> QED  BY <1>1, <1>2, <1>3, <1>4

\* Every step keeps types and invariant.
LEMMA StepDaemon == TypeOK /\ DaemonInv /\ [Next]_vars => TypeOK' /\ DaemonInv'
  <1> SUFFICES ASSUME TypeOK, DaemonInv, [Next]_vars PROVE TypeOK' /\ DaemonInv'  OBVIOUS
  <1>1. alone' \in BOOLEAN
    <2>1. CASE UNCHANGED alone  BY <2>1 DEF TypeOK
    <2>2. ASSUME NEW t \in Starter, StartBegin(t)
          PROVE  alone' \in BOOLEAN
      BY <2>2, Zenon DEF StartBegin
    <2> QED  BY <2>1, <2>2, Zenon DEF Next, StartStep, vars
  <1>2. CASE UNCHANGED vars
    BY <1>2 DEF vars, serviceVars, TypeOK, DaemonInv, ReloadInv, OneReload, NoLeakedBox
  <1>3. ASSUME NEW t \in Starter, StartBegin(t) \/ StartStep(t)
        PROVE  TypeOK' /\ DaemonInv'
    BY <1>1, <1>3, StartFreshInv, ReloadInvStep, CloseOldInv, RecreateInv, BoxStartInv,
       StartFinishInv, Zenon DEF StartBegin, StartStep
  <1>4. CASE CloseService \/ CloseServiceFails \/ SetError
    BY <1>1, <1>4, CloseServiceInv, CloseServiceFailsInv, SetErrorInv, Zenon
  <1> QED  BY <1>2, <1>3, <1>4, Zenon DEF Next

\* Types: in particular no method is called on a nil instance.
THEOREM DaemonTypeCorrect == Spec => []TypeOK
  <1>1. Init => TypeOK /\ DaemonInv  BY InitDaemon
  <1>2. TypeOK /\ DaemonInv /\ [Next]_vars => TypeOK' /\ DaemonInv'  BY StepDaemon
  <1> QED  BY <1>1, <1>2, PTL DEF Spec

\* A reload owns the service until it has created the new instance.
THEOREM ReloadOwnsService == Spec => []DaemonInv
  <1>1. Init => TypeOK /\ DaemonInv  BY InitDaemon
  <1>2. TypeOK /\ DaemonInv /\ [Next]_vars => TypeOK' /\ DaemonInv'  BY StepDaemon
  <1> QED  BY <1>1, <1>2, PTL DEF Spec

\* startOrReloadServiceImp and CloseService lose no box that starts or runs,
\* unless Close was called on it while its instance.Start() was under way.
THEOREM NoBoxLeaks == Spec => []NoLeakedBox
  <1>1. DaemonInv => NoLeakedBox  BY DEF DaemonInv
  <1> QED  BY <1>1, ReloadOwnsService, PTL

\* Reloads exclude each other without holding the mutex.
THEOREM ReloadsExclusive == Spec => []OneReload
  <1>1. DaemonInv => OneReload  BY DEF DaemonInv
  <1> QED  BY <1>1, ReloadOwnsService, PTL

-----------------------------------------------------------------------------
(* STARTED is only reported for a running box, until starts have overlapped *)

\* A start that begins is the only one, so it owns STARTING and its box.
LEMMA BeginAlone ==
  ASSUME TypeOK, TypeOK', ReloadInv, AloneInv, StartedIsRunning, NEW t \in Starter, StartBegin(t)
  PROVE  AloneInv' /\ StartedIsRunning'
  <1> SUFFICES ASSUME alone' PROVE AloneInv' /\ StartedIsRunning'
    BY Zenon DEF AloneInv, StartedIsRunning
  <1>1. /\ alone
        /\ \A u \in Starter \ {t} : pc[u] = "idle"
    BY Zenon DEF StartBegin
  <1>2. CASE StartFresh(t)
    BY <1>1, <1>2, BoxAssumption
       DEF StartFresh, Create, Goto, Return, TypeOK, ReloadInv, AloneInv, StartedIsRunning
  <1>3. CASE Reload(t)
    BY <1>1, <1>3 DEF Reload, Goto, TypeOK, AloneInv, StartedIsRunning
  <1> QED  BY <1>2, <1>3 DEF StartBegin

\* The only start under way moves on; nobody else can set STARTED.
LEMMA StepAlone ==
  ASSUME TypeOK, TypeOK', ReloadInv, AloneInv, StartedIsRunning, NEW t \in Starter, StartStep(t)
  PROVE  AloneInv' /\ StartedIsRunning'
  <1> SUFFICES ASSUME alone' PROVE AloneInv' /\ StartedIsRunning'
    BY Zenon DEF AloneInv, StartedIsRunning
  <1>1. alone  BY DEF StartStep
  <1>2. CASE CloseOld(t)
    BY <1>1, <1>2 DEF CloseOld, Close, Goto, TypeOK, AloneInv, StartedIsRunning
  <1>3. CASE Recreate(t)
    BY <1>1, <1>3, BoxAssumption
       DEF Recreate, Create, Goto, Return, TypeOK, ReloadInv, AloneInv, StartedIsRunning
  <1>4. ASSUME NEW ok \in BOOLEAN, BoxStart(t, ok)
        PROVE  AloneInv' /\ StartedIsRunning'
    <2>1. PICK end \in {"running", "closed"} :
              /\ mine[t] \notin done => (end = "running") = ok
              /\ box' = [box EXCEPT ![mine[t]] = end]
      BY <1>4, Zenon DEF BoxStart
    <2>2. /\ pc[t] = "start" /\ pc' = [pc EXCEPT ![t] = "finish"]
          /\ failed' = [failed EXCEPT ![t] = ~ok]
          /\ done' = IF ok THEN done ELSE done \cup {mine[t]}
          /\ UNCHANGED <<status, instance, old, mine>>
      BY <1>4, Zenon DEF BoxStart, Goto
    <2>3. /\ \A u \in Starter : pc'[u] # "idle" => u = t
          /\ pc'[t] = "finish" /\ status' # "STARTED"
      BY <1>1, <2>2, Zenon DEF TypeOK, AloneInv
    <2>4. ASSUME status' = "STARTING"
          PROVE  /\ mine'[t] = instance' /\ mine[t] \notin done
                 /\ mine[t] \in Box
      BY <1>1, <2>2, <2>4 DEF TypeOK, AloneInv
    <2>5. ASSUME status' = "STARTING", ~failed'[t]
          PROVE  box'[mine'[t]] = "running" /\ mine'[t] \notin done'
      <3>1. ok  BY <2>2, <2>5, Zenon DEF TypeOK
      <3>2. end = "running"  BY <2>1, <2>4, <2>5, <3>1, Zenon
      <3> QED  BY <2>1, <2>2, <2>4, <2>5, <3>1, <3>2 DEF TypeOK
    <2> QED  BY <2>3, <2>4, <2>5, Zenon DEF AloneInv, StartedIsRunning
  <1>5. CASE StartFinish(t)
    BY <1>1, <1>5 DEF StartFinish, Goto, Return, TypeOK, AloneInv, StartedIsRunning
  <1> QED  BY <1>2, <1>3, <1>4, <1>5 DEF StartStep

\* CloseService and SetError leave neither STARTING nor STARTED.
LEMMA OthersAlone ==
  ASSUME TypeOK, AloneInv, StartedIsRunning, UNCHANGED alone,
         CloseService \/ CloseServiceFails \/ SetError
  PROVE  AloneInv' /\ StartedIsRunning'
  BY DEF CloseService, CloseServiceFails, Close, SetError, TypeOK, AloneInv, StartedIsRunning

\* While starts do not overlap, the one under way owns STARTING.
THEOREM StartOwnsStarting == Spec => [](AloneInv /\ StartedIsRunning)
  <1>1. Init => AloneInv /\ StartedIsRunning
    BY DEF Init, AloneInv, StartedIsRunning
  <1>2. TypeOK /\ TypeOK' /\ DaemonInv /\ AloneInv /\ StartedIsRunning /\ [Next]_vars
            => AloneInv' /\ StartedIsRunning'
    <2> SUFFICES ASSUME TypeOK, TypeOK', DaemonInv, AloneInv, StartedIsRunning, [Next]_vars
                 PROVE  AloneInv' /\ StartedIsRunning'
      OBVIOUS
    <2>1. CASE UNCHANGED vars
      BY <2>1 DEF vars, serviceVars, AloneInv, StartedIsRunning
    <2> QED  BY <2>1, BeginAlone, StepAlone, OthersAlone, Zenon DEF Next, DaemonInv
  <1> QED  BY <1>1, <1>2, DaemonTypeCorrect, ReloadOwnsService, PTL DEF Spec

\* The status read again after instance.Start() is enough for one start at a
\* time: STARTED means that the service's box runs.
THEOREM StartedMeansRunning == Spec => []StartedIsRunning
  BY StartOwnsStarting, PTL

-----------------------------------------------------------------------------
(* StatusWaiters *)

\* A step of the service with its observer and waiters is one of the service
\* alone, or one it does not see.
LEMMA WaitStep ==
  ASSUME [WaitNext]_allVars  PROVE [Next]_vars
  <1>1. ASSUME NEW t \in Starter, EmitBegin(t) \/ EmitStep(t)  PROVE Next
    BY <1>1 DEF EmitBegin, EmitStep, Next
  <1>2. CASE EmitClose \/ EmitError  BY <1>2 DEF EmitClose, EmitError, Next
  <1>3. CASE Dispatch  BY <1>3 DEF Dispatch
  <1>4. ASSUME NEW w, WaitLook(w) \/ WaitSubscribe(w) \/ WaitReceive(w) \/ WaitCancel(w)
        PROVE  UNCHANGED vars
    BY <1>4 DEF WaitLook, WaitSubscribe, WaitReceive, WaitCancel
  <1>5. CASE UNCHANGED allVars  BY <1>5 DEF allVars
  <1> QED  BY <1>1, <1>2, <1>3, <1>4, <1>5 DEF WaitNext

\* The service with the observer of its status and the callers of
\* waitForStarted implements the service alone: however they subscribe,
\* receive, drop and give up, they never change what the service does
\* (updateStatus, waitForStarted).
THEOREM WaitersImplementService ==  WaitSpec => Spec
  <1>1. WaitInit => Init  BY DEF WaitInit
  <1>2. [WaitNext]_allVars => [Next]_vars  BY WaitStep
  <1> QED  BY <1>1, <1>2, PTL DEF WaitSpec, Spec

\* So the safety of the service holds with them: no box is leaked but one
\* closed during its start, reloads do not overlap and STARTED means a
\* running box (StartOrReloadService, CloseService, waitForStarted).
THEOREM SafeWithWaiters ==  WaitSpec => [](NoLeakedBox /\ OneReload /\ StartedIsRunning)
  BY WaitersImplementService, NoBoxLeaks, ReloadsExclusive, StartedMeansRunning, PTL
=============================================================================
