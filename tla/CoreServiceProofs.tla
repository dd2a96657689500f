------------------------- MODULE CoreServiceProofs -------------------------
(***************************************************************************)
(* For any number of clients and services, with and without panics: the    *)
(* core's types; and, until a panic or a cancelled Restart has changed the *)
(* state without the mutex, that the published state is the truth and no   *)
(* two boxes run.                                                          *)
(***************************************************************************)
EXTENDS CoreService, TLAPS

\* The core begins stopped, with nobody inside a call.
LEMMA InitCore == Init => TypeOK /\ CoreInv
  <1> SUFFICES ASSUME Init PROVE TypeOK /\ CoreInv  OBVIOUS
  <1>1. TypeOK  BY DEF Init, TypeOK, CoreStates, Labels, ServiceState
  <1>2. MutexInv  BY NoneAssumption DEF Init, MutexInv, Held
  <1>3. ProgressInv  BY DEF Init, ProgressInv
  <1>4. Quiet  BY DEF Init, Quiet, Up
  <1> QED  BY <1>1, <1>2, <1>3, <1>4 DEF CoreInv

\* Types survive every step, with or without panics: no method is called on
\* a nil service.
LEMMA StepTyped == TypeOK /\ [Next]_vars => TypeOK'
  <1> SUFFICES ASSUME TypeOK, [Next]_vars PROVE TypeOK'  OBVIOUS
  <1>0. calm' \in BOOLEAN  BY DEF TypeOK, Next, Step, vars
  <1> USE <1>0 DEF TypeOK, CoreStates, Labels, ServiceState, Goto, Return, Unlock
  <1>1. CASE UNCHANGED vars  BY <1>1 DEF vars, coreVars
  <1>2. ASSUME NEW c \in Client,
               CallStart(c) \/ CallStop(c) \/ CallRestart(c) \/ ConfigPanic(c)
        PROVE  TypeOK'
    BY <1>2 DEF CallStart, CallStop, CallRestart, Call, ConfigPanic
  <1>3. ASSUME NEW c \in Client, StartLock(c) \/ StartCheck(c) \/ BuildFails(c)
        PROVE  TypeOK'
    BY <1>3 DEF StartLock, StartCheck, BuildFails, Acquire
  <1>4. ASSUME NEW c \in Client, NEW s \in Service, NewService(c, s)
        PROVE  TypeOK'
    BY <1>4, NoneAssumption DEF NewService
  <1>5. ASSUME NEW c \in Client, PublishService(c) \/ StartDone(c)
        PROVE  TypeOK'
    BY <1>5 DEF PublishService, StartDone
  <1>6. ASSUME NEW c \in Client, StopLock(c) \/ StopCheck(c) \/ StopClear(c) \/ StopDone(c)
        PROVE  TypeOK'
    BY <1>6 DEF StopLock, StopCheck, StopClear, StopDone, AfterStop, Acquire
  <1>7. ASSUME NEW c \in Client, NEW ok \in BOOLEAN, StopClose(c, ok) \/ AlertClose(c, ok)
        PROVE  TypeOK'
    BY <1>7 DEF StopClose, AlertClose, CloseService
  <1>8. ASSUME NEW c \in Client, TunWaited(c) \/ RestartCancelled(c) \/ Panic(c)
        PROVE  TypeOK'
    BY <1>8 DEF TunWaited, RestartCancelled, Panic
  <1>9. ASSUME NEW c \in Client, Alert(c) \/ AlertClear(c) \/ AlertDone(c)
        PROVE  TypeOK'
    BY <1>9 DEF Alert, AlertClear, AlertDone
  <1> QED
    BY <1>1, <1>2, <1>3, <1>4, <1>5, <1>6, <1>7, <1>8, <1>9 DEF Next, Step, Guarded, Unguarded

-----------------------------------------------------------------------------
\* A call only moves its client to a lock step.
LEMMA CallStartCore ==
  ASSUME TypeOK, CoreInv, NEW c \in Client, CallStart(c)
  PROVE  CoreInv'
  <1> USE NoneAssumption DEF TypeOK, CoreInv, CallStart, Call, Goto
  <1>1. MutexInv'  BY DEF MutexInv, ProgressInv, Held
  <1>2. ProgressInv'  BY DEF MutexInv, ProgressInv, Held, Quiet, Up
  <1>3. (lock = None => Quiet)'  BY DEF MutexInv, ProgressInv, Held, Quiet, Up
  <1> QED  BY <1>1, <1>2, <1>3

\* The same for Stop.
LEMMA CallStopCore ==
  ASSUME TypeOK, CoreInv, NEW c \in Client, CallStop(c)
  PROVE  CoreInv'
  <1> USE NoneAssumption DEF TypeOK, CoreInv, CallStop, Call, Goto
  <1>1. MutexInv'  BY DEF MutexInv, ProgressInv, Held
  <1>2. ProgressInv'  BY DEF MutexInv, ProgressInv, Held, Quiet, Up
  <1>3. (lock = None => Quiet)'  BY DEF MutexInv, ProgressInv, Held, Quiet, Up
  <1> QED  BY <1>1, <1>2, <1>3

\* The same for Restart.
LEMMA CallRestartCore ==
  ASSUME TypeOK, CoreInv, NEW c \in Client, CallRestart(c)
  PROVE  CoreInv'
  <1> USE NoneAssumption DEF TypeOK, CoreInv, CallRestart, Call, Goto
  <1>1. MutexInv'  BY DEF MutexInv, ProgressInv, Held
  <1>2. ProgressInv'  BY DEF MutexInv, ProgressInv, Held, Quiet, Up
  <1>3. (lock = None => Quiet)'  BY DEF MutexInv, ProgressInv, Held, Quiet, Up
  <1> QED  BY <1>1, <1>2, <1>3

\* The mutex is free, so the state is quiet.
LEMMA StartLockCore ==
  ASSUME TypeOK, CoreInv, NEW c \in Client, StartLock(c)
  PROVE  CoreInv'
  <1> USE NoneAssumption DEF TypeOK, CoreInv, StartLock, Acquire, Goto
  <1>1. MutexInv'  BY DEF MutexInv, ProgressInv, Held
  <1>2. ProgressInv'  BY DEF MutexInv, ProgressInv, Held, Quiet, Up
  <1>3. (lock = None => Quiet)'  BY DEF MutexInv, ProgressInv, Held, Quiet, Up
  <1> QED  BY <1>1, <1>2, <1>3

\* An early return leaves the quiet state; from STOPPED nothing is up.
LEMMA StartCheckCore ==
  ASSUME TypeOK, CoreInv, NEW c \in Client, StartCheck(c)
  PROVE  CoreInv'
  <1> USE NoneAssumption DEF TypeOK, CoreInv, StartCheck, Return, Unlock, Goto
  <1>1. MutexInv'  BY DEF MutexInv, ProgressInv, Held
  <1>2. ProgressInv'  BY DEF MutexInv, ProgressInv, Held, Quiet, Up
  <1>3. (lock = None => Quiet)'  BY DEF MutexInv, ProgressInv, Held, Quiet, Up
  <1> QED  BY <1>1, <1>2, <1>3

\* The failed start has built nothing.
LEMMA BuildFailsCore ==
  ASSUME TypeOK, CoreInv, NEW c \in Client, BuildFails(c)
  PROVE  CoreInv'
  <1> USE NoneAssumption DEF TypeOK, CoreInv, BuildFails, Goto
  <1>1. MutexInv'  BY DEF MutexInv, ProgressInv, Held
  <1>2. ProgressInv'  BY DEF MutexInv, ProgressInv, Held, Quiet, Up
  <1>3. (lock = None => Quiet)'  BY DEF MutexInv, ProgressInv, Held, Quiet, Up
  <1> QED  BY <1>1, <1>2, <1>3

\* The one new box is the caller's.
LEMMA NewServiceCore ==
  ASSUME TypeOK, CoreInv, NEW c \in Client, NEW s \in Service, NewService(c, s)
  PROVE  CoreInv'
  <1> USE NoneAssumption DEF TypeOK, CoreInv, NewService, Goto
  <1>1. MutexInv'  BY DEF MutexInv, ProgressInv, Held
  <1>2. ProgressInv'  BY DEF MutexInv, ProgressInv, Held, Quiet, Up
  <1>3. (lock = None => Quiet)'  BY DEF MutexInv, ProgressInv, Held, Quiet, Up
  <1> QED  BY <1>1, <1>2, <1>3

\* The box that is up is published.
LEMMA PublishServiceCore ==
  ASSUME TypeOK, CoreInv, NEW c \in Client, PublishService(c)
  PROVE  CoreInv'
  <1> USE NoneAssumption DEF TypeOK, CoreInv, PublishService, Goto
  <1>1. MutexInv'  BY DEF MutexInv, ProgressInv, Held
  <1>2. ProgressInv'  BY DEF MutexInv, ProgressInv, Held, Quiet, Up
  <1>3. (lock = None => Quiet)'  BY DEF MutexInv, ProgressInv, Held, Quiet, Up
  <1> QED  BY <1>1, <1>2, <1>3

\* STARTED is told of a published service.
LEMMA StartDoneCore ==
  ASSUME TypeOK, CoreInv, NEW c \in Client, StartDone(c)
  PROVE  CoreInv'
  <1> USE NoneAssumption DEF TypeOK, CoreInv, StartDone, Return, Unlock, Goto
  <1>1. MutexInv'  BY DEF MutexInv, ProgressInv, Held
  <1>2. ProgressInv'  BY DEF MutexInv, ProgressInv, Held, Quiet, Up
  <1>3. (lock = None => Quiet)'  BY DEF MutexInv, ProgressInv, Held, Quiet, Up
  <1> QED  BY <1>1, <1>2, <1>3

\* The mutex is free, so the state is quiet.
LEMMA StopLockCore ==
  ASSUME TypeOK, CoreInv, NEW c \in Client, StopLock(c)
  PROVE  CoreInv'
  <1> USE NoneAssumption DEF TypeOK, CoreInv, StopLock, Acquire, Goto
  <1>1. MutexInv'  BY DEF MutexInv, ProgressInv, Held
  <1>2. ProgressInv'  BY DEF MutexInv, ProgressInv, Held, Quiet, Up
  <1>3. (lock = None => Quiet)'  BY DEF MutexInv, ProgressInv, Held, Quiet, Up
  <1> QED  BY <1>1, <1>2, <1>3

\* Stop reads the only service that can be up.
LEMMA StopCheckCore ==
  ASSUME TypeOK, CoreInv, NEW c \in Client, StopCheck(c)
  PROVE  CoreInv'
  <1> USE NoneAssumption DEF TypeOK, CoreInv, StopCheck, Goto
  <1>1. MutexInv'  BY DEF MutexInv, ProgressInv, Held
  <1>2. ProgressInv'  BY DEF MutexInv, ProgressInv, Held, Quiet, Up
  <1>3. (lock = None => Quiet)'  BY DEF MutexInv, ProgressInv, Held, Quiet, Up
  <1> QED  BY <1>1, <1>2, <1>3

\* After CloseService, failed or not, nothing is up.
LEMMA StopCloseCore ==
  ASSUME TypeOK, CoreInv, NEW c \in Client, NEW ok \in BOOLEAN, StopClose(c, ok)
  PROVE  CoreInv'
  <1> USE NoneAssumption DEF TypeOK, CoreInv, StopClose, CloseService, Goto
  <1>1. MutexInv'  BY DEF MutexInv, ProgressInv, Held
  <1>2. ProgressInv'  BY DEF MutexInv, ProgressInv, Held, Quiet, Up
  <1>3. (lock = None => Quiet)'  BY DEF MutexInv, ProgressInv, Held, Quiet, Up
  <1> QED  BY <1>1, <1>2, <1>3

\* The closed service is unpublished.
LEMMA StopClearCore ==
  ASSUME TypeOK, CoreInv, NEW c \in Client, StopClear(c)
  PROVE  CoreInv'
  <1> USE NoneAssumption DEF TypeOK, CoreInv, StopClear, Goto
  <1>1. MutexInv'  BY DEF MutexInv, ProgressInv, Held
  <1>2. ProgressInv'  BY DEF MutexInv, ProgressInv, Held, Quiet, Up
  <1>3. (lock = None => Quiet)'  BY DEF MutexInv, ProgressInv, Held, Quiet, Up
  <1> QED  BY <1>1, <1>2, <1>3

\* STOPPED is told with nothing up or published.
LEMMA StopDoneCore ==
  ASSUME TypeOK, CoreInv, NEW c \in Client, StopDone(c)
  PROVE  CoreInv'
  <1> USE NoneAssumption DEF TypeOK, CoreInv, StopDone, Return, Unlock, AfterStop, Goto
  <1>1. MutexInv'  BY DEF MutexInv, ProgressInv, Held
  <1>2. ProgressInv'  BY DEF MutexInv, ProgressInv, Held, Quiet, Up
  <1>3. (lock = None => Quiet)'  BY DEF MutexInv, ProgressInv, Held, Quiet, Up
  <1> QED  BY <1>1, <1>2, <1>3

\* The wait for the TUN device ends outside the mutex.
LEMMA TunWaitedCore ==
  ASSUME TypeOK, CoreInv, NEW c \in Client, TunWaited(c)
  PROVE  CoreInv'
  <1> USE NoneAssumption DEF TypeOK, CoreInv, TunWaited, Goto
  <1>1. MutexInv'  BY DEF MutexInv, ProgressInv, Held
  <1>2. ProgressInv'  BY DEF MutexInv, ProgressInv, Held, Quiet, Up
  <1>3. (lock = None => Quiet)'  BY DEF MutexInv, ProgressInv, Held, Quiet, Up
  <1> QED  BY <1>1, <1>2, <1>3

\* errorWrapper finds no service.
LEMMA AlertCore ==
  ASSUME TypeOK, CoreInv, NEW c \in Client, Alert(c)
  PROVE  CoreInv'
  <1> USE NoneAssumption DEF TypeOK, CoreInv, Alert, Goto
  <1>1. MutexInv'  BY DEF MutexInv, ProgressInv, Held
  <1>2. ProgressInv'  BY DEF MutexInv, ProgressInv, Held, Quiet, Up
  <1>3. (lock = None => Quiet)'  BY DEF MutexInv, ProgressInv, Held, Quiet, Up
  <1> QED  BY <1>1, <1>2, <1>3

\* The failed call returns in a quiet state.
LEMMA AlertDoneCore ==
  ASSUME TypeOK, CoreInv, NEW c \in Client, AlertDone(c)
  PROVE  CoreInv'
  <1> USE NoneAssumption DEF TypeOK, CoreInv, AlertDone, Return, Unlock, Goto
  <1>1. MutexInv'  BY DEF MutexInv, ProgressInv, Held
  <1>2. ProgressInv'  BY DEF MutexInv, ProgressInv, Held, Quiet, Up
  <1>3. (lock = None => Quiet)'  BY DEF MutexInv, ProgressInv, Held, Quiet, Up
  <1> QED  BY <1>1, <1>2, <1>3

\* While the core stays calm every step preserves the invariant: the steps
\* of errorWrapper that close a service are never reached.
LEMMA StepCore == TypeOK /\ (calm => CoreInv) /\ [Next]_vars => (calm' => CoreInv')
  <1> SUFFICES ASSUME TypeOK, calm => CoreInv, [Next]_vars, calm' PROVE CoreInv'  OBVIOUS
  <1>1. CASE UNCHANGED vars
    BY <1>1 DEF vars, coreVars, CoreInv, MutexInv, ProgressInv, Quiet, Up
  <1>2. ASSUME NEW c \in Client, CoreInv,
               \/ CallStart(c) \/ CallStop(c) \/ CallRestart(c)
               \/ StartLock(c) \/ StartCheck(c) \/ BuildFails(c)
               \/ \E s \in Service : NewService(c, s)
               \/ PublishService(c) \/ StartDone(c)
        PROVE  CoreInv'
    BY <1>2, CallStartCore, CallStopCore, CallRestartCore, StartLockCore, StartCheckCore,
       BuildFailsCore, NewServiceCore, PublishServiceCore, StartDoneCore
  <1>3. ASSUME NEW c \in Client, CoreInv,
               \/ StopLock(c) \/ StopCheck(c) \/ StopClear(c) \/ StopDone(c)
               \/ \E ok \in BOOLEAN : StopClose(c, ok)
               \/ TunWaited(c) \/ Alert(c) \/ AlertDone(c)
        PROVE  CoreInv'
    BY <1>3, StopLockCore, StopCheckCore, StopClearCore, StopDoneCore, StopCloseCore,
       TunWaitedCore, AlertCore, AlertDoneCore
  <1>4. ASSUME NEW c \in Client, CoreInv,
               (\E ok \in BOOLEAN : AlertClose(c, ok)) \/ AlertClear(c)
        PROVE  FALSE
    BY <1>4 DEF CoreInv, MutexInv, AlertClose, AlertClear
  <1> QED  BY <1>1, <1>2, <1>3, <1>4 DEF Next, Step, Guarded

-----------------------------------------------------------------------------
\* Types hold with and without panics; in particular Stop and errorWrapper
\* never call a method of a nil service.
THEOREM CoreTypeCorrect == Spec => []TypeOK
  <1>1. Init => TypeOK  BY InitCore
  <1> QED  BY <1>1, StepTyped, PTL DEF Spec

\* While it is calm the core state follows the holder of the mutex through
\* every call.
THEOREM CoreFollowsMutex == Spec => [](calm => CoreInv)
  <1>1. Init => (calm => CoreInv)  BY InitCore
  <1> QED  BY <1>1, StepCore, CoreTypeCorrect, PTL DEF Spec

\* While the core is calm and the mutex is free the state is STOPPED or
\* STARTED, it is STARTED exactly when a service is published, and only that
\* one can be up.
THEOREM CoreTruthful == Spec => []Truthful
  <1>1. (calm => CoreInv) => Truthful  BY DEF CoreInv, Quiet, Up, Truthful
  <1> QED  BY <1>1, CoreFollowsMutex, PTL

\* While the core is calm no two boxes are up at once, whatever calls overlap.
THEOREM CoreOneBox == Spec => []OneBox
  <1>1. TypeOK /\ (calm => CoreInv) => OneBox
    <2> SUFFICES ASSUME TypeOK, CoreInv
                 PROVE  \A s, t \in Service : svc[s] = "up" /\ svc[t] = "up" => s = t
      BY DEF OneBox
    <2>1. CASE lock = None  BY <2>1 DEF CoreInv, Quiet, Up
    <2>2. CASE lock \in Client
      <3>1. pc[lock] \in Held  BY <2>2 DEF CoreInv, MutexInv
      <3> QED  BY <2>2, <3>1 DEF CoreInv, ProgressInv, Held, Quiet, Up
    <2> QED  BY <2>1, <2>2 DEF TypeOK
  <1> QED  BY <1>1, CoreFollowsMutex, CoreTypeCorrect, PTL
=============================================================================
