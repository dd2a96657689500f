---------------------------- MODULE CoreService ----------------------------
(***************************************************************************)
(* Start, Stop, Restart and the error path of v2/hcore: the process-wide   *)
(* core state, the one published StartedService, and the mutex that most,  *)
(* but not all, of their steps hold.                                       *)
(*                                                                         *)
(* errorWrapper runs under the mutex when a step of StartService or Stop   *)
(* fails, but without it after a panic, because the deferred Unlock runs   *)
(* before the deferred recover.  StopAndAlert, when Parse or GenerateConfig*)
(* panics, and a cancelled Restart never hold it.                          *)
(***************************************************************************)
EXTENDS Naturals, FiniteSets

CONSTANTS Client,      \* goroutines that call the API
          Service,     \* StartedService objects; bound: calls of NewService
          None,        \* nil, and a free mutex
          MayPanic,    \* code below the API may panic
          WaitsForTun  \* C.IsAndroid /\ HiddifyOptions.EnableTun

ASSUME NoneAssumption == None \notin Client \cup Service
ASSUME FlagAssumption == MayPanic \in BOOLEAN /\ WaitsForTun \in BOOLEAN

VARIABLES coreState,   \* static.CoreState
          started,     \* static.StartedService
          svc,         \* what became of each StartedService
          lock,        \* holder of static.lock
          pc, op,      \* control state and current call of each client
          mine,        \* the service a client just built or is closing
          calm         \* history: the state was only ever changed under the mutex

coreVars == <<coreState, started, svc, lock, pc, op, mine>>
vars == <<coreVars, calm>>

CoreStates == {"STOPPED", "STARTING", "STARTED", "STOPPING"}
Labels == {"idle", "startLock", "startCheck", "build", "publish", "startDone",
           "stopLock", "stopCheck", "close", "clear", "stopDone", "tunWait",
           "alert", "alertClose", "alertClear", "alertDone"}

\* "none": not built, "up": its box runs, "down": closed, "fatal": closing failed.
ServiceState == {"none", "up", "down", "fatal"}

TypeOK ==
    /\ coreState \in CoreStates
    /\ started \in Service \cup {None}
    /\ svc \in [Service -> ServiceState]
    /\ lock \in Client \cup {None}
    /\ pc \in [Client -> Labels]
    /\ op \in [Client -> {"start", "stop", "restart", "none"}]
    /\ mine \in [Client -> Service \cup {None}]
    /\ calm \in BOOLEAN
    \* no method is called on a nil service
    /\ \A c \in Client : pc[c] \in {"publish", "close", "alertClose"} => mine[c] # None

Init ==
    /\ coreState = "STOPPED"
    /\ started = None
    /\ svc = [s \in Service |-> "none"]
    /\ lock = None
    /\ pc = [c \in Client |-> "idle"]
    /\ op = [c \in Client |-> "none"]
    /\ mine = [c \in Client |-> None]
    /\ calm = TRUE

-----------------------------------------------------------------------------
Goto(c, l) == pc' = [pc EXCEPT ![c] = l]

\* The call returns.
Return(c) ==
    /\ Goto(c, "idle")
    /\ op' = [op EXCEPT ![c] = "none"]
    /\ mine' = [mine EXCEPT ![c] = None]

\* The deferred Unlock; a client that does not hold the mutex leaves it alone.
Unlock(c) == lock' = IF lock = c THEN None ELSE lock

Call(c, o, l) ==
    /\ pc[c] = "idle"
    /\ op' = [op EXCEPT ![c] = o]
    /\ Goto(c, l)
    /\ UNCHANGED <<coreState, started, svc, lock, mine>>

CallStart(c) == Call(c, "start", "startLock")
CallStop(c) == Call(c, "stop", "stopLock")
CallRestart(c) == Call(c, "restart", "stopLock")

Acquire(c, from, to) ==
    /\ pc[c] = from
    /\ lock = None
    /\ lock' = c
    /\ Goto(c, to)
    /\ UNCHANGED <<coreState, started, svc, op, mine>>

-----------------------------------------------------------------------------
(* StartService *)

StartLock(c) == Acquire(c, "startLock", "startCheck")

\* Mutant: the guard on CoreState is missing.
MutStartUnguarded(c) ==
    /\ pc[c] = "startCheck"
    /\ coreState' = "STARTING"
    /\ Goto(c, "build")
    /\ UNCHANGED <<started, svc, lock, op, mine>>

\* Mutant: the early return keeps the mutex.
MutStartKeepsLock(c) ==
    /\ pc[c] = "startCheck"
    /\ IF coreState # "STOPPED"
       THEN Return(c) /\ UNCHANGED coreState
       ELSE coreState' = "STARTING" /\ Goto(c, "build") /\ UNCHANGED <<op, mine>>
    /\ UNCHANGED <<started, svc, lock>>

\* The guard on CoreState: already started, or STARTING.
StartCheck(c) ==
    /\ pc[c] = "startCheck"
    /\ IF coreState # "STOPPED"
       THEN /\ Return(c) /\ Unlock(c)
            /\ UNCHANGED coreState
       ELSE /\ coreState' = "STARTING"
            /\ Goto(c, "build")
            /\ UNCHANGED <<op, mine, lock>>
    /\ UNCHANGED <<started, svc>>

\* Mutant: a failed start returns its error without errorWrapper.
MutBuildFailsPlain(c) ==
    /\ pc[c] = "build"
    /\ Return(c) /\ Unlock(c)
    /\ UNCHANGED <<coreState, started, svc>>

\* Loading the request, BuildConfig, the pre-start services or NewService
\* fail; a box that fails to start closes itself.
BuildFails(c) ==
    /\ pc[c] = "build"
    /\ Goto(c, "alert")
    /\ UNCHANGED <<coreState, started, svc, lock, op, mine>>

\* NewService returns a started service.
NewService(c, s) ==
    /\ pc[c] = "build"
    /\ svc[s] = "none"
    /\ svc' = [svc EXCEPT ![s] = "up"]
    /\ mine' = [mine EXCEPT ![c] = s]
    /\ Goto(c, "publish")
    /\ UNCHANGED <<coreState, started, lock, op>>

PublishService(c) ==
    /\ pc[c] = "publish"
    /\ started' = mine[c]
    /\ Goto(c, "startDone")
    /\ UNCHANGED <<coreState, svc, lock, op, mine>>

StartDone(c) ==
    /\ pc[c] = "startDone"
    /\ coreState' = "STARTED"
    /\ Return(c) /\ Unlock(c)
    /\ UNCHANGED <<started, svc>>

-----------------------------------------------------------------------------
(* Stop, and Restart as Stop followed by StartService *)

StopLock(c) == Acquire(c, "stopLock", "stopCheck")

\* Where a successful Stop leads: Restart goes on.
AfterStop(c) ==
    IF op[c] = "restart"
    THEN /\ Goto(c, IF WaitsForTun THEN "tunWait" ELSE "startLock")
         /\ mine' = [mine EXCEPT ![c] = None]
         /\ UNCHANGED op
    ELSE Return(c)

\* STOPPING, then the read of StartedService.
StopCheck(c) ==
    /\ pc[c] = "stopCheck"
    /\ coreState' = "STOPPING"
    /\ mine' = [mine EXCEPT ![c] = started]
    /\ Goto(c, IF started = None THEN "stopDone" ELSE "close")
    /\ UNCHANGED <<started, svc, lock, op>>

\* CloseService: refused unless the service is up, and it may fail.
CloseService(s, ok) ==
    /\ ok => svc[s] = "up"
    /\ svc' = IF svc[s] = "up" THEN [svc EXCEPT ![s] = IF ok THEN "down" ELSE "fatal"] ELSE svc

StopClose(c, ok) ==
    /\ pc[c] = "close"
    /\ CloseService(mine[c], ok)
    /\ IF ok THEN Goto(c, "clear") /\ UNCHANGED started
             ELSE Goto(c, "alert") /\ started' = None
    /\ UNCHANGED <<coreState, lock, op, mine>>

StopClear(c) ==
    /\ pc[c] = "clear"
    /\ started' = None
    /\ Goto(c, "stopDone")
    /\ UNCHANGED <<coreState, svc, lock, op, mine>>

StopDone(c) ==
    /\ pc[c] = "stopDone"
    /\ coreState' = "STOPPED"
    /\ Unlock(c)
    /\ AfterStop(c)
    /\ UNCHANGED <<started, svc>>

\* On Android with TUN, Restart waits a second between Stop and StartService.
TunWaited(c) ==
    /\ pc[c] = "tunWait"
    /\ Goto(c, "startLock")
    /\ UNCHANGED <<coreState, started, svc, lock, op, mine>>

\* Its context ends first: the state is set without the mutex.
RestartCancelled(c) ==
    /\ pc[c] = "tunWait"
    /\ coreState' = "STOPPED"
    /\ Return(c)
    /\ UNCHANGED <<started, svc, lock>>

-----------------------------------------------------------------------------
(* errorWrapper and StopAndAlert *)

\* StartService panics before it has published a service.  A panic inside
\* NewService may leave a box that is up and that nobody refers to.  Stop has
\* no such step: CloseService closes each component in a goroutine of its
\* own (closeWithTimeout), where a panic ends the process, recovered by nobody.
Panic(c) ==
    /\ MayPanic
    /\ pc[c] = "build"
    /\ \/ UNCHANGED svc
       \/ \E s \in Service : svc[s] = "none" /\ svc' = [svc EXCEPT ![s] = "up"]
    /\ Goto(c, "alert")
    /\ Unlock(c)
    /\ UNCHANGED <<coreState, started, op, mine>>

\* Parse or GenerateConfig panics in a client that is in no lifecycle call.
ConfigPanic(c) ==
    /\ MayPanic
    /\ pc[c] = "idle"
    /\ Goto(c, "alert")
    /\ UNCHANGED <<coreState, started, svc, lock, op, mine>>

\* SetCoreStatus(STOPPED), then the read of StartedService.
Alert(c) ==
    /\ pc[c] = "alert"
    /\ coreState' = "STOPPED"
    /\ mine' = [mine EXCEPT ![c] = started]
    /\ Goto(c, IF started = None THEN "alertDone" ELSE "alertClose")
    /\ UNCHANGED <<started, svc, lock, op>>

\* The error of CloseService is ignored here.
AlertClose(c, ok) ==
    /\ pc[c] = "alertClose"
    /\ CloseService(mine[c], ok)
    /\ Goto(c, "alertClear")
    /\ UNCHANGED <<coreState, started, lock, op, mine>>

AlertClear(c) ==
    /\ pc[c] = "alertClear"
    /\ started' = None
    /\ Goto(c, "alertDone")
    /\ UNCHANGED <<coreState, svc, lock, op, mine>>

\* errorWrapper sets STOPPED once more; Parse and GenerateConfig just return.
AlertDone(c) ==
    /\ pc[c] = "alertDone"
    /\ coreState' = IF op[c] = "none" THEN coreState ELSE "STOPPED"
    /\ Return(c) /\ Unlock(c)
    /\ UNCHANGED <<started, svc>>

-----------------------------------------------------------------------------
\* Steps that change the state, or lead to a change of it, without the mutex.
Unguarded(c) == Panic(c) \/ RestartCancelled(c)

Guarded(c) ==
    \/ StartLock(c) \/ StartCheck(c) \/ BuildFails(c)
    \/ \E s \in Service : NewService(c, s)
    \/ PublishService(c) \/ StartDone(c)
    \/ StopLock(c) \/ StopCheck(c) \/ StopClear(c) \/ StopDone(c)
    \/ \E ok \in BOOLEAN : StopClose(c, ok) \/ AlertClose(c, ok)
    \/ TunWaited(c)
    \/ Alert(c) \/ AlertClear(c) \/ AlertDone(c)

\* The steps of a call that has begun.
Step(c) ==
    \/ Guarded(c) /\ UNCHANGED calm
    \/ Unguarded(c) /\ calm' = FALSE

Next ==
    \E c \in Client :
        \/ (CallStart(c) \/ CallStop(c) \/ CallRestart(c)) /\ UNCHANGED calm
        \/ ConfigPanic(c) /\ calm' = FALSE
        \/ Step(c)

Spec == Init /\ [][Next]_vars

(* Every call goes on once begun; sync.Mutex starves nobody.               *)
Fairness ==
    \A c \in Client : /\ WF_vars(Step(c))
                      /\ SF_coreVars(StartLock(c)) /\ SF_coreVars(StopLock(c))

FairSpec == Spec /\ Fairness

-----------------------------------------------------------------------------
(* Properties *)

\* Between calls what the UI is told is the truth: the state is STOPPED or
\* STARTED, and a box runs exactly when it is STARTED and published.  This
\* holds until a panic or a cancelled Restart has changed the state without
\* the mutex.
Truthful ==
    calm /\ lock = None =>
        /\ coreState \in {"STOPPED", "STARTED"}
        /\ (coreState = "STARTED") = (started # None)
        /\ \A s \in Service : svc[s] = "up" => s = started

\* There is never a second running box next to the first, whatever Start,
\* Stop and Restart calls overlap (two would fight for ports and TUN), until
\* a panic or a cancelled Restart has changed the state without the mutex.
OneBox == calm => \A s, t \in Service : svc[s] = "up" /\ svc[t] = "up" => s = t

\* No call leaves the core in a transitional state, in which every later
\* Start would be refused: neither one that fails nor a StartService that
\* panics.
Settles == coreState \in {"STARTING", "STOPPING"} ~> coreState \in {"STOPPED", "STARTED"}

\* Every call returns, so the mutex is never lost.
CallsReturn == \A c \in Client : pc[c] # "idle" ~> pc[c] = "idle"

-----------------------------------------------------------------------------
(* The inductive invariant behind Truthful and OneBox, which holds while    *)
(* the core is calm.                                                        *)

Held == {"startCheck", "build", "publish", "startDone", "stopCheck", "close",
         "clear", "stopDone", "alert", "alertDone"}

Up == {s \in Service : svc[s] = "up"}

\* What Truthful says of an unlocked state.
Quiet ==
    /\ coreState \in {"STOPPED", "STARTED"}
    /\ (coreState = "STARTED") = (started # None)
    /\ Up \subseteq {started}

\* Whoever is past its lock step holds the mutex, and errorWrapper never
\* finds a service to close.
MutexInv ==
    \A c \in Client :
        /\ (lock = c) = (pc[c] \in Held)
        /\ pc[c] \notin {"alertClose", "alertClear"}

\* What the holder of the mutex has made of the state so far.
ProgressInv ==
    \A c \in Client :
        /\ pc[c] \in {"startCheck", "stopCheck"} => Quiet
        /\ pc[c] \in {"build", "alert", "alertDone", "stopDone"} => started = None /\ Up = {}
        /\ pc[c] = "alertDone" => coreState = "STOPPED"
        /\ pc[c] = "publish" => started = None /\ Up \subseteq {mine[c]}
        /\ pc[c] = "startDone" => started = mine[c] /\ started # None /\ Up \subseteq {started}
        /\ pc[c] = "close" => mine[c] = started /\ Up \subseteq {started}
        /\ pc[c] = "clear" => Up = {}

\* The core's published state follows the holder of the mutex, step by step.
CoreInv == MutexInv /\ ProgressInv /\ (lock = None => Quiet)
=============================================================================
