--------------------------- MODULE StartedService --------------------------
(***************************************************************************)
(* The daemon's StartedService (daemon/started_service.go): start, reload, *)
(* close and error reporting of one service, whose status is guarded by    *)
(* serviceAccess, and the box instances it creates.  The mutex is released *)
(* while an old instance closes and while a new one starts, so those two   *)
(* steps interleave with everything else.                                  *)
(***************************************************************************)
EXTENDS Naturals, FiniteSets

CONSTANTS Starter,   \* goroutines calling StartOrReloadService
          Box,       \* box instances; bound: instances that are created
          NoBox

ASSUME BoxAssumption == NoBox \notin Box

VARIABLES status,    \* serviceStatus
          instance,  \* s.instance
          box,       \* life of each box instance
          done,      \* the instances whose Box.Close has begun
          pc,        \* control state of the starters
          old,       \* the instance a reload closes
          mine,      \* the instance a start has created
          failed,    \* instance.Start() returned an error
          alone      \* history: no two starts have overlapped

serviceVars == <<status, instance, box, done, pc, old, mine, failed>>
vars == <<serviceVars, alone>>

Status == {"IDLE", "STARTING", "STARTED", "STOPPING", "FATAL"}
BoxState == {"none", "starting", "running", "closed"}

TypeOK ==
    /\ status \in Status
    /\ instance \in Box \cup {NoBox}
    /\ box \in [Box -> BoxState]
    /\ done \in SUBSET Box
    /\ pc \in [Starter -> {"idle", "closeOld", "relock", "start", "finish"}]
    /\ old \in [Starter -> Box \cup {NoBox}]
    /\ mine \in [Starter -> Box \cup {NoBox}]
    /\ failed \in [Starter -> BOOLEAN]
    /\ alone \in BOOLEAN
    \* no method is called on a nil instance
    /\ \A t \in Starter : /\ pc[t] = "closeOld" => old[t] # NoBox
                          /\ pc[t] \in {"start", "finish"} => mine[t] # NoBox

Init ==
    /\ status = "IDLE"
    /\ instance = NoBox
    /\ box = [b \in Box |-> "none"]
    /\ done = {}
    /\ pc = [t \in Starter |-> "idle"]
    /\ old = [t \in Starter |-> NoBox]
    /\ mine = [t \in Starter |-> NoBox]
    /\ failed = [t \in Starter |-> FALSE]
    /\ alone = TRUE

Goto(t, l) == pc' = [pc EXCEPT ![t] = l]

\* Box.Close: a second call returns os.ErrClosed.  A manager that is not
\* started yet has nothing to close, so the start goes on.
Close(b) ==
    /\ done' = done \cup {b}
    /\ box' = [box EXCEPT ![b] = IF @ = "running" /\ b \notin done THEN "closed" ELSE @]

Return(t) ==
    /\ Goto(t, "idle")
    /\ old' = [old EXCEPT ![t] = NoBox]
    /\ mine' = [mine EXCEPT ![t] = NoBox]
    /\ failed' = [failed EXCEPT ![t] = FALSE]

-----------------------------------------------------------------------------
(* startOrReloadServiceImp *)

\* Instances are interchangeable before they are made.
NextBox == CHOOSE b \in Box : box[b] = "none"

\* From STARTING on: newInstance succeeds and the mutex is released for
\* instance.Start(), or it fails and leaves the old value of s.instance.
Create(t) ==
    \/ \E b \in Box :
          /\ box[b] = "none" /\ b = NextBox
          /\ box' = [box EXCEPT ![b] = "starting"]
          /\ status' = "STARTING"
          /\ instance' = b
          /\ mine' = [mine EXCEPT ![t] = b]
          /\ old' = [old EXCEPT ![t] = NoBox]
          /\ Goto(t, "start")
          /\ UNCHANGED <<done, failed>>
    \/ /\ status' = "FATAL"
       /\ Return(t)
       /\ UNCHANGED <<instance, box, done>>

\* Mutant: a service that is stopping may be started.
MutStartableStopping == status \in {"IDLE", "STARTED", "STARTING", "STOPPING"}

\* Any other status is refused with os.ErrInvalid.
Startable == status \in {"IDLE", "STARTED", "STARTING"}

\* Mutant: the old instance is replaced without being closed.
MutStartOverOld(t) ==
    /\ pc[t] = "idle"
    /\ Startable
    /\ Create(t)

StartFresh(t) ==
    /\ pc[t] = "idle"
    /\ Startable
    /\ instance = NoBox
    /\ Create(t)

\* There is an old instance: it is closed with the mutex released.
Reload(t) ==
    /\ pc[t] = "idle"
    /\ Startable
    /\ instance # NoBox
    /\ status' = "STOPPING"
    /\ old' = [old EXCEPT ![t] = instance]
    /\ Goto(t, "closeOld")
    /\ UNCHANGED <<instance, box, done, mine, failed>>

\* The error of oldInstance.Close() is ignored.
CloseOld(t) ==
    /\ pc[t] = "closeOld"
    /\ Close(old[t])
    /\ Goto(t, "relock")
    /\ UNCHANGED <<status, instance, old, mine, failed>>

Recreate(t) ==
    /\ pc[t] = "relock"
    /\ Create(t)

\* Box.Start: on an error the box closes itself.  Start does not look at
\* done: what comes up of a box that was closed meanwhile stays up, whatever
\* Start returns, for the Close of its error path finds the box closed.
BoxStart(t, ok) ==
    /\ pc[t] = "start"
    /\ \E end \in {"running", "closed"} :
          /\ mine[t] \notin done => (end = "running") = ok
          /\ box' = [box EXCEPT ![mine[t]] = end]
    /\ done' = IF ok THEN done ELSE done \cup {mine[t]}
    /\ failed' = [failed EXCEPT ![t] = ~ok]
    /\ Goto(t, "finish")
    /\ UNCHANGED <<status, instance, old, mine>>

\* Mutant: the status is not read again after instance.Start().
MutFinishBlind(t) ==
    /\ pc[t] = "finish"
    /\ status' = IF failed[t] THEN "FATAL" ELSE "STARTED"
    /\ Return(t)
    /\ UNCHANGED <<instance, box, done>>

\* Mutant: an error of instance.Start() is returned without a status.
MutFinishNoFatal(t) ==
    /\ pc[t] = "finish"
    /\ status' = IF status = "STARTING" /\ ~failed[t] THEN "STARTED" ELSE status
    /\ Return(t)
    /\ UNCHANGED <<instance, box, done>>

\* The mutex is taken again; a status other than STARTING ends the call.
StartFinish(t) ==
    /\ pc[t] = "finish"
    /\ status' = IF status # "STARTING" THEN status
                 ELSE IF failed[t] THEN "FATAL" ELSE "STARTED"
    /\ Return(t)
    /\ UNCHANGED <<instance, box, done>>

-----------------------------------------------------------------------------
(* CloseService, which holds the mutex throughout *)

Closable == status \in {"STARTING", "STARTED"}

\* instance.Close() succeeds, or there is no instance.
CloseService ==
    /\ Closable
    /\ instance \notin done
    /\ IF instance = NoBox THEN UNCHANGED <<box, done>> ELSE Close(instance)
    /\ instance' = NoBox
    /\ status' = "IDLE"
    /\ UNCHANGED <<pc, old, mine, failed>>

\* It returns an error: os.ErrClosed, or a component that failed to close.
CloseServiceFails ==
    /\ Closable
    /\ instance # NoBox
    /\ Close(instance)
    /\ status' = "FATAL"
    /\ UNCHANGED <<instance, pc, old, mine, failed>>

SetError ==
    /\ status' = "FATAL"
    /\ UNCHANGED <<instance, box, done, pc, old, mine, failed>>

-----------------------------------------------------------------------------
StartStep(t) ==
    /\ \/ CloseOld(t) \/ Recreate(t)
       \/ \E ok \in BOOLEAN : BoxStart(t, ok)
       \/ StartFinish(t)
    /\ UNCHANGED alone

StartBegin(t) ==
    /\ StartFresh(t) \/ Reload(t)
    /\ alone' = (alone /\ \A u \in Starter \ {t} : pc[u] = "idle")

Next ==
    \/ \E t \in Starter : StartBegin(t) \/ StartStep(t)
    \/ (CloseService \/ CloseServiceFails \/ SetError) /\ UNCHANGED alone

Spec == Init /\ [][Next]_vars

\* A start that has begun goes on: Box.Start and Box.Close return.
FairSpec == Spec /\ \A t \in Starter : WF_vars(StartStep(t))

-----------------------------------------------------------------------------
(* Properties *)

\* Every box that starts or runs can still be closed by someone: it is the
\* service's instance, or the one a reload is about to close.  A box that
\* nobody refers to would keep its listeners and its TUN device forever.
\* startOrReloadServiceImp and CloseService lose such a box in one case only,
\* when Close was called on it while instance.Start() was under way.
NoLeakedBox ==
    \A b \in Box :
        box[b] \in {"starting", "running"} =>
            \/ b = instance
            \/ \E t \in Starter : pc[t] = "closeOld" /\ old[t] = b
            \/ b \in done

\* STARTED is only reported for an instance whose box runs and can still be
\* closed, until two calls of StartOrReloadService have overlapped.
StartedIsRunning ==
    alone /\ status = "STARTED" =>
        instance # NoBox /\ box[instance] = "running" /\ instance \notin done

\* At most one reload at a time is between closing the old instance and
\* creating the new one, so no two starts replace the same instance.
OneReload ==
    \A t, u \in Starter :
        pc[t] \in {"closeOld", "relock"} /\ pc[u] \in {"closeOld", "relock"} => t = u

\* A service being started or reloaded reaches a settled status: no start
\* leaves STARTING or STOPPING behind.
StartSettles == status \in {"STARTING", "STOPPING"} ~> status \in {"IDLE", "STARTED", "FATAL"}

-----------------------------------------------------------------------------
(* The inductive invariant behind NoLeakedBox and OneReload *)

\* While a reload has released the mutex nobody else can replace or clear
\* the instance, and by the time it has the mutex again the old box was
\* closed.  Close is called on no box before it is made, and nothing else
\* closes one.
ReloadInv ==
    /\ \A t \in Starter :
          /\ pc[t] \in {"closeOld", "relock"} =>
                /\ status \in {"STOPPING", "FATAL"}
                /\ old[t] = instance
          /\ pc[t] = "relock" => old[t] # NoBox /\ old[t] \in done
          /\ pc[t] = "start" => box[mine[t]] # "none"
    /\ \A b \in Box : /\ box[b] = "none" => b \notin done /\ b # instance
                      /\ box[b] = "closed" => b \in done

\* A reload owns the service from STOPPING to the new instance.
DaemonInv == ReloadInv /\ OneReload /\ NoLeakedBox

\* Behind StartedIsRunning: while starts do not overlap, the one under way
\* owns STARTING and its instance, and STARTED is not reported before it ends.
AloneInv ==
    alone =>
        /\ \A t, u \in Starter : pc[t] # "idle" /\ pc[u] # "idle" => t = u
        /\ \A t \in Starter :
              /\ pc[t] # "idle" => status # "STARTED"
              /\ pc[t] \in {"start", "finish"} /\ status = "STARTING" =>
                    /\ mine[t] = instance
                    /\ pc[t] = "start" => box[mine[t]] = "starting" /\ mine[t] \notin done
                    /\ pc[t] = "finish" /\ ~failed[t] =>
                          box[mine[t]] = "running" /\ mine[t] \notin done
=============================================================================
