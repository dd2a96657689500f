--------------------------- MODULE StatusWaiters ---------------------------
(***************************************************************************)
(* The daemon's StartedService with the calls that wait for it: every      *)
(* status goes to serviceStatusSubscriber, a goroutine of the observer     *)
(* hands it on to the listeners, and waitForStarted returns on the first   *)
(* status that settles the start.  The subscriber and the listeners drop   *)
(* a status when their buffer is full.                                     *)
(***************************************************************************)
EXTENDS StartedService, Sequences, SequencesExt

CONSTANTS Waiter,          \* callers of waitForStarted
          SubscriberCap,   \* buffer of serviceStatusSubscriber, 4 in the code
          ListenerCap      \* buffer of a subscription, 2 in the code

ASSUME CapAssumption == SubscriberCap \in Nat \ {0} /\ ListenerCap \in Nat \ {0}

VARIABLES emitted,  \* statuses the observer has not handed on
          lossless, \* history: no status was dropped on the way to the observer
          wait,     \* control state of the waiters
          inbox     \* statuses handed to each waiter's subscription

waitVars == <<emitted, lossless, wait, inbox>>
allVars == <<vars, waitVars>>

WaitTypeOK ==
    /\ emitted \in BoundedSeq(Status, SubscriberCap)
    /\ lossless \in BOOLEAN
    /\ wait \in [Waiter -> {"idle", "subscribe", "wait"}]
    /\ inbox \in [Waiter -> BoundedSeq(Status, ListenerCap)]

WaitInit ==
    /\ Init
    /\ emitted = <<>>
    /\ lossless = TRUE
    /\ wait = [w \in Waiter |-> "idle"]
    /\ inbox = [w \in Waiter |-> <<>>]

Put(queue, s, cap) == IF Len(queue) < cap THEN Append(queue, s) ELSE queue

\* updateStatus and updateStatusError, called with serviceAccess held.
Emit(statuses) ==
    /\ emitted' = FoldLeft(LAMBDA q, s : Put(q, s, SubscriberCap), emitted, statuses)
    /\ lossless' = (lossless /\ Len(emitted) + Len(statuses) <= SubscriberCap)
    /\ UNCHANGED <<wait, inbox>>

-----------------------------------------------------------------------------
\* Create reports STARTING, and FATAL after it if the instance cannot be made.
Created == IF status' = "STARTING" THEN <<"STARTING">> ELSE <<"STARTING", "FATAL">>

EmitBegin(t) ==
    /\ StartBegin(t)
    /\ Emit(IF instance = NoBox THEN Created ELSE <<"STOPPING">>)

EmitStep(t) ==
    /\ StartStep(t)
    /\ Emit(IF pc[t] = "relock" THEN Created
            ELSE IF pc[t] = "finish" /\ status = "STARTING" THEN <<status'>> ELSE <<>>)

EmitClose ==
    /\ CloseService \/ CloseServiceFails
    /\ Emit(<<"STOPPING", status'>>)
    /\ UNCHANGED alone

EmitError ==
    /\ SetError
    /\ Emit(<<"FATAL">>)
    /\ UNCHANGED alone

\* The observer's goroutine hands the oldest status to every subscription.
Dispatch ==
    /\ emitted # <<>>
    /\ emitted' = Tail(emitted)
    /\ inbox' = [w \in Waiter |-> IF wait[w] = "wait" THEN Put(inbox[w], Head(emitted), ListenerCap)
                                  ELSE inbox[w]]
    /\ UNCHANGED <<vars, lossless, wait>>

-----------------------------------------------------------------------------
(* waitForStarted *)

\* The status is read under the lock; only STARTING is worth waiting for.
WaitLook(w) ==
    /\ wait[w] = "idle"
    /\ status = "STARTING"
    /\ wait' = [wait EXCEPT ![w] = "subscribe"]
    /\ UNCHANGED <<vars, emitted, lossless, inbox>>

\* The lock is released: the start may have settled meanwhile.
WaitSubscribe(w) ==
    /\ wait[w] = "subscribe"
    /\ wait' = [wait EXCEPT ![w] = "wait"]
    /\ UNCHANGED <<vars, emitted, lossless, inbox>>

\* Mutant: a stopped service does not end the wait.
MutWaitReceive(w) ==
    /\ wait[w] = "wait"
    /\ inbox[w] # <<>>
    /\ IF Head(inbox[w]) \in {"STARTED", "FATAL"}
       THEN wait' = [wait EXCEPT ![w] = "idle"] /\ inbox' = [inbox EXCEPT ![w] = <<>>]
       ELSE inbox' = [inbox EXCEPT ![w] = Tail(@)] /\ UNCHANGED wait
    /\ UNCHANGED <<vars, emitted, lossless>>

\* Every status but STARTING ends the wait, and the subscription with it.
WaitReceive(w) ==
    /\ wait[w] = "wait"
    /\ inbox[w] # <<>>
    /\ IF Head(inbox[w]) = "STARTING"
       THEN inbox' = [inbox EXCEPT ![w] = Tail(@)] /\ UNCHANGED wait
       ELSE wait' = [wait EXCEPT ![w] = "idle"] /\ inbox' = [inbox EXCEPT ![w] = <<>>]
    /\ UNCHANGED <<vars, emitted, lossless>>

\* The caller's context ends.
WaitCancel(w) ==
    /\ wait[w] = "wait"
    /\ wait' = [wait EXCEPT ![w] = "idle"]
    /\ inbox' = [inbox EXCEPT ![w] = <<>>]
    /\ UNCHANGED <<vars, emitted, lossless>>

WaitNext ==
    \/ \E t \in Starter : EmitBegin(t) \/ EmitStep(t)
    \/ EmitClose \/ EmitError \/ Dispatch
    \/ \E w \in Waiter : WaitLook(w) \/ WaitSubscribe(w) \/ WaitReceive(w) \/ WaitCancel(w)

WaitSpec == WaitInit /\ [][WaitNext]_allVars

\* Starts go on as in FairSpec, the observer's goroutine and the waiters run;
\* nothing makes a caller give up.
WaitFairSpec ==
    /\ WaitSpec
    /\ \A t \in Starter : WF_allVars(EmitStep(t))
    /\ WF_allVars(Dispatch)
    /\ \A w \in Waiter : WF_allVars(WaitSubscribe(w)) /\ WF_allVars(WaitReceive(w))

-----------------------------------------------------------------------------
(* Properties *)

\* A caller that has subscribed while the service was still starting returns
\* from waitForStarted, whichever way the start ends and although a full
\* subscription drops statuses: unless one was lost on the way to the
\* observer.  (A caller that subscribes after the start has settled may wait
\* for the next change: its look at the status is stale by then.)
WaitersReturn ==
    \A w \in Waiter :
        wait[w] = "wait" /\ status = "STARTING" ~> wait[w] # "wait" \/ ~lossless
=============================================================================
