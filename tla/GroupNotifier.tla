--------------------------- MODULE GroupNotifier ---------------------------
(***************************************************************************)
(* How the news of a test result reaches those who act on it.  applyResult *)
(* and SignalChange wake the notifier of a group through a channel of      *)
(* capacity 1; the notifier waits for debounceWindow and publishes one     *)
(* event for all that happened; a consumer (the worker of a balancer, or a *)
(* stream of proxy information, which debounces once more) then reads all  *)
(* histories, one lock at a time.                                          *)
(*                                                                         *)
(* One group is modelled.  Its observer is a LossyFeed with capacity 1:    *)
(* Publish reaches every subscriber whose buffer is empty.  A history is   *)
(* the number of results applied to it.                                    *)
(***************************************************************************)
EXTENDS Naturals

CONSTANTS Outbound,     \* members of the group
          Balancer,     \* groups whose worker subscribes
          Stream,       \* callers of AllProxiesInfoStream
          Signaller,    \* callers of SignalChange
          MaxResults    \* bound: results per outbound

ASSUME ConsumerAssumption == Balancer \cap Stream = {}
ASSUME MaxResultsAssumption == MaxResults \in Nat

VARIABLES cancelled, \* m.ctx is cancelled
          ver,       \* results applied to each outbound
          notify,    \* notifyCh holds a token
          timer,     \* the notifier's debounce timer is set
          npc,       \* control state of groupNotifierLoop
          spc,       \* control state of each signaller
          cpc,       \* control state of each consumer
          event,     \* the consumer's channel holds an event
          ctimer,    \* the stream's own debounce timer is set
          todo,      \* histories OutboundsHistory has still to read
          seen,      \* what the consumer read last
          base       \* the histories when it subscribed

notifierVars == <<cancelled, ver, notify, timer, npc, spc, cpc, event, ctimer, todo, seen, base>>
consumerVars == <<cpc, event, ctimer, todo, seen, base>>

Consumer == Balancer \cup Stream
Subscribed == {c \in Consumer : cpc[c] \in {"wait", "read"}}

NotifierTypeOK ==
    /\ cancelled \in BOOLEAN
    /\ ver \in [Outbound -> Nat]
    /\ notify \in BOOLEAN /\ timer \in BOOLEAN
    /\ npc \in {"select", "exited"}
    /\ spc \in [Signaller -> {"idle", "send"}]
    /\ cpc \in [Consumer -> {"new", "first", "sub", "wait", "read", "gone"}]
    /\ event \in [Consumer -> BOOLEAN]
    /\ ctimer \in [Consumer -> BOOLEAN]
    /\ todo \in [Consumer -> SUBSET Outbound]
    /\ seen \in [Consumer -> [Outbound -> Nat]]
    /\ base \in [Consumer -> [Outbound -> Nat]]
    \* only a subscriber has a channel to put an event in
    /\ \A c \in Consumer : event[c] => c \in Subscribed

NotifierInit ==
    /\ cancelled = FALSE
    /\ ver = [o \in Outbound |-> 0]
    /\ notify = FALSE /\ timer = FALSE
    /\ npc = "select"
    /\ spc = [s \in Signaller |-> "idle"]
    /\ cpc = [c \in Consumer |-> "new"]
    /\ event = [c \in Consumer |-> FALSE]
    /\ ctimer = [c \in Consumer |-> FALSE]
    /\ todo = [c \in Consumer |-> {}]
    /\ seen = [c \in Consumer |-> [o \in Outbound |-> 0]]
    /\ base = [c \in Consumer |-> [o \in Outbound |-> 0]]

-----------------------------------------------------------------------------
(* Those who wake the notifier *)

\* applyResult stores the history and emitGroupEvent sends, with a default
\* case, both under the mutex of the outbound.  The check of ctx comes before
\* that mutex, so a result may still be stored after Close.
ApplyResult(o) ==
    /\ ver[o] < MaxResults
    /\ ver' = [ver EXCEPT ![o] = @ + 1]
    /\ notify' = TRUE
    /\ UNCHANGED <<cancelled, timer, npc, spc, consumerVars>>

SignalCall(s) ==
    /\ spc[s] = "idle"
    /\ spc' = [spc EXCEPT ![s] = "send"]
    /\ UNCHANGED <<cancelled, ver, notify, timer, npc, consumerVars>>

\* The send of SignalChange has no default case: it waits for room.
SignalSend(s) ==
    /\ spc[s] = "send"
    /\ ~notify
    /\ notify' = TRUE
    /\ spc' = [spc EXCEPT ![s] = "idle"]
    /\ UNCHANGED <<cancelled, ver, timer, npc, consumerVars>>

-----------------------------------------------------------------------------
(* groupNotifierLoop *)

\* A token is consumed; it starts the timer unless one is running.
NotifyReceived ==
    /\ npc = "select"
    /\ notify
    /\ notify' = FALSE
    /\ timer' = TRUE
    /\ UNCHANGED <<cancelled, ver, npc, spc, consumerVars>>

\* Mutant: the notifier returns after its first event.
MutEmitReturns ==
    /\ npc = "select"
    /\ timer
    /\ event' = [c \in Consumer |-> event[c] \/ c \in Subscribed]
    /\ timer' = FALSE
    /\ npc' = "exited"
    /\ UNCHANGED <<cancelled, ver, notify, spc, cpc, ctimer, todo, seen, base>>

\* The timer fires: emitGroupEventThrottled publishes.
EmitGroupEvent ==
    /\ npc = "select"
    /\ timer
    /\ event' = [c \in Consumer |-> event[c] \/ c \in Subscribed]
    /\ timer' = FALSE
    /\ UNCHANGED <<cancelled, ver, notify, npc, spc, cpc, ctimer, todo, seen, base>>

NotifierExit ==
    /\ npc = "select"
    /\ cancelled
    /\ npc' = "exited"
    /\ timer' = FALSE
    /\ UNCHANGED <<cancelled, ver, notify, spc, consumerVars>>

-----------------------------------------------------------------------------
(* Consumers *)

Goto(c, l) == cpc' = [cpc EXCEPT ![c] = l]

\* A stream first sends what there is, a balancer's worker subscribes at once.
ConsumerStart(c) ==
    /\ cpc[c] = "new"
    /\ IF c \in Stream
       THEN Goto(c, "first") /\ todo' = [todo EXCEPT ![c] = Outbound]
       ELSE Goto(c, "sub") /\ UNCHANGED todo
    /\ UNCHANGED <<cancelled, ver, notify, timer, npc, spc, event, ctimer, seen, base>>

\* SubscribeGroup; a broadcaster that is done returns a closed channel.
Subscribe(c) ==
    /\ cpc[c] = "sub"
    /\ Goto(c, IF cancelled THEN "gone" ELSE "wait")
    /\ base' = [base EXCEPT ![c] = ver]
    /\ UNCHANGED <<cancelled, ver, notify, timer, npc, spc, event, ctimer, todo, seen>>

\* An event arrives: a balancer reads the histories, a stream sets its timer.
ReceiveEvent(c) ==
    /\ cpc[c] = "wait"
    /\ event[c]
    /\ event' = [event EXCEPT ![c] = FALSE]
    /\ IF c \in Stream
       THEN /\ ctimer' = [ctimer EXCEPT ![c] = TRUE]
            /\ UNCHANGED <<cpc, todo>>
       ELSE /\ Goto(c, "read")
            /\ todo' = [todo EXCEPT ![c] = Outbound]
            /\ UNCHANGED ctimer
    /\ UNCHANGED <<cancelled, ver, notify, timer, npc, spc, seen, base>>

\* The stream's timer fires.
StreamTimer(c) ==
    /\ cpc[c] = "wait"
    /\ ctimer[c]
    /\ ctimer' = [ctimer EXCEPT ![c] = FALSE]
    /\ Goto(c, "read")
    /\ todo' = [todo EXCEPT ![c] = Outbound]
    /\ UNCHANGED <<cancelled, ver, notify, timer, npc, spc, event, seen, base>>

\* OutboundsHistory reads one history under the mutex of its outbound.
ReadHistory(c, o) ==
    /\ cpc[c] \in {"first", "read"}
    /\ o \in todo[c]
    /\ seen' = [seen EXCEPT ![c][o] = ver[o]]
    /\ todo' = [todo EXCEPT ![c] = @ \ {o}]
    /\ UNCHANGED <<cancelled, ver, notify, timer, npc, spc, cpc, event, ctimer, base>>

\* Mutant: events that came in during the read are thrown away as covered.
MutReadDoneDrains(c) ==
    /\ cpc[c] \in {"first", "read"}
    /\ todo[c] = {}
    /\ Goto(c, IF cpc[c] = "first" THEN "sub" ELSE "wait")
    /\ event' = [event EXCEPT ![c] = FALSE]
    /\ UNCHANGED <<cancelled, ver, notify, timer, npc, spc, ctimer, todo, seen, base>>

\* UpdateOutboundsInfo, or stream.Send, with what was read.
ReadDone(c) ==
    /\ cpc[c] \in {"first", "read"}
    /\ todo[c] = {}
    /\ Goto(c, IF cpc[c] = "first" THEN "sub" ELSE "wait")
    /\ UNCHANGED <<cancelled, ver, notify, timer, npc, spc, event, ctimer, todo, seen, base>>

\* The channel or the balancer is closed, the client of a stream is gone, or
\* the context is done; the deferred UnsubscribeGroup runs.
ConsumerExit(c) ==
    /\ cpc[c] = "wait"
    /\ Goto(c, "gone")
    /\ event' = [event EXCEPT ![c] = FALSE]
    /\ ctimer' = [ctimer EXCEPT ![c] = FALSE]
    /\ UNCHANGED <<cancelled, ver, notify, timer, npc, spc, todo, seen, base>>

\* Close cancels the observers and then the context they derive from.
Close ==
    /\ ~cancelled
    /\ cancelled' = TRUE
    /\ UNCHANGED <<ver, notify, timer, npc, spc, consumerVars>>

-----------------------------------------------------------------------------
NotifierStep == NotifyReceived \/ EmitGroupEvent \/ NotifierExit

ConsumerStep(c) ==
    \/ ConsumerStart(c) \/ Subscribe(c)
    \/ ReceiveEvent(c) \/ StreamTimer(c)
    \/ \E o \in Outbound : ReadHistory(c, o)
    \/ ReadDone(c)

NotifierNext ==
    \/ \E o \in Outbound : ApplyResult(o)
    \/ \E s \in Signaller : SignalCall(s) \/ SignalSend(s)
    \/ NotifierStep
    \/ \E c \in Consumer : ConsumerStep(c) \/ ConsumerExit(c)
    \/ Close

NotifierSpec == NotifierInit /\ [][NotifierNext]_notifierVars

(* Timers fire and goroutines run.  A select chooses at random among its   *)
(* ready cases, so tokens do not starve the notifier's timer, nor events   *)
(* that of a stream; and a receive from a full channel lets the sender     *)
(* that waits longest in, ahead of those with a default case.              *)
Fairness ==
    /\ WF_notifierVars(NotifierStep) /\ WF_notifierVars(EmitGroupEvent)
    /\ \A s \in Signaller : SF_notifierVars(SignalSend(s))
    /\ \A c \in Consumer : WF_notifierVars(ConsumerStep(c)) /\ WF_notifierVars(StreamTimer(c))

NotifierFairSpec == NotifierSpec /\ Fairness

-----------------------------------------------------------------------------
(* Properties *)

\* A subscriber that has not read a result applied since it subscribed.
Behind(c, o) == seen[c][o] < ver[o] /\ base[c][o] < ver[o]

\* No wake-up is lost between applyResult and a balancer or stream, although
\* the notifier merges tokens, Publish drops events for a full channel and
\* the histories are read one by one: whoever is behind has a token, timer,
\* event or unfinished read before it.
WakeupPending ==
    \A c \in Subscribed : \A o \in Outbound :
        Behind(c, o) /\ ~cancelled =>
            \/ notify \/ timer \/ event[c] \/ ctimer[c]
            \/ cpc[c] = "read" /\ o \in todo[c]

\* Every result is read by every subscriber that stays, until Close.
NewsArrives ==
    \A c \in Consumer : \A o \in Outbound :
        (c \in Subscribed /\ Behind(c, o)) ~> (~Behind(c, o) \/ c \notin Subscribed \/ cancelled)

\* SignalChange returns as long as the notifier runs: debouncing and a slow
\* subscriber do not block it.
SignalReturns == \A s \in Signaller : spc[s] = "send" ~> (spc[s] = "idle" \/ cancelled)
=============================================================================
