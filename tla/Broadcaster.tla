---------------------------- MODULE Broadcaster ----------------------------
(***************************************************************************)
(* The event broadcaster of common/monitoring/brodcaster.go: a set of      *)
(* buffered channels behind a RWMutex, publishers that never wait for a    *)
(* slow subscriber, and a watcher goroutine that closes every channel once *)
(* the context is done.                                                    *)
(*                                                                         *)
(* A critical section is entered by one step and left by another, so that  *)
(* cancellation, receives and other threads interleave with it.  A Go run- *)
(* time panic (send on or close of a closed channel, store into the nil    *)
(* map) is recorded in panicked instead of stopping the model.             *)
(***************************************************************************)
EXTENDS Integers, Sequences, FiniteSets

CONSTANTS Chan,        \* channels made by Subscribe, one per call
          Publisher,   \* goroutines that call Publish
          Buffer,      \* capacity passed to Subscribe
          MaxEvents,   \* bound: Publish calls per publisher
          Watcher,     \* the goroutine running watchContext
          NoThread

ASSUME BufferAssumption == Buffer \in Nat
ASSUME MaxEventsAssumption == MaxEvents \in Nat
ASSUME ThreadAssumption ==
    /\ Chan \cap Publisher = {}
    /\ Watcher \notin Chan \cup Publisher
    /\ NoThread \notin Chan \cup Publisher \cup {Watcher}

VARIABLES done,      \* b.ctx is cancelled
          subs,      \* keys of b.subs
          nilMap,    \* b.subs = nil
          closed,    \* channels that were closed
          log,       \* events accepted by each channel, in order
          rd,        \* how many of them its subscriber has received
          writer,    \* holder of b.mu.Lock
          readers,   \* holders of b.mu.RLock
          waiting,   \* threads blocked in b.mu.Lock
          pc,        \* control state of every thread
          todo,      \* channels a range loop has still to visit
          sent,      \* Publish calls each publisher has begun
          panicked   \* a runtime panic happened

vars == <<done, subs, nilMap, closed, log, rd, writer, readers, waiting,
          pc, todo, sent, panicked>>

Thread == Chan \cup Publisher \cup {Watcher}
Writer == Chan \cup {Watcher}

\* An event is named by the publisher and the number of its Publish call.
Event == Publisher \X (Nat \ {0})

ChanState == {"idle", "subWait", "subHeld", "open", "unsubWait", "unsubHeld", "gone"}
PubState == {"ready", "sending"}
WatchState == {"watch", "wait", "closing", "exited"}

\* len(ch): what was accepted and not yet received.
Buffered(c) == Len(log[c]) - rd[c]

TypeOK ==
    /\ done \in BOOLEAN
    /\ subs \in SUBSET Chan
    /\ nilMap \in BOOLEAN
    /\ closed \in SUBSET Chan
    /\ log \in [Chan -> Seq(Event)]
    /\ rd \in [Chan -> Nat]
    /\ \A c \in Chan : rd[c] <= Len(log[c]) /\ Buffered(c) <= Buffer
    /\ writer \in Writer \cup {NoThread}
    /\ readers \in SUBSET Publisher
    /\ waiting \in SUBSET Writer
    /\ pc \in [Thread -> ChanState \cup PubState \cup WatchState]
    /\ \A c \in Chan : pc[c] \in ChanState
    /\ \A p \in Publisher : pc[p] \in PubState
    /\ pc[Watcher] \in WatchState
    /\ todo \in [Publisher \cup {Watcher} -> SUBSET Chan]
    /\ sent \in [Publisher -> Nat]
    /\ panicked \in BOOLEAN

\* NewBroadcaster, with its watcher started.
Init ==
    /\ done = FALSE
    /\ subs = {}
    /\ nilMap = FALSE
    /\ closed = {}
    /\ log = [c \in Chan |-> <<>>]
    /\ rd = [c \in Chan |-> 0]
    /\ writer = NoThread
    /\ readers = {}
    /\ waiting = {}
    /\ pc = [t \in Thread |-> IF t = Watcher THEN "watch"
                              ELSE IF t \in Chan THEN "idle" ELSE "ready"]
    /\ todo = [t \in Publisher \cup {Watcher} |-> {}]
    /\ sent = [p \in Publisher |-> 0]
    /\ panicked = FALSE

-----------------------------------------------------------------------------
(* sync.RWMutex: a waiting writer keeps new readers out.                    *)

Goto(t, l) == pc' = [pc EXCEPT ![t] = l]

\* mu.Lock, called at label from; the thread then waits at label to.
RequestLock(t, from, to) ==
    /\ pc[t] = from
    /\ waiting' = waiting \cup {t}
    /\ Goto(t, to)

\* mu.Lock returns.
GrantLock(t, from, to) ==
    /\ pc[t] = from
    /\ t \in waiting
    /\ writer = NoThread
    /\ readers = {}
    /\ writer' = t
    /\ waiting' = waiting \ {t}
    /\ Goto(t, to)

-----------------------------------------------------------------------------
(* Subscribe *)

SubscribeCall(c) ==
    /\ RequestLock(c, "idle", "subWait")
    /\ UNCHANGED <<done, subs, nilMap, closed, log, rd, writer, readers, todo, sent, panicked>>

SubscribeLock(c) ==
    /\ GrantLock(c, "subWait", "subHeld")
    /\ UNCHANGED <<done, subs, nilMap, closed, log, rd, readers, todo, sent, panicked>>

\* Mutant: Subscribe does not close the channel when the context is done.
MutSubscribeNoClose(c) ==
    /\ pc[c] = "subHeld"
    /\ subs' = IF done THEN subs ELSE subs \cup {c}
    /\ panicked' = (panicked \/ (nilMap /\ ~done))
    /\ writer' = NoThread
    /\ Goto(c, "open")
    /\ UNCHANGED <<done, nilMap, closed, log, rd, readers, waiting, todo, sent>>

\* The select on ctx.Done and the deferred Unlock.
SubscribeSelect(c) ==
    /\ pc[c] = "subHeld"
    /\ IF done
       THEN /\ closed' = closed \cup {c}
            /\ UNCHANGED <<subs, panicked>>
       ELSE /\ subs' = subs \cup {c}
            /\ panicked' = (panicked \/ nilMap)
            /\ UNCHANGED closed
    /\ writer' = NoThread
    /\ Goto(c, "open")
    /\ UNCHANGED <<done, nilMap, log, rd, readers, waiting, todo, sent>>

-----------------------------------------------------------------------------
(* Unsubscribe; calling it again, or after closeAll, finds nothing. *)

UnsubscribeCall(c) ==
    /\ pc[c] \in {"open", "gone"}
    /\ RequestLock(c, pc[c], "unsubWait")
    /\ UNCHANGED <<done, subs, nilMap, closed, log, rd, writer, readers, todo, sent, panicked>>

UnsubscribeLock(c) ==
    /\ GrantLock(c, "unsubWait", "unsubHeld")
    /\ UNCHANGED <<done, subs, nilMap, closed, log, rd, readers, todo, sent, panicked>>

\* Mutant: Unsubscribe forgets to close the channel.
MutUnsubscribeNoClose(c) ==
    /\ pc[c] = "unsubHeld"
    /\ subs' = subs \ {c}
    /\ writer' = NoThread
    /\ Goto(c, "gone")
    /\ UNCHANGED <<done, nilMap, closed, log, rd, readers, waiting, todo, sent, panicked>>

UnsubscribeDelete(c) ==
    /\ pc[c] = "unsubHeld"
    /\ subs' = subs \ {c}
    /\ closed' = IF c \in subs THEN closed \cup {c} ELSE closed
    /\ panicked' = (panicked \/ (c \in subs /\ c \in closed))
    /\ writer' = NoThread
    /\ Goto(c, "gone")
    /\ UNCHANGED <<done, nilMap, log, rd, readers, waiting, todo, sent>>

-----------------------------------------------------------------------------
(* Publish *)

\* Mutant: Publish reads b.subs without taking the read lock.
MutPublishNoRLock(p) ==
    /\ pc[p] = "ready"
    /\ sent[p] < MaxEvents
    /\ todo' = [todo EXCEPT ![p] = subs]
    /\ sent' = [sent EXCEPT ![p] = @ + 1]
    /\ Goto(p, "sending")
    /\ UNCHANGED <<done, subs, nilMap, closed, log, rd, writer, readers, waiting, panicked>>

\* RLock and the start of the range loop over b.subs.
PublishRLock(p) ==
    /\ pc[p] = "ready"
    /\ sent[p] < MaxEvents
    /\ writer = NoThread
    /\ waiting = {}
    /\ readers' = readers \cup {p}
    /\ todo' = [todo EXCEPT ![p] = subs]
    /\ sent' = [sent EXCEPT ![p] = @ + 1]
    /\ Goto(p, "sending")
    /\ UNCHANGED <<done, subs, nilMap, closed, log, rd, writer, waiting, panicked>>

\* Mutant: the loop visits a channel again after a successful send.
MutPublishSendTwice(p, c) ==
    /\ pc[p] = "sending"
    /\ c \in todo[p]
    /\ Buffered(c) < Buffer
    /\ log' = [log EXCEPT ![c] = Append(@, <<p, sent[p]>>)]
    /\ UNCHANGED <<done, subs, nilMap, closed, rd, writer, readers, waiting, pc, todo, sent, panicked>>

\* case ch <- event: ready when there is room, or when ch is closed (panic).
PublishSend(p, c) ==
    /\ pc[p] = "sending"
    /\ c \in todo[p]
    /\ IF c \in closed
       THEN /\ panicked' = TRUE
            /\ UNCHANGED log
       ELSE /\ Buffered(c) < Buffer
            /\ log' = [log EXCEPT ![c] = Append(@, <<p, sent[p]>>)]
            /\ UNCHANGED panicked
    /\ todo' = [todo EXCEPT ![p] = @ \ {c}]
    /\ UNCHANGED <<done, subs, nilMap, closed, rd, writer, readers, waiting, pc, sent>>

\* Mutant: no default case, the publisher waits for room.
MutPublishBlocks(p, c) ==
    /\ pc[p] = "sending"
    /\ c \in todo[p]
    /\ Buffered(c) < 0
    /\ UNCHANGED vars

\* default: neither case is ready, the event is dropped for this subscriber.
PublishDrop(p, c) ==
    /\ pc[p] = "sending"
    /\ c \in todo[p]
    /\ ~done
    /\ c \notin closed
    /\ Buffered(c) >= Buffer
    /\ todo' = [todo EXCEPT ![p] = @ \ {c}]
    /\ UNCHANGED <<done, subs, nilMap, closed, log, rd, writer, readers, waiting, pc, sent, panicked>>

\* The loop ends, or case <-ctx.Done() returns from the middle of it.
PublishReturn(p) ==
    /\ pc[p] = "sending"
    /\ todo[p] = {} \/ done
    /\ readers' = readers \ {p}
    /\ todo' = [todo EXCEPT ![p] = {}]
    /\ Goto(p, "ready")
    /\ UNCHANGED <<done, subs, nilMap, closed, log, rd, writer, waiting, sent, panicked>>

-----------------------------------------------------------------------------
\* The subscriber takes the oldest buffered event; closing keeps the buffer.
Receive(c) ==
    /\ pc[c] \notin {"idle", "subWait", "subHeld"}
    /\ Buffered(c) > 0
    /\ rd' = [rd EXCEPT ![c] = @ + 1]
    /\ UNCHANGED <<done, subs, nilMap, closed, log, writer, readers, waiting, pc, todo, sent, panicked>>

\* Close, or the cancellation of the parent context.
Close ==
    /\ ~done
    /\ done' = TRUE
    /\ UNCHANGED <<subs, nilMap, closed, log, rd, writer, readers, waiting, pc, todo, sent, panicked>>

-----------------------------------------------------------------------------
(* watchContext and closeAll *)

WatchContext ==
    /\ done
    /\ RequestLock(Watcher, "watch", "wait")
    /\ UNCHANGED <<done, subs, nilMap, closed, log, rd, writer, readers, todo, sent, panicked>>

CloseAllLock ==
    /\ GrantLock(Watcher, "wait", "closing")
    /\ todo' = [todo EXCEPT ![Watcher] = subs]
    /\ UNCHANGED <<done, subs, nilMap, closed, log, rd, readers, sent, panicked>>

CloseAllOne(c) ==
    /\ pc[Watcher] = "closing"
    /\ c \in todo[Watcher]
    /\ closed' = closed \cup {c}
    /\ panicked' = (panicked \/ c \in closed)
    /\ todo' = [todo EXCEPT ![Watcher] = @ \ {c}]
    /\ UNCHANGED <<done, subs, nilMap, log, rd, writer, readers, waiting, pc, sent>>

CloseAllReturn ==
    /\ pc[Watcher] = "closing"
    /\ todo[Watcher] = {}
    /\ subs' = {}
    /\ nilMap' = TRUE
    /\ writer' = NoThread
    /\ Goto(Watcher, "exited")
    /\ UNCHANGED <<done, closed, log, rd, readers, waiting, todo, sent, panicked>>

-----------------------------------------------------------------------------
SubscribeStep(c) == SubscribeLock(c) \/ SubscribeSelect(c)
UnsubscribeStep(c) == UnsubscribeLock(c) \/ UnsubscribeDelete(c)
PublishStep(p) ==
    \/ \E c \in Chan : PublishSend(p, c) \/ PublishDrop(p, c)
    \/ PublishReturn(p)
WatcherStep ==
    \/ WatchContext
    \/ CloseAllLock
    \/ \E c \in Chan : CloseAllOne(c)
    \/ CloseAllReturn

Next ==
    \/ \E c \in Chan :
          \/ SubscribeCall(c) \/ SubscribeStep(c)
          \/ UnsubscribeCall(c) \/ UnsubscribeStep(c)
          \/ Receive(c)
    \/ \E p \in Publisher : PublishRLock(p) \/ PublishStep(p)
    \/ Close
    \/ WatcherStep

Spec == Init /\ [][Next]_vars

(* A goroutine that can run does run, and sync.RWMutex starves no writer:   *)
(* GrantLock can be disabled and enabled again, hence strong fairness.      *)
(* Nobody has to subscribe, unsubscribe, publish, receive or close.         *)
Fairness ==
    /\ WF_vars(WatcherStep) /\ SF_vars(CloseAllLock)
    /\ \A c \in Chan : /\ SF_vars(SubscribeLock(c)) /\ WF_vars(SubscribeSelect(c))
                       /\ SF_vars(UnsubscribeLock(c)) /\ WF_vars(UnsubscribeDelete(c))
    /\ \A p \in Publisher : WF_vars(PublishStep(p))

FairSpec == Spec /\ Fairness

-----------------------------------------------------------------------------
(* Properties *)

\* No interleaving of Subscribe, Unsubscribe, Publish and closeAll sends on a
\* closed channel, closes one twice or stores into the nil map.
NoPanic == ~panicked

\* A channel that Subscribe returned is either registered or closed: a
\* subscription made while the broadcaster shuts down is never left open
\* and unknown to closeAll, which would block its reader forever.
NoOrphan ==
    \A c \in Chan :
        pc[c] \notin {"idle", "subWait", "subHeld"} => c \in subs \cup closed

\* Every subscriber gets a publisher's events in the order they were
\* published, none of them twice, whatever was dropped in between.
InOrder ==
    \A c \in Chan :
        \A i, j \in 1..Len(log[c]) :
            i < j /\ log[c][i][1] = log[c][j][1] => log[c][i][2] < log[c][j][2]

\* Once the context is done every channel handed out gets closed, so every
\* reader that ranges over its channel terminates.
ReadersReleased == \A c \in Chan : (done /\ pc[c] # "idle") ~> (c \in closed)

\* Publish and Unsubscribe always return: a full channel delays nobody.
CallsReturn ==
    /\ \A p \in Publisher : pc[p] = "sending" ~> pc[p] = "ready"
    /\ \A c \in Chan : pc[c] = "unsubWait" ~> pc[c] = "gone"
-----------------------------------------------------------------------------
(* The inductive invariant behind NoPanic, NoOrphan and InOrder.            *)

\* Who holds the mutex, in terms of the control states.
LockInv ==
    /\ \A c \in Chan : (writer = c) <=> (pc[c] \in {"subHeld", "unsubHeld"})
    /\ (writer = Watcher) <=> (pc[Watcher] = "closing")
    /\ \A p \in Publisher : (p \in readers) <=> (pc[p] = "sending")
    /\ writer # NoThread => readers = {}

\* A publisher only has channels before it that are still registered.
TodoInv ==
    \A p \in Publisher : /\ pc[p] = "sending" => todo[p] \subseteq subs
                         /\ pc[p] = "ready" => todo[p] = {}

\* Registered channels are open, except while closeAll is at work.
RegistryInv ==
    /\ pc[Watcher] # "closing" => subs \cap closed = {}
    /\ pc[Watcher] = "closing" => todo[Watcher] = subs \ closed
    /\ pc[Watcher] # "watch" => done
    /\ nilMap <=> pc[Watcher] = "exited"
    /\ pc[Watcher] = "exited" => subs = {}
    /\ \A c \in Chan : pc[c] \in {"idle", "subWait", "subHeld"} => c \notin subs \cup closed

\* No channel holds an event a publisher has yet to send to it.
OrderInv ==
    \A c \in Chan : \A p \in Publisher : \A i \in 1..Len(log[c]) :
        log[c][i][1] = p =>
            /\ log[c][i][2] <= sent[p]
            /\ pc[p] = "sending" /\ c \in todo[p] => log[c][i][2] < sent[p]

\* A publisher numbers its events from 1.
SentInv == \A p \in Publisher : pc[p] = "sending" => sent[p] # 0

IInv == LockInv /\ TodoInv /\ RegistryInv /\ OrderInv /\ SentInv

-----------------------------------------------------------------------------
\* The broadcaster as a LossyFeed: a registered channel is an open
\* subscription until it is closed.
Feed == INSTANCE LossyFeed WITH
    Subscription <- Chan, Source <- Publisher, Capacity <- Buffer,
    ended <- done, stream <- log, taken <- rd,
    status <- [c \in Chan |-> IF c \in closed THEN "closed"
                              ELSE IF c \in subs THEN "open" ELSE "none"]

\* The locking discipline implements the lossy feed: events only reach open
\* channels, newest last, and a closed channel stays closed.
ImplementsFeed == Feed!FeedSpec
=============================================================================
