------------------------- MODULE BroadcasterProofs -------------------------
(***************************************************************************)
(* For every set of channels and publishers and every buffer size, the     *)
(* broadcaster never panics, never orphans a channel, keeps each           *)
(* publisher's events in order, and implements LossyFeed.                  *)
(***************************************************************************)
EXTENDS Broadcaster, TLAPS

\* What each proof step about an action uses of the state before it.
Safe == TypeOK /\ IInv /\ NoPanic /\ NoOrphan /\ InOrder

\* NewBroadcaster establishes the invariant.
LEMMA InitSafe == Init => Safe
  <1> SUFFICES ASSUME Init PROVE Safe  OBVIOUS
  <1> USE DEF Init, Thread
  <1>1. TypeOK
    <2>1. /\ pc \in [Thread -> ChanState \cup PubState \cup WatchState]
          /\ \A c \in Chan : pc[c] \in ChanState
          /\ \A p \in Publisher : pc[p] \in PubState
          /\ pc[Watcher] \in WatchState
      BY ThreadAssumption DEF ChanState, PubState, WatchState
    <2>2. /\ log \in [Chan -> Seq(Event)]
          /\ rd \in [Chan -> Nat]
          /\ \A c \in Chan : rd[c] <= Len(log[c]) /\ Buffered(c) <= Buffer
      BY BufferAssumption DEF Buffered
    <2> QED  BY <2>1, <2>2 DEF TypeOK
  <1>2. LockInv  BY ThreadAssumption DEF LockInv
  <1>3. TodoInv  BY ThreadAssumption DEF TodoInv
  <1>4. RegistryInv  BY ThreadAssumption DEF RegistryInv
  <1>5. OrderInv  BY DEF OrderInv
  <1>6. SentInv /\ NoPanic /\ NoOrphan /\ InOrder
    BY ThreadAssumption DEF SentInv, NoPanic, NoOrphan, InOrder
  <1> QED  BY <1>1, <1>2, <1>3, <1>4, <1>5, <1>6 DEF Safe, IInv

\* Subscribe asks for the lock.
LEMMA SubscribeCallSafe ==
  ASSUME Safe, NEW c \in Chan, SubscribeCall(c)
  PROVE  Safe'
  <1> USE ThreadAssumption, BufferAssumption DEF Safe, IInv, SubscribeCall, RequestLock, Goto, Thread
  <1>1. TypeOK'  BY DEF TypeOK, Writer, ChanState, PubState, WatchState, Buffered, Event
  <1>2. LockInv'  BY DEF TypeOK, LockInv, Writer
  <1>3. RegistryInv' /\ NoOrphan'  BY DEF TypeOK, LockInv, RegistryInv, NoOrphan, Writer
  <1>4. TodoInv' /\ NoPanic'  BY DEF TypeOK, LockInv, TodoInv, RegistryInv, NoPanic, Writer
  <1>5. OrderInv' /\ SentInv' /\ InOrder'
    BY DEF TypeOK, LockInv, TodoInv, OrderInv, SentInv, InOrder, Event
  <1> QED  BY <1>1, <1>2, <1>3, <1>4, <1>5

\* Subscribe gets the lock: there is no reader and no other writer.
LEMMA SubscribeLockSafe ==
  ASSUME Safe, NEW c \in Chan, SubscribeLock(c)
  PROVE  Safe'
  <1> USE ThreadAssumption, BufferAssumption DEF Safe, IInv, SubscribeLock, GrantLock, Goto, Thread
  <1>1. TypeOK'  BY DEF TypeOK, Writer, ChanState, PubState, WatchState, Buffered, Event
  <1>2. LockInv'  BY DEF TypeOK, LockInv, Writer
  <1>3. RegistryInv' /\ NoOrphan'  BY DEF TypeOK, LockInv, RegistryInv, NoOrphan, Writer
  <1>4. TodoInv' /\ NoPanic'  BY DEF TypeOK, LockInv, TodoInv, RegistryInv, NoPanic, Writer
  <1>5. OrderInv' /\ SentInv' /\ InOrder'
    BY DEF TypeOK, LockInv, TodoInv, OrderInv, SentInv, InOrder, Event
  <1> QED  BY <1>1, <1>2, <1>3, <1>4, <1>5

\* Subscribe registers or closes its own, still unknown channel.
LEMMA SubscribeSelectSafe ==
  ASSUME Safe, NEW c \in Chan, SubscribeSelect(c)
  PROVE  Safe'
  <1> USE ThreadAssumption, BufferAssumption DEF Safe, IInv, SubscribeSelect, Goto, Thread
  <1>1. TypeOK'  BY DEF TypeOK, Writer, ChanState, PubState, WatchState, Buffered, Event
  <1>2. LockInv'  BY DEF TypeOK, LockInv, Writer
  <1>3. RegistryInv' /\ NoOrphan'  BY DEF TypeOK, LockInv, RegistryInv, NoOrphan, Writer
  <1>4. TodoInv' /\ NoPanic'  BY DEF TypeOK, LockInv, TodoInv, RegistryInv, NoPanic, Writer
  <1>5. OrderInv' /\ SentInv' /\ InOrder'
    BY DEF TypeOK, LockInv, TodoInv, OrderInv, SentInv, InOrder, Event
  <1> QED  BY <1>1, <1>2, <1>3, <1>4, <1>5

\* Unsubscribe asks for the lock.
LEMMA UnsubscribeCallSafe ==
  ASSUME Safe, NEW c \in Chan, UnsubscribeCall(c)
  PROVE  Safe'
  <1> USE ThreadAssumption, BufferAssumption DEF Safe, IInv, UnsubscribeCall, RequestLock, Goto, Thread
  <1>1. TypeOK'  BY DEF TypeOK, Writer, ChanState, PubState, WatchState, Buffered, Event
  <1>2. LockInv'  BY DEF TypeOK, LockInv, Writer
  <1>3. RegistryInv' /\ NoOrphan'  BY DEF TypeOK, LockInv, RegistryInv, NoOrphan, Writer
  <1>4. TodoInv' /\ NoPanic'  BY DEF TypeOK, LockInv, TodoInv, RegistryInv, NoPanic, Writer
  <1>5. OrderInv' /\ SentInv' /\ InOrder'
    BY DEF TypeOK, LockInv, TodoInv, OrderInv, SentInv, InOrder, Event
  <1> QED  BY <1>1, <1>2, <1>3, <1>4, <1>5

\* Unsubscribe gets the lock.
LEMMA UnsubscribeLockSafe ==
  ASSUME Safe, NEW c \in Chan, UnsubscribeLock(c)
  PROVE  Safe'
  <1> USE ThreadAssumption, BufferAssumption DEF Safe, IInv, UnsubscribeLock, GrantLock, Goto, Thread
  <1>1. TypeOK'  BY DEF TypeOK, Writer, ChanState, PubState, WatchState, Buffered, Event
  <1>2. LockInv'  BY DEF TypeOK, LockInv, Writer
  <1>3. RegistryInv' /\ NoOrphan'  BY DEF TypeOK, LockInv, RegistryInv, NoOrphan, Writer
  <1>4. TodoInv' /\ NoPanic'  BY DEF TypeOK, LockInv, TodoInv, RegistryInv, NoPanic, Writer
  <1>5. OrderInv' /\ SentInv' /\ InOrder'
    BY DEF TypeOK, LockInv, TodoInv, OrderInv, SentInv, InOrder, Event
  <1> QED  BY <1>1, <1>2, <1>3, <1>4, <1>5

\* Unsubscribe closes a channel only if it was registered, hence open.
LEMMA UnsubscribeDeleteSafe ==
  ASSUME Safe, NEW c \in Chan, UnsubscribeDelete(c)
  PROVE  Safe'
  <1> USE ThreadAssumption, BufferAssumption DEF Safe, IInv, UnsubscribeDelete, Goto, Thread
  <1>1. TypeOK'  BY DEF TypeOK, Writer, ChanState, PubState, WatchState, Buffered, Event
  <1>2. LockInv'  BY DEF TypeOK, LockInv, Writer
  <1>3. RegistryInv' /\ NoOrphan'  BY DEF TypeOK, LockInv, RegistryInv, NoOrphan, Writer
  <1>4. TodoInv' /\ NoPanic'  BY DEF TypeOK, LockInv, TodoInv, RegistryInv, NoPanic, Writer
  <1>5. OrderInv' /\ SentInv' /\ InOrder'
    BY DEF TypeOK, LockInv, TodoInv, OrderInv, SentInv, InOrder, Event
  <1> QED  BY <1>1, <1>2, <1>3, <1>4, <1>5

\* A receive only makes room.
LEMMA ReceiveSafe ==
  ASSUME Safe, NEW c \in Chan, Receive(c)
  PROVE  Safe'
  <1> USE ThreadAssumption, BufferAssumption DEF Safe, IInv, Receive, Goto, Thread
  <1>1. TypeOK'
    <2>1. /\ rd' \in [Chan -> Nat]
          /\ \A d \in Chan : rd'[d] <= Len(log'[d]) /\ Buffered(d)' <= Buffer
      <3>1. rd[c] \in Nat /\ Len(log[c]) \in Nat /\ rd[c] + 1 <= Len(log[c])
        BY DEF TypeOK, Buffered
      <3>2. rd' \in [Chan -> Nat]  BY <3>1 DEF TypeOK
      <3>3. ASSUME NEW d \in Chan
            PROVE  rd'[d] <= Len(log'[d]) /\ Buffered(d)' <= Buffer
        <4>1. CASE d = c  BY <3>1, <4>1 DEF TypeOK, Buffered
        <4>2. CASE d # c  BY <4>2 DEF TypeOK, Buffered
        <4> QED  BY <4>1, <4>2
      <3> QED  BY <3>2, <3>3
    <2> QED  BY <2>1 DEF TypeOK
  <1>2. LockInv'  BY DEF TypeOK, LockInv, Writer
  <1>3. RegistryInv' /\ NoOrphan'  BY DEF TypeOK, LockInv, RegistryInv, NoOrphan, Writer
  <1>4. TodoInv' /\ NoPanic'  BY DEF TypeOK, LockInv, TodoInv, RegistryInv, NoPanic, Writer
  <1>5. OrderInv' /\ SentInv' /\ InOrder'
    BY DEF TypeOK, LockInv, TodoInv, OrderInv, SentInv, InOrder, Event
  <1> QED  BY <1>1, <1>2, <1>3, <1>4, <1>5

\* Publish copies the registry while no writer holds the lock.
LEMMA PublishRLockSafe ==
  ASSUME Safe, NEW p \in Publisher, PublishRLock(p)
  PROVE  Safe'
  <1> USE ThreadAssumption, BufferAssumption DEF Safe, IInv, PublishRLock, Goto, Thread
  <1>1. TypeOK'  BY DEF TypeOK, Writer, ChanState, PubState, WatchState, Buffered, Event
  <1>2. LockInv'  BY DEF TypeOK, LockInv, Writer
  <1>3. RegistryInv' /\ NoOrphan'  BY DEF TypeOK, LockInv, RegistryInv, NoOrphan, Writer
  <1>4. TodoInv' /\ NoPanic'  BY DEF TypeOK, LockInv, TodoInv, RegistryInv, NoPanic, Writer
  <1>5. OrderInv' /\ SentInv' /\ InOrder'
    BY DEF TypeOK, LockInv, TodoInv, OrderInv, SentInv, InOrder, Event
  <1> QED  BY <1>1, <1>2, <1>3, <1>4, <1>5

\* A send reaches a registered, hence open channel, with the newest number.
LEMMA PublishSendSafe ==
  ASSUME Safe, NEW p \in Publisher, NEW c \in Chan, PublishSend(p, c)
  PROVE  Safe'
  <1> USE ThreadAssumption, BufferAssumption DEF Safe, IInv, PublishSend, Goto, Thread
  <1> DEFINE e == <<p, sent[p]>>
  <1>a. c \in subs /\ c \notin closed /\ p \in readers /\ writer = NoThread
    BY DEF TypeOK, LockInv, TodoInv, RegistryInv
  <1>b. log[c] \in Seq(Event) /\ Len(log[c]) \in Nat /\ rd[c] \in Nat
    BY DEF TypeOK
  <1>c. sent[p] \in Nat \ {0} /\ e \in Event
    <2>1. sent[p] \in Nat  BY DEF TypeOK
    <2>2. sent[p] # 0  BY DEF SentInv
    <2> QED  BY <2>1, <2>2 DEF Event
  <1>d. log' = [log EXCEPT ![c] = Append(log[c], e)] /\ Buffered(c) < Buffer
    BY <1>a
  <1>e. /\ Len(log'[c]) = Len(log[c]) + 1
        /\ log'[c][Len(log[c]) + 1] = e
        /\ \A i \in 1..Len(log[c]) : log'[c][i] = log[c][i]
        /\ log'[c] \in Seq(Event)
    BY <1>b, <1>c, <1>d DEF TypeOK
  <1>1. TypeOK'
    <2>1. log' \in [Chan -> Seq(Event)]  BY <1>b, <1>c, <1>d DEF TypeOK
    <2>2. ASSUME NEW d \in Chan
          PROVE  rd'[d] <= Len(log'[d]) /\ Buffered(d)' <= Buffer
      <3>1. CASE d = c  BY <1>b, <1>d, <1>e, <3>1 DEF TypeOK, Buffered
      <3>2. CASE d # c  BY <1>d, <3>2 DEF TypeOK, Buffered
      <3> QED  BY <3>1, <3>2
    <2> QED  BY <2>1, <2>2, <1>a DEF TypeOK
  <1>2. LockInv'  BY DEF TypeOK, LockInv
  <1>3. TodoInv'  BY DEF TypeOK, TodoInv
  <1>4. RegistryInv'  BY DEF TypeOK, RegistryInv
  <1>5. OrderInv'
    <2> SUFFICES ASSUME NEW d \in Chan, NEW q \in Publisher, NEW i \in 1..Len(log'[d]),
                        log'[d][i][1] = q
                 PROVE  /\ log'[d][i][2] <= sent[q]
                        /\ pc[q] = "sending" /\ d \in todo'[q] => log'[d][i][2] < sent[q]
      BY DEF OrderInv
    <2>1. CASE d # c
      <3>1. log'[d] = log[d] /\ (d \in todo'[q] => d \in todo[q])  BY <1>d, <2>1 DEF TypeOK
      <3> QED  BY <3>1 DEF OrderInv
    <2>2. CASE d = c /\ i \in 1..Len(log[c])
      <3>1. log'[d][i] = log[c][i] /\ (d \in todo'[q] => d \in todo[q])  BY <1>e, <2>2 DEF TypeOK
      <3> QED  BY <2>2, <3>1 DEF OrderInv
    <2>3. CASE d = c /\ i = Len(log[c]) + 1
      <3>1. log'[d][i] = e /\ q = p  BY <1>e, <2>3
      <3>2. d \notin todo'[q]  BY <2>3, <3>1 DEF TypeOK
      <3> QED  BY <1>c, <3>1, <3>2
    <2> QED  BY <1>b, <1>e, <2>1, <2>2, <2>3
  <1>6. NoPanic'  BY <1>a DEF NoPanic
  <1>7. NoOrphan'  BY DEF NoOrphan
  <1>8. InOrder'
    <2> SUFFICES ASSUME NEW d \in Chan, NEW i \in 1..Len(log'[d]), NEW j \in 1..Len(log'[d]),
                        i < j, log'[d][i][1] = log'[d][j][1]
                 PROVE  log'[d][i][2] < log'[d][j][2]
      BY DEF InOrder
    <2>1. CASE d # c  BY <1>d, <2>1 DEF TypeOK, InOrder
    <2>2. CASE d = c /\ j \in 1..Len(log[c])
      <3>1. i \in 1..Len(log[c])  BY <1>b, <2>2
      <3> QED  BY <1>e, <2>2, <3>1 DEF InOrder
    <2>3. CASE d = c /\ j = Len(log[c]) + 1
      <3>1. i \in 1..Len(log[c]) /\ log'[d][j] = e /\ log'[d][i] = log[c][i]
        BY <1>b, <1>e, <2>3
      <3>2. log[c][i][1] = p  BY <3>1
      <3>3. log[c][i][2] < sent[p]  BY <3>1, <3>2 DEF OrderInv
      <3> QED  BY <3>1, <3>3
    <2> QED  BY <1>b, <1>e, <2>1, <2>2, <2>3
  <1>9. SentInv'  BY DEF SentInv
  <1> QED  BY <1>1, <1>2, <1>3, <1>4, <1>5, <1>6, <1>7, <1>8, <1>9

\* A drop only shortens the loop.
LEMMA PublishDropSafe ==
  ASSUME Safe, NEW p \in Publisher, NEW c \in Chan, PublishDrop(p, c)
  PROVE  Safe'
  <1> USE ThreadAssumption, BufferAssumption DEF Safe, IInv, PublishDrop, Goto, Thread
  <1>1. TypeOK'  BY DEF TypeOK, Writer, ChanState, PubState, WatchState, Buffered, Event
  <1>2. LockInv'  BY DEF TypeOK, LockInv, Writer
  <1>3. RegistryInv' /\ NoOrphan'  BY DEF TypeOK, LockInv, RegistryInv, NoOrphan, Writer
  <1>4. TodoInv' /\ NoPanic'  BY DEF TypeOK, LockInv, TodoInv, RegistryInv, NoPanic, Writer
  <1>5. OrderInv' /\ SentInv' /\ InOrder'
    BY DEF TypeOK, LockInv, TodoInv, OrderInv, SentInv, InOrder, Event
  <1> QED  BY <1>1, <1>2, <1>3, <1>4, <1>5

\* Publish releases its read lock.
LEMMA PublishReturnSafe ==
  ASSUME Safe, NEW p \in Publisher, PublishReturn(p)
  PROVE  Safe'
  <1> USE ThreadAssumption, BufferAssumption DEF Safe, IInv, PublishReturn, Goto, Thread
  <1>1. TypeOK'  BY DEF TypeOK, Writer, ChanState, PubState, WatchState, Buffered, Event
  <1>2. LockInv'  BY DEF TypeOK, LockInv, Writer
  <1>3. RegistryInv' /\ NoOrphan'  BY DEF TypeOK, LockInv, RegistryInv, NoOrphan, Writer
  <1>4. TodoInv' /\ NoPanic'  BY DEF TypeOK, LockInv, TodoInv, RegistryInv, NoPanic, Writer
  <1>5. OrderInv' /\ SentInv' /\ InOrder'
    BY DEF TypeOK, LockInv, TodoInv, OrderInv, SentInv, InOrder, Event
  <1> QED  BY <1>1, <1>2, <1>3, <1>4, <1>5

\* Close only cancels the context.
LEMMA CloseSafe ==
  ASSUME Safe, Close
  PROVE  Safe'
  <1> USE ThreadAssumption, BufferAssumption DEF Safe, IInv, Close, Goto, Thread
  <1>1. TypeOK'  BY DEF TypeOK, Writer, ChanState, PubState, WatchState, Buffered, Event
  <1>2. LockInv'  BY DEF TypeOK, LockInv, Writer
  <1>3. RegistryInv' /\ NoOrphan'  BY DEF TypeOK, LockInv, RegistryInv, NoOrphan, Writer
  <1>4. TodoInv' /\ NoPanic'  BY DEF TypeOK, LockInv, TodoInv, RegistryInv, NoPanic, Writer
  <1>5. OrderInv' /\ SentInv' /\ InOrder'
    BY DEF TypeOK, LockInv, TodoInv, OrderInv, SentInv, InOrder, Event
  <1> QED  BY <1>1, <1>2, <1>3, <1>4, <1>5

\* The watcher asks for the lock.
LEMMA WatchContextSafe ==
  ASSUME Safe, WatchContext
  PROVE  Safe'
  <1> USE ThreadAssumption, BufferAssumption DEF Safe, IInv, WatchContext, RequestLock, Goto, Thread
  <1>1. TypeOK'  BY DEF TypeOK, Writer, ChanState, PubState, WatchState, Buffered, Event
  <1>2. LockInv'  BY DEF TypeOK, LockInv, Writer
  <1>3. RegistryInv' /\ NoOrphan'  BY DEF TypeOK, LockInv, RegistryInv, NoOrphan, Writer
  <1>4. TodoInv' /\ NoPanic'  BY DEF TypeOK, LockInv, TodoInv, RegistryInv, NoPanic, Writer
  <1>5. OrderInv' /\ SentInv' /\ InOrder'
    BY DEF TypeOK, LockInv, TodoInv, OrderInv, SentInv, InOrder, Event
  <1> QED  BY <1>1, <1>2, <1>3, <1>4, <1>5

\* closeAll gets the lock with every registered channel still open.
LEMMA CloseAllLockSafe ==
  ASSUME Safe, CloseAllLock
  PROVE  Safe'
  <1> USE ThreadAssumption, BufferAssumption DEF Safe, IInv, CloseAllLock, GrantLock, Goto, Thread
  <1>1. TypeOK'  BY DEF TypeOK, Writer, ChanState, PubState, WatchState, Buffered, Event
  <1>2. LockInv'  BY DEF TypeOK, LockInv, Writer
  <1>3. RegistryInv' /\ NoOrphan'  BY DEF TypeOK, LockInv, RegistryInv, NoOrphan, Writer
  <1>4. TodoInv' /\ NoPanic'  BY DEF TypeOK, LockInv, TodoInv, RegistryInv, NoPanic, Writer
  <1>5. OrderInv' /\ SentInv' /\ InOrder'
    BY DEF TypeOK, LockInv, TodoInv, OrderInv, SentInv, InOrder, Event
  <1> QED  BY <1>1, <1>2, <1>3, <1>4, <1>5

\* closeAll closes a channel that is still open.
LEMMA CloseAllOneSafe ==
  ASSUME Safe, NEW c \in Chan, CloseAllOne(c)
  PROVE  Safe'
  <1> USE ThreadAssumption, BufferAssumption DEF Safe, IInv, CloseAllOne, Goto, Thread
  <1>1. TypeOK'  BY DEF TypeOK, Writer, ChanState, PubState, WatchState, Buffered, Event
  <1>2. LockInv'  BY DEF TypeOK, LockInv, Writer
  <1>3. RegistryInv' /\ NoOrphan'  BY DEF TypeOK, LockInv, RegistryInv, NoOrphan, Writer
  <1>4. TodoInv' /\ NoPanic'  BY DEF TypeOK, LockInv, TodoInv, RegistryInv, NoPanic, Writer
  <1>5. OrderInv' /\ SentInv' /\ InOrder'
    BY DEF TypeOK, LockInv, TodoInv, OrderInv, SentInv, InOrder, Event
  <1> QED  BY <1>1, <1>2, <1>3, <1>4, <1>5

\* closeAll leaves an empty registry of closed channels.
LEMMA CloseAllReturnSafe ==
  ASSUME Safe, CloseAllReturn
  PROVE  Safe'
  <1> USE ThreadAssumption, BufferAssumption DEF Safe, IInv, CloseAllReturn, Goto, Thread
  <1>1. TypeOK'  BY DEF TypeOK, Writer, ChanState, PubState, WatchState, Buffered, Event
  <1>2. LockInv'  BY DEF TypeOK, LockInv, Writer
  <1>3. RegistryInv' /\ NoOrphan'  BY DEF TypeOK, LockInv, RegistryInv, NoOrphan, Writer
  <1>4. TodoInv' /\ NoPanic'  BY DEF TypeOK, LockInv, TodoInv, RegistryInv, NoPanic, Writer
  <1>5. OrderInv' /\ SentInv' /\ InOrder'
    BY DEF TypeOK, LockInv, TodoInv, OrderInv, SentInv, InOrder, Event
  <1> QED  BY <1>1, <1>2, <1>3, <1>4, <1>5

\* Every step preserves the invariant.
LEMMA StepSafe == Safe /\ [Next]_vars => Safe'
  <1> SUFFICES ASSUME Safe, [Next]_vars PROVE Safe'  OBVIOUS
  <1>1. ASSUME NEW c \in Chan,
               SubscribeCall(c) \/ SubscribeStep(c) \/ UnsubscribeCall(c)
               \/ UnsubscribeStep(c) \/ Receive(c)
        PROVE  Safe'
    BY <1>1, SubscribeCallSafe, SubscribeLockSafe, SubscribeSelectSafe,
       UnsubscribeCallSafe, UnsubscribeLockSafe, UnsubscribeDeleteSafe, ReceiveSafe
       DEF SubscribeStep, UnsubscribeStep
  <1>2. ASSUME NEW p \in Publisher, PublishRLock(p) \/ PublishStep(p)
        PROVE  Safe'
    BY <1>2, PublishRLockSafe, PublishSendSafe, PublishDropSafe, PublishReturnSafe
       DEF PublishStep
  <1>3. CASE Close  BY <1>3, CloseSafe
  <1>4. CASE WatcherStep
    BY <1>4, WatchContextSafe, CloseAllLockSafe, CloseAllOneSafe, CloseAllReturnSafe
       DEF WatcherStep
  <1>5. CASE UNCHANGED vars
    BY <1>5 DEF vars, Safe, IInv, TypeOK, LockInv, TodoInv, RegistryInv, OrderInv, SentInv,
                NoPanic, NoOrphan, InOrder, Buffered
  <1> QED  BY <1>1, <1>2, <1>3, <1>4, <1>5 DEF Next

\* Every reachable state is well typed and satisfies the locking, registry
\* and ordering invariants of the broadcaster.
THEOREM AlwaysSafe == Spec => []Safe
  BY InitSafe, StepSafe, PTL DEF Spec

\* Types, and no channel holds more than its capacity.
THEOREM TypeCorrect == Spec => []TypeOK
  <1>1. Safe => TypeOK  BY DEF Safe
  <1> QED  BY <1>1, AlwaysSafe, PTL

\* The mutex is held as the control states say, publishers only visit
\* registered channels, and these are open unless closeAll is at work.
THEOREM InvariantHolds == Spec => []IInv
  <1>1. Safe => IInv  BY DEF Safe
  <1> QED  BY <1>1, AlwaysSafe, PTL

\* Publish, Subscribe, Unsubscribe and closeAll never panic.
THEOREM NeverPanics == Spec => []NoPanic
  <1>1. Safe => NoPanic  BY DEF Safe
  <1> QED  BY <1>1, AlwaysSafe, PTL

\* Every channel Subscribe returned is registered or closed.
THEOREM NoChannelOrphaned == Spec => []NoOrphan
  <1>1. Safe => NoOrphan  BY DEF Safe
  <1> QED  BY <1>1, AlwaysSafe, PTL

\* Each subscriber gets a publisher's events in order and without repeats.
THEOREM EventsInOrder == Spec => []InOrder
  <1>1. Safe => InOrder  BY DEF Safe
  <1> QED  BY <1>1, AlwaysSafe, PTL
-----------------------------------------------------------------------------
(* The refinement of LossyFeed.                                             *)

\* A step that leaves the registry, the channels and the context alone is a
\* stutter of the feed.
LEMMA StutterRefines ==
  ASSUME UNCHANGED <<done, subs, closed, log, rd>>
  PROVE  UNCHANGED Feed!feedVars
  BY DEF Feed!feedVars

\* Every step of the broadcaster is a step or a stutter of the feed.
LEMMA StepRefines ==
  ASSUME Safe, [Next]_vars
  PROVE  [Feed!FeedNext]_(Feed!feedVars)
  <1> DEFINE status == [c \in Chan |-> IF c \in closed THEN "closed"
                                       ELSE IF c \in subs THEN "open" ELSE "none"]
  <1> USE DEF Safe, IInv
  <1>1. ASSUME NEW c \in Chan, SubscribeSelect(c)
        PROVE  Feed!FeedNext
    <2>1. status[c] = "none"  BY <1>1 DEF SubscribeSelect, RegistryInv
    <2>2. status' = [status EXCEPT ![c] = IF done THEN "closed" ELSE "open"]
      BY <1>1, <2>1 DEF SubscribeSelect, RegistryInv
    <2>3. Feed!Join(c)  BY <1>1, <2>1, <2>2 DEF SubscribeSelect, Feed!Join
    <2> QED  BY <2>3 DEF Feed!FeedNext
  <1>2. ASSUME NEW c \in Chan, UnsubscribeDelete(c)
        PROVE  [Feed!FeedNext]_(Feed!feedVars)
    <2>1. CASE c \in subs
      <3>1. writer = c /\ c \notin closed
        BY <1>2, <2>1, ThreadAssumption DEF UnsubscribeDelete, LockInv, RegistryInv
      <3>2. status[c] = "open" /\ status' = [status EXCEPT ![c] = "closed"]
        BY <1>2, <2>1, <3>1 DEF UnsubscribeDelete
      <3>3. Feed!End(c)  BY <1>2, <3>2 DEF UnsubscribeDelete, Feed!End
      <3> QED  BY <3>3 DEF Feed!FeedNext
    <2>2. CASE c \notin subs  BY <1>2, <2>2, StutterRefines DEF UnsubscribeDelete
    <2> QED  BY <2>1, <2>2
  <1>3. ASSUME NEW c \in Chan, Receive(c)
        PROVE  Feed!FeedNext
    <2>1. Feed!Take(c)  BY <1>3 DEF Receive, Buffered, TypeOK, Feed!Take
    <2> QED  BY <2>1 DEF Feed!FeedNext
  <1>4. ASSUME NEW p \in Publisher, NEW c \in Chan, PublishSend(p, c)
        PROVE  Feed!FeedNext
    <2> DEFINE e == <<p, sent[p]>>
    <2>1. c \in subs /\ c \notin closed
      BY <1>4, ThreadAssumption DEF PublishSend, TypeOK, LockInv, TodoInv, RegistryInv
    <2>2. log' = [log EXCEPT ![c] = Append(log[c], e)] /\ Buffered(c) < Buffer
      BY <1>4, <2>1 DEF PublishSend
    <2>3. sent[p] \in Nat \ {0} /\ log[c] \in Seq(Event)
      BY <1>4 DEF TypeOK, SentInv, PublishSend
    <2>4. e \in Feed!FeedEvent  BY <2>3 DEF Feed!FeedEvent
    <2>5. /\ log'[c] = Append(log[c], e)
          /\ Len(log'[c]) = Len(log[c]) + 1
          /\ log'[c][Len(log'[c])] = e
      BY <2>2, <2>3 DEF TypeOK
    <2>6. Feed!Newest(c, e)  BY <1>4, <2>3 DEF PublishSend, OrderInv, Feed!Newest
    <2>7. status[c] = "open" /\ UNCHANGED <<done, status, rd>>
      BY <1>4, <2>1 DEF PublishSend
    <2>8. Feed!Deliver(c, e)  BY <2>2, <2>6, <2>7 DEF Feed!Deliver, Buffered
    <2>9. Feed!DeliverSome(c)  BY <2>4, <2>5, <2>8 DEF Feed!DeliverSome
    <2> QED  BY <2>9 DEF Feed!FeedNext
  <1>5. CASE Close
    <2>1. Feed!EndFeed  BY <1>5 DEF Close, Feed!EndFeed
    <2> QED  BY <2>1 DEF Feed!FeedNext
  <1>6. ASSUME NEW c \in Chan, CloseAllOne(c)
        PROVE  Feed!FeedNext
    <2>1. c \in subs /\ c \notin closed  BY <1>6 DEF CloseAllOne, RegistryInv
    <2>2. status[c] = "open" /\ status' = [status EXCEPT ![c] = "closed"]
      BY <1>6, <2>1 DEF CloseAllOne
    <2>3. Feed!End(c)  BY <1>6, <2>2 DEF CloseAllOne, Feed!End
    <2> QED  BY <2>3 DEF Feed!FeedNext
  <1>7. CASE CloseAllReturn
    <2>1. subs \subseteq closed  BY <1>7 DEF CloseAllReturn, RegistryInv
    <2>2. UNCHANGED <<done, status, log, rd>>  BY <1>7, <2>1 DEF CloseAllReturn
    <2> QED  BY <2>2 DEF Feed!feedVars
  <1>8. ASSUME NEW c \in Chan,
               \/ SubscribeCall(c) \/ SubscribeLock(c)
               \/ UnsubscribeCall(c) \/ UnsubscribeLock(c)
        PROVE  UNCHANGED Feed!feedVars
    BY <1>8, StutterRefines
       DEF SubscribeCall, SubscribeLock, UnsubscribeCall, UnsubscribeLock
  <1>9. ASSUME NEW p \in Publisher,
               \/ PublishRLock(p) \/ PublishReturn(p)
               \/ \E c \in Chan : PublishDrop(p, c)
        PROVE  UNCHANGED Feed!feedVars
    BY <1>9, StutterRefines DEF PublishRLock, PublishReturn, PublishDrop
  <1>10. ASSUME WatchContext \/ CloseAllLock \/ UNCHANGED vars
         PROVE  UNCHANGED Feed!feedVars
    BY <1>10, StutterRefines DEF WatchContext, CloseAllLock, vars
  <1> QED
    BY <1>1, <1>2, <1>3, <1>4, <1>5, <1>6, <1>7, <1>8, <1>9, <1>10
       DEF Next, SubscribeStep, UnsubscribeStep, PublishStep, WatcherStep

\* Seen through its channels, the broadcaster is a LossyFeed: its locking
\* lets an event reach open channels only, in order, and ends them for good.
THEOREM BroadcasterImplementsFeed == Spec => ImplementsFeed
  <1>1. Init => Feed!FeedInit  BY DEF Init, Feed!FeedInit
  <1>2. Safe /\ [Next]_vars => [Feed!FeedNext]_(Feed!feedVars)  BY StepRefines
  <1> QED  BY <1>1, <1>2, AlwaysSafe, PTL DEF Spec, ImplementsFeed, Feed!FeedSpec
=============================================================================
