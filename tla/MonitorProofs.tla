--------------------------- MODULE MonitorProofs ---------------------------
(***************************************************************************)
(* What wakes the monitor and what the monitor wakes.                      *)
(*                                                                         *)
(* GroupNotifier: for any number of outbounds, consumers and signallers no *)
(* wake-up between a test result and its consumers is lost.                *)
(*                                                                         *)
(* MonitorTicker: for any number of connections and restarts: types, and   *)
(* until Close one schedule loop at a time, no nil ticker, and no Touch    *)
(* ignored for good.                                                       *)
(***************************************************************************)
EXTENDS GroupNotifier, MonitorTicker, TLAPS

-----------------------------------------------------------------------------
(* GroupNotifier *)

\* Types and pending wake-ups together are inductive.
Inv == NotifierTypeOK /\ WakeupPending

\* Nobody has subscribed at the start.
LEMMA InitInv == NotifierInit => Inv
  <1> SUFFICES ASSUME NotifierInit PROVE Inv  OBVIOUS
  <1>1. Subscribed = {}  BY DEF NotifierInit, Subscribed
  <1>2. NotifierTypeOK  BY <1>1 DEF NotifierInit, NotifierTypeOK
  <1>3. WakeupPending  BY <1>1 DEF WakeupPending
  <1> QED  BY <1>2, <1>3 DEF Inv

\* A result raises a history and leaves a token.
LEMMA ApplyResultInv ==
  ASSUME Inv, NEW o \in Outbound, ApplyResult(o)
  PROVE  Inv'
  <1> USE DEF Inv, ApplyResult, consumerVars, Subscribed
  <1>1. NotifierTypeOK'  BY DEF NotifierTypeOK
  <1>2. WakeupPending'  BY DEF NotifierTypeOK, WakeupPending, Behind
  <1> QED  BY <1>1, <1>2

\* A call of SignalChange changes nothing yet.
LEMMA SignalCallInv ==
  ASSUME Inv, NEW s \in Signaller, SignalCall(s)
  PROVE  Inv'
  <1> USE DEF Inv, SignalCall, consumerVars, Subscribed
  <1>1. NotifierTypeOK'  BY DEF NotifierTypeOK
  <1>2. WakeupPending'  BY DEF NotifierTypeOK, WakeupPending, Behind
  <1> QED  BY <1>1, <1>2

\* SignalChange adds a token.
LEMMA SignalSendInv ==
  ASSUME Inv, NEW s \in Signaller, SignalSend(s)
  PROVE  Inv'
  <1> USE DEF Inv, SignalSend, consumerVars, Subscribed
  <1>1. NotifierTypeOK'  BY DEF NotifierTypeOK
  <1>2. WakeupPending'  BY DEF NotifierTypeOK, WakeupPending, Behind
  <1> QED  BY <1>1, <1>2

\* A token turns into a timer.
LEMMA NotifyReceivedInv ==
  ASSUME Inv, NotifyReceived
  PROVE  Inv'
  <1> USE DEF Inv, NotifyReceived, consumerVars, Subscribed
  <1>1. NotifierTypeOK'  BY DEF NotifierTypeOK
  <1>2. WakeupPending'  BY DEF NotifierTypeOK, WakeupPending, Behind
  <1> QED  BY <1>1, <1>2

\* The timer turns into an event for every subscriber.
LEMMA EmitGroupEventInv ==
  ASSUME Inv, EmitGroupEvent
  PROVE  Inv'
  <1> USE DEF Inv, EmitGroupEvent, consumerVars, Subscribed
  <1>1. NotifierTypeOK'  BY DEF NotifierTypeOK
  <1>2. WakeupPending'  BY DEF NotifierTypeOK, WakeupPending, Behind
  <1> QED  BY <1>1, <1>2

\* The notifier only exits after Close.
LEMMA NotifierExitInv ==
  ASSUME Inv, NotifierExit
  PROVE  Inv'
  <1> USE DEF Inv, NotifierExit, consumerVars, Subscribed
  <1>1. NotifierTypeOK'  BY DEF NotifierTypeOK
  <1>2. WakeupPending'  BY DEF NotifierTypeOK, WakeupPending, Behind
  <1> QED  BY <1>1, <1>2

\* A consumer that has not subscribed is not concerned.
LEMMA ConsumerStartInv ==
  ASSUME Inv, NEW c \in Consumer, ConsumerStart(c)
  PROVE  Inv'
  <1> USE DEF Inv, ConsumerStart, consumerVars, Subscribed, Goto
  <1>1. NotifierTypeOK'  BY DEF NotifierTypeOK
  <1>2. WakeupPending'  BY DEF NotifierTypeOK, WakeupPending, Behind
  <1> QED  BY <1>1, <1>2

\* A new subscriber is not behind: its base is the present.
LEMMA SubscribeInv ==
  ASSUME Inv, NEW c \in Consumer, Subscribe(c)
  PROVE  Inv'
  <1> USE DEF Inv, Subscribe, consumerVars, Subscribed, Goto
  <1>1. NotifierTypeOK'  BY DEF NotifierTypeOK
  <1>2. WakeupPending'  BY DEF NotifierTypeOK, WakeupPending, Behind
  <1> QED  BY <1>1, <1>2

\* An event turns into a read, or into the timer of a stream.
LEMMA ReceiveEventInv ==
  ASSUME Inv, NEW c \in Consumer, ReceiveEvent(c)
  PROVE  Inv'
  <1> USE DEF Inv, ReceiveEvent, consumerVars, Subscribed, Goto
  <1>1. NotifierTypeOK'  BY DEF NotifierTypeOK
  <1>2. WakeupPending'  BY DEF NotifierTypeOK, WakeupPending, Behind
  <1> QED  BY <1>1, <1>2

\* The timer of a stream turns into a read.
LEMMA StreamTimerInv ==
  ASSUME Inv, NEW c \in Consumer, StreamTimer(c)
  PROVE  Inv'
  <1> USE DEF Inv, StreamTimer, consumerVars, Subscribed, Goto
  <1>1. NotifierTypeOK'  BY DEF NotifierTypeOK
  <1>2. WakeupPending'  BY DEF NotifierTypeOK, WakeupPending, Behind
  <1> QED  BY <1>1, <1>2

\* A history that leaves todo has just been read.
LEMMA ReadHistoryInv ==
  ASSUME Inv, NEW c \in Consumer, NEW o \in Outbound, ReadHistory(c, o)
  PROVE  Inv'
  <1> USE DEF Inv, ReadHistory, consumerVars, Subscribed
  <1>1. NotifierTypeOK'  BY DEF NotifierTypeOK
  <1>2. WakeupPending'  BY DEF NotifierTypeOK, WakeupPending, Behind
  <1> QED  BY <1>1, <1>2

\* A read ends when nothing is left to read.
LEMMA ReadDoneInv ==
  ASSUME Inv, NEW c \in Consumer, ReadDone(c)
  PROVE  Inv'
  <1> USE DEF Inv, ReadDone, consumerVars, Subscribed, Goto
  <1>1. NotifierTypeOK'  BY DEF NotifierTypeOK
  <1>2. WakeupPending'  BY DEF NotifierTypeOK, WakeupPending, Behind
  <1> QED  BY <1>1, <1>2

\* A consumer that leaves is no longer concerned.
LEMMA ConsumerExitInv ==
  ASSUME Inv, NEW c \in Consumer, ConsumerExit(c)
  PROVE  Inv'
  <1> USE DEF Inv, ConsumerExit, consumerVars, Subscribed, Goto
  <1>1. NotifierTypeOK'  BY DEF NotifierTypeOK
  <1>2. WakeupPending'  BY DEF NotifierTypeOK, WakeupPending, Behind
  <1> QED  BY <1>1, <1>2

\* After Close nothing is promised.
LEMMA CloseInv ==
  ASSUME Inv, Close
  PROVE  Inv'
  <1> USE DEF Inv, Close, consumerVars, Subscribed
  <1>1. NotifierTypeOK'  BY DEF NotifierTypeOK
  <1>2. WakeupPending'  BY DEF NotifierTypeOK, WakeupPending, Behind
  <1> QED  BY <1>1, <1>2

\* Every step preserves the invariant.
LEMMA StepInv == Inv /\ [NotifierNext]_notifierVars => Inv'
  <1> SUFFICES ASSUME Inv, [NotifierNext]_notifierVars PROVE Inv'  OBVIOUS
  <1>1. CASE UNCHANGED notifierVars
    BY <1>1 DEF notifierVars, Inv, NotifierTypeOK, WakeupPending, Subscribed, Behind
  <1>2. CASE \E o \in Outbound : ApplyResult(o)  BY <1>2, ApplyResultInv
  <1>3. CASE \E s \in Signaller : SignalCall(s) \/ SignalSend(s)
    BY <1>3, SignalCallInv, SignalSendInv
  <1>4. CASE NotifierStep
    BY <1>4, NotifyReceivedInv, EmitGroupEventInv, NotifierExitInv DEF NotifierStep
  <1>5. CASE \E c \in Consumer : ConsumerStep(c) \/ ConsumerExit(c)
    BY <1>5, ConsumerStartInv, SubscribeInv, ReceiveEventInv, StreamTimerInv,
       ReadHistoryInv, ReadDoneInv, ConsumerExitInv DEF ConsumerStep
  <1>6. CASE Close  BY <1>6, CloseInv
  <1> QED  BY <1>1, <1>2, <1>3, <1>4, <1>5, <1>6 DEF NotifierNext

\* Types, and only subscribers hold events.
THEOREM NotifierTypeCorrect == NotifierSpec => []NotifierTypeOK
  <1>1. Inv => NotifierTypeOK  BY DEF Inv
  <1> QED  BY <1>1, InitInv, StepInv, PTL DEF NotifierSpec

\* However tokens are merged and events dropped, a subscriber that has not
\* read a result has a token, timer, event or unfinished read before it.
THEOREM NoWakeupLost == NotifierSpec => []WakeupPending
  <1>1. Inv => WakeupPending  BY DEF Inv
  <1> QED  BY <1>1, InitInv, StepInv, PTL DEF NotifierSpec

-----------------------------------------------------------------------------
(* MonitorTicker *)

USE NameAssumption DEF Stopper, pauseVars, endVars

\* The monitor begins without a ticker.
LEMMA InitTicker == Init => TypeOK /\ TickerInv
  <1> SUFFICES ASSUME Init PROVE TypeOK /\ Owned  BY DEF TickerInv
  <1>1. TypeOK  BY DEF Init, TypeOK
  <1>2. TouchInv /\ LoopInv /\ OwnerInv  BY DEF Init, TouchInv, LoopInv, OwnerInv
  <1> QED  BY <1>1, <1>2 DEF Owned, Init

\* The steps of Touch keep the types: only the holder of the mutex moves.
LEMMA TouchTyped ==
  ASSUME TypeOK, NEW t \in Toucher, TouchLock(t) \/ TouchStep(t)
  PROVE  TypeOK'
  <1> USE DEF ToTouch, TouchReturn
  <1>1. CASE TouchLock(t)  BY <1>1 DEF TypeOK, TouchLock
  <1>2. CASE TouchCheck(t)
    <2>1. recent' \in BOOLEAN  BY <1>2 DEF TypeOK, TouchCheck
    <2>2. CASE mainTicker # None
      <3>1. \A u \in Toucher : (access' = u) = (tpc'[u] # "idle")
        BY <1>2, <2>2 DEF TypeOK, TouchCheck
      <3> QED  BY <1>2, <2>1, <2>2, <3>1 DEF TypeOK, TouchCheck
    <2>3. CASE mainTicker = None  BY <1>2, <2>1, <2>3 DEF TypeOK, TouchCheck
    <2> QED  BY <2>2, <2>3
  <1>3. CASE StartCAS(t)
    <2>1. CASE workersRunning  BY <1>3, <2>1 DEF TypeOK, StartCAS
    <2>2. CASE ~workersRunning  BY <1>3, <2>2 DEF TypeOK, StartCAS
    <2> QED  BY <2>1, <2>2
  <1>4. ASSUME NEW k \in Ticker, MakeTicker(t, k) PROVE TypeOK'
    BY <1>4 DEF TypeOK, MakeTicker
  <1>5. CASE RegisterTicker(t)  BY <1>5 DEF TypeOK, RegisterTicker
  <1>6. CASE Spawn(t)  BY <1>6 DEF TypeOK, Spawn
  <1> QED  BY <1>1, <1>2, <1>3, <1>4, <1>5, <1>6 DEF TouchStep

\* So does stopTimerWorkers, whoever calls it.
LEMMA StopTyped ==
  ASSUME TypeOK, NEW s \in Stopper, StopStep(s)
  PROVE  TypeOK'
  <1> USE DEF ToLoop, Stopped, loopRest
  <1>1. CASE StopCAS(s)
    <2>1. lpc' \in [Stopper -> {"none", "enter", "select", "cas", "halt", "clear",
                                "unregister", "cancel", "wait", "gone"}]
      BY <1>1 DEF TypeOK, StopCAS
    <2> QED  BY <1>1, <2>1 DEF TypeOK, StopCAS
  <1>2. CASE StopHalt(s)
    <2>1. panicked' \in BOOLEAN  BY <1>2 DEF StopHalt
    <2> QED  BY <1>2, <2>1 DEF TypeOK, StopHalt
  <1>3. CASE StopClear(s)  BY <1>3 DEF TypeOK, StopClear
  <1>4. CASE StopUnregister(s)  BY <1>4 DEF TypeOK, StopUnregister
  <1> QED  BY <1>1, <1>2, <1>3, <1>4 DEF StopStep

\* Every step keeps the types.
LEMMA StepTyped == TypeOK /\ [Next]_vars => TypeOK'
  <1> SUFFICES ASSUME TypeOK, [Next]_vars PROVE TypeOK'  OBVIOUS
  <1> USE DEF ToLoop, loopRest
  <1>1. CASE UNCHANGED vars  BY <1>1 DEF vars, TypeOK
  <1>2. ASSUME NEW k \in Ticker, LoopEnter(k) PROVE TypeOK'
    <2>1. panicked' \in BOOLEAN  BY <1>2 DEF LoopEnter
    <2> QED  BY <1>2, <2>1 DEF TypeOK, LoopEnter
  <1>3. ASSUME NEW k \in Ticker, LoopTick(k) \/ LoopDone(k) PROVE TypeOK'
    BY <1>3 DEF TypeOK, LoopTick, LoopDone
  <1>4. CASE CloseCall \/ CloseCancel \/ CloseWait
    <2>1. CASE CloseCall \/ CloseWait  BY <2>1 DEF TypeOK, CloseCall, CloseWait
    <2>2. CASE CloseCancel
      <3>1. ctxDone' \in BOOLEAN  BY <2>2 DEF CloseCancel
      <3> QED  BY <2>2, <3>1 DEF TypeOK, CloseCancel
    <2> QED  BY <1>4, <2>1, <2>2
  <1>5. CASE Idle  BY <1>5 DEF TypeOK, Idle
  <1> QED  BY <1>1, <1>2, <1>3, <1>4, <1>5, TouchTyped, StopTyped
           DEF Next, LoopStep, CloseStep

\* Touch takes the mutex and has changed nothing yet.
LEMMA TouchLockOwned ==
  ASSUME TypeOK, Owned, NEW t \in Toucher, TouchLock(t)
  PROVE  Owned'
  <1> USE DEF Owned, TouchLock, ToTouch
  <1>1. TouchInv'  BY DEF TypeOK, TouchInv, LoopInv
  <1>2. LoopInv'  BY DEF TypeOK, TouchInv, LoopInv, OwnerInv
  <1>3. OwnerInv'  BY DEF TypeOK, TouchInv, LoopInv, OwnerInv
  <1>4. ~ctxDone' /\ ~panicked'  BY DEF TypeOK, LoopInv
  <1> QED  BY <1>1, <1>2, <1>3, <1>4

\* No mainTicker means that no loop owns one: a Touch goes on to start it.
LEMMA TouchCheckOwned ==
  ASSUME TypeOK, Owned, NEW t \in Toucher, TouchCheck(t)
  PROVE  Owned'
  <1> USE DEF Owned, TouchCheck, ToTouch, TouchReturn
  <1>1. TouchInv'
    <2>1. CASE mainTicker # None  BY <2>1 DEF TypeOK, TouchInv
    <2>2. CASE mainTicker = None
      <3>1. ~workersRunning  BY <2>2 DEF TypeOK, OwnerInv
      <3> QED  BY <2>2, <3>1 DEF TypeOK, TouchInv
    <2> QED  BY <2>1, <2>2
  <1>2. LoopInv'  BY DEF TypeOK, TouchInv, LoopInv, OwnerInv
  <1>3. OwnerInv'  BY DEF TypeOK, TouchInv, LoopInv, OwnerInv
  <1>4. ~ctxDone' /\ ~panicked'  BY DEF TypeOK, LoopInv
  <1> QED  BY <1>1, <1>2, <1>3, <1>4

\* The CompareAndSwap cannot fail: only this Touch could have set the flag.
LEMMA StartCASOwned ==
  ASSUME TypeOK, Owned, NEW t \in Toucher, StartCAS(t)
  PROVE  Owned'
  <1> USE DEF Owned, StartCAS, ToTouch, TouchReturn
  <1>1. TouchInv'  BY DEF TypeOK, TouchInv, LoopInv
  <1>2. LoopInv'  BY DEF TypeOK, TouchInv, LoopInv, OwnerInv
  <1>3. OwnerInv'  BY DEF TypeOK, TouchInv, LoopInv, OwnerInv
  <1>4. ~ctxDone' /\ ~panicked'  BY DEF TypeOK, LoopInv
  <1> QED  BY <1>1, <1>2, <1>3, <1>4

\* The new ticker belongs to the Touch that made it.
LEMMA MakeTickerOwned ==
  ASSUME TypeOK, Owned, NEW t \in Toucher, NEW k \in Ticker, MakeTicker(t, k)
  PROVE  Owned'
  <1> USE DEF Owned, MakeTicker, ToTouch
  <1>1. TouchInv'  BY DEF TypeOK, TouchInv, LoopInv
  <1>2. LoopInv'  BY DEF TypeOK, TouchInv, LoopInv, OwnerInv
  <1>3. OwnerInv'  BY DEF TypeOK, TouchInv, LoopInv, OwnerInv
  <1>4. ~ctxDone' /\ ~panicked'  BY DEF TypeOK, LoopInv
  <1> QED  BY <1>1, <1>2, <1>3, <1>4

\* mainTicker is still the new ticker.
LEMMA RegisterTickerOwned ==
  ASSUME TypeOK, Owned, NEW t \in Toucher, RegisterTicker(t)
  PROVE  Owned'
  <1> USE DEF Owned, RegisterTicker, ToTouch
  <1>1. TouchInv'  BY DEF TypeOK, TouchInv, LoopInv
  <1>2. LoopInv'  BY DEF TypeOK, TouchInv, LoopInv, OwnerInv
  <1>3. OwnerInv'  BY DEF TypeOK, TouchInv, LoopInv, OwnerInv
  <1>4. ~ctxDone' /\ ~panicked'  BY DEF TypeOK, LoopInv
  <1> QED  BY <1>1, <1>2, <1>3, <1>4

\* The ticker passes from the Touch to its loop.
LEMMA SpawnOwned ==
  ASSUME TypeOK, Owned, NEW t \in Toucher, Spawn(t)
  PROVE  Owned'
  <1> USE DEF Owned, Spawn, ToTouch, TouchReturn
  <1>1. TouchInv'  BY DEF TypeOK, TouchInv, LoopInv
  <1>2. LoopInv'  BY DEF TypeOK, TouchInv, LoopInv, OwnerInv
  <1>3. OwnerInv'  BY DEF TypeOK, TouchInv, LoopInv, OwnerInv
  <1>4. ~ctxDone' /\ ~panicked'  BY DEF TypeOK, LoopInv
  <1> QED  BY <1>1, <1>2, <1>3, <1>4

\* The loop finds the ticker it was started for.
LEMMA LoopEnterOwned ==
  ASSUME TypeOK, Owned, NEW k \in Ticker, LoopEnter(k)
  PROVE  Owned'
  <1> USE DEF Owned, LoopEnter, ToLoop
  <1>1. TouchInv'  BY DEF TypeOK, TouchInv, LoopInv
  <1>2. LoopInv'  BY DEF TypeOK, TouchInv, LoopInv, OwnerInv
  <1>3. OwnerInv'  BY DEF TypeOK, TouchInv, LoopInv, OwnerInv
  <1>4. ~ctxDone' /\ ~panicked'  BY DEF TypeOK, LoopInv
  <1> QED  BY <1>1, <1>2, <1>3, <1>4

\* The idle loop still owns the ticker.
LEMMA LoopTickOwned ==
  ASSUME TypeOK, Owned, NEW k \in Ticker, LoopTick(k)
  PROVE  Owned'
  <1> USE DEF Owned, LoopTick, ToLoop, loopRest
  <1>1. TouchInv'  BY DEF TypeOK, TouchInv, LoopInv
  <1>2. LoopInv'  BY DEF TypeOK, TouchInv, LoopInv, OwnerInv
  <1>3. OwnerInv'  BY DEF TypeOK, TouchInv, LoopInv, OwnerInv
  <1>4. ~ctxDone' /\ ~panicked'  BY DEF TypeOK, LoopInv
  <1> QED  BY <1>1, <1>2, <1>3, <1>4

\* The context is not cancelled.
LEMMA LoopDoneOwned ==
  ASSUME TypeOK, Owned, NEW k \in Ticker, LoopDone(k)
  PROVE  Owned'
  <1> USE DEF Owned, LoopDone, ToLoop, loopRest
  <1>1. TouchInv'  BY DEF TypeOK, TouchInv, LoopInv
  <1>2. LoopInv'  BY DEF TypeOK, TouchInv, LoopInv, OwnerInv
  <1>3. OwnerInv'  BY DEF TypeOK, TouchInv, LoopInv, OwnerInv
  <1>4. ~ctxDone' /\ ~panicked'  BY DEF TypeOK, LoopInv
  <1> QED  BY <1>1, <1>2, <1>3, <1>4

\* The loop that owns the ticker finds the flag set.
LEMMA StopCASOwned ==
  ASSUME TypeOK, Owned, NEW k \in Ticker, StopCAS(k)
  PROVE  Owned'
  <1> USE DEF Owned, StopCAS, Stopped, ToLoop
  <1>1. TouchInv'  BY DEF TypeOK, TouchInv, LoopInv
  <1>2. LoopInv'  BY DEF TypeOK, TouchInv, LoopInv, OwnerInv
  <1>3. OwnerInv'  BY DEF TypeOK, TouchInv, LoopInv, OwnerInv
  <1>4. ~ctxDone' /\ ~panicked'  BY DEF TypeOK, LoopInv
  <1> QED  BY <1>1, <1>2, <1>3, <1>4

\* It stops its own ticker.
LEMMA StopHaltOwned ==
  ASSUME TypeOK, Owned, NEW k \in Ticker, StopHalt(k)
  PROVE  Owned'
  <1> USE DEF Owned, StopHalt, ToLoop, loopRest
  <1>1. TouchInv'  BY DEF TypeOK, TouchInv, LoopInv
  <1>2. LoopInv'  BY DEF TypeOK, TouchInv, LoopInv, OwnerInv
  <1>3. OwnerInv'  BY DEF TypeOK, TouchInv, LoopInv, OwnerInv
  <1>4. ~ctxDone' /\ ~panicked'  BY DEF TypeOK, LoopInv
  <1> QED  BY <1>1, <1>2, <1>3, <1>4

\* mainTicker is free for the next Touch.
LEMMA StopClearOwned ==
  ASSUME TypeOK, Owned, NEW k \in Ticker, StopClear(k)
  PROVE  Owned'
  <1> USE DEF Owned, StopClear, ToLoop, loopRest
  <1>1. TouchInv'  BY DEF TypeOK, TouchInv, LoopInv
  <1>2. LoopInv'  BY DEF TypeOK, TouchInv, LoopInv, OwnerInv
  <1>3. OwnerInv'  BY DEF TypeOK, TouchInv, LoopInv, OwnerInv
  <1>4. ~ctxDone' /\ ~panicked'  BY DEF TypeOK, LoopInv
  <1> QED  BY <1>1, <1>2, <1>3, <1>4

\* A loop that has let go of its ticker touches neither field again.
LEMMA StopUnregisterOwned ==
  ASSUME TypeOK, Owned, NEW k \in Ticker, StopUnregister(k)
  PROVE  Owned'
  <1> USE DEF Owned, StopUnregister, Stopped, ToLoop
  <1>1. TouchInv'  BY DEF TypeOK, TouchInv, LoopInv
  <1>2. LoopInv'  BY DEF TypeOK, TouchInv, LoopInv, OwnerInv
  <1>3. OwnerInv'  BY DEF TypeOK, TouchInv, LoopInv, OwnerInv
  <1>4. ~ctxDone' /\ ~panicked'  BY DEF TypeOK, LoopInv
  <1> QED  BY <1>1, <1>2, <1>3, <1>4

\* Time passes.
LEMMA IdleOwned ==
  ASSUME TypeOK, Owned, Idle
  PROVE  Owned'
  <1> USE DEF Owned, Idle
  <1>1. TouchInv'  BY DEF TypeOK, TouchInv, LoopInv
  <1>2. LoopInv'  BY DEF TypeOK, TouchInv, LoopInv, OwnerInv
  <1>3. OwnerInv'  BY DEF TypeOK, TouchInv, LoopInv, OwnerInv
  <1>4. ~ctxDone' /\ ~panicked'  BY DEF TypeOK, LoopInv
  <1> QED  BY <1>1, <1>2, <1>3, <1>4

\* Close is called once: the closer never goes back to its beginning.
LEMMA ClosedForGood ==
  ASSUME TypeOK, [Next]_vars, Open'
  PROVE  Open /\ ~CloseCall /\ ~CloseStep
  <1> USE DEF Open, TypeOK, ToLoop, ToTouch, TouchReturn, loopRest
  <1>1. ~CloseCall  BY DEF CloseCall
  <1>2. Open
    <2>1. CASE UNCHANGED vars  BY <2>1 DEF vars
    <2>2. ASSUME NEW t \in Toucher, TouchLock(t) \/ TouchStep(t) PROVE Open
      BY <2>2 DEF TouchLock, TouchStep, TouchCheck, StartCAS, MakeTicker, RegisterTicker, Spawn
    <2>3. ASSUME NEW k \in Ticker, LoopTick(k) \/ LoopStep(k) PROVE Open
      BY <2>3 DEF LoopTick, LoopStep, LoopEnter, LoopDone, StopStep, StopCAS, StopHalt,
                  StopClear, StopUnregister, Stopped
    <2>4. CASE CloseStep
      BY <2>4 DEF CloseStep, CloseCancel, CloseWait, StopStep, StopCAS, StopHalt,
                  StopClear, StopUnregister, Stopped
    <2>5. CASE Idle  BY <2>5 DEF Idle
    <2> QED  BY <1>1, <2>1, <2>2, <2>3, <2>4, <2>5 DEF Next
  <1>3. ~CloseStep
    BY <1>2 DEF CloseStep, CloseCancel, CloseWait, StopStep, StopCAS, StopHalt,
                StopClear, StopUnregister
  <1> QED  BY <1>1, <1>2, <1>3

\* Every step keeps the invariant.
LEMMA StepTicker == TypeOK /\ TickerInv /\ [Next]_vars => TickerInv'
  <1> SUFFICES ASSUME TypeOK, TickerInv, [Next]_vars, Open' PROVE Owned'
    BY DEF TickerInv
  <1>1. Open /\ ~CloseCall /\ ~CloseStep  BY ClosedForGood
  <1>2. Owned  BY <1>1 DEF TickerInv
  <1>3. CASE UNCHANGED vars
    BY <1>2, <1>3 DEF vars, Owned, TouchInv, LoopInv, OwnerInv
  <1>4. ASSUME NEW t \in Toucher, TouchLock(t) \/ TouchStep(t) PROVE Owned'
    BY <1>2, <1>4, TouchLockOwned, TouchCheckOwned, StartCASOwned, MakeTickerOwned,
       RegisterTickerOwned, SpawnOwned  DEF TouchStep
  <1>5. ASSUME NEW k \in Ticker, LoopTick(k) \/ LoopStep(k) PROVE Owned'
    BY <1>2, <1>5, LoopTickOwned, LoopEnterOwned, LoopDoneOwned, StopCASOwned,
       StopHaltOwned, StopClearOwned, StopUnregisterOwned  DEF LoopStep, StopStep
  <1>6. CASE Idle  BY <1>2, <1>6, IdleOwned
  <1> QED  BY <1>1, <1>3, <1>4, <1>5, <1>6 DEF Next

\* Types, with or without Close; in particular whoever is inside Touch holds
\* m.access and has a ticker to hand to its loop.
THEOREM TickerTypeCorrect == Spec => []TypeOK
  <1>1. Init => TypeOK  BY InitTicker
  <1> QED  BY <1>1, StepTyped, PTL DEF Spec

\* Until Close mainTicker and workersRunning have one owner.
THEOREM TickerOwned == Spec => []TickerInv
  <1>1. Init => TickerInv  BY InitTicker
  <1> QED  BY <1>1, StepTicker, TickerTypeCorrect, PTL DEF Spec

\* Until Close Touch is never ignored for good.
THEOREM NeverDeaf == Spec => []NotDeaf
  <1>1. TypeOK /\ TickerInv => NotDeaf
    BY DEF TypeOK, TickerInv, Owned, TouchInv, OwnerInv, NotDeaf, Stopping, Scheduling
  <1> QED  BY <1>1, TickerOwned, TickerTypeCorrect, PTL

\* Until Close there is one schedule loop at most, and it has the ticker.
THEOREM SingleLoop == Spec => []OneLoop
  <1>1. TypeOK /\ TickerInv => OneLoop
    BY DEF TypeOK, TickerInv, Owned, TouchInv, LoopInv, OwnerInv, OneLoop, Scheduling
  <1> QED  BY <1>1, TickerOwned, TickerTypeCorrect, PTL

\* Until Close Touch, scheduleLoop and stopTimerWorkers use no nil ticker.
THEOREM TickerNotNil == Spec => []NoNilTicker
  <1>1. TickerInv => NoNilTicker  BY DEF TickerInv, Owned, NoNilTicker
  <1> QED  BY <1>1, TickerOwned, PTL
=============================================================================
