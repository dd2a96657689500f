--------------------------- MODULE MonitorTicker ---------------------------
(***************************************************************************)
(* What drives the monitoring cycles: the ticker of OutboundMonitoring,    *)
(* started by Touch, stopped by its own schedule loop when nobody has      *)
(* touched the monitor for idleTimeout, and stopped by Close.  Touch holds *)
(* m.access, the other two do not; they meet in workersRunning, mainTicker *)
(* and pauseCallback.                                                      *)
(*                                                                         *)
(* A loop goroutine is named after the ticker created for it.  The cycle   *)
(* that a tick starts is the subject of OutboundMonitor.                   *)
(***************************************************************************)
EXTENDS Naturals, FiniteSets

CONSTANTS Toucher,    \* goroutines calling Touch, one per dialled connection
          Ticker,     \* bound: tickers that are created
          Closer,     \* the goroutine calling Close
          None

ASSUME NameAssumption == None \notin Ticker \cup Toucher /\ Closer \notin Ticker

VARIABLES access,          \* holder of m.access
          workersRunning,
          mainTicker,
          pauseCallback,   \* the ticker whose callback m.pauseCallback is
          registered,      \* tickers the pause manager knows
          live,            \* tickers that tick
          recent,          \* lastActive is within idleTimeout
          tpc,             \* control state of the touchers
          new,             \* the ticker a toucher has created
          lpc,             \* control state of loops and closer
          ticker,          \* the ticker a loop waits for
          wg,              \* schedulerWG: loops that have not called Done
          ctxDone,
          panicked         \* a nil ticker was used

vars == <<access, workersRunning, mainTicker, pauseCallback, registered, live,
          recent, tpc, new, lpc, ticker, wg, ctxDone, panicked>>

pauseVars == <<pauseCallback, registered>>
endVars == <<wg, ctxDone, panicked>>

Stopper == Ticker \cup {Closer}

TypeOK ==
    /\ access \in Toucher \cup {None}
    /\ workersRunning \in BOOLEAN /\ recent \in BOOLEAN
    /\ ctxDone \in BOOLEAN /\ panicked \in BOOLEAN
    /\ mainTicker \in Ticker \cup {None}
    /\ pauseCallback \in Ticker \cup {None}
    /\ registered \subseteq Ticker /\ live \subseteq Ticker
    /\ tpc \in [Toucher -> {"idle", "check", "cas", "make", "register", "spawn"}]
    /\ new \in [Toucher -> Ticker \cup {None}]
    /\ lpc \in [Stopper -> {"none", "enter", "select", "cas", "halt", "clear",
                            "unregister", "cancel", "wait", "gone"}]
    /\ ticker \in [Ticker -> Ticker \cup {None}]
    /\ wg \subseteq Ticker
    \* whoever is inside Touch holds the mutex
    /\ \A t \in Toucher : (access = t) = (tpc[t] # "idle")
    \* and has a ticker to hand to the loop
    /\ \A t \in Toucher : tpc[t] \in {"register", "spawn"} => new[t] # None

\* PostStart calls Touch, so a toucher is about to start the first ticker;
\* lastActive is still the zero time.
Init ==
    /\ access = None
    /\ workersRunning = FALSE /\ mainTicker = None
    /\ pauseCallback = None /\ registered = {} /\ live = {}
    /\ recent = FALSE
    /\ tpc = [t \in Toucher |-> "idle"]
    /\ new = [t \in Toucher |-> None]
    /\ lpc = [s \in Stopper |-> "none"]
    /\ ticker = [k \in Ticker |-> None]
    /\ wg = {}
    /\ ctxDone = FALSE /\ panicked = FALSE

-----------------------------------------------------------------------------
(* Touch, and startTimerWorkers under m.access *)

ToTouch(t, l) == tpc' = [tpc EXCEPT ![t] = l]

TouchReturn(t) == ToTouch(t, "idle") /\ access' = None

\* Bound: there is a ticker left to create.
TouchLock(t) ==
    /\ tpc[t] = "idle"
    /\ access = None
    /\ \E k \in Ticker : lpc[k] = "none"
    /\ access' = t
    /\ ToTouch(t, "check")
    /\ UNCHANGED <<workersRunning, mainTicker, pauseVars, live, recent, new, lpc, ticker, endVars>>

\* A running ticker is told that the monitor is in use.
TouchCheck(t) ==
    /\ tpc[t] = "check"
    /\ \/ mainTicker # None /\ recent' = TRUE /\ TouchReturn(t)
       \/ mainTicker = None /\ ToTouch(t, "cas") /\ UNCHANGED <<recent, access>>
    /\ UNCHANGED <<workersRunning, mainTicker, pauseVars, live, new, lpc, ticker, endVars>>

StartCAS(t) ==
    /\ tpc[t] = "cas"
    /\ \/ workersRunning /\ TouchReturn(t)
       \/ ~workersRunning /\ ToTouch(t, "make") /\ UNCHANGED access
    /\ workersRunning' = TRUE
    /\ UNCHANGED <<mainTicker, pauseVars, live, recent, new, lpc, ticker, endVars>>

MakeTicker(t, k) ==
    /\ tpc[t] = "make"
    /\ lpc[k] = "none"
    /\ mainTicker' = k
    /\ live' = live \cup {k}
    /\ new' = [new EXCEPT ![t] = k]
    /\ ToTouch(t, "register")
    /\ UNCHANGED <<access, workersRunning, pauseVars, recent, lpc, ticker, endVars>>

\* mainTicker is read again; Close may have cleared it.
RegisterTicker(t) ==
    /\ tpc[t] = "register"
    /\ registered' = registered \cup ({mainTicker} \ {None})
    /\ pauseCallback' = mainTicker
    /\ ToTouch(t, "spawn")
    /\ UNCHANGED <<access, workersRunning, mainTicker, live, recent, new, lpc, ticker, endVars>>

Spawn(t) ==
    /\ tpc[t] = "spawn"
    /\ wg' = wg \cup {new[t]}
    /\ lpc' = [lpc EXCEPT ![new[t]] = "enter"]
    /\ new' = [new EXCEPT ![t] = None]
    /\ TouchReturn(t)
    /\ UNCHANGED <<workersRunning, mainTicker, pauseVars, live, recent, ticker, ctxDone, panicked>>

-----------------------------------------------------------------------------
(* scheduleLoop *)

ToLoop(s, l) == lpc' = [lpc EXCEPT ![s] = l]

loopRest == <<access, workersRunning, pauseVars, recent, tpc, new, ticker>>

\* The loop reads mainTicker and evaluates ticker.C.
LoopEnter(k) ==
    /\ lpc[k] = "enter"
    /\ ToLoop(k, "select")
    /\ ticker' = [ticker EXCEPT ![k] = mainTicker]
    /\ panicked' = (mainTicker = None)
    /\ UNCHANGED <<access, workersRunning, pauseVars, recent, tpc, new, mainTicker, live, wg, ctxDone>>

\* Mutant: the idle loop leaves without stopTimerWorkers.
MutTickLeaves(k) ==
    /\ lpc[k] = "select"
    /\ ticker[k] \in live
    /\ ~recent
    /\ wg' = wg \ {k}
    /\ ToLoop(k, "gone")
    /\ UNCHANGED <<loopRest, mainTicker, live, ctxDone, panicked>>

\* A tick finds the monitor idle; one that does not starts a cycle and
\* leaves this state alone.  Done is called before stopTimerWorkers.
LoopTick(k) ==
    /\ lpc[k] = "select"
    /\ ticker[k] \in live
    /\ ~recent
    /\ wg' = wg \ {k}
    /\ ToLoop(k, "cas")
    /\ UNCHANGED <<loopRest, mainTicker, live, ctxDone, panicked>>

LoopDone(k) ==
    /\ lpc[k] = "select"
    /\ ctxDone
    /\ wg' = wg \ {k}
    /\ ToLoop(k, "gone")
    /\ UNCHANGED <<loopRest, mainTicker, live, ctxDone, panicked>>

-----------------------------------------------------------------------------
(* stopTimerWorkers, from the loop or from Close *)

\* Close goes on to cancel the context, the loop returns.
Stopped(s) == ToLoop(s, IF s = Closer THEN "cancel" ELSE "gone")

StopCAS(s) ==
    /\ lpc[s] = "cas"
    /\ IF workersRunning THEN ToLoop(s, "halt") ELSE Stopped(s)
    /\ workersRunning' = FALSE
    /\ UNCHANGED <<access, mainTicker, pauseVars, live, recent, tpc, new, ticker, endVars>>

StopHalt(s) ==
    /\ lpc[s] = "halt"
    /\ panicked' = (mainTicker = None)
    /\ live' = live \ {mainTicker}
    /\ ToLoop(s, "clear")
    /\ UNCHANGED <<loopRest, mainTicker, wg, ctxDone>>

\* Mutant: the stopped ticker stays in mainTicker.
MutStopKeepsTicker(s) ==
    /\ lpc[s] = "clear"
    /\ ToLoop(s, "unregister")
    /\ UNCHANGED <<loopRest, mainTicker, live, endVars>>

\* mainTicker is cleared and, if there are new results, the history saved.
StopClear(s) ==
    /\ lpc[s] = "clear"
    /\ mainTicker' = None
    /\ ToLoop(s, "unregister")
    /\ UNCHANGED <<loopRest, live, endVars>>

\* Mutant: mainTicker is cleared at the very end.
MutUnregisterClears(s) ==
    /\ lpc[s] = "unregister"
    /\ registered' = registered \ {pauseCallback}
    /\ mainTicker' = None
    /\ Stopped(s)
    /\ UNCHANGED <<access, workersRunning, pauseCallback, live, recent, tpc, new, ticker, endVars>>

\* pauseCallback may be that of a newer ticker by now.
StopUnregister(s) ==
    /\ lpc[s] = "unregister"
    /\ registered' = registered \ {pauseCallback}
    /\ Stopped(s)
    /\ UNCHANGED <<access, workersRunning, mainTicker, pauseCallback, live, recent, tpc, new, ticker, endVars>>

-----------------------------------------------------------------------------
(* Close *)

CloseCall ==
    /\ lpc[Closer] = "none"
    /\ ToLoop(Closer, "cas")
    /\ UNCHANGED <<loopRest, mainTicker, live, endVars>>

\* Mutant: Close waits before it has cancelled the context.
MutCancelLate ==
    /\ lpc[Closer] = "cancel"
    /\ ToLoop(Closer, "wait")
    /\ UNCHANGED <<loopRest, mainTicker, live, endVars>>

CloseCancel ==
    /\ lpc[Closer] = "cancel"
    /\ ctxDone' = TRUE
    /\ ToLoop(Closer, "wait")
    /\ UNCHANGED <<loopRest, mainTicker, live, wg, panicked>>

CloseWait ==
    /\ lpc[Closer] = "wait"
    /\ wg = {}
    /\ ToLoop(Closer, "gone")
    /\ UNCHANGED <<loopRest, mainTicker, live, endVars>>

\* idleTimeout passes without a Touch.
Idle ==
    /\ recent
    /\ recent' = FALSE
    /\ UNCHANGED <<access, workersRunning, mainTicker, pauseVars, live, tpc, new, lpc, ticker, endVars>>

-----------------------------------------------------------------------------
TouchStep(t) ==
    \/ TouchCheck(t) \/ StartCAS(t)
    \/ \E k \in Ticker : MakeTicker(t, k)
    \/ RegisterTicker(t) \/ Spawn(t)

StopStep(s) == StopCAS(s) \/ StopHalt(s) \/ StopClear(s) \/ StopUnregister(s)

LoopStep(k) == LoopEnter(k) \/ LoopDone(k) \/ StopStep(k)

CloseStep == StopStep(Closer) \/ CloseCancel \/ CloseWait

\* A panic ends the process.
Next ==
    /\ ~panicked
    /\ \/ \E t \in Toucher : TouchLock(t) \/ TouchStep(t)
       \/ \E k \in Ticker : LoopTick(k) \/ LoopStep(k)
       \/ CloseCall \/ CloseStep
       \/ Idle

Spec == Init /\ [][Next]_vars

\* Goroutines that can run do; nobody is obliged to touch, and a ticker that
\* Close has stopped need not tick.
FairSpec ==
    /\ Spec
    /\ \A t \in Toucher : WF_vars(TouchStep(t) /\ ~panicked)
    /\ \A k \in Ticker : WF_vars(LoopStep(k) /\ ~panicked)
    /\ WF_vars(CloseStep /\ ~panicked)

-----------------------------------------------------------------------------
(* Properties *)

Open == lpc[Closer] = "none"

\* Loops that wait for ticks, and those about to be spawned.
Scheduling(k) == lpc[k] \in {"enter", "select"} \/ \E t \in Toucher : new[t] = k

Stopping == \E s \in Stopper : lpc[s] \in {"halt", "clear"}

\* Before Close the monitor does not go deaf: as long as mainTicker is set
\* Touch only notes the time, so then a loop must be waiting for that ticker,
\* or be on its way to clear it; otherwise no cycle would ever start again.
NotDeaf ==
    Open =>
        /\ mainTicker # None => Stopping \/ Scheduling(mainTicker) \/ lpc[mainTicker] = "cas"
        /\ workersRunning /\ mainTicker = None => \E t \in Toucher : tpc[t] = "make"

\* Before Close there are never two schedule loops, which would start cycles
\* twice as often, and every ticker that ticks has its loop.
OneLoop ==
    Open =>
        /\ \A k, l \in Ticker : Scheduling(k) /\ Scheduling(l) => k = l
        /\ \A k \in live : Scheduling(k) \/ lpc[k] \in {"cas", "halt"}

\* Before Close no loop meets a ticker that Touch or another loop cleared.
NoNilTicker == Open => ~panicked

\* Close waits for the schedule loops and returns, also when a Touch starts
\* a new ticker behind it.
CloseReturns == lpc[Closer] = "cas" ~> lpc[Closer] = "gone" \/ panicked

-----------------------------------------------------------------------------
(* The inductive invariant behind them *)

\* Where a Touch is, mainTicker and workersRunning are as it left them.
TouchInv ==
    \A t \in Toucher :
        /\ tpc[t] = "cas" => mainTicker = None /\ ~workersRunning
        /\ tpc[t] = "make" => mainTicker = None /\ workersRunning
        /\ tpc[t] \in {"register", "spawn"} =>
              /\ new[t] = mainTicker /\ mainTicker # None
              /\ lpc[mainTicker] = "none" /\ workersRunning
        /\ tpc[t] \notin {"register", "spawn"} => new[t] = None

\* A loop owns mainTicker until it has cleared it.
LoopInv ==
    \A k \in Ticker :
        /\ lpc[k] \in {"enter", "select", "cas", "halt", "clear"} => mainTicker = k
        /\ lpc[k] \in {"enter", "select", "cas"} => workersRunning
        /\ lpc[k] \in {"halt", "clear"} => ~workersRunning
        /\ lpc[k] = "select" => ticker[k] = k
        /\ k \in live => mainTicker = k /\ lpc[k] # "clear"

OwnerInv ==
    /\ mainTicker # None =>
          \/ lpc[mainTicker] \in {"enter", "select", "cas", "halt", "clear"}
          \/ \E t \in Toucher : tpc[t] \in {"register", "spawn"}
    /\ workersRunning /\ mainTicker = None => \E t \in Toucher : tpc[t] = "make"

\* mainTicker and workersRunning belong to one Touch or one loop.
Owned == TouchInv /\ LoopInv /\ OwnerInv /\ ~ctxDone /\ ~panicked

\* They do so until Close.
TickerInv == Open => Owned
=============================================================================
