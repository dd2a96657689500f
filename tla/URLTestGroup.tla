---------------------------- MODULE URLTestGroup ----------------------------
(***************************************************************************)
(* The URL test group (protocol/group/urltest.go): the ticker that runs    *)
(* while the group is in use, the checks that test its outbounds and       *)
(* choose one per network, and dials that mark an outbound as timed out.   *)
(*                                                                         *)
(* Delays are 16-bit milliseconds, and so is the sum of delay and          *)
(* tolerance that Select compares.  Select reads the history of a network, *)
(* and what its nested groups stand for, as one step.                      *)
(***************************************************************************)
EXTENDS GroupMembers

CONSTANTS Tag,        \* the tags under which results are looked up
          Now,        \* those that RealTag can return: the members of a nested group
          Loaded,     \* the tags that the outbound manager knows
          Delay,      \* delays of successful tests, per tag
          Tolerance,
          Loop,       \* loopCheck goroutines; bound: starts of the ticker
          Api         \* a caller of CheckOutbounds or URLTest, and PostStart's goroutine

ASSUME URLTestAssumption ==
    /\ Now \in [Outbound -> SUBSET Tag] /\ \A o \in Outbound : Now[o] # {}
    /\ Loaded \subseteq Tag
    /\ Delay \in [Tag -> SUBSET (0..TimeoutDelay)]
    /\ Tolerance \in 1..TimeoutDelay
    /\ Api \notin Loop /\ None \notin Loop \cup {Api}

VARIABLES realTag,    \* what RealTag returns: "" or a tag for a nested group
          paused,     \* the pause manager has paused the device or the network
          ticker,     \* g.ticker # nil
          registered, \* pauseCallback is registered; the ticker is not stopped
          age,        \* of lastActive: within the interval, older, or beyond idleTimeout
          loop,       \* control state of the loopCheck goroutines
          closed,     \* Close was called, and whether it closed g.close
          history,    \* delay of the last test, and whether it is within the interval
          checking,   \* who runs urlTest: the holder of g.checking
          phase,      \* of that check
          todo,       \* the tags whose test is under way
          updated,    \* performUpdateCheck has replaced a selection
          selectedOutbound  \* selectedOutboundTCP and selectedOutboundUDP

envVars == <<realTag, paused>>
loopVars == <<ticker, registered, age, loop, closed>>
checkVars == <<checking, phase, todo, updated, selectedOutbound>>
urlTestVars == <<envVars, loopVars, history, checkVars>>

Entry == [delay : 0..TimeoutDelay, fresh : BOOLEAN]

URLTestTypeOK ==
    /\ realTag \in [Outbound -> Tag]
    /\ paused \in BOOLEAN
    /\ ticker \in BOOLEAN /\ registered \in BOOLEAN
    /\ age \in {"fresh", "stale", "idle"}
    /\ loop \in [Loop -> {"none", "start", "wait", "check", "stop", "exited"}]
    /\ closed \in {"no", "noop", "yes"}
    /\ history \in [Tag -> Entry \cup {None}]
    /\ checking \in Loop \cup {Api, None}
    /\ phase \in {"none", "test", "tcp", "udp", "interrupt"}
    /\ todo \in SUBSET Tag
    /\ updated \in BOOLEAN
    /\ selectedOutbound \in [Net -> Outbound \cup {None}]
    /\ (checking = None) = (phase = "none")

URLTestInit ==
    /\ realTag \in [Outbound -> Tag] /\ \A o \in Outbound : realTag[o] \in Now[o]
    /\ paused \in BOOLEAN
    /\ ticker = FALSE /\ registered = FALSE
    /\ age = "fresh"
    /\ loop = [l \in Loop |-> "none"]
    /\ closed = "no"
    /\ history = [t \in Tag |-> None]
    /\ checking = None /\ phase = "none" /\ todo = {} /\ updated = FALSE
    /\ selectedOutbound = [n \in Net |-> None]

-----------------------------------------------------------------------------
(* Touch, Close and loopCheck *)

Unused == {l \in Loop : loop[l] = "none"}

\* Every dial; a group that has not started is not dialled.
Touch ==
    /\ IF ticker
       THEN age' = "fresh" /\ UNCHANGED <<ticker, registered, loop>>
       ELSE /\ Unused # {}
            /\ loop' = [loop EXCEPT ![CHOOSE l \in Unused : TRUE] = "start"]
            /\ ticker' = TRUE /\ registered' = TRUE
            /\ UNCHANGED age
    /\ UNCHANGED <<envVars, closed, history, checkVars>>

\* The group's manager closes it once; its ticker stops and the callback is
\* gone.  Without a ticker g.close stays open, and a later Touch starts the
\* ticker again.
Close ==
    /\ closed = "no"
    /\ closed' = IF ticker THEN "yes" ELSE "noop"
    /\ registered' = FALSE
    /\ UNCHANGED <<envVars, ticker, age, loop, history, checkVars>>

\* A test at once when the last activity is older than the interval.
LoopStart(l) ==
    /\ loop[l] = "start"
    /\ IF age = "fresh" THEN loop' = [loop EXCEPT ![l] = "wait"] /\ UNCHANGED age
                        ELSE loop' = [loop EXCEPT ![l] = "check"] /\ age' = "fresh"
    /\ UNCHANGED <<envVars, ticker, registered, closed, history, checkVars>>

\* The callback stops the ticker while the device or the network is paused.
LoopTick(l) ==
    /\ loop[l] = "wait"
    /\ registered /\ ~paused
    /\ loop' = [loop EXCEPT ![l] = IF age = "idle" THEN "stop" ELSE "check"]
    /\ UNCHANGED <<envVars, ticker, registered, age, closed, history, checkVars>>

LoopClosed(l) ==
    /\ loop[l] = "wait"
    /\ closed = "yes"
    /\ loop' = [loop EXCEPT ![l] = "exited"]
    /\ UNCHANGED <<envVars, ticker, registered, age, closed, history, checkVars>>

\* Mutant: the idle loop ends without clearing the ticker.
MutLoopStopKeepsTicker(l) ==
    /\ loop[l] = "stop"
    /\ loop' = [loop EXCEPT ![l] = "exited"]
    /\ UNCHANGED <<envVars, ticker, registered, age, closed, history, checkVars>>

\* Idle: a Touch since the look at lastActive does not keep the loop.
LoopStop(l) ==
    /\ loop[l] = "stop"
    /\ ticker' = FALSE /\ registered' = FALSE
    /\ loop' = [loop EXCEPT ![l] = "exited"]
    /\ UNCHANGED <<envVars, age, closed, history, checkVars>>

-----------------------------------------------------------------------------
(* urlTest and performUpdateCheck *)

\* Somebody else is checking: the call returns at once.
CheckBusy(l) ==
    /\ loop[l] = "check"
    /\ checking \notin {None, l}
    /\ loop' = [loop EXCEPT ![l] = "wait"]
    /\ UNCHANGED <<envVars, ticker, registered, age, closed, history, checkVars>>

\* The tags of outbounds without a result within the interval, or of all;
\* the manager must know them.
Targets(force) ==
    {t \in {realTag[o] : o \in Outbound} \cap Loaded :
        force \/ history[t] = None \/ ~history[t].fresh}

CheckBegin(c, force) ==
    /\ checking = None
    /\ IF c = Api THEN TRUE ELSE loop[c] = "check" /\ ~force
    /\ checking' = c
    /\ phase' = "test"
    /\ todo' = Targets(force)
    /\ updated' = FALSE
    /\ UNCHANGED <<envVars, loopVars, history, selectedOutbound>>

Store(t, d) == history' = [history EXCEPT ![t] = [delay |-> d, fresh |-> TRUE]]

\* A test ends, by its timeout at the latest; a failed one stores 65535.
TestEnds(t, d) ==
    /\ phase = "test"
    /\ t \in todo
    /\ todo' = todo \ {t}
    /\ Store(t, d)
    /\ UNCHANGED <<envVars, loopVars, checking, phase, updated, selectedOutbound>>

BatchDone ==
    /\ phase = "test"
    /\ todo = {}
    /\ phase' = "tcp"
    /\ UNCHANGED <<envVars, loopVars, history, checking, todo, updated, selectedOutbound>>

\* Mutant: the tolerance is not added.
MutSelectBestPlain(n) ==
    LET cur == selectedOutbound[n]
        base == IF cur = None \/ history[realTag[cur]] = None
                THEN [delay |-> 0, out |-> None]
                ELSE [delay |-> history[realTag[cur]].delay, out |-> cur]
        Better(min, o) ==
            LET h == history[realTag[o]]
            IN  IF n \in Supports[o] /\ h # None /\ (min.delay = 0 \/ min.delay > h.delay)
                THEN [delay |-> h.delay, out |-> o] ELSE min
    IN  FoldLeft(Better, base, Outbounds).out

\* The current selection, replaced by every outbound that is faster by more
\* than the tolerance; None if nothing has been tested.
SelectBest(n) ==
    LET cur == selectedOutbound[n]
        base == IF cur = None \/ history[realTag[cur]] = None
                THEN [delay |-> 0, out |-> None]
                ELSE [delay |-> history[realTag[cur]].delay, out |-> cur]
        Better(min, o) ==
            LET h == history[realTag[o]]
            IN  IF /\ n \in Supports[o] /\ h # None
                   /\ min.delay = 0 \/ min.delay > Uint16(h.delay + Tolerance)
                THEN [delay |-> h.delay, out |-> o] ELSE min
    IN  FoldLeft(Better, base, Outbounds).out

\* Select: without a result the first outbound that supports the network.
Select(n) ==
    LET usable == {i \in DOMAIN Outbounds : n \in Supports[Outbounds[i]]}
    IN  IF SelectBest(n) # None THEN SelectBest(n)
        ELSE IF usable # {} THEN Outbounds[Min(usable)] ELSE None

UpdateSelected(n, next) ==
    /\ phase = n
    /\ LET old == selectedOutbound[n]
           new == Select(n)
           replace == new # None /\ (old = None \/ SelectBest(n) \notin {None, old})
       IN  /\ selectedOutbound' = [selectedOutbound EXCEPT ![n] = IF replace THEN new ELSE old]
           /\ updated' = (updated \/ (replace /\ old # None))
    /\ phase' = next
    /\ UNCHANGED <<envVars, loopVars, history, checking, todo>>

\* Mutant: the flag is not released.
MutCheckEndKeepsFlag ==
    /\ phase = "interrupt"
    /\ phase' = "none"
    /\ updated' = FALSE
    /\ loop' = IF checking \in Loop THEN [loop EXCEPT ![checking] = "wait"] ELSE loop
    /\ UNCHANGED <<envVars, ticker, registered, age, closed, history, checking, todo, selectedOutbound>>

\* Connections are interrupted if a selection was replaced.
CheckEnd ==
    /\ phase = "interrupt"
    /\ phase' = "none"
    /\ checking' = None
    /\ updated' = FALSE
    /\ loop' = IF checking \in Loop THEN [loop EXCEPT ![checking] = "wait"] ELSE loop
    /\ UNCHANGED <<envVars, ticker, registered, age, closed, history, todo, selectedOutbound>>

\* A dial that went to the outbound fails: DeleteURLTestHistory stores a
\* timeout under the tag of the outbound itself, which is looked up unless
\* it is a group's.  The dial may have begun long ago, when another one was
\* selected, so it may be any.
DialFails(o) ==
    /\ Supports[o] # {} /\ o \in Tag
    /\ Store(o, TimeoutDelay)
    /\ UNCHANGED <<envVars, loopVars, checkVars>>

-----------------------------------------------------------------------------
(* The environment *)

\* A nested group selects another outbound.
Switch(o, t) ==
    /\ t \in Now[o] \ {realTag[o]}
    /\ realTag' = [realTag EXCEPT ![o] = t]
    /\ UNCHANGED <<paused, loopVars, history, checkVars>>

\* The pause manager's events.
PauseOrWake ==
    /\ paused' = ~paused
    /\ UNCHANGED <<realTag, loopVars, history, checkVars>>

\* Time: the last activity and the results get older.
Idle ==
    /\ age # "idle"
    /\ age' = IF age = "fresh" THEN "stale" ELSE "idle"
    /\ UNCHANGED <<envVars, ticker, registered, loop, closed, history, checkVars>>

ResultExpires(t) ==
    /\ history[t] # None /\ history[t].fresh
    /\ history' = [history EXCEPT ![t].fresh = FALSE]
    /\ UNCHANGED <<envVars, loopVars, checkVars>>

LoopStep(l) == LoopStart(l) \/ LoopTick(l) \/ LoopClosed(l) \/ LoopStop(l) \/ CheckBusy(l)

CheckStep ==
    \/ \E t \in Tag : \E d \in Delay[t] \cup {TimeoutDelay} : TestEnds(t, d)
    \/ BatchDone
    \/ UpdateSelected("tcp", "udp") \/ UpdateSelected("udp", "interrupt")
    \/ CheckEnd

URLTestNext ==
    \/ Touch \/ Close \/ Idle
    \/ \E l \in Loop : LoopStep(l)
    \/ \E c \in Loop \cup {Api}, force \in BOOLEAN : CheckBegin(c, force)
    \/ CheckStep
    \/ \E o \in Outbound : DialFails(o)
    \/ \E t \in Tag : ResultExpires(t)
    \/ \E o \in Outbound, t \in Tag : Switch(o, t)
    \/ PauseOrWake

URLTestSpec == URLTestInit /\ [][URLTestNext]_urlTestVars

\* A check goes on, its tests have a timeout, and ticks keep coming unless
\* they are paused; nothing makes the user dial.
URLTestFairSpec ==
    /\ URLTestSpec /\ WF_urlTestVars(CheckStep)
    /\ \A l \in Loop : WF_urlTestVars(LoopStep(l) \/ CheckBegin(l, FALSE))

-----------------------------------------------------------------------------
(* Properties *)

\* A check leaves each network with an outbound that no tested one beats by
\* more than the tolerance, and it replaces a selection only by one that
\* does, so that the selection does not flap: as long as every result, plus
\* the tolerance, fits into 16 bits and none is 0.
TolerantChoice ==
    [][\A n \in Net :
        LET tested == {o \in Outbound : n \in Supports[o] /\ history[realTag[o]] # None}
            d(o) == history[realTag[o]].delay
            old == selectedOutbound[n]
            new == selectedOutbound'[n]
        IN  /\ phase = n /\ phase' # n
            /\ tested # {} /\ \A o \in tested : d(o) \in 1..(TimeoutDelay - Tolerance)
            => /\ new \in tested /\ \A o \in tested : d(new) <= d(o) + Tolerance
               /\ old \in tested \ {new} => d(old) > d(new) + Tolerance]_urlTestVars

\* As long as g.close is open a ticker runs exactly when one loop does: no
\* Touch is lost to a ticker nobody listens to, and none starts a second
\* loop, although the loop decides to stop before it takes the lock.
LoopPerTicker ==
    LET alive == {l \in Loop : loop[l] \notin {"none", "exited"}}
    IN  /\ \A l, m \in alive : l = m
        /\ closed # "yes" => ticker = (alive # {})

\* A result that is older than the interval is replaced while the loop runs,
\* also when checks by the API collide with it and dials fail: as long as
\* ticks keep coming (the pause manager can stop them), the outbound manager
\* knows the tag and no nested group turns to another one.
ResultsRenewed ==
    \A t \in Loaded :
        LET old == history[t] = None \/ ~history[t].fresh
            wanted == \E o \in Outbound : realTag[o] = t
            looping == \E l \in Loop : loop[l] \in {"wait", "check"}
        IN  old /\ wanted /\ looping ~> ~old \/ ~wanted \/ ~looping \/ paused
=============================================================================
