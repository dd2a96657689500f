------------------------------ MODULE Selector ------------------------------
(***************************************************************************)
(* The selector group (protocol/group/selector.go) with its interrupt      *)
(* group (common/interrupt): calls of SelectOutbound by several clients,   *)
(* connections that are dialled through the selected outbound, the choice  *)
(* kept in the cache file, and restarts of the box.                        *)
(*                                                                         *)
(* selected is an atomic value; calls and dials read it without a lock.    *)
(* The selector has a tag and a cache file, as v2/config/builder.go sets   *)
(* them up.  The monitor's TestNow and SignalChange are one event: the     *)
(* monitor is told of an outbound.                                         *)
(***************************************************************************)
EXTENDS Sequences, SequencesExt

CONSTANTS Outbounds,          \* the group's outbounds, in order
          DefaultTag,         \* its default, or None
          Foreign,            \* tags that are not the group's
          Client,             \* callers of SelectOutbound
          Boot,               \* the goroutine that runs Start and PostStart
          Conn,               \* connections; bound: how many a run of the box has
          InterruptExternal,  \* interruptExternalConnections
          None

Outbound == ToSet(Outbounds)
Caller == Client \cup {Boot}

ASSUME SelectorAssumption ==
    /\ Outbounds \in Seq(Outbound) /\ Outbounds # <<>>
    /\ DefaultTag \in Outbound \cup {None}
    /\ Boot \notin Client
    /\ InterruptExternal \in BOOLEAN
    /\ None \notin Outbound /\ Foreign \cap (Outbound \cup {None}) = {}

VARIABLES selected,  \* the outbound in use
          saved,     \* the tag in the cache file
          pc,        \* control state of each call
          arg,       \* the outbound it is to store, or has loaded to ping
          conn,      \* connections, with the outbound they were dialled through
          told,      \* history: the monitor was told of selected since it was selected
          orderly    \* history: since Start no store failed and no two changes overlapped

vars == <<selected, saved, pc, arg, conn, told, orderly>>

ConnRecord ==
    [state : {"none", "dialing", "open", "closed"}, out : Outbound,
     external : BOOLEAN,
     late : BOOLEAN]  \* history: the selection changed while it was dialled

TypeOK ==
    /\ selected \in Outbound
    /\ saved \in Outbound \cup Foreign \cup {None}
    /\ pc \in [Caller -> {"idle", "store", "interrupt", "ping", "tell"}]
    /\ arg \in [Caller -> Outbound \cup {None}]
    /\ conn \in [Conn -> ConnRecord]
    /\ told \in BOOLEAN
    /\ orderly \in BOOLEAN

-----------------------------------------------------------------------------
\* The choice of Start: what was saved if it is still one of the group's,
\* else the default, else the first.
Restored(s) ==
    IF s \in Outbound THEN s
    ELSE IF DefaultTag # None THEN DefaultTag ELSE Outbounds[1]

\* A box that has run Start: PostStart is still to ping, and nothing else
\* has happened.
AtPostStart == [c \in Caller |-> IF c = Boot THEN "ping" ELSE "idle"]
NoConn == [state |-> "none", out |-> Outbounds[1], external |-> FALSE, late |-> FALSE]

Init ==
    /\ saved \in Outbound \cup Foreign \cup {None}
    /\ selected = Restored(saved)
    /\ pc = AtPostStart
    /\ arg = [c \in Caller |-> None]
    /\ conn = [k \in Conn |-> NoConn]
    /\ told = FALSE
    /\ orderly = TRUE

\* The process ends, at any point of any call, and the box starts again.
Restart ==
    /\ selected' = Restored(saved)
    /\ pc' = AtPostStart
    /\ arg' = [c \in Caller |-> None]
    /\ conn' = [k \in Conn |-> NoConn]
    /\ told' = FALSE
    /\ orderly' = TRUE
    /\ UNCHANGED saved

-----------------------------------------------------------------------------
(* SelectOutbound and pingSelected *)

\* The tag is not the group's, or is the selected one already.
SelectNothing(c, t) ==
    /\ pc[c] = "idle"
    /\ t \in Foreign \cup {selected}
    /\ pc' = [pc EXCEPT ![c] = "ping"]
    /\ UNCHANGED <<selected, saved, arg, conn, told, orderly>>

\* Mutant: the choice is not stored.
MutSelectChange(c, t) ==
    /\ pc[c] = "idle"
    /\ t \in Outbound \ {selected}
    /\ selected' = t
    /\ pc' = [pc EXCEPT ![c] = "interrupt"]
    /\ conn' = [k \in Conn |-> [conn[k] EXCEPT !.late = @ \/ conn[k].state = "dialing"]]
    /\ told' = FALSE
    /\ UNCHANGED <<saved, arg, orderly>>

\* selected.Swap replaces the outbound.
SelectChange(c, t) ==
    /\ pc[c] = "idle"
    /\ t \in Outbound \ {selected}
    /\ selected' = t
    /\ pc' = [pc EXCEPT ![c] = "store"]
    /\ arg' = [arg EXCEPT ![c] = t]
    /\ conn' = [k \in Conn |-> [conn[k] EXCEPT !.late = @ \/ conn[k].state = "dialing"]]
    /\ told' = FALSE
    /\ orderly' = (orderly /\ \A d \in Caller : pc[d] # "store")
    /\ UNCHANGED saved

\* Mutant: a call that failed to store returns.
MutStoreSelected(c, ok) ==
    /\ pc[c] = "store"
    /\ saved' = IF ok THEN arg[c] ELSE saved
    /\ orderly' = (orderly /\ ok)
    /\ pc' = [pc EXCEPT ![c] = IF ok THEN "interrupt" ELSE "ping"]
    /\ arg' = [arg EXCEPT ![c] = None]
    /\ UNCHANGED <<selected, conn, told>>

\* A failed store is logged.
StoreSelected(c, ok) ==
    /\ pc[c] = "store"
    /\ saved' = IF ok THEN arg[c] ELSE saved
    /\ orderly' = (orderly /\ ok)
    /\ pc' = [pc EXCEPT ![c] = "interrupt"]
    /\ arg' = [arg EXCEPT ![c] = None]
    /\ UNCHANGED <<selected, conn, told>>

Interruptible(k) == ~conn[k].external \/ InterruptExternal

\* Mutant: the call ends without the deferred ping.
MutInterrupt(c) ==
    /\ pc[c] = "interrupt"
    /\ conn' = [k \in Conn |-> IF conn[k].state = "open" /\ Interruptible(k)
                               THEN [conn[k] EXCEPT !.state = "closed"] ELSE conn[k]]
    /\ pc' = [pc EXCEPT ![c] = "idle"]
    /\ UNCHANGED <<selected, saved, arg, told, orderly>>

\* Group.Interrupt, under its lock: closes what is registered.
Interrupt(c) ==
    /\ pc[c] = "interrupt"
    /\ conn' = [k \in Conn |-> IF conn[k].state = "open" /\ Interruptible(k)
                               THEN [conn[k] EXCEPT !.state = "closed"] ELSE conn[k]]
    /\ pc' = [pc EXCEPT ![c] = "ping"]
    /\ UNCHANGED <<selected, saved, arg, told, orderly>>

\* The deferred pingSelected loads the selection ...
PingLoad(c) ==
    /\ pc[c] = "ping"
    /\ arg' = [arg EXCEPT ![c] = selected]
    /\ pc' = [pc EXCEPT ![c] = "tell"]
    /\ UNCHANGED <<selected, saved, conn, told, orderly>>

\* ... and calls the monitor.
PingTell(c) ==
    /\ pc[c] = "tell"
    /\ told' = (told \/ arg[c] = selected)
    /\ pc' = [pc EXCEPT ![c] = "idle"]
    /\ arg' = [arg EXCEPT ![c] = None]
    /\ UNCHANGED <<selected, saved, conn, orderly>>

-----------------------------------------------------------------------------
(* DialContext, ListenPacket, NewConnectionEx, NewPacketConnectionEx *)

\* The selection is loaded; the dial may take long.
Dial(k, external) ==
    /\ conn[k].state = "none"
    /\ conn' = [conn EXCEPT ![k] = [state |-> "dialing", out |-> selected,
                                    external |-> external, late |-> FALSE]]
    /\ UNCHANGED <<selected, saved, pc, arg, told, orderly>>

\* The connection is there, and registered for interruption; or the dial failed.
Dialled(k, state) ==
    /\ conn[k].state = "dialing"
    /\ conn' = [conn EXCEPT ![k].state = state]
    /\ UNCHANGED <<selected, saved, pc, arg, told, orderly>>

\* The user of the connection closes it.
CloseConn(k) ==
    /\ conn[k].state = "open"
    /\ conn' = [conn EXCEPT ![k].state = "closed"]
    /\ UNCHANGED <<selected, saved, pc, arg, told, orderly>>

-----------------------------------------------------------------------------
Select(c) ==
    \E t \in Outbound \cup Foreign : SelectNothing(c, t) \/ SelectChange(c, t)

CallStep(c) ==
    \/ \E ok \in BOOLEAN : StoreSelected(c, ok)
    \/ Interrupt(c) \/ PingLoad(c) \/ PingTell(c)

ConnStep(k) ==
    \/ \E external \in BOOLEAN : Dial(k, external)
    \/ Dialled(k, "open") \/ Dialled(k, "closed")
    \/ CloseConn(k)

Next ==
    \/ Restart
    \/ \E c \in Client : Select(c)
    \/ \E c \in Caller : CallStep(c)
    \/ \E k \in Conn : ConnStep(k)

Spec == Init /\ [][Next]_vars

-----------------------------------------------------------------------------
(* Properties *)

\* Only a connection whose dial a change overtook outlives the change: any
\* other interruptible connection on an outbound that is not selected is
\* about to be closed by a call that changed the selection, whatever the
\* calls and dials overlap with and whether or not the choice was stored.
ConnsFollow ==
    \A k \in Conn :
        conn[k].state = "open" /\ Interruptible(k) /\ conn[k].out # selected
            => conn[k].late \/ \E c \in Caller : pc[c] \in {"store", "interrupt"}

\* Between calls a restart brings back the outbound in use, unless a store
\* failed or two changes overlapped: StoreSelected follows the swap without
\* a lock, so overlapping calls may save one outbound and use another.
SavedIsLive ==
    orderly /\ (\A c \in Caller : pc[c] # "store") => Restored(saved) = selected

\* Once all calls have returned the monitor has been told of the outbound in
\* use since it was selected: pings of overlapping calls may name an old one
\* but never replace the last.
SelectionTested == (\A c \in Caller : pc[c] = "idle") => told

-----------------------------------------------------------------------------
(* The inductive invariant behind them *)

\* A dial that no change has overtaken goes to the selected outbound.
DialInv == \A k \in Conn : conn[k].state = "dialing" /\ conn[k].out # selected => conn[k].late

\* One call at most is about to store, and what it stores is in use.
StoreInv ==
    /\ SavedIsLive
    /\ orderly => \A c, d \in Caller : pc[c] = "store" =>
          /\ arg[c] = selected
          /\ pc[d] = "store" => c = d

\* The monitor has been told, or a call will still do it.
PingInv ==
    \/ told
    \/ \E c \in Caller : \/ pc[c] \in {"store", "interrupt", "ping"}
                         \/ pc[c] = "tell" /\ arg[c] = selected

SelInv == DialInv /\ ConnsFollow /\ StoreInv /\ PingInv
=============================================================================
