--------------------------- MODULE SelectorProofs ---------------------------
(***************************************************************************)
(* Selector: for every list of outbounds and any number of clients and     *)
(* connections.  SelInv, part by part: a dial that is not late goes to the *)
(* selected outbound; while the calls are orderly at most one is about to  *)
(* store, and it stores the outbound in use; a call that may still tell    *)
(* the monitor of that outbound is under way until it has been told.       *)
(***************************************************************************)
EXTENDS Selector, TLAPS

\* Start always finds an outbound of the group.
LEMMA RestoredTyped ==
  ASSUME NEW s  PROVE Restored(s) \in Outbound
  <1>1. Outbounds[1] \in Outbound  BY SelectorAssumption
  <1> QED  BY <1>1, SelectorAssumption DEF Restored

LEMMA InitInv ==
  ASSUME Init  PROVE TypeOK /\ SelInv
  <1> USE SelectorAssumption DEF Init, AtPostStart, NoConn, Caller
  <1>0. Outbounds[1] \in Outbound  OBVIOUS
  <1>1. TypeOK  BY <1>0, RestoredTyped DEF TypeOK, ConnRecord
  <1>2. DialInv /\ ConnsFollow  BY DEF DialInv, ConnsFollow
  <1>3. StoreInv  BY DEF StoreInv, SavedIsLive
  <1>4. PingInv  BY DEF PingInv
  <1> QED  BY <1>1, <1>2, <1>3, <1>4 DEF SelInv

\* A restart is a new Init with the choice that was saved.
LEMMA RestartInv ==
  ASSUME TypeOK, SelInv, Restart  PROVE TypeOK' /\ SelInv'
  <1> USE SelectorAssumption DEF Restart, AtPostStart, NoConn, Caller
  <1>0. Outbounds[1] \in Outbound  OBVIOUS
  <1>1. TypeOK'  BY <1>0, RestoredTyped DEF TypeOK, ConnRecord
  <1>2. DialInv' /\ ConnsFollow'  BY DEF DialInv, ConnsFollow
  <1>3. StoreInv'  BY DEF StoreInv, SavedIsLive
  <1>4. PingInv'  BY DEF PingInv
  <1> QED  BY <1>1, <1>2, <1>3, <1>4 DEF SelInv

LEMMA SelectNothingInv ==
  ASSUME TypeOK, SelInv, NEW c \in Client, NEW t, SelectNothing(c, t)
  PROVE  TypeOK' /\ SelInv'
  <1> USE DEF SelectNothing, Caller
  <1>1. TypeOK'  BY DEF TypeOK
  <1>2. DialInv' /\ ConnsFollow'  BY DEF TypeOK, SelInv, DialInv, ConnsFollow, Interruptible
  <1>3. StoreInv'  BY DEF TypeOK, SelInv, StoreInv, SavedIsLive
  <1>4. PingInv'  BY DEF TypeOK, SelInv, PingInv
  <1> QED  BY <1>1, <1>2, <1>3, <1>4 DEF SelInv

\* The dials under way become late, the open connections wait for this call.
LEMMA SelectChangeInv ==
  ASSUME TypeOK, SelInv, NEW c \in Client, NEW t, SelectChange(c, t)
  PROVE  TypeOK' /\ SelInv'
  <1> USE DEF SelectChange, Caller
  <1>1. TypeOK'  BY DEF TypeOK, ConnRecord
  <1>2. DialInv'  BY DEF TypeOK, ConnRecord, DialInv
  <1>3. ConnsFollow'  BY DEF TypeOK, ConnRecord, ConnsFollow
  <1>4. StoreInv'  BY DEF TypeOK, StoreInv, SavedIsLive
  <1>5. PingInv'  BY DEF TypeOK, PingInv
  <1> QED  BY <1>1, <1>2, <1>3, <1>4, <1>5 DEF SelInv

\* What is stored is the outbound in use, while the calls are orderly.
LEMMA StoreSelectedInv ==
  ASSUME TypeOK, SelInv, NEW c \in Caller, NEW ok \in BOOLEAN, StoreSelected(c, ok)
  PROVE  TypeOK' /\ SelInv'
  <1> USE DEF StoreSelected
  <1>1. TypeOK'  BY DEF TypeOK
  <1>2. DialInv'  BY DEF SelInv, DialInv
  <1>3. ConnsFollow'  BY DEF TypeOK, SelInv, ConnsFollow, Interruptible
  <1>4. StoreInv'  BY DEF TypeOK, SelInv, StoreInv, SavedIsLive, Restored
  <1>5. PingInv'  BY DEF TypeOK, SelInv, PingInv
  <1> QED  BY <1>1, <1>2, <1>3, <1>4, <1>5 DEF SelInv

\* Afterwards no interruptible connection is open.
LEMMA InterruptInv ==
  ASSUME TypeOK, SelInv, NEW c \in Caller, Interrupt(c)
  PROVE  TypeOK' /\ SelInv'
  <1> USE DEF Interrupt
  <1>1. TypeOK'  BY DEF TypeOK, ConnRecord
  <1>2. DialInv'  BY DEF TypeOK, ConnRecord, SelInv, DialInv
  <1>3. ConnsFollow'  BY DEF TypeOK, ConnRecord, ConnsFollow, Interruptible
  <1>4. StoreInv'  BY DEF TypeOK, SelInv, StoreInv, SavedIsLive
  <1>5. PingInv'  BY DEF TypeOK, SelInv, PingInv
  <1> QED  BY <1>1, <1>2, <1>3, <1>4, <1>5 DEF SelInv

LEMMA PingLoadInv ==
  ASSUME TypeOK, SelInv, NEW c \in Caller, PingLoad(c)
  PROVE  TypeOK' /\ SelInv'
  <1> USE DEF PingLoad
  <1>1. TypeOK'  BY DEF TypeOK
  <1>2. DialInv' /\ ConnsFollow'  BY DEF TypeOK, SelInv, DialInv, ConnsFollow, Interruptible
  <1>3. StoreInv'  BY DEF TypeOK, SelInv, StoreInv, SavedIsLive
  <1>4. PingInv'  BY DEF TypeOK, SelInv, PingInv
  <1> QED  BY <1>1, <1>2, <1>3, <1>4 DEF SelInv

LEMMA PingTellInv ==
  ASSUME TypeOK, SelInv, NEW c \in Caller, PingTell(c)
  PROVE  TypeOK' /\ SelInv'
  <1> USE DEF PingTell
  <1>1. TypeOK'  BY DEF TypeOK
  <1>2. DialInv' /\ ConnsFollow'  BY DEF TypeOK, SelInv, DialInv, ConnsFollow, Interruptible
  <1>3. StoreInv'  BY DEF TypeOK, SelInv, StoreInv, SavedIsLive
  <1>4. PingInv'  BY DEF TypeOK, SelInv, PingInv
  <1> QED  BY <1>1, <1>2, <1>3, <1>4 DEF SelInv

\* Connections come and go without a call being involved.
LEMMA ConnInv ==
  ASSUME TypeOK, SelInv, NEW k \in Conn, ConnStep(k)
  PROVE  TypeOK' /\ SelInv'
  <1> USE DEF ConnStep, Dial, Dialled, CloseConn
  <1>0. conn[k] \in ConnRecord /\ selected \in Outbound  BY DEF TypeOK
  <1>1. TypeOK'
    <2>1. ASSUME NEW external \in BOOLEAN, Dial(k, external)  PROVE conn' \in [Conn -> ConnRecord]
      <3>1. [state |-> "dialing", out |-> selected, external |-> external, late |-> FALSE] \in ConnRecord
        BY <1>0 DEF ConnRecord
      <3> QED  BY <2>1, <3>1 DEF TypeOK
    <2>2. ASSUME NEW state \in {"open", "closed"}, conn' = [conn EXCEPT ![k].state = state]
          PROVE  conn' \in [Conn -> ConnRecord]
      <3>1. [conn[k] EXCEPT !.state = state] \in ConnRecord  BY <1>0 DEF ConnRecord
      <3> QED  BY <2>2, <3>1 DEF TypeOK
    <2>3. conn' \in [Conn -> ConnRecord]  BY <2>1, <2>2
    <2> QED  BY <2>3 DEF TypeOK
  <1>2. DialInv'  BY DEF TypeOK, ConnRecord, SelInv, DialInv
  <1>3. ConnsFollow'  BY DEF TypeOK, ConnRecord, SelInv, DialInv, ConnsFollow, Interruptible
  <1>4. StoreInv'  BY DEF SelInv, StoreInv, SavedIsLive
  <1>5. PingInv'  BY DEF SelInv, PingInv
  <1> QED  BY <1>1, <1>2, <1>3, <1>4, <1>5 DEF SelInv

LEMMA StutterInv ==
  ASSUME TypeOK, SelInv, UNCHANGED vars
  PROVE  TypeOK' /\ SelInv'
  BY DEF vars, TypeOK, SelInv, DialInv, ConnsFollow, Interruptible, StoreInv, SavedIsLive, PingInv

LEMMA StepInv ==
  ASSUME TypeOK, SelInv, [Next]_vars
  PROVE  TypeOK' /\ SelInv'
  <1>1. CASE Restart  BY <1>1, RestartInv
  <1>2. ASSUME NEW c \in Client, Select(c)  PROVE TypeOK' /\ SelInv'
    BY <1>2, SelectNothingInv, SelectChangeInv DEF Select
  <1>3. ASSUME NEW c \in Caller, CallStep(c)  PROVE TypeOK' /\ SelInv'
    BY <1>3, StoreSelectedInv, InterruptInv, PingLoadInv, PingTellInv DEF CallStep
  <1>4. ASSUME NEW k \in Conn, ConnStep(k)  PROVE TypeOK' /\ SelInv'
    BY <1>4, ConnInv
  <1>5. CASE UNCHANGED vars  BY <1>5, StutterInv
  <1> QED  BY <1>1, <1>2, <1>3, <1>4, <1>5 DEF Next

LEMMA Always == Spec => [](TypeOK /\ SelInv)
  BY InitInv, StepInv, PTL DEF Spec

-----------------------------------------------------------------------------
\* The selector's state keeps its types.
THEOREM SelectorTyped == Spec => []TypeOK
  BY Always, PTL

\* No connection outlives a change of the selection but one whose dial the
\* change overtook (SelectOutbound, Group.Interrupt, DialContext).
THEOREM SelectorConnsFollow == Spec => []ConnsFollow
  BY Always, PTL DEF SelInv

\* A restart brings back the outbound in use, as long as the calls of
\* SelectOutbound did not overlap and their stores succeeded.
THEOREM SelectorSavedIsLive == Spec => []SavedIsLive
  BY Always, PTL DEF SelInv, StoreInv

\* When no call is under way the monitor knows of the outbound in use.
THEOREM SelectorTested == Spec => []SelectionTested
  <1>1. TypeOK /\ SelInv => SelectionTested  BY DEF SelInv, PingInv, SelectionTested
  <1> QED  BY <1>1, Always, PTL
=============================================================================
