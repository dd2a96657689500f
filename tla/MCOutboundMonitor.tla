------------------------- MODULE MCOutboundMonitor -------------------------
(* Instances of OutboundMonitor for TLC.                                   *)
EXTENDS OutboundMonitor, TLC

CONSTANTS o1, o2

\* o2 dials through o1, so a test of o1 also tests o2.
Detour == [o \in Outbound |-> IF o = o1 THEN {o2} \cap Outbound ELSE {}]

\* The group "" holds every outbound; o2 also dials through a group of o1.
AllGroup == {[members |-> Outbound, parents |-> {}], [members |-> {o1}, parents |-> {o2}]}
NoGroup == {}

\* Workers are interchangeable, and so are callers.
Symmetry == Permutations(Worker) \cup Permutations(Caller)
=============================================================================
