--------------------------- MODULE MCURLTestGroup ---------------------------
(* An instance of URLTestGroup for TLC: an outbound and a nested group.    *)
EXTENDS URLTestGroup, FiniteSets

CONSTANTS o1, g1,     \* the group's outbounds
          m1, gone    \* what g1 stands for; the manager does not know the second

List == <<o1, g1>>

\* Both carry TCP, the second one UDP as well.
Networks == [o \in {o1, g1} |-> IF o = o1 THEN {"tcp"} ELSE {"tcp", "udp"}]

Nested == [o \in {o1, g1} |-> IF o = o1 THEN {o1} ELSE {m1, gone}]
Delays == [t \in {o1, m1, gone} |-> IF t = o1 THEN {100} ELSE {60, 160}]
=============================================================================
