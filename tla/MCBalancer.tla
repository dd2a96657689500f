----------------------------- MODULE MCBalancer -----------------------------
(* An instance of Balancer for TLC.                                        *)
EXTENDS Balancer, FiniteSets

CONSTANTS o1, o2, o3

\* Three outbounds, two of which carry UDP.
List == <<o1, o2, o3>>
Networks == [o \in {o1, o2, o3} |-> IF o = o2 THEN {"tcp"} ELSE {"tcp", "udp"}]

\* Untested, two delays within the ratio of each other, one from the cache
\* and one whose double exceeds 16 bits.
Entries ==
    {[delay |-> d, cached |-> FALSE] : d \in {0, 80, 150, 40000}}
        \cup {[delay |-> 90, cached |-> TRUE]}
=============================================================================
