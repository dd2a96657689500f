----------------------------- MODULE MCSelector -----------------------------
(* An instance of Selector for TLC.                                        *)
EXTENDS Selector

CONSTANTS o1, o2, o3, c1, c2, k1, k2, old

List == <<o1, o2, o3>>
=============================================================================
