-------------------------- MODULE MCStartedService --------------------------
(* An instance of StatusWaiters, and of StartedService, for TLC.           *)
EXTENDS StatusWaiters

CONSTANTS t1, t2, b1, b2, w1
=============================================================================
