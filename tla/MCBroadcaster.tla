--------------------------- MODULE MCBroadcaster ---------------------------
(* An instance of Broadcaster for TLC.                                     *)
EXTENDS Broadcaster
=============================================================================
