-------------------------- MODULE MCGroupNotifier --------------------------
(* Instances of GroupNotifier for TLC.                                     *)
EXTENDS GroupNotifier
=============================================================================
