--------------------------- MODULE MCCoreService ---------------------------
(* An instance of CoreService for TLC.                                     *)
EXTENDS CoreService
=============================================================================
