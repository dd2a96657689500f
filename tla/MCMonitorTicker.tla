-------------------------- MODULE MCMonitorTicker --------------------------
(* Instances of MonitorTicker for TLC.                                     *)
EXTENDS MonitorTicker
=============================================================================
