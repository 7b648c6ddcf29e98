-------------------------- MODULE MCMonitorHistory --------------------------
(* The instances of MCMonitor with the history variables. *)
EXTENDS MonitorHistory, MCMonitor
=============================================================================
