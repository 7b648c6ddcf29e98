--------------------------- MODULE MCMonitorDeaths ---------------------------
(* The instances of MCMonitor with the reported deaths. *)
EXTENDS MonitorDeaths, MCMonitor
=============================================================================
