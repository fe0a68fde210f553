------------------------- MODULE MCProcessMonitor -------------------------
(* Instances of ProcessMonitor small enough for TLC. *)
EXTENDS ProcessMonitor

MCPid == 1 .. 4
=============================================================================
