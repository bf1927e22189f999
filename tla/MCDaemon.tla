------------------------------ MODULE MCDaemon ------------------------------
(* An instance of Daemon: five processes, two ports, three events, one of   *)
(* them at a moment when a process is at work.                              *)
EXTENDS Daemon

MCPids == 1 .. 5
=============================================================================
