------------------------------ MODULE MCProbe -------------------------------
(* ProbeMonitor for TLC: the paths of three sockets behind two hubs.       *)
EXTENDS ProbeMonitor

MCPathOf == <<<<1, 2>>, <<1, 12, 3>>, <<10, 99>>>>
=============================================================================
