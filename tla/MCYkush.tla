------------------------------ MODULE MCYkush ------------------------------
(* YkushMonitor for TLC: ports are interchangeable.                        *)
EXTENDS YkushMonitor, TLC

PortSymmetry == Permutations(Ports)
=============================================================================
