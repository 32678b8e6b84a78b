------------------------------ MODULE MCLanner ------------------------------
(* LannerMonitor for TLC: ports are interchangeable.                       *)
EXTENDS LannerMonitor, TLC

PortSymmetry == Permutations(Ports)
=============================================================================
