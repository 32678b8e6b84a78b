------------------------------- MODULE MCGpio -------------------------------
(* GpioMonitor for TLC: ports and devices are interchangeable.             *)
EXTENDS GpioMonitor, TLC

PortSymmetry == Permutations(Ports)
=============================================================================
