CONSTANTS
    NoDev = NoDev
    d1 = d1
    d2 = d2
    d3 = d3
    Devs = {d1, d2}
    BadDevs = {d2}
    USB_RETRANS_LIMIT = 1
    RETRANS_MOD = 4
    Faults = {"open", "ping"}
    p1 = p1
    p2 = p2
    Ports = {p1, p2}
    UserCmds = {"RESTART"}
    AutoRestart = TRUE
    Sigusr1 = FALSE
    MaxEvents = 2
SPECIFICATION Spec
INVARIANTS TimersListedOnce IdleMeansEmpty
PROPERTIES  EmptyPortRestarted ImplementsPowerCycle PowerCutJustified
