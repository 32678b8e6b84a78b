CONSTANTS
    NoDev = NoDev
    d1 = d1
    d2 = d2
    d3 = d3
    Devs = {d1, d2}
    BadDevs = {d2}
    USB_RETRANS_LIMIT = 1
    RETRANS_MOD = 4
    Faults = {"submit", "open", "ping", "config", "slow"}
    p1 = p1
    p2 = p2
    Ports = {p1, p2}
    UserCmds = {"RESTART"}
    AutoRestart = TRUE
    Sigusr1 = TRUE
    MaxEvents = 2
    MaxXfers = 2
    MaxHubEvents = 2
SYMMETRY PortSymmetry
SPECIFICATION Safe
INVARIANTS SwitchingIsSound TimersListedOnce
