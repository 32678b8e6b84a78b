CONSTANTS
    NoDev = NoDev
    d1 = d1
    d2 = d2
    Devs = {d1, d2}
    BadDevs = {}
    USB_RETRANS_LIMIT = 1
    RETRANS_MOD = 4
    Faults = {}
    p1 = p1
    Ports = {p1}
    UserCmds = {"ENABLE", "DISABLE"}
    AutoRestart = TRUE
    Sigusr1 = FALSE
    MaxEvents = 2
SPECIFICATION Safe
INVARIANT TimersListedOnce
