CONSTANTS
    NoDev = NoDev
    d1 = d1
    d2 = d2
    d3 = d3
    Devs = {d1, d2}
    BadDevs = {d2}
    USB_RETRANS_LIMIT = 1
    RETRANS_MOD = 4
    Faults = {"submit", "xfer", "open", "alloc", "ping", "config", "claim", "slow", "stale"}
    p1 = p1
    p2 = p2
    Ports = {p1}
    UserCmds = {"RESTART", "ENABLE", "DISABLE"}
    AutoRestart = TRUE
    Sigusr1 = TRUE
    MaxEvents = 3
    MaxXfers = 2
    MaxHubEvents = 2
SPECIFICATION Safe
\* A circular timeout list, or a handle freed twice, stops the daemon.
CHECK_DEADLOCK FALSE
INVARIANTS ResetUnderWay FreedHubIsForgotten
PROPERTIES PowerMoves
