CONSTANTS
    NoDev = NoDev
    d1 = d1
    d2 = d2
    d3 = d3
    Devs = {d1, d2, d3}
    BadDevs = {d3}
    USB_RETRANS_LIMIT = 2
    RETRANS_MOD = 4
    Faults = {"write", "open", "alloc", "submit", "ping", "slow"}
    p1 = p1
    Ports = {p1}
    UserCmds = {"RESTART", "ENABLE", "DISABLE"}
    AutoRestart = TRUE
    Sigusr1 = TRUE
    MaxEvents = 3
SPECIFICATION Safe
\* A circular timeout list stops the daemon.
CHECK_DEADLOCK FALSE
INVARIANTS TypeOK PowerBack PingHasDevice Monitored PingsAreSound
PROPERTIES PowerMoves
