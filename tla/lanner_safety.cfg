CONSTANTS
    NoDev = NoDev
    d1 = d1
    Devs = {d1}
    BadDevs = {}
    USB_RETRANS_LIMIT = 0
    RETRANS_MOD = 4
    Faults = {"ping", "status", "short", "lock"}
    p1 = p1
    p2 = p2
    Ports = {p1, p2}
    UserCmds = {"RESTART", "ENABLE", "DISABLE"}
    AutoRestart = TRUE
    Sigusr1 = TRUE
    MaxEvents = 1
    b1 = b1
    Foreign = {b1}
    CmdLen = 2
    Sockets = {p1}
SPECIFICATION Safe
INVARIANTS PowerStateIsReal TheirsUntouched PendingHasWay LockedWhileTalking NoPortIsLost
