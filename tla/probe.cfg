CONSTANTS
    NoDev = NoDev
    d1 = d1
    Devs = {d1}
    BadDevs = {}
    USB_RETRANS_LIMIT = 0
    RETRANS_MOD = 4
    Faults = {"write", "file", "late"}
    FailingCmds = {"DISABLE", "RESTART"}
    Ports = {1, 2, 3}
    UserCmds = {}
    AutoRestart = TRUE
    Sigusr1 = FALSE
    MaxEvents = 2
    NoPin = NoPin
    PathOf <- MCPathOf
SPECIFICATION Spec
\* Probing ends, or the daemon does when a pin cannot be written at the start.
CHECK_DEADLOCK FALSE
INVARIANTS MappingIsRight RecordFollowsPath Serialized HandedOver ReadBack
 
