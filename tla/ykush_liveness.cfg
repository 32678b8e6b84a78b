CONSTANTS
    NoDev = NoDev
    d1 = d1
    d2 = d2
    d3 = d3
    Devs = {d1, d2}
    BadDevs = {}
    USB_RETRANS_LIMIT = 1
    RETRANS_MOD = 4
    Faults = {"ping", "off"}
    p1 = p1
    p2 = p2
    Ports = {p1}
    UserCmds = {"RESTART"}
    AutoRestart = TRUE
    Sigusr1 = TRUE
    MaxEvents = 3
    MaxXfers = 1
    MaxHubEvents = 2
SPECIFICATION Spec
PROPERTIES PowerReturns  DeviceNoticed
