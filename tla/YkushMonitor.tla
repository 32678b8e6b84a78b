---------------------------- MODULE YkushMonitor ----------------------------
(***************************************************************************)
(* The daemon with the ports of one YKUSH hub.  Beside what GpioMonitor    *)
(* shows, the hub itself comes and goes: its HID device is found, claimed  *)
(* and given up, the ports exist only while the hub is on the hub list,    *)
(* and the switching of power is a conversation of its own.                *)
(*                                                                         *)
(*   hid    the HID device is on the bus                                   *)
(*   hidq   its hotplug events that libusb has not yet dispatched          *)
(*   hub    the hub is on the hub list                                     *)
(*   comm   yhub->comm_handle: NULL, open, closed but not reset to NULL,   *)
(*          closed twice                                                   *)
(*   hw     the power the hub really supplies to each port                 *)
(***************************************************************************)
EXTENDS YkushHandler, UsbMonitor

CONSTANTS
    MaxXfers,     \* bound on the transfers in flight when a client commands
    MaxHubEvents  \* bound on the events libusb has queued for the HID device

VARIABLES hub, comm, hw

vars == <<port, plug, evq, hid, hidq, hub, comm, hw>>
hubstate == <<hid, hidq, hub, comm>>

\* Ports, transfers and the hub keep their types: num_retrans in particular
\* stays a uint8_t.
TypeOK ==
    /\ port \in [Ports -> YkushPort]
    /\ plug \in [Ports -> DevOrNone]
    /\ evq \in [Ports -> Seq(Event)]
    /\ hid \in BOOLEAN /\ hub \in BOOLEAN
    /\ hidq \in Seq({"ARRIVED", "LEFT"})
    /\ comm \in {"NULL", "open", "dangling", "double"}
    /\ hw \in [Ports -> BOOLEAN]

Init ==
    /\ port = [p \in Ports |-> ykush_port]
    /\ plug = [p \in Ports |-> NoDev]
    /\ evq = [p \in Ports |-> <<>>]
    /\ hid = FALSE /\ hidq = <<>>
    /\ hub = FALSE /\ comm = "NULL"
    /\ hw = [p \in Ports |-> TRUE]

\* Nothing runs after the timeout list has become circular; what runs after
\* libusb has freed a handle twice is undefined.
Running == ~Hung /\ comm # "double"
-----------------------------------------------------------------------------
(* The hub and the devices on it.                                          *)

Connect(p) == hid /\ hw[p] /\ Arrive(p) /\ UNCHANGED <<port, hubstate, hw>>

Disconnect(p) == Leave(p) /\ UNCHANGED <<port, hubstate, hw>>

\* The hub gets power, and so do its ports; or, with the fault "off", the hub
\* kept its power and some ports are as a daemon before this one left them.
HubPlug ==
    /\ ~hid
    /\ Len(hidq) < MaxHubEvents
    /\ hid' = TRUE
    /\ hidq' = Append(hidq, "ARRIVED")
    /\ hw' \in {f \in [Ports -> BOOLEAN] : "off" \in Faults \/ \A p \in Ports : f[p]}
    /\ UNCHANGED <<port, libusb, hub, comm>>

\* The hub and everything connected to it leave the bus.
HubUnplug ==
    /\ hid
    /\ Len(hidq) < MaxHubEvents
    /\ \A p \in Ports : plug[p] # NoDev => Len(evq[p]) < MaxEvents
    /\ hid' = FALSE
    /\ hidq' = Append(hidq, "LEFT")
    /\ plug' = [p \in Ports |-> NoDev]
    /\ evq' = [p \in Ports |-> IF plug[p] = NoDev THEN evq[p]
                               ELSE Append(evq[p], [what |-> "LEFT", dev |-> plug[p]])]
    /\ UNCHANGED <<port, hub, comm, hw>>

\* The first transfer of a port that the hub has not yet acted on.
NextXfer(p) == {i \in DOMAIN port[p].xfers :
                    \A j \in DOMAIN port[p].xfers : port[p].xfers[j].applied <=> j < i}

\* The hub does what a transfer asks for, before libusb reports it.
HubSwitch(p) ==
    /\ HubThere
    /\ \E i \in NextXfer(p) :
        /\ port' = [port EXCEPT ![p].xfers[i].applied = TRUE]
        /\ hw' = [hw EXCEPT ![p] = port[p].xfers[i].on]
    /\ UNCHANGED <<libusb, hubstate>>
-----------------------------------------------------------------------------
(* The hub is found and given up.                                          *)

\* Mutants of del_port: a port that is being reset keeps its timer.
del_port_resetting(r) == reset_port(r)

\* usb_monitor_lists_del_port: "when hub goes down, ignore whatever mode port
\* is in".
del_port(r) == reset_port([r EXCEPT !.mode = "IDLE"])

\* ykush_release_memory.  Closing the handle drops the transfers in flight;
\* the ports keep their last value here only so that it can be inspected.
ReleaseMemory(handle) ==
    /\ comm' = CASE handle = "NULL" -> "NULL"
                 [] handle = "open" -> "NULL"
                 [] handle = "dangling" -> "double"
    /\ port' = [p \in Ports |-> [del_port(port[p]) EXCEPT !.xfers = <<>>]]
    /\ hub' = FALSE

\* usb_helpers_check_devices over a port array f.
reported(f) ==
    ForEach([p \in Ports |-> IF plug[p] = NoDev THEN {f[p]}
                             ELSE ykush_device_added(f[p], plug[p])])

\* The ways in which ykush_configure_hub fails, as the handle it leaves: the
\* hub has no ports or cannot be opened; a port cannot be allocated; the
\* kernel driver, the configuration or the interface is not to be had.
configure_hub_failures ==
    {handle \in {"NULL", "open", "dangling"} :
        \/ handle = "NULL" /\ ~HubThere
        \/ handle # "dangling" /\ "config" \in Faults
        \/ handle = "dangling" /\ "claim" \in Faults}

\* Mutant of AddDevice: the hub list is not searched.
AddDeviceAgain ==
    /\ comm' = "open"
    /\ hub' = TRUE
    /\ port' \in reported([p \in Ports |-> ykush_port])

\* ykush_add_device: a hub that is on the list is left alone; a new one gets
\* its ports, and the devices that were there before it are reported.
AddDevice ==
    \/ hub /\ UNCHANGED <<port, hub, comm>>
    \/ /\ ~hub
       /\ ListIsCurrent
       /\ comm' = "open"
       /\ hub' = TRUE
       /\ port' \in reported([p \in Ports |-> ykush_port])
    \/ ~hub /\ \E handle \in configure_hub_failures : ReleaseMemory(handle)

\* ykush_del_device.
DelDevice == IF hub THEN ReleaseMemory(comm) ELSE UNCHANGED <<port, hub, comm>>

\* ykush_event_cb, called from usb_monitor_cb for the HID device.
DispatchHub ==
    /\ Running
    /\ hidq # <<>>
    /\ hidq' = Tail(hidq)
    /\ IF Head(hidq) = "ARRIVED" THEN AddDevice ELSE DelDevice
    /\ UNCHANGED <<libusb, hid, hw>>
-----------------------------------------------------------------------------
(* The callbacks of the event loop.  Without a hub there are no ports.     *)

DispatchHotplug(p) ==
    /\ Running
    /\ evq[p] # <<>>
    /\ LET e == Head(evq[p])
       IN \E r \in IF ~hub THEN {port[p]}
                   ELSE IF e.what = "ARRIVED"
                   THEN ykush_device_added(port[p], e.dev)
                   ELSE {reset_port(port[p])} : port' = [port EXCEPT ![p] = r]
    /\ evq' = [evq EXCEPT ![p] = Tail(@)]
    /\ UNCHANGED <<plug, hubstate, hw>>

\* usb_monitor_check_devices_cb.  The list also shows the HID device: a hub
\* whose configuration failed is tried again, or one whose arrival is still
\* queued is found, and then finds its devices.
CheckDevices ==
    /\ Running
    /\ hid => HubThere
    /\ ListIsCurrent
    /\ \/ hid /\ ~hub /\ AddDevice
       \/ hub /\ port' \in reported(port) /\ UNCHANGED <<hub, comm>>
       \/ ~hid /\ ~hub /\ UNCHANGED <<port, hub, comm>>
    /\ UNCHANGED <<libusb, hid, hidq, hw>>

PingDone(p, ok) ==
    /\ Running
    /\ port[p].pings > 0
    /\ ok \/ "ping" \in Faults
    /\ \E r \in ykush_ping_cb(port[p], ok) : port' = [port EXCEPT ![p] = r]
    /\ UNCHANGED <<libusb, hubstate, hw>>

\* The callback of a transfer runs: after the hub has acted, or because of a
\* timeout, an error or the hub's absence.
TransferDone(p, ok) ==
    /\ Running
    /\ port[p].xfers # <<>>
    /\ IF ok THEN Head(port[p].xfers).applied ELSE "xfer" \in Faults \/ ~HubThere
    /\ port' = [port EXCEPT ![p] = transfer_done(port[p], ok)]
    /\ UNCHANGED <<libusb, hubstate, hw>>

expire(r) ==
    LET s == del_timeout(r) IN IF s.enabled THEN ykush_handle_timeout(s) ELSE {s}

CheckTimeouts(S) ==
    /\ Running
    /\ \A p \in S : timeout_active(port[p])
    /\ "slow" \in Faults \/ \A p \in S : SleptLongEnough(p)
    /\ port' \in ForEach([p \in Ports |-> IF p \in S THEN expire(port[p]) ELSE {port[p]}])
    /\ UNCHANGED <<libusb, hubstate, hw>>

ResetAllPorts(forced) ==
    /\ Running
    /\ hub
    /\ port' \in ForEach([p \in Ports |-> ykush_reset_if_needed(port[p], forced)])
    /\ UNCHANGED <<libusb, hubstate, hw>>

CheckReset == AutoRestart /\ ResetAllPorts(FALSE)

SignalHandler == Sigusr1 /\ ResetAllPorts(TRUE)

ClientCommand(p, cmd) ==
    /\ Running
    /\ hub
    /\ Len(port[p].xfers) < MaxXfers
    /\ ~skip_command(port[p], cmd)
    /\ \E o \in ykush_update_port(port[p], cmd) : port' = [port EXCEPT ![p] = o.port]
    /\ UNCHANGED <<libusb, hubstate, hw>>
-----------------------------------------------------------------------------
Next ==
    \/ HubPlug \/ HubUnplug \/ DispatchHub
    \/ \E p \in Ports : Connect(p) \/ Disconnect(p) \/ HubSwitch(p) \/ DispatchHotplug(p)
    \/ CheckDevices
    \/ \E p \in Ports, ok \in BOOLEAN : PingDone(p, ok) \/ TransferDone(p, ok)
    \/ \E S \in SUBSET Ports \ {{}} : CheckTimeouts(S)
    \/ CheckReset
    \/ SignalHandler
    \/ \E p \in Ports, cmd \in UserCmds : ClientCommand(p, cmd)

Safe == Init /\ [][Next]_vars

\* As for GpioMonitor; and the hub acts on transfers, libusb ends each of them
\* after five seconds at the latest.
Fairness ==
    /\ \A p \in Ports :
        /\ WF_vars(DispatchHotplug(p))
        /\ WF_vars(\E ok \in BOOLEAN : PingDone(p, ok))
        /\ WF_vars(HubSwitch(p))
        /\ WF_vars(\E ok \in BOOLEAN : TransferDone(p, ok))
        /\ WF_vars(\E S \in SUBSET Ports : p \in S /\ CheckTimeouts(S))
        /\ WF_vars(~hw[p] /\ Disconnect(p))
    /\ WF_vars(DispatchHub)
    /\ WF_vars(CheckDevices)
    /\ WF_vars(CheckReset)

Spec == Safe /\ Fairness
-----------------------------------------------------------------------------
(* Safety.                                                                 *)

Resets(r) == {i \in DOMAIN r.xfers : r.xfers[i].cb = "reset"}

\* A port in RESET ignores devices, commands and the two-minute check, so
\* something must be under way that ends the reset: the timer, or a transfer
\* whose callback has not run (ykush_update_port, ykush_reset_cb).
ResetUnderWay ==
    \A p \in Ports : hub /\ port[p].mode = "RESET" =>
        port[p].enabled /\ (timeout_active(port[p]) \/ Resets(port[p]) # {})

\* "With the guard in the async handler, we can never interrupt a reset call"
\* (ykush_reset_cb): a port flips its power one transfer at a time, and none
\* is in flight while the timer for the next one runs.
ResetsTakeTurns ==
    \A p \in Ports :
        /\ \A i, j \in Resets(port[p]) : i = j
        /\ Resets(port[p]) # {} => ~timeout_active(port[p])

\* When no transfer is in flight, pwr_state, from which the next command is
\* computed and which clients are shown, is the power the hub supplies.
PowerStateIsReal ==
    \A p \in Ports : hub /\ HubThere /\ port[p].xfers = <<>> => port[p].pwr = hw[p]

\* The power of a port is switched in turns, and the daemon knows the outcome;
\* all fields keep their types meanwhile.
SwitchingIsSound == TypeOK /\ ResetsTakeTurns /\ PowerStateIsReal

\* Once a hub is given up its memory is freed: no timer, no ping and no
\* transfer may still point to one of its ports, whatever they were doing
\* (ykush_release_memory, usb_monitor_lists_del_port).
FreedHubIsForgotten ==
    ~hub => \A p \in Ports : /\ ~timeout_active(port[p])
                             /\ port[p].pings = 0
                             /\ port[p].xfers = <<>>

\* No port is inserted into the timeout list while it is on it.
TimersListedOnce == \A p \in Ports : port[p].listed < 2

\* The power of the ports as the daemon sees it.
Power == [p \in Ports |-> IF port[p].enabled THEN IF port[p].pwr THEN "on" ELSE "cycling"
                          ELSE IF port[p].pwr THEN "stray" ELSE "disabled"]

PC == INSTANCE PowerCycle WITH power <- Power

\* Step by step, pwr_state and enabled move as PowerCycle allows, in whatever
\* order the callbacks of resets and commands run.
PowerMoves == PC!Init /\ [][PC!Next]_Power
-----------------------------------------------------------------------------
(* Liveness.                                                               *)

\* A port without power gets it back while its hub is there, whether a reset of
\* this daemon switched it off or it was off when the hub was found ("We assume
\* port is always on ... If we are incorrect, problem will be solved by the part
\* of the code which restarts a port if no device is connected", usb_monitor.h).
PowerReturns ==
    \A p \in Ports : hub /\ port[p].enabled /\ ~hw[p] ~> hw[p] \/ ~hub \/ ~port[p].enabled

\* "Set to IDLE in case of transfer error, we will then retry up/down on next
\* timeout" (ykush_reset_cb): a port that has a device or is switched off does
\* not stay in IDLE.
IdleIsLeft ==
    \A p \in Ports :
        hub /\ port[p].enabled /\ port[p].mode = "IDLE" /\ Connected(port[p])
            ~> ~hub \/ ~port[p].enabled \/ port[p].mode # "IDLE" \/ ~Connected(port[p])

\* A device on the hub is monitored, also when it arrived before the hub was
\* known or while its port was still being switched on (usb_monitor_cb:
\* "we risk devices being added before we see for example the YKUSH HID
\* device").
DeviceNoticed ==
    \A p \in Ports, d \in Devs :
        hub /\ plug[p] = d ~> ~hub \/ plug[p] # d \/ port[p].dev = d
=============================================================================
