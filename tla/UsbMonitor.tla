----------------------------- MODULE UsbMonitor -----------------------------
(***************************************************************************)
(* What the daemon is whatever kind of ports it has: the ports, libusb     *)
(* around them, and the decisions of the common code that no port makes    *)
(* for itself.  The handlers' modules add the steps.                       *)
(*                                                                         *)
(* libusb is external: plug[p] is the device its list shows at the path of *)
(* port p, and evq[p] the hotplug events of that path it has not yet       *)
(* dispatched.  Ports share no state but the timeout list, so one queue    *)
(* per path loses nothing but the order of events of different paths.      *)
(***************************************************************************)
EXTENDS UsbPort, Sequences

CONSTANTS
    Ports,
    UserCmds,     \* the commands that HTTP clients send in this instance
    AutoRestart,  \* FALSE when disable_auto_restart is set
    Sigusr1,      \* TRUE when the signal is sent
    MaxEvents     \* bound on the events libusb has queued for one path

ASSUME MonitorAssumption ==
    /\ UserCmds \subseteq Cmds
    /\ AutoRestart \in BOOLEAN
    /\ Sigusr1 \in BOOLEAN
    /\ MaxEvents \in Nat

VARIABLES port, plug, evq

libusb == <<plug, evq>>

Event == [what : {"ARRIVED", "LEFT"}, dev : Devs]

\* A port has been inserted into the timeout list while it was on it: the list
\* is circular.  The new deadline is seconds away and the list is walked every
\* second, so the next usb_monitor_check_timeouts follows le_next for ever and
\* nothing in the daemon runs again.  The model stops at the insertion.
Hung == \E p \in Ports : port[p].listed = 2
-----------------------------------------------------------------------------
(* libusb and the devices.                                                 *)

Pending(p) == {evq[p][i] : i \in DOMAIN evq[p]}

\* Objects that libusb cannot hand out again: referenced by the port or by a
\* queued event.
InUse(p) == {port[p].dev, port[p].handle} \cup {e.dev : e \in Pending(p)}

Arrive(p) ==
    /\ plug[p] = NoDev
    /\ Len(evq[p]) < MaxEvents
    /\ \E d \in Devs \ InUse(p) :
        /\ plug' = [plug EXCEPT ![p] = d]
        /\ evq' = [evq EXCEPT ![p] = Append(@, [what |-> "ARRIVED", dev |-> d])]

Leave(p) ==
    /\ plug[p] # NoDev
    /\ Len(evq[p]) < MaxEvents
    /\ plug' = [plug EXCEPT ![p] = NoDev]
    /\ evq' = [evq EXCEPT ![p] = Append(@, [what |-> "LEFT", dev |-> plug[p]])]

\* The device list shows a device while the removal of an earlier one is
\* still queued.
StaleList(p) == plug[p] # NoDev /\ \E e \in Pending(p) : e.what = "LEFT"

\* Unless the instance has "stale" lists, they are read at other times.
ListIsCurrent == "stale" \in Faults \/ \A p \in Ports : ~StaleList(p)

\* The device of a port that is switched off is gone, and seen to be gone,
\* before the timer expires that switches the port on.
SleptLongEnough(p) ==
    ~port[p].enabled \/ port[p].pwr \/ (evq[p] = <<>> /\ plug[p] = NoDev)
-----------------------------------------------------------------------------
\* usb_monitor_client_update_ports drops a command the port has no use for.
skip_command(r, cmd) ==
    \/ r.mode = "PROBE"
    \/ cmd = "ENABLE" /\ r.enabled
    \/ cmd = "DISABLE" /\ ~r.enabled
    \/ cmd = "RESTART" /\ r.mode = "RESET"
=============================================================================
