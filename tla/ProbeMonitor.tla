---------------------------- MODULE ProbeMonitor ----------------------------
(***************************************************************************)
(* The daemon that probes its GPIO ports: gpio_handler_start_probe and the *)
(* callbacks of the event loop, until the ports are handed over to normal  *)
(* operation, where GpioMonitor takes over.  Clients' commands, the signal *)
(* and the two-minute check leave ports in PROBE alone (skip_command and   *)
(* reset_if_needed), so they are no steps here.  wires and there do not    *)
(* change: the path each pin powers, and the paths with a device that      *)
(* works.                                                                  *)
(*                                                                         *)
(* Faults: "file" and "link" (the mapping cannot be written, linked),      *)
(* "late" and "mismatch" (the device of a port whose path is right, or is  *)
(* wrong, appears or is reported when its minute is over), "replug" (a     *)
(* device restarts by itself), "slow" (a device is still there when the    *)
(* timer of its port expires).                                             *)
(***************************************************************************)
EXTENDS GpioProbe

VARIABLES wires, there, file,
          null,   \* the daemon has dereferenced NULL
          stage   \* "boot" before gpio_handler_start_probe, then "run" or "exit"

world == <<wires, there>>
vars == <<port, plug, evq, wires, there, file, null, stage>>

\* The order of things at the paths: which pin powers which, or libusb's list.
Orders == {f \in [Ports -> Ports] : \A p, q \in Ports : f[p] = f[q] => p = q}

Here == [port |-> port, file |-> file, null |-> null]
Becomes(h) == port' = h.port /\ file' = h.file /\ null' = h.null

\* The state keeps its types.
TypeOK ==
    /\ port \in [Ports -> ProbePort]
    /\ plug \in [Ports -> DevOrNone]
    /\ evq \in [Ports -> Seq(Event)]
    /\ null \in BOOLEAN
    /\ stage \in {"boot", "run", "exit"}
    /\ file # <<>> => DOMAIN file = Ports

\* main has read the configuration and called usb_helpers_check_devices: the
\* devices are known, by the paths of the configuration.
Init ==
    /\ wires \in Orders
    /\ there \in SUBSET Ports
    /\ \E d \in Devs, custom \in SUBSET Ports :
        /\ plug = [p \in Ports |-> IF p \in there THEN d ELSE NoDev]
        /\ port = [p \in Ports |-> IF p \in there THEN attached(gpio_port(p, p \in custom), d)
                                  ELSE gpio_port(p, p \in custom)]
    /\ evq = [p \in Ports |-> <<>>]
    /\ file = <<>>
    /\ null = FALSE
    /\ stage = "boot"

Probing == \E p \in Ports : port[p].mode = "PROBE"

Running == stage = "run" /\ Probing /\ ~Hung /\ ~null

\* usb_monitor_start_probe: a pin that cannot be written ends the daemon.
StartProbe ==
    /\ stage = "boot"
    /\ \/ /\ Becomes(gpio_handler_start_probe(Here))
          /\ stage' = "run"
       \/ /\ "DISABLE" \in FailingCmds
          /\ stage' = "exit"
          /\ UNCHANGED <<port, file, null>>
    /\ UNCHANGED <<plug, evq, world>>
-----------------------------------------------------------------------------
(* The devices.                                                            *)

PinOf(path) == CHOOSE p \in Ports : wires[p] = path

Powered(path) == port[PinOf(path)].pwr

Holder(path) == find_port_path(Here, path)

Connect(path) ==
    /\ Running
    /\ path \in there /\ Powered(path)
    /\ plug[path] = NoDev
    /\ Len(evq[path]) < MaxEvents
    /\ \E d \in Devs \ ({port[Holder(path)].dev} \cup {e.dev : e \in Pending(path)}) :
        /\ plug' = [plug EXCEPT ![path] = d]
        /\ evq' = [evq EXCEPT ![path] = Append(@, [what |-> "ARRIVED", dev |-> d])]
    /\ UNCHANGED <<port, file, null, stage, world>>

Disconnect(path) ==
    /\ Running
    /\ ~Powered(path) \/ "replug" \in Faults
    /\ Leave(path)
    /\ UNCHANGED <<port, file, null, stage, world>>

\* What the daemon knows of a path is what is there.
Settled(path) == evq[path] = <<>> /\ plug[path] = port[Holder(path)].dev

\* A device appears within a minute of its power, and is gone within five
\* seconds without it.  gpio_on_probe_down_done looks for itself.
InTime(p) ==
    LET path == wires[p]
    IN CASE port[p].probe = "UP" ->
              path \in there =>
                (IF port[p].path = path THEN "late" ELSE "mismatch") \in Faults
         [] port[p].probe \in {"DOWN", "DOWN_DONE"} -> TRUE
         [] OTHER -> "slow" \in Faults \/ port[p].pwr
                     \/ (plug[path] = NoDev /\ Settled(path))
-----------------------------------------------------------------------------
(* The callbacks of the event loop.                                        *)

DispatchHotplug(path) ==
    /\ Running
    /\ evq[path] # <<>>
    /\ LET e == Head(evq[path])
       IN \E h \in IF e.what = "ARRIVED" THEN probe_device_added(Here, path, e.dev)
                   ELSE {probe_device_removed(Here, path)} : Becomes(h)
    /\ evq' = [evq EXCEPT ![path] = Tail(@)]
    /\ UNCHANGED <<plug, stage, world>>

\* The device that libusb's list shows at a path is reported, if there is one.
report(h, path) ==
    IF plug[path] = NoDev \/ h.null THEN {h} ELSE probe_device_added(h, path, plug[path])

\* usb_helpers_check_devices reports all devices of the list, one by one.
CheckDevices ==
    /\ Running
    /\ \E list \in Orders :
        LET reported[i \in 0 .. Cardinality(Ports)] ==
                IF i = 0 THEN {Here} ELSE UNION {report(h, list[i]) : h \in reported[i - 1]}
        IN \E h \in reported[Cardinality(Ports)] : Becomes(h)
    /\ UNCHANGED <<plug, evq, stage, world>>

CheckTimeouts(p) ==
    /\ Running
    /\ timeout_active(port[p])
    /\ InTime(p)
    /\ \E h \in probe_expire(Here, p) : Becomes(h)
    /\ UNCHANGED <<plug, evq, stage, world>>
-----------------------------------------------------------------------------
Next ==
    \/ StartProbe
    \/ \E path \in Ports : Connect(path) \/ Disconnect(path) \/ DispatchHotplug(path)
    \/ CheckDevices
    \/ \E p \in Ports : CheckTimeouts(p)

Safe == Init /\ [][Next]_vars

\* The event loop runs the timers that are due and hands over the events, a
\* device that has power comes and one without goes, and no write fails for
\* ever.
Fairness ==
    /\ WF_vars(StartProbe)
    /\ \A p \in Ports :
        /\ WF_vars(Connect(p)) /\ WF_vars(~Powered(p) /\ Disconnect(p))
        /\ WF_vars(DispatchHotplug(p)) /\ WF_vars(CheckTimeouts(p))
        /\ SF_vars(CheckTimeouts(p) /\ <<port'[p].probe, file'>> # <<port[p].probe, file>>)

Spec == Safe /\ Fairness
-----------------------------------------------------------------------------
(* Safety.                                                                 *)

\* A port whose device was found has the path that its pin powers: the swap
\* of gpio_handler_swap_port_info repairs a wrong configuration, one port
\* after the other, and never undoes a port that was done.
FoundIsRight ==
    \A p \in Ports : port[p].mode = "PROBE" /\ port[p].enabled
                        /\ port[p].probe \in {"DONE", "WRITE_FILE"} => port[p].path = wires[p]

\* The file that was written maps every pin with a working device to its path.
FileIsRight ==
    file # <<>> => \A p \in Ports : wires[p] \in there => port[p].path = wires[p]

\* What is found, and what is written, is the wiring.
MappingIsRight == FoundIsRight /\ FileIsRight

\* "We can only connect one and one device (enable one and one port)"
\* (gpio_handler_handle_probe_connect): of the ports that are not done at most
\* one has power.
OneAtATime ==
    LET waiting == {p \in Ports : /\ port[p].mode = "PROBE" /\ port[p].pwr
                                  /\ port[p].probe \notin {"DONE", "WRITE_FILE"}}
    IN Cardinality(waiting) <= 1

\* The paths stay a permutation, and what a port being probed records is the
\* device of the path it has now, not of the one it had before a swap.
RecordFollowsPath ==
    /\ \A p, q \in Ports : port[p].path = port[q].path => p = q
    /\ \A p \in Ports : port[p].mode = "PROBE" /\ evq[port[p].path] = <<>> /\ Running
                            => port[p].dev = plug[port[p].path]

\* "this timer is used as a global timer for GPIO ... The code works because
\* access to ports is serialized while probing" (gpio_handler_start_probe):
\* while it probes exactly one port has a timer, the one whose turn it is.
GlobalTimer ==
    Running /\ Probing =>
        \E p \in Ports :
            /\ timeout_active(port[p]) /\ port[p].mode = "PROBE"
            /\ port[p].probe \notin {"IDLE", "DONE"}
            /\ \A q \in Ports \ {p} : ~timeout_active(port[q])
            /\ \A q \in Ports : port[q].probe \in {"UP", "DOWN_2", "WRITE_FILE"} => q = p

\* gpio_handler_handle_probe_done gives all ports back at once, in a state that
\* normal operation may start from (the invariant of GpioMonitor): enabled, and
\* on or with the timer that switches them on; an idle port has no device.
HandedOver ==
    stage = "run" /\ ~Probing =>
        \A p \in Ports :
            /\ port[p].enabled
            /\ ~port[p].pwr => port[p].mode = "RESET"
            /\ port[p].mode = "RESET" => timeout_active(port[p])
            /\ port[p].mode = "IDLE" => ~Connected(port[p])

\* "The code works because access to ports is serialized while probing": one
\* timer, one port with power, never two entries in the timeout list, and the
\* search for the port that is being probed never runs off the list; all fields
\* keep their types.
Serialized == TypeOK /\ GlobalTimer /\ OneAtATime /\ ~Hung /\ ~null

\* The file means what was found: read as a configuration it gives the ports
\* that were written, unless a port with default values follows one with
\* custom values, whose values it then inherits.
Inherits == \E p, q \in Ports : p < q /\ port[p].custom /\ ~port[q].custom

ReadBack ==
    file # <<>> /\ ~Inherits =>
        parse_ok(file) /\ parsed_list(file) = Reverse(port_list(port))
-----------------------------------------------------------------------------
(* Liveness.                                                               *)

\* Probing ends, whatever is plugged in and whatever fails for a while, and all
\* devices are then found at their ports.
ProbeEnds == stage = "run" ~> file # <<>>
=============================================================================
