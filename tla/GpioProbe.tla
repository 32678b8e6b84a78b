----------------------------- MODULE GpioProbe ------------------------------
(***************************************************************************)
(* gpio_handler.c while it probes (option -p): which pin powers which USB  *)
(* path?  All pins are switched off; then one after the other is switched  *)
(* on, and the path a device appears at is the path of that pin.  A pin    *)
(* whose device does not appear within a minute is switched off again.  At *)
(* the end the mapping is written to a file and all ports are restarted.   *)
(*                                                                         *)
(* The GPIO ports are 1 .. N in the order of ctx->port_list, and their     *)
(* names are also those of the paths: the configuration gave port p the    *)
(* path p, and wires[p] is the path its pin really powers.  To the record  *)
(* of UsbPort a port adds probe (probe_state), path and custom (on_val and *)
(* off_val are 0 and 1, not the default).                                  *)
(*                                                                         *)
(* A function of the handler is an operator from h = [port, file, null] to *)
(* the set of such states it can leave; file is the mapping file (<<>>     *)
(* when there is none) and null says that NULL was dereferenced.           *)
(***************************************************************************)
EXTENDS UsbMonitor, GpioHandler, GpioConfig

CONSTANTS PathOf,      \* the bytes of a path
          FailingCmds  \* the commands whose write to the pin may fail

ASSUME ProbeAssumption ==
    /\ IsFiniteSet(Ports) /\ Ports = 1 .. Cardinality(Ports)
    /\ FailingCmds \subseteq Cmds

ProbeStates == {"IDLE", "DOWN", "DOWN_DONE", "UP", "DOWN_2", "DONE", "WRITE_FILE"}

ProbePort == [enabled : BOOLEAN, pwr : BOOLEAN, mode : Modes, retrans : Failures,
              dev : DevOrNone, handle : DevOrNone, pings : Few, listed : Few,
              probe : ProbeStates, path : Ports, custom : BOOLEAN]

\* gpio_handler_add_port_gpio_path: usb_helpers_configure_port, and zeros in the
\* fields that only a GPIO port has.
gpio_port(path, custom) ==
    LET r == configure_port
    IN [enabled |-> r.enabled, pwr |-> r.pwr, mode |-> r.mode, retrans |-> r.retrans,
        dev |-> r.dev, handle |-> r.handle, pings |-> r.pings, listed |-> r.listed,
        probe |-> "IDLE", path |-> path, custom |-> custom]

update(r, cmd) == {o \in gpio_update_port(r, cmd) : o.ret = 0 \/ cmd \in FailingCmds}

In(h, state) == {p \in Ports : h.port[p].probe = state}
-----------------------------------------------------------------------------
(* The mapping file.                                                       *)

\* The ports as gpio_handler_parse_json would have made them.
port_list(f) ==
    [p \in Ports |-> [gpio_path |-> p, path |-> PathOf[f[p].path],
                      on_val |-> IF f[p].custom THEN 0 ELSE GPIO_DEFAULT_ON_VAL,
                      off_val |-> IF f[p].custom THEN 1 ELSE GPIO_DEFAULT_OFF_VAL]]

\* gpio_handler_restart_all_ports: a port that was found is restarted, one
\* that is off is enabled.
restart_cmd(r) == IF r.enabled THEN "RESTART" ELSE "ENABLE"

\* Mutant of restart_port: a port that is off stays off.
restart_port_found(r, written) ==
    IF r.enabled THEN gpio_restart(r, written).port
    ELSE [r EXCEPT !.mode = "IDLE"]

restart_port(r, written) ==
    IF r.enabled THEN gpio_restart(r, written).port
    ELSE gpio_enable([r EXCEPT !.mode = "IDLE"], written).port

\* gpio_handler_handle_probe_done, for a set S of ports whose write fails.
handle_probe_done(h) ==
    LET mayfail == {p \in Ports : FALSE \in gpio_write_value
                                  /\ restart_cmd(h.port[p]) \in FailingCmds}
    IN {[h EXCEPT !.port = [p \in Ports |-> restart_port(h.port[p], p \notin S)]] :
            S \in SUBSET mayfail}

\* The mapping could not be written: port p tries again later.
write_later(h, p) ==
    [h EXCEPT !.port[p] = start_timeout([@ EXCEPT !.probe = "WRITE_FILE"])]

\* Mutant of gpio_write_config: a file that cannot be written is given up.
gpio_write_config_once(h, p) ==
    {[d EXCEPT !.file = gpio_create_mapping_json(port_list(h.port))] : d \in handle_probe_done(h)}
    \cup {h : x \in {"file"} \cap Faults}

\* gpio_write_config: the file can be opened and written, or not; once the
\* ports have been restarted the link to its name may fail.
gpio_write_config(h, p) ==
    {[d EXCEPT !.file = gpio_create_mapping_json(port_list(h.port))] :
        d \in handle_probe_done(h)}
    \cup {write_later(h, p) : x \in {"file"} \cap Faults}
    \cup {write_later(d, p) : d \in {e \in handle_probe_done(h) : "link" \in Faults}}
-----------------------------------------------------------------------------
(* One port after the other.                                               *)

\* gpio_probe_enable_port: the next port to probe is switched on.
gpio_probe_enable_port(h) ==
    LET p == Min(In(h, "DOWN_DONE"))
    IN {[h EXCEPT !.port[p] =
            start_timeout(IF o.ret = 0 THEN [o.port EXCEPT !.probe = "UP"] ELSE o.port)] :
        o \in update(h.port[p], "ENABLE")}

\* Port p is done; go on with the next one.
probe_next(h, p) ==
    LET d == [h EXCEPT !.port[p].probe = "DONE"]
    IN IF In(d, "DOWN_DONE") # {} THEN gpio_probe_enable_port(d) ELSE gpio_write_config(d, p)

\* gpio_on_probe_down_done: the first port that still has a device waits for
\* it, the ports before that one are marked.
gpio_on_probe_down_done(h) ==
    LET still == {p \in Ports : Connected(h.port[p])}
        marked == {p \in Ports : \A q \in still : p < q}
        d == [h EXCEPT !.port = [p \in Ports |->
                IF p \in marked THEN [h.port[p] EXCEPT !.probe = "DOWN_DONE"] ELSE h.port[p]]]
    IN IF still = {} THEN gpio_probe_enable_port(d)
       ELSE {[d EXCEPT !.port[Min(still)] = start_timeout(@)]}

\* Mutant of gpio_handle_probe_up_timeout: msg_mode is not set to PROBE again.
gpio_handle_probe_up_timeout_idle(h, p) ==
    {[h EXCEPT !.port[p] =
        start_timeout(IF o.ret = 0 THEN [o.port EXCEPT !.probe = "DOWN_2"] ELSE o.port)] :
        o \in update(h.port[p], "DISABLE")}

\* gpio_handle_probe_up_timeout: no device came, the port is switched off.
gpio_handle_probe_up_timeout(h, p) ==
    {[h EXCEPT !.port[p] =
        start_timeout(IF o.ret = 0 THEN [o.port EXCEPT !.probe = "DOWN_2", !.mode = "PROBE"]
                      ELSE o.port)] : o \in update(h.port[p], "DISABLE")}

\* gpio_on_probe_timeout, with gpio_handle_probe_down_2.
gpio_on_probe_timeout(h, p) ==
    LET state == h.port[p].probe
    IN CASE state \in {"DOWN", "DOWN_DONE"} ->
              gpio_on_probe_down_done([h EXCEPT !.port[p].probe = "DOWN_DONE"])
         [] state = "UP" -> gpio_handle_probe_up_timeout(h, p)
         [] state = "DOWN_2" -> probe_next(h, p)
         [] state = "WRITE_FILE" -> gpio_write_config(h, p)
         [] OTHER -> {h}

\* Mutant of swap_port_info: the device stays with the port it was reported for.
swap_port_info_paths(h, m, u) ==
    [h EXCEPT !.port[u].path = h.port[m].path, !.port[m].path = h.port[u].path]

\* gpio_handler_swap_port_info: port u, which is being probed, gets the path
\* and the device of port m, and m the path u had.
swap_port_info(h, m, u) ==
    [h EXCEPT !.port[u].path = h.port[m].path, !.port[u].dev = h.port[m].dev,
              !.port[m].path = h.port[u].path, !.port[m].dev = NoDev]

\* Port p has its device: its timer stops.
probed(h, p) == probe_next([h EXCEPT !.port[p] = del_timeout(@)], p)

\* Mutant of handle_probe_connect: a device at another port's path is taken for
\* the device of the port being probed.
handle_probe_connect_trusting(h, m) ==
    IF h.port[m].probe = "DOWN_2" \/ In(h, "UP") = {} THEN {h}
    ELSE probed(h, Min(In(h, "UP")))

\* gpio_handler_handle_probe_connect, for the port m that has the device's
\* path.  The guard against late devices looks at m only; when no port is being
\* probed the search ends with itr NULL and g_port the last port of the list.
handle_probe_connect(h, m) ==
    CASE h.port[m].probe = "DOWN_2" -> {h}
      [] h.port[m].probe = "UP" -> probed(h, m)
      [] h.port[m].probe \notin {"DOWN_2", "UP"} /\ In(h, "UP") # {} ->
            LET u == Min(In(h, "UP")) IN probed(swap_port_info(h, m, u), u)
      [] OTHER -> {[h EXCEPT !.null = TRUE]}
-----------------------------------------------------------------------------
(* The callbacks, for a daemon some of whose ports are being probed.       *)

\* usb_monitor_lists_find_port_path.
find_port_path(h, path) == CHOOSE p \in Ports : h.port[p].path = path

\* usb_device_added.
probe_device_added(h, path, d) ==
    LET m == find_port_path(h, path)
        r == h.port[m]
    IN IF r.mode = "PROBE" /\ ~added_ignored(r, d)
       THEN handle_probe_connect([h EXCEPT !.port[m].dev = d], m)
       ELSE {[h EXCEPT !.port[m] = t] : t \in gpio_device_added(r, d)}

\* usb_device_removed.
probe_device_removed(h, path) ==
    [h EXCEPT !.port[find_port_path(h, path)] = reset_port(@)]

\* usb_monitor_check_timeouts and gpio_handle_timeout, for a timer that has
\* expired.
probe_expire(h, p) ==
    LET r == del_timeout(h.port[p])
        d == [h EXCEPT !.port[p] = r]
    IN IF r.mode = "PROBE" THEN gpio_on_probe_timeout(d, p)
       ELSE IF r.enabled THEN {[d EXCEPT !.port[p] = t] : t \in gpio_handle_timeout(r)}
       ELSE {d}

\* gpio_handler_start_probe, when all ports can be switched off: the timer is
\* that of the last port.
start_probe_port(r) ==
    [del_timeout(gpio_disable(r, TRUE).port) EXCEPT !.probe = "DOWN", !.mode = "PROBE"]

gpio_handler_start_probe(h) ==
    LET last == Cardinality(Ports)
    IN [h EXCEPT !.port = [p \in Ports |->
            IF p = last THEN start_timeout(start_probe_port(h.port[p]))
            ELSE start_probe_port(h.port[p])]]
=============================================================================
