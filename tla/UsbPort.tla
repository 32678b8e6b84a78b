------------------------------ MODULE UsbPort ------------------------------
(***************************************************************************)
(* What every kind of port shares: the port object of usb_monitor.h and    *)
(* the functions of usb_helpers.c, usb_monitor_lists.c and                 *)
(* usb_monitor_callbacks.c that change it.  Each function is an operator   *)
(* from the port before the call to the port, or the set of ports, after   *)
(* it, so that a handler which calls several of them in a row stays one    *)
(* step.  Common code calls port->update only with CMD_RESTART; an operator *)
(* that does gets the results [port, ret] of that call as its argument     *)
(* restarts, and the operator before it names the port as it is then.      *)
(*                                                                         *)
(* A port is the record                                                    *)
(*   enabled, pwr, mode   enabled, pwr_state and msg_mode                  *)
(*   retrans              num_retrans, a uint8_t                           *)
(*   dev                  the attached libusb_device; status and vp carry  *)
(*                        the same information (status is                  *)
(*                        PORT_DEV_CONNECTED exactly when dev is set)      *)
(*   handle               the device dev_handle was opened on, or NoDev    *)
(*   pings                GET_STATUS transfers in flight (2: two or more)  *)
(*   listed               how often timeout_next is on ctx->timeout_list   *)
(* Deadlines are abstracted: any timer on the list may be the one that     *)
(* expires next.                                                           *)
(***************************************************************************)
EXTENDS Integers

CONSTANTS
    Devs,              \* libusb_device objects
    NoDev,             \* NULL
    BadDevs,           \* the devices whose vid and pid are in bad_device_ids
    USB_RETRANS_LIMIT, \* 5 in usb_monitor.h
    RETRANS_MOD,       \* num_retrans wraps here, 256 for a uint8_t
    Faults             \* the calls that can fail in this instance

FaultKinds == {"write", "open", "alloc", "submit", "ping", "stale", "slow",
               "xfer", "config", "claim", "off",
               "quick", "status", "short", "lock", "repeat", "interrupt",
               "file", "link", "late", "mismatch", "replug"}

ASSUME DevsAssumption == NoDev \notin Devs /\ BadDevs \subseteq Devs
ASSUME RetransAssumption ==
    /\ USB_RETRANS_LIMIT \in Nat
    /\ RETRANS_MOD \in Nat
    /\ USB_RETRANS_LIMIT < RETRANS_MOD
ASSUME FaultsAssumption == Faults \subseteq FaultKinds

Cmds == {"RESTART", "ENABLE", "DISABLE"}

Modes == {"IDLE", "PING", "RESET", "PROBE"}

DevOrNone == Devs \cup {NoDev}
Failures == 0 .. RETRANS_MOD - 1
Few == 0 .. 2

Port == [enabled : BOOLEAN, pwr : BOOLEAN, mode : Modes, retrans : Failures,
         dev : DevOrNone, handle : DevOrNone, pings : Few, listed : Few]

\* usb_helpers_configure_port: powered, enabled and, from calloc, IDLE.
configure_port ==
    [enabled |-> TRUE, pwr |-> TRUE, mode |-> "IDLE", retrans |-> 0,
     dev |-> NoDev, handle |-> NoDev, pings |-> 0, listed |-> 0]

Connected(r) == r.dev # NoDev
-----------------------------------------------------------------------------
(* The timeout list.                                                       *)

\* usb_monitor_lists_is_timeout_active, and the same test written out.
timeout_active(r) == r.listed # 0

\* usb_helpers_start_timeout does not look whether the port is on the list:
\* LIST_INSERT_HEAD of an element that is on it makes the list circular.
start_timeout(r) == [r EXCEPT !.listed = IF @ = 0 THEN 1 ELSE 2]

\* LIST_REMOVE takes a port off the list.  It does not repair a circular one.
del_timeout(r) == [r EXCEPT !.listed = IF @ = 2 THEN 2 ELSE 0]
-----------------------------------------------------------------------------
(* Devices that leave and arrive.                                          *)

\* Mutants of reset_port: it stops the timer of a port in RESET too; it never
\* stops a timer; it leaves a port in RESET alone.
reset_port_stops_timer(r) ==
    [del_timeout(r) EXCEPT !.dev = NoDev, !.handle = NoDev, !.retrans = 0, !.pings = 0]

reset_port_keeps_timer(r) ==
    [r EXCEPT !.dev = NoDev, !.handle = NoDev, !.retrans = 0, !.pings = 0]

reset_port_unless_reset(r) ==
    IF r.mode = "RESET" THEN r ELSE reset_port_stops_timer(r)

\* usb_helpers_reset_port.  Closing the handle drops the ping in flight
\* without calling its callback.
reset_port(r) ==
    LET s == IF r.mode \notin {"RESET", "PROBE"} /\ timeout_active(r)
             THEN del_timeout(r) ELSE r
    IN [s EXCEPT !.dev = NoDev, !.handle = NoDev, !.retrans = 0,
                 !.pings = IF Connected(r) /\ r.handle # NoDev THEN 0 ELSE @]

\* Mutant of added_ignored: a device reported twice is added twice.
added_ignored_once(r, d) == r.mode # "PROBE" /\ (r.mode = "RESET" \/ ~r.enabled)

\* usb_device_added returns before it touches the port.
added_ignored(r, d) ==
    \/ r.mode # "PROBE" /\ (r.mode = "RESET" \/ ~r.enabled)
    \/ r.dev = d

\* A device is attached, its first ping scheduled.
attached(r, d) == start_timeout([r EXCEPT !.dev = d, !.mode = "PING"])

\* usb_device_added for a port that is not being probed: the set of ports it
\* can leave behind, given the restarts of attached(r, d).
device_added(r, d, restarts) ==
    IF added_ignored(r, d) THEN {r}
    ELSE IF d \in BadDevs THEN {o.port : o \in restarts}
    ELSE {attached(r, d)}
-----------------------------------------------------------------------------
(* Pinging the attached device.                                            *)

\* Mutant of count_failure: the counter does not wrap.
count_failure_wide(r) == [r EXCEPT !.retrans = @ + 1]

count_failure(r) == [r EXCEPT !.retrans = (@ + 1) % RETRANS_MOD]

\* Mutant of send_ping: nothing is scheduled after a failed submission.
send_ping_drops(r) ==
    LET open == [r EXCEPT !.handle = IF @ = NoDev THEN r.dev ELSE @]
    IN {[open EXCEPT !.pings = IF @ = 0 THEN 1 ELSE 2], [open EXCEPT !.handle = NoDev]}

\* usb_helpers_send_ping with usb_helpers_configure_handle.
send_ping(r) ==
    LET open == [r EXCEPT !.handle = IF @ = NoDev THEN r.dev ELSE @]
    IN {[open EXCEPT !.pings = IF @ = 0 THEN 1 ELSE 2]}
       \cup {start_timeout(count_failure(r)) :
                x \in {"open"} \cap {f \in Faults : r.handle = NoDev}}
       \cup {start_timeout(open) : x \in {"alloc"} \cap Faults}
       \cup {start_timeout([open EXCEPT !.handle = NoDev, !.pings = 0]) :
                x \in {"submit"} \cap Faults}

\* The port when its ping has failed at the limit.
at_limit(t) == [t EXCEPT !.pings = @ - 1, !.retrans = 0]

\* Mutant of ping_cb: at the limit it goes on pinging.
ping_cb_never_restarts(t, ok, restarts) ==
    LET r == [t EXCEPT !.pings = @ - 1]
    IN IF ~r.enabled \/ r.mode # "PING" THEN {r}
       ELSE IF ok THEN {start_timeout([r EXCEPT !.retrans = 0])}
       ELSE {start_timeout(IF r.retrans = USB_RETRANS_LIMIT THEN r ELSE count_failure(r))}

\* usb_helpers_ping_cb for a transfer that completed (ok) or did not, given the
\* restarts of at_limit(t).
ping_cb(t, ok, restarts) ==
    LET r == [t EXCEPT !.pings = @ - 1]
    IN IF ~r.enabled \/ r.mode # "PING" THEN {r}
       ELSE IF ok THEN {start_timeout([r EXCEPT !.retrans = 0])}
       ELSE IF r.retrans # USB_RETRANS_LIMIT
            THEN {start_timeout(count_failure(r))}
       ELSE {IF o.ret = 0 THEN o.port
             ELSE start_timeout([o.port EXCEPT !.retrans = USB_RETRANS_LIMIT]) :
                o \in restarts}

\* Mutants of reset_if_needed: the check for a device is gone; only the signal
\* restarts ports.
reset_if_idle(r, forced, restarts) ==
    IF r.mode \in {"RESET", "PROBE"} \/ ~r.enabled THEN {r} ELSE {o.port : o \in restarts}

reset_if_forced(r, forced, restarts) ==
    IF r.mode \in {"RESET", "PROBE"} \/ ~r.enabled \/ ~forced THEN {r}
    ELSE {o.port : o \in restarts}

\* The loop body of usb_helpers_reset_all_ports, given the restarts of r.
reset_if_needed(r, forced, restarts) ==
    IF r.mode \in {"RESET", "PROBE"} \/ ~r.enabled THEN {r}
    ELSE IF forced \/ ~Connected(r) THEN {o.port : o \in restarts}
    ELSE {r}

\* A callback that visits every port: one outcome of Out[p] for each port p.
ForEach(Out) ==
    {f \in [DOMAIN Out -> UNION {Out[p] : p \in DOMAIN Out}] :
        \A p \in DOMAIN Out : f[p] \in Out[p]}
=============================================================================
