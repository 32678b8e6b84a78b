---------------------------- MODULE GpioMonitor ----------------------------
(***************************************************************************)
(* The daemon with GPIO ports in steady state: hotplug events, pings and   *)
(* their completions, expiring timers, the periodic checks, the signal and *)
(* the commands of HTTP clients, in every order the event loop can run     *)
(* them.  The loop is single threaded, so every callback is one step.      *)
(***************************************************************************)
EXTENDS GpioHandler, UsbMonitor

vars == <<port, plug, evq>>

\* The ports, the device list and the event queues keep their types: num_retrans
\* in particular stays a uint8_t.
TypeOK ==
    /\ port \in [Ports -> Port]
    /\ plug \in [Ports -> DevOrNone]
    /\ evq \in [Ports -> Seq(Event)]

Init ==
    /\ port = [p \in Ports |-> configure_port]
    /\ plug = [p \in Ports |-> NoDev]
    /\ evq = [p \in Ports |-> <<>>]

Connect(p) == port[p].pwr /\ Arrive(p) /\ UNCHANGED port

\* A device loses its power, crashes or is pulled out.
Disconnect(p) == Leave(p) /\ UNCHANGED port
-----------------------------------------------------------------------------
(* The callbacks of the event loop.                                        *)

\* usb_monitor_cb, called by libusb for the next queued event of a path.
DispatchHotplug(p) ==
    /\ ~Hung
    /\ evq[p] # <<>>
    /\ LET e == Head(evq[p])
       IN \E r \in IF e.what = "ARRIVED"
                   THEN gpio_device_added(port[p], e.dev)
                   ELSE {reset_port(port[p])} : port' = [port EXCEPT ![p] = r]
    /\ evq' = [evq EXCEPT ![p] = Tail(@)]
    /\ UNCHANGED plug

\* usb_monitor_check_devices_cb: every device of the list is reported as
\* arrived.
CheckDevices ==
    /\ ~Hung
    /\ ListIsCurrent
    /\ port' \in ForEach([p \in Ports |->
                    IF plug[p] = NoDev THEN {port[p]}
                    ELSE gpio_device_added(port[p], plug[p])])
    /\ UNCHANGED libusb

\* The completion of a ping reaches usb_helpers_ping_cb.
PingDone(p, ok) ==
    /\ ~Hung
    /\ port[p].pings > 0
    /\ ok \/ "ping" \in Faults
    /\ \E r \in gpio_ping_cb(port[p], ok) : port' = [port EXCEPT ![p] = r]
    /\ UNCHANGED libusb

\* usb_monitor_check_timeouts runs the timers S that have expired: each leaves
\* the list and, if the port is enabled, its timeout function is called.
expire(r) ==
    LET s == del_timeout(r)
    IN IF s.enabled \/ s.mode = "PROBE" THEN gpio_handle_timeout(s) ELSE {s}

CheckTimeouts(S) ==
    /\ ~Hung
    /\ \A p \in S : timeout_active(port[p])
    /\ "slow" \in Faults \/ \A p \in S : SleptLongEnough(p)
    /\ port' \in ForEach([p \in Ports |-> IF p \in S THEN expire(port[p]) ELSE {port[p]}])
    /\ UNCHANGED libusb

\* usb_helpers_reset_all_ports.
ResetAllPorts(forced) ==
    /\ ~Hung
    /\ port' \in ForEach([p \in Ports |-> gpio_reset_if_needed(port[p], forced)])
    /\ UNCHANGED libusb

\* usb_monitor_check_reset_cb, every two minutes.
CheckReset == AutoRestart /\ ResetAllPorts(FALSE)

\* usb_monitor_signal_handler, between two callbacks.
SignalHandler == Sigusr1 /\ ResetAllPorts(TRUE)

\* usb_monitor_client_update_ports, for one port of a request.
ClientCommand(p, cmd) ==
    /\ ~Hung
    /\ ~skip_command(port[p], cmd)
    /\ \E o \in gpio_update_port(port[p], cmd) : port' = [port EXCEPT ![p] = o.port]
    /\ UNCHANGED libusb
-----------------------------------------------------------------------------
Next ==
    \/ \E p \in Ports : Connect(p) \/ Disconnect(p) \/ DispatchHotplug(p)
    \/ CheckDevices
    \/ \E p \in Ports, ok \in BOOLEAN : PingDone(p, ok)
    \/ \E S \in SUBSET Ports \ {{}} : CheckTimeouts(S)
    \/ CheckReset
    \/ SignalHandler
    \/ \E p \in Ports, cmd \in UserCmds : ClientCommand(p, cmd)

Safe == Init /\ [][Next]_vars

\* The event loop runs every timer that is due, hands every event to its
\* callback and runs its two periodic checks; libusb ends a ping after five
\* seconds at the latest; a device that has lost its power leaves the bus.
\* Nobody promises that devices come, or commands.
Fairness ==
    /\ \A p \in Ports :
        /\ WF_vars(DispatchHotplug(p))
        /\ WF_vars(\E ok \in BOOLEAN : PingDone(p, ok))
        /\ WF_vars(\E S \in SUBSET Ports : p \in S /\ CheckTimeouts(S))
        /\ WF_vars(~port[p].pwr /\ Disconnect(p))
    /\ WF_vars(CheckDevices)
    /\ WF_vars(CheckReset)

Spec == Safe /\ Fairness
-----------------------------------------------------------------------------
(* Safety.                                                                 *)

\* An enabled port that is switched off is in the middle of a reset, and the
\* timer that switches it on again is running: gpio_update_port starts it,
\* and neither the removal of the device (usb_helpers_reset_port) nor a late
\* ping, a bad device or a second reset request takes it away.
PowerBack ==
    \A p \in Ports : port[p].enabled /\ ~port[p].pwr =>
        port[p].mode = "RESET" /\ timeout_active(port[p])

\* RESET depends on the timer (the comment in usb_helpers_reset_port): a port
\* in this mode is enabled and has one, so it cannot stay deaf to devices,
\* commands and the two-minute check, which all skip it.
ResetHasTimer ==
    \A p \in Ports : port[p].mode = "RESET" =>
        port[p].enabled /\ timeout_active(port[p])

\* A timer that will send a ping belongs to a port with a device:
\* usb_helpers_configure_handle opens port->dev without looking at it.
PingHasDevice ==
    \A p \in Ports : port[p].mode = "PING" /\ timeout_active(port[p]) =>
        Connected(port[p])

\* While a device is being monitored, its next ping is scheduled or the reply
\* to the last one is awaited; no failure path drops both.
Monitored ==
    \A p \in Ports : port[p].mode = "PING" /\ Connected(port[p]) =>
        timeout_active(port[p]) \/ port[p].pings > 0

\* "We can only get into this function after timeout has been handeled and
\* removed from timeout list" (usb_helpers_ping_cb): a reply that is not
\* ignored finds the port off the list.
SafeToRearm ==
    \A p \in Ports : port[p].mode = "PING" /\ port[p].pings > 0 =>
        ~timeout_active(port[p]) /\ port[p].pings = 1

\* The handle that pings go to is open on the device the port shows, and it
\* is not closed under a transfer in flight.
HandleIsCurrent ==
    \A p \in Ports :
        /\ port[p].handle \in {NoDev, port[p].dev}
        /\ port[p].pings > 0 => port[p].handle # NoDev

\* No port is inserted into the timeout list while it is on it, so the list
\* stays a list and usb_monitor_check_timeouts returns.
TimersListedOnce == \A p \in Ports : port[p].listed < 2

\* A device with a bad id is power cycled; it is never taken for a device to
\* monitor, not even when the restart fails at first.
BadIdNeverPinged ==
    \A p \in Ports : port[p].mode = "PING" => port[p].dev \notin BadDevs

\* A ping goes to the right device at the right time.
PingsAreSound == SafeToRearm /\ HandleIsCurrent /\ BadIdNeverPinged

\* "It is OK to set IDLE here since there will be no device seen connected to
\* port yet" (gpio_update_port): no device sits on an enabled port without
\* being monitored or reset.
IdleMeansEmpty ==
    \A p \in Ports : port[p].enabled /\ port[p].mode = "IDLE" =>
        ~Connected(port[p])

\* A connected device loses its power only for a reason: a client or the signal
\* asked for it, or its last ping failed at the retransmission limit.  No
\* periodic check, timer, failed system call or event of another port cuts it.
\* (A check that restarted one port would look like a client's command; one
\* that restarts two cannot hide, in an instance without the signal.)
PowerCutJustified ==
    [][\A p \in Ports : Connected(port[p]) /\ port[p].pwr /\ ~port'[p].pwr =>
        \/ \E cmd \in UserCmds : ClientCommand(p, cmd)
        \/ SignalHandler
        \/ PingDone(p, FALSE) /\ port[p].retrans = USB_RETRANS_LIMIT]_vars

\* The power of the ports, as PowerCycle sees it.
Power == [p \in Ports |-> IF port[p].enabled THEN IF port[p].pwr THEN "on" ELSE "cycling"
                          ELSE IF port[p].pwr THEN "stray" ELSE "disabled"]

PC == INSTANCE PowerCycle WITH power <- Power

\* Step by step, the GPIO handler moves the power as PowerCycle allows: a
\* disabled port stays off until it is enabled, whatever timers, events and
\* restart requests were left over when it was disabled.
PowerMoves == PC!Init /\ [][PC!Next]_Power
-----------------------------------------------------------------------------
(* Liveness.                                                               *)

\* A run of failures ends: in a reply, in a restart, with the device gone or,
\* when failed opens have counted past the limit that ping_cb compares with, by
\* the counter's wrap-around.
FailuresEnd == \A p \in Ports : port[p].retrans > 0 ~> port[p].retrans = 0

\* An enabled port without a device sees one, or is restarted.
EmptyPortRestarted ==
    \A p \in Ports : port[p].enabled /\ ~Connected(port[p]) ~>
        Connected(port[p]) \/ ~port[p].pwr \/ ~port[p].enabled

\* The GPIO handler implements PowerCycle, its promise that a port that is
\* cycled comes back included.
ImplementsPowerCycle == PC!Spec
=============================================================================
