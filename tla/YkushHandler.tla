---------------------------- MODULE YkushHandler ----------------------------
(***************************************************************************)
(* ykush_handler.c for one port of a YKUSH hub.  Power is switched by an   *)
(* interrupt transfer to the hub, and pwr_state follows only when the      *)
(* callback of the transfer runs.  The record of the port carries one more *)
(* field, xfers: its transfers in flight, oldest first (one endpoint, so   *)
(* they complete in order), each with the callback it will run, the power  *)
(* it asks for, and whether the hub has already acted on it.               *)
(***************************************************************************)
EXTENDS UsbPort, Sequences

VARIABLES
    hid,   \* is a HID device, the part of a hub that takes transfers, on the bus?
    hidq   \* its hotplug events that libusb has not yet dispatched

\* The hub that the daemon knows is still there: transfers go to it, not to one
\* that has taken its place.
HubThere == hid /\ \A i \in DOMAIN hidq : hidq[i] # "LEFT"

Xfer == [cb : {"reset", "enable", "disable"}, on : BOOLEAN, applied : BOOLEAN]

YkushPort == [enabled : BOOLEAN, pwr : BOOLEAN, mode : Modes, retrans : Failures,
              dev : DevOrNone, handle : DevOrNone, pings : Few, listed : Few,
              xfers : Seq(Xfer)]

\* ykush_configure_hub gives every port a fresh object, with
\* usb_helpers_configure_port.
ykush_port ==
    [enabled |-> TRUE, pwr |-> TRUE, mode |-> "IDLE", retrans |-> 0,
     dev |-> NoDev, handle |-> NoDev, pings |-> 0, listed |-> 0, xfers |-> <<>>]

\* ykush_perform_transfer: the port with the transfer in flight.
submitted(r, cb, on) ==
    [r EXCEPT !.xfers = Append(@, [cb |-> cb, on |-> on, applied |-> FALSE])]

\* Allocating or submitting a transfer can fail, and does so when the hub has
\* left the bus.
perform_transfer == {sent \in BOOLEAN : sent \/ "submit" \in Faults \/ ~HubThere}

ykush_switch(r, cb, on, sent) ==
    IF sent THEN [port |-> submitted(r, cb, on), ret |-> 0] ELSE [port |-> r, ret |-> -1]

\* Mutant of ykush_restart: the timer of a port in PING keeps running.
ykush_restart_unguarded(r, sent) ==
    LET s == [r EXCEPT !.mode = "RESET"]
    IN IF ~r.enabled THEN [port |-> r, ret |-> 0]
       ELSE [port |-> IF sent THEN submitted(s, "reset", ~r.pwr) ELSE start_timeout(s),
             ret |-> 0]

\* CMD_RESTART asks for the opposite of the power the port has; "not
\* considered an error" when that fails, the timer tries again.
ykush_restart(r, sent) ==
    LET s == del_timeout([r EXCEPT !.mode = "RESET"])
    IN IF ~r.enabled THEN [port |-> r, ret |-> 0]
       ELSE [port |-> IF sent THEN submitted(s, "reset", ~r.pwr) ELSE start_timeout(s),
             ret |-> 0]

ykush_update_port(r, cmd) ==
    {CASE cmd = "ENABLE"  -> ykush_switch(r, "enable", TRUE, sent)
       [] cmd = "DISABLE" -> ykush_switch(r, "disable", FALSE, sent)
       [] cmd = "RESTART" -> ykush_restart(r, sent) : sent \in perform_transfer}

YkushRestart(r) == ykush_update_port(r, "RESTART")

\* The common functions, with this handler as port->update.
ykush_device_added(r, d) == device_added(r, d, YkushRestart(attached(r, d)))

ykush_ping_cb(r, ok) == ping_cb(r, ok, YkushRestart(at_limit(r)))

ykush_reset_if_needed(r, forced) == reset_if_needed(r, forced, YkushRestart(r))

\* Mutant of ykush_handle_timeout: the second half of a reset is forgotten.
ykush_handle_timeout_pings(r) == IF r.mode = "PING" THEN send_ping(r) ELSE {r}

ykush_handle_timeout(r) ==
    IF r.mode = "PING" THEN send_ping(r)
    ELSE {o.port : o \in YkushRestart(r)}
-----------------------------------------------------------------------------
(* The callbacks of the transfers.                                         *)

ykush_enable_cb(r, ok) == IF ok THEN [r EXCEPT !.enabled = TRUE, !.pwr = TRUE] ELSE r

ykush_disable_cb(r, ok) ==
    IF ok THEN [r EXCEPT !.enabled = FALSE, !.mode = "IDLE", !.pwr = FALSE] ELSE r

\* Mutants of ykush_reset_cb: a port that was disabled meanwhile is not spared;
\* a port that has its power back stays in RESET.
ykush_reset_cb_unguarded(r, ok) ==
    IF ~ok THEN [r EXCEPT !.mode = "IDLE"]
    ELSE IF r.pwr THEN start_timeout([r EXCEPT !.pwr = FALSE])
    ELSE [r EXCEPT !.pwr = TRUE, !.mode = "IDLE"]

ykush_reset_cb_stays(r, ok) ==
    IF ~r.enabled THEN r
    ELSE IF ~ok THEN [r EXCEPT !.mode = "IDLE"]
    ELSE IF r.pwr THEN start_timeout([r EXCEPT !.pwr = FALSE])
    ELSE [r EXCEPT !.pwr = TRUE]

ykush_reset_cb(r, ok) ==
    IF ~r.enabled THEN r
    ELSE IF ~ok THEN [r EXCEPT !.mode = "IDLE"]
    ELSE IF r.pwr THEN start_timeout([r EXCEPT !.pwr = FALSE])
    ELSE [r EXCEPT !.pwr = TRUE, !.mode = "IDLE"]

\* The oldest transfer of the port completes, or fails.
transfer_done(t, ok) ==
    LET x == Head(t.xfers)
        r == [t EXCEPT !.xfers = Tail(@)]
    IN CASE x.cb = "enable"  -> ykush_enable_cb(r, ok)
         [] x.cb = "disable" -> ykush_disable_cb(r, ok)
         [] x.cb = "reset"   -> ykush_reset_cb(r, ok)
=============================================================================
