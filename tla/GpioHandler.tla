---------------------------- MODULE GpioHandler ----------------------------
(***************************************************************************)
(* gpio_handler.c outside of probing: a port whose power is a GPIO pin.    *)
(* The pin is written synchronously, so the pin and pwr_state agree after  *)
(* every call; a write that fails leaves both alone.                       *)
(***************************************************************************)
EXTENDS UsbPort

\* gpio_write_value: can the write succeed, can it fail?
gpio_write_value == {TRUE} \cup {FALSE : x \in {"write"} \cap Faults}

gpio_enable(r, written) ==
    IF written THEN [port |-> [r EXCEPT !.enabled = TRUE, !.pwr = TRUE], ret |-> 0]
    ELSE [port |-> r, ret |-> -1]

gpio_disable(r, written) ==
    IF written THEN [port |-> [r EXCEPT !.enabled = FALSE, !.pwr = FALSE,
                                        !.mode = "IDLE"], ret |-> 0]
    ELSE [port |-> r, ret |-> -1]

\* Mutants of gpio_restart: the guard against a timer that is already running
\* is missing; a disabled port is restarted.
gpio_restart_unguarded(r, written) ==
    LET s == [r EXCEPT !.mode = "RESET"]
    IN IF ~r.enabled THEN [port |-> r, ret |-> 0]
       ELSE IF ~written THEN [port |-> start_timeout(s), ret |-> -1]
       ELSE IF r.pwr THEN [port |-> start_timeout([s EXCEPT !.pwr = FALSE]), ret |-> 0]
       ELSE [port |-> [s EXCEPT !.pwr = TRUE, !.mode = "IDLE"], ret |-> 0]

gpio_restart_disabled(r, written) ==
    LET s == del_timeout([r EXCEPT !.mode = "RESET"])
    IN IF ~written THEN [port |-> start_timeout(s), ret |-> -1]
       ELSE IF r.pwr THEN [port |-> start_timeout([s EXCEPT !.pwr = FALSE]), ret |-> 0]
       ELSE [port |-> [s EXCEPT !.pwr = TRUE, !.mode = "IDLE"], ret |-> 0]

\* CMD_RESTART flips the power: the call that switches the port off starts
\* the timer whose expiry makes the call that switches it on again.
gpio_restart(r, written) ==
    LET s == del_timeout([r EXCEPT !.mode = "RESET"])
    IN IF ~r.enabled THEN [port |-> r, ret |-> 0]
       ELSE IF ~written THEN [port |-> start_timeout(s), ret |-> -1]
       ELSE IF r.pwr THEN [port |-> start_timeout([s EXCEPT !.pwr = FALSE]), ret |-> 0]
       ELSE [port |-> [s EXCEPT !.pwr = TRUE, !.mode = "IDLE"], ret |-> 0]

\* gpio_update_port: the results [port, ret] a command can have.
gpio_update_port(r, cmd) ==
    {CASE cmd = "ENABLE"  -> gpio_enable(r, written)
       [] cmd = "DISABLE" -> gpio_disable(r, written)
       [] cmd = "RESTART" -> gpio_restart(r, written) : written \in gpio_write_value}

GpioRestart(r) == gpio_update_port(r, "RESTART")

\* The common functions, with this handler as port->update.
gpio_device_added(r, d) == device_added(r, d, GpioRestart(attached(r, d)))

gpio_ping_cb(r, ok) == ping_cb(r, ok, GpioRestart(at_limit(r)))

gpio_reset_if_needed(r, forced) == reset_if_needed(r, forced, GpioRestart(r))

\* gpio_handle_timeout for a port that is not being probed.
gpio_handle_timeout(r) ==
    IF r.mode = "PING" THEN send_ping(r)
    ELSE {o.port : o \in GpioRestart(r)}
=============================================================================
