--------------------------- MODULE LannerHandler ---------------------------
(***************************************************************************)
(* lanner_handler.c: the ports of a Lanner box share one micro controller  *)
(* (MCU) behind a serial line, which switches them by a bitmask (a bit     *)
(* that is set is a port that is off).  A command only registers the port; *)
(* an update of the MCU then opens and locks the device, asks for its      *)
(* version, reads the mask, and writes the mask that all the registered    *)
(* ports want.  A restart writes twice, five seconds apart.                *)
(*                                                                         *)
(* A Lanner port is a port of UsbPort with cur_cmd (cur) and restart_cmd   *)
(* (rcmd).  mcu is struct lanner_shared with what belongs to it in the     *)
(* event loop and on the line:                                             *)
(*   state, pending, bitmask, to_write   mcu_state, pending_ports_mask,    *)
(*                        mcu_bitmask, mcu_bitmask_to_write; masks are     *)
(*                        sets of bits, and p is the bit of port p         *)
(*   cmd, progress        cmd_buf and cmd_buf_progress, in CmdLen units    *)
(*   buf                  buf_input: the part of a reply read so far       *)
(*   itr, timer, out      itr_cb is set; how often mcu_timeout_handle is   *)
(*                        on the event loop's list; EPOLLOUT is monitored  *)
(*   locked               the lock is held and mcu_fd open                 *)
(*   tx, rx               whole commands the MCU has not answered, and the *)
(*                        units of its answers that were not read          *)
(* A function of the handler is an operator from s = [port, mcu] to the    *)
(* set of such states it can leave.                                        *)
(***************************************************************************)
EXTENDS UsbMonitor

CONSTANTS Foreign,  \* bits of the MCU that other programs use
          CmdLen    \* units of a command on the line

ASSUME LannerAssumption == Foreign \cap Ports = {} /\ CmdLen \in Nat \ {0}

Bits == Ports \cup Foreign

McuStates == {"IDLE", "PENDING", "GET_VERSION", "GET_DIGITAL_OUT", "SET_DIGITAL_OUT",
              "UPDATE_DONE"}

Msg == [what : {"NONE", "VERSION", "GET", "SET", "OK", "ERROR"}, mask : SUBSET Bits]
Plain(w) == [what |-> w, mask |-> {}]
NL == Plain("NL")
Unit == Msg \cup {NL}

LannerPort ==
    [enabled : BOOLEAN, pwr : BOOLEAN, mode : Modes, retrans : Failures, dev : DevOrNone,
     handle : DevOrNone, pings : Few, listed : Few, cur : Cmds, rcmd : Cmds]

Mcu == [state : McuStates, pending : SUBSET Ports, bitmask : SUBSET Bits,
        to_write : SUBSET Bits, cmd : Msg, progress : 0 .. CmdLen - 1, buf : Seq(Unit),
        itr : BOOLEAN, timer : Few, out : BOOLEAN, locked : BOOLEAN,
        tx : Seq(Msg), rx : Seq(Unit)]
-----------------------------------------------------------------------------
(* Registering a command.                                                  *)

\* lanner_update_port answers 503 while the MCU is busy.
accepts(m) == m.state \in {"IDLE", "PENDING"}

\* lanner_update_port, what it does to the port.
lanner_update_port(m, r, cmd) ==
    IF ~accepts(m) THEN {[port |-> r, ret |-> 503]}
    ELSE IF cmd = "RESTART"
    THEN {[port |-> [r EXCEPT !.cur = cmd, !.rcmd = "DISABLE", !.mode = "RESET"], ret |-> 0]}
    ELSE {[port |-> [r EXCEPT !.cur = cmd], ret |-> 0]}

\* Mutant of register: a running private timer is taken for an update.
register_unless_pending(m, R) ==
    IF R = {} THEN m
    ELSE [m EXCEPT !.pending = @ \cup R, !.state = "PENDING",
                   !.itr = IF m.state = "IDLE" THEN @ ELSE TRUE]

\* lanner_update_port, what it does to the shared structure, for the ports R
\* whose commands one callback has accepted.
register(m, R) ==
    IF R = {} THEN m
    ELSE [m EXCEPT !.pending = @ \cup R, !.state = "PENDING",
                   !.itr = IF m.timer = 0 THEN TRUE ELSE @]

lanner_handle_timeout(r) == IF r.mode = "PING" THEN send_ping(r) ELSE {r}
-----------------------------------------------------------------------------
(* Talking to the MCU.                                                     *)

start_private_timer(m) == [m EXCEPT !.timer = IF @ = 0 THEN 1 ELSE 2]

\* lanner_handler_write_cmd_buf: all that is left of the command is written or,
\* on a "short" line, only a part of it or (EAGAIN) nothing.
write_cmd_buf(m) ==
    {[m EXCEPT !.progress = IF n = CmdLen THEN 0 ELSE n, !.out = n # CmdLen,
               !.tx = IF n = CmdLen THEN Append(@, m.cmd) ELSE @] :
        n \in {CmdLen} \cup {k \in m.progress .. CmdLen : "short" \in Faults}}

\* lanner_handler_get_version, lanner_handler_get_digital_out.
send_cmd(s, c) == {[s EXCEPT !.mcu = m] : m \in write_cmd_buf([s.mcu EXCEPT !.cmd = c])}

cmd_to_check(r) == IF r.cur = "RESTART" THEN r.rcmd ELSE r.cur

Enabling(s) == {p \in s.mcu.pending : cmd_to_check(s.port[p]) = "ENABLE"}

\* Mutant of create_mcu_bitmask: the mask is built from nothing.
create_mcu_bitmask_anew(s) == s.mcu.pending \ Enabling(s)

create_mcu_bitmask(s) ==
    (s.mcu.bitmask \ Enabling(s)) \cup (s.mcu.pending \ Enabling(s))

set_digital_out(s) ==
    LET mask == create_mcu_bitmask(s)
    IN send_cmd([s EXCEPT !.mcu.to_write = mask], [what |-> "SET", mask |-> mask])

\* lanner_handler_reply: the mask was read.
digital_out_reply(s, mask) ==
    set_digital_out([s EXCEPT !.mcu.bitmask = mask, !.mcu.state = "SET_DIGITAL_OUT"])

ok_port(r) ==
    IF cmd_to_check(r) = "ENABLE"
    THEN [r EXCEPT !.enabled = TRUE, !.pwr = TRUE, !.mode = "IDLE"]
    ELSE IF cmd_to_check(r) = "DISABLE"
    THEN [r EXCEPT !.enabled = FALSE, !.pwr = FALSE,
                   !.rcmd = IF r.cur = "RESTART" THEN "ENABLE" ELSE @]
    ELSE r

\* Mutant of ok_served: the first half of a restart counts as the whole.
ok_served_early(s) == s.mcu.pending

\* The ports whose bit leaves the pending mask.
ok_served(s) == Enabling(s) \cup {p \in s.mcu.pending : s.port[p].cur = "DISABLE"}

\* lanner_handler_ok_reply: the mask was written.
ok_reply(s) ==
    LET left == s.mcu.pending \ ok_served(s)
        m == [s.mcu EXCEPT !.bitmask = s.mcu.to_write, !.to_write = {}, !.pending = left]
    IN [port |-> [p \in Ports |-> IF p \in s.mcu.pending THEN ok_port(s.port[p])
                                  ELSE s.port[p]],
        mcu |-> IF left = {} THEN [m EXCEPT !.state = "UPDATE_DONE", !.itr = TRUE]
                ELSE start_private_timer(m)]

\* Mutants of handle_msg: the status is not looked at; a refused command is not
\* sent again.
handle_msg_any_status(s, msg) ==
    CASE s.mcu.state = "GET_VERSION" ->
            send_cmd([s EXCEPT !.mcu.state = "GET_DIGITAL_OUT"], Plain("GET"))
      [] s.mcu.state = "GET_DIGITAL_OUT" -> digital_out_reply(s, msg.mask)
      [] s.mcu.state = "SET_DIGITAL_OUT" -> {ok_reply(s)}
      [] OTHER -> {s}

handle_msg_once(s, msg) ==
    CASE s.mcu.state = "GET_VERSION" /\ msg.what = "VERSION" ->
            send_cmd([s EXCEPT !.mcu.state = "GET_DIGITAL_OUT"], Plain("GET"))
      [] s.mcu.state = "GET_DIGITAL_OUT" /\ msg.what = "GET" -> digital_out_reply(s, msg.mask)
      [] s.mcu.state = "SET_DIGITAL_OUT" /\ msg.what = "OK" -> {ok_reply(s)}
      [] OTHER -> {s}

\* lanner_handler_handle_msg: a status other than 100 sends the command again.
handle_msg(s, msg) ==
    CASE msg.what = "ERROR" /\ s.mcu.progress = 0 ->
            {[s EXCEPT !.mcu = m] : m \in write_cmd_buf(s.mcu)}
      [] s.mcu.state = "GET_VERSION" /\ msg.what = "VERSION" ->
            send_cmd([s EXCEPT !.mcu.state = "GET_DIGITAL_OUT"], Plain("GET"))
      [] s.mcu.state = "GET_DIGITAL_OUT" /\ msg.what = "GET" -> digital_out_reply(s, msg.mask)
      [] s.mcu.state = "SET_DIGITAL_OUT" /\ msg.what = "OK" -> {ok_reply(s)}
      [] OTHER -> {s}

\* lanner_handler_handle_input.  A read ends at the first newline at the latest:
\* the loop of the code over the messages of one read is that many steps here.
\* The zeros between messages, which it skips, are left out.
handle_input(s) ==
    LET m == s.mcu
        ends == {n \in 1 .. Len(m.rx) : \A i \in 1 .. n - 1 : m.rx[i] # NL}
        read(n) == SubSeq(m.rx, 1, n)
        left(n, buf) ==
            [s EXCEPT !.mcu = [m EXCEPT !.rx = SubSeq(@, n + 1, Len(@)), !.buf = buf]]
    IN UNION {IF m.rx[n] # NL THEN {left(n, m.buf \o read(n))}
              ELSE handle_msg(left(n, <<>>), Head(m.buf \o read(n))) : n \in ends}

\* lanner_handler_event_cb for the events epoll has reported.
event_cb(s, in, out) ==
    LET t == IF in THEN handle_input(s) ELSE {s}
    IN IF out THEN UNION {{[x EXCEPT !.mcu = m] : m \in write_cmd_buf(x.mcu)} : x \in t}
       ELSE t

\* lanner_handler_open_mcu, lanner_flush_mcu and the new epoll registration.
open_mcu(m) == [m EXCEPT !.locked = TRUE, !.rx = <<>>, !.out = FALSE, !.state = "GET_VERSION"]

\* lanner_handler_start_mcu_update; free tells whether the lock and the device
\* can be had.
start_mcu_update(s, free) ==
    CASE s.mcu.state = "PENDING" /\ ~free -> {[s EXCEPT !.mcu = start_private_timer(@)]}
      [] s.mcu.state = "PENDING" /\ free ->
            send_cmd([s EXCEPT !.mcu = open_mcu(@)], Plain("VERSION"))
      [] s.mcu.state = "GET_VERSION" -> send_cmd(s, Plain("VERSION"))
      [] s.mcu.state = "GET_DIGITAL_OUT" -> send_cmd(s, Plain("GET"))
      [] s.mcu.state = "SET_DIGITAL_OUT" -> set_digital_out(s)
      [] OTHER -> {s}

\* Mutant of itr_cb: the lock is kept.
itr_cb_keeps_lock(s, free) ==
    IF s.mcu.state = "UPDATE_DONE" THEN {[s EXCEPT !.mcu.state = "IDLE"]}
    ELSE start_mcu_update(s, free)

\* lanner_handler_itr_cb.
itr_cb(s, free) ==
    IF s.mcu.state = "UPDATE_DONE"
    THEN {[s EXCEPT !.mcu.locked = FALSE, !.mcu.state = "IDLE", !.mcu.out = FALSE]}
    ELSE start_mcu_update(s, free)
=============================================================================
