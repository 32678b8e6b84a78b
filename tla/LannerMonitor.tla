--------------------------- MODULE LannerMonitor ---------------------------
(***************************************************************************)
(* The daemon with Lanner ports: the callbacks of GpioMonitor with         *)
(* lanner_update_port as port->update, the MCU's events, the private timer *)
(* and the iteration callback.  The board is external: the MCU answers     *)
(* commands, and another program that holds the lock may change the bits   *)
(* that are its own.                                                       *)
(*                                                                         *)
(* Faults: "status" (the MCU refuses a command), "repeat" (it answers      *)
(* twice), "short" writes, "lock" (another program takes the lock),        *)
(* "quick" (a device comes back before the removal of the last one is      *)
(* handled, or while its ping timer is still running), "interrupt" (the    *)
(* signal arrives inside usb_monitor_itr_cb).                              *)
(***************************************************************************)
EXTENDS LannerHandler

CONSTANT Sockets  \* the ports that devices are plugged into in this instance

ASSUME SocketsAssumption == Sockets \subseteq Ports

VARIABLES mcu,
          board   \* dout: the mask the MCU applies; theirs: what the other
                  \* program wants of it; busy: the other program has the lock

vars == <<port, plug, evq, mcu, board>>

\* The state keeps its types; the counters of list insertions are bounded by
\* their definition, cmd_buf_progress by the length of the command.
TypeOK ==
    /\ port \in [Ports -> LannerPort]
    /\ plug \in [Ports -> DevOrNone]
    /\ evq \in [Ports -> Seq(Event)]
    /\ mcu \in Mcu
    /\ board \in [dout : SUBSET Bits, theirs : SUBSET Foreign, busy : BOOLEAN]

\* lanner_handler_parse_json and lanner_handler_add_port: calloc leaves both
\* commands 0, which is CMD_RESTART.
Init ==
    /\ port = [p \in Ports |->
                [enabled |-> TRUE, pwr |-> TRUE, mode |-> "IDLE", retrans |-> 0,
                 dev |-> NoDev, handle |-> NoDev, pings |-> 0, listed |-> 0,
                 cur |-> "RESTART", rcmd |-> "RESTART"]]
    /\ plug = [p \in Ports |-> NoDev]
    /\ evq = [p \in Ports |-> <<>>]
    /\ mcu = [state |-> "IDLE", pending |-> {}, bitmask |-> {}, to_write |-> {},
              cmd |-> Plain("NONE"), progress |-> 0, buf |-> <<>>, itr |-> FALSE,
              timer |-> 0, out |-> FALSE, locked |-> FALSE, tx |-> <<>>, rx |-> <<>>]
    /\ board = [dout |-> {}, theirs |-> {}, busy |-> FALSE]
-----------------------------------------------------------------------------
(* The board and the devices.                                              *)

Connect(p) ==
    /\ p \in Sockets
    /\ p \notin board.dout
    /\ "quick" \in Faults \/ (evq[p] = <<>> /\ ~timeout_active(port[p]))
    /\ Arrive(p)
    /\ UNCHANGED <<port, mcu, board>>

Disconnect(p) == Leave(p) /\ UNCHANGED <<port, mcu, board>>

\* The MCU acts on a command and answers it.
answer(c) ==
    CASE c.what = "VERSION" -> c
      [] c.what = "GET" -> [what |-> "GET", mask |-> board.dout]
      [] OTHER -> Plain("OK")

McuAnswers(refuse, again) ==
    /\ mcu.tx # <<>>
    /\ refuse => "status" \in Faults
    /\ again => "repeat" \in Faults
    /\ LET c == Head(mcu.tx)
           a == IF refuse THEN Plain("ERROR") ELSE answer(c)
       IN /\ mcu' = [mcu EXCEPT !.tx = Tail(@),
                                !.rx = @ \o <<a, NL>> \o IF again THEN <<a, NL>> ELSE <<>>]
          /\ board' = IF c.what = "SET" /\ ~refuse THEN [board EXCEPT !.dout = c.mask] ELSE board
    /\ UNCHANGED <<port, plug, evq>>

OtherLocks ==
    /\ "lock" \in Faults
    /\ ~board.busy /\ ~mcu.locked
    /\ board' = [board EXCEPT !.busy = TRUE]
    /\ UNCHANGED <<port, plug, evq, mcu>>

OtherSwitches(b) ==
    /\ board.busy
    /\ LET flip(S) == IF b \in S THEN S \ {b} ELSE S \cup {b}
       IN board' = [board EXCEPT !.dout = flip(@), !.theirs = flip(@)]
    /\ UNCHANGED <<port, plug, evq, mcu>>

OtherUnlocks ==
    /\ board.busy
    /\ board' = [board EXCEPT !.busy = FALSE]
    /\ UNCHANGED <<port, plug, evq, mcu>>
-----------------------------------------------------------------------------
(* The callbacks of the event loop that all kinds of ports have.           *)

restart(r) == lanner_update_port(mcu, r, "RESTART")

\* Common code restarts only ports that are not in RESET, and a restart that is
\* accepted leaves them there.
Restarted(new) == {p \in Ports : new[p].mode = "RESET" /\ port[p].mode # "RESET"}

added(r, d) == device_added(r, d, restart(attached(r, d)))

DispatchHotplug(p) ==
    /\ ~Hung
    /\ evq[p] # <<>>
    /\ LET e == Head(evq[p])
       IN \E r \in IF e.what = "ARRIVED" THEN added(port[p], e.dev)
                   ELSE {reset_port(port[p])} : port' = [port EXCEPT ![p] = r]
    /\ evq' = [evq EXCEPT ![p] = Tail(@)]
    /\ mcu' = register(mcu, Restarted(port'))
    /\ UNCHANGED <<plug, board>>

CheckDevices ==
    /\ ~Hung
    /\ ListIsCurrent
    /\ port' \in ForEach([p \in Ports |->
                    IF plug[p] = NoDev THEN {port[p]} ELSE added(port[p], plug[p])])
    /\ mcu' = register(mcu, Restarted(port'))
    /\ UNCHANGED <<plug, evq, board>>

PingDone(p, ok) ==
    /\ ~Hung
    /\ port[p].pings > 0
    /\ ok \/ "ping" \in Faults
    /\ \E r \in ping_cb(port[p], ok, restart(at_limit(port[p]))) : port' = [port EXCEPT ![p] = r]
    /\ mcu' = register(mcu, Restarted(port'))
    /\ UNCHANGED <<plug, evq, board>>

\* usb_monitor_check_timeouts; lanner_handle_timeout changes no shared state.
CheckTimeouts(p) ==
    /\ ~Hung
    /\ timeout_active(port[p])
    /\ LET r == del_timeout(port[p])
       IN \E t \in IF r.enabled THEN lanner_handle_timeout(r) ELSE {r} :
            port' = [port EXCEPT ![p] = t]
    /\ UNCHANGED <<plug, evq, mcu, board>>

reset_all(forced) == ForEach([p \in Ports |-> reset_if_needed(port[p], forced, restart(port[p]))])

CheckReset ==
    /\ ~Hung
    /\ AutoRestart
    /\ port' \in reset_all(FALSE)
    /\ mcu' = register(mcu, Restarted(port'))
    /\ UNCHANGED <<plug, evq, board>>

SignalHandler ==
    /\ ~Hung
    /\ Sigusr1
    /\ port' \in reset_all(TRUE)
    /\ mcu' = register(mcu, Restarted(port'))
    /\ UNCHANGED <<plug, evq, board>>

ClientCommand(p, cmd) ==
    /\ ~Hung
    /\ ~skip_command(port[p], cmd)
    /\ \E o \in lanner_update_port(mcu, port[p], cmd) :
        /\ port' = [port EXCEPT ![p] = o.port]
        /\ mcu' = register(mcu, IF o.ret = 0 THEN {p} ELSE {})
    /\ UNCHANGED <<plug, evq, board>>
-----------------------------------------------------------------------------
(* The callbacks of the MCU.                                               *)

Here == [port |-> port, mcu |-> mcu]

\* lanner_handler_event_cb.
McuEvent(in, out) ==
    /\ ~Hung
    /\ mcu.locked
    /\ in \/ out
    /\ in => mcu.rx # <<>>
    /\ out => mcu.out
    /\ \E s \in event_cb(Here, in, out) : port' = s.port /\ mcu' = s.mcu
    /\ UNCHANGED <<plug, evq, board>>

\* lanner_handle_private_timeout, after backend_delete_timeout.
PrivateTimeout ==
    /\ ~Hung
    /\ mcu.timer = 1
    /\ \E s \in start_mcu_update([Here EXCEPT !.mcu.timer = 0], ~board.busy) :
        port' = s.port /\ mcu' = s.mcu
    /\ UNCHANGED <<plug, evq, board>>

\* usb_monitor_itr_cb: lanner_handler_itr_cb and then usb_monitor_stop_itr_cb,
\* perhaps with usb_monitor_signal_handler between the two.
ItrCallback(interrupted) ==
    /\ ~Hung
    /\ mcu.itr
    /\ interrupted => "interrupt" \in Faults
    /\ \E s \in itr_cb(Here, ~board.busy) :
        LET S == {p \in Ports : /\ interrupted /\ accepts(s.mcu)
                                /\ s.port[p].enabled /\ s.port[p].mode # "RESET"}
        IN /\ port' = [p \in Ports |-> IF p \notin S THEN s.port[p]
                            ELSE [s.port[p] EXCEPT !.cur = "RESTART", !.rcmd = "DISABLE",
                                                   !.mode = "RESET"]]
           /\ mcu' = [register(s.mcu, S) EXCEPT !.itr = FALSE]
    /\ UNCHANGED <<plug, evq, board>>
-----------------------------------------------------------------------------
Next ==
    \/ \E p \in Ports : Connect(p) \/ Disconnect(p) \/ DispatchHotplug(p) \/ CheckTimeouts(p)
    \/ \E refuse, again \in BOOLEAN : McuAnswers(refuse, again)
    \/ OtherLocks \/ OtherUnlocks \/ \E b \in Foreign : OtherSwitches(b)
    \/ CheckDevices \/ CheckReset \/ SignalHandler
    \/ \E p \in Ports, ok \in BOOLEAN : PingDone(p, ok)
    \/ \E p \in Ports, cmd \in UserCmds : ClientCommand(p, cmd)
    \/ \E in, out \in BOOLEAN : McuEvent(in, out)
    \/ PrivateTimeout
    \/ \E interrupted \in BOOLEAN : ItrCallback(interrupted)

Safe == Init /\ [][Next]_vars

\* The MCU answers every command and does not refuse one for ever, the line
\* takes what is left of a command, the event loop runs its timers and the
\* iteration callback, and the other program does not have the lock each time
\* the daemon tries (every five seconds).
Fairness ==
    /\ WF_vars(\E r, a \in BOOLEAN : McuAnswers(r, a))
    /\ SF_vars(McuAnswers(FALSE, FALSE))
    /\ WF_vars(McuEvent(TRUE, FALSE))
    /\ SF_vars(McuEvent(FALSE, TRUE) /\ ~mcu'.out)
    /\ WF_vars(PrivateTimeout) /\ WF_vars(ItrCallback(FALSE))
    /\ WF_vars(OtherUnlocks)
    /\ SF_vars(PrivateTimeout /\ mcu'.locked)

Spec == Safe /\ Fairness
-----------------------------------------------------------------------------
(* Safety.                                                                 *)

\* When no update is under way, pwr_state is what the MCU does: refused,
\* repeated, short and interrupted commands included.
PowerStateIsReal ==
    mcu.state \in {"IDLE", "PENDING", "UPDATE_DONE"} =>
        \A p \in Ports : port[p].pwr <=> p \notin board.dout

\* The daemon changes no bit of another program, though it writes the whole
\* mask: it reads the mask after it has taken the lock and keeps the lock until
\* the second half of the last restart.
TheirsUntouched == board.dout \cap Foreign = board.theirs

\* A port without power was disabled by a client or is registered for the second
\* half of its restart.
PowerBack ==
    \A p \in Ports : port[p].pwr \/ port[p].cur = "DISABLE" \/ p \in mcu.pending

\* "Ensure that state of l_shared is correct + that callback is added"
\* (lanner_update_port): a registered port has something under way that will
\* serve it, and nothing is under way twice.
PendingHasWay ==
    /\ (mcu.pending # {}) <=> mcu.state \notin {"IDLE", "UPDATE_DONE"}
    /\ mcu.state # "IDLE" =>
        \/ mcu.itr /\ mcu.timer = 0
        \/ ~mcu.itr /\ mcu.timer = 1
        \/ ~mcu.itr /\ mcu.timer = 0 /\ (mcu.out \/ mcu.tx # <<>> \/ mcu.rx # <<>>)

\* The device is open and locked exactly while the daemon talks to it; no
\* command and no half of one is on the line outside of an update.
LockedWhileTalking ==
    /\ mcu.locked <=> mcu.state \notin {"IDLE", "PENDING"}
    /\ mcu.locked => ~board.busy
    /\ ~mcu.locked => mcu.tx = <<>> /\ mcu.progress = 0 /\ mcu.buf = <<>>

\* A restart that was accepted stays registered until the port is on again, so
\* that no port is left in RESET, where nothing else would touch it.
ResetIsServed ==
    \A p \in Ports : port[p].mode = "RESET" => p \in mcu.pending \/ port[p].cur = "DISABLE"

\* No port is inserted into the timeout list while it is on it.
TimersListedOnce == \A p \in Ports : port[p].listed < 2

\* No port is lost: to a power switch that does not come, to a reset that does
\* not end, or with all others to a circular list; all fields keep their types.
NoPortIsLost == TypeOK /\ PowerBack /\ ResetIsServed /\ TimersListedOnce
-----------------------------------------------------------------------------
(* Liveness.                                                               *)

\* Every accepted command is carried out, unless a client replaces it in time: a
\* restart, too, ends with the port on, in what the MCU does and not only in
\* what the daemon believes.
CommandServed ==
    \A p \in Ports, cmd \in Cmds : p \in mcu.pending /\ port[p].cur = cmd ~>
        \/ port[p].cur # cmd
        \/ p \notin mcu.pending /\ (p \in board.dout <=> cmd = "DISABLE")
=============================================================================
