------------------------- MODULE ProbeMonitorProofs -------------------------
(***************************************************************************)
(* Safety of probing, for every number of ports, every wiring, every set   *)
(* of devices and every order of libusb's device list.  The invariant has  *)
(* two parts.  Base needs no assumption: one timer, paths that are a       *)
(* permutation, and records that follow the paths.  Right says what is on  *)
(* the line of each pin in each state of its probe; devices must not       *)
(* restart by themselves for that, nor come and go later than both of the  *)
(* handler's timers.                                                       *)
(***************************************************************************)
EXTENDS ProbeMonitor, SequenceTheorems, FiniteSetTheorems, WellFoundedInduction, TLAPS

\* A pin that is switched on is on.
EnableWorks == "write" \notin Faults \/ "ENABLE" \notin FailingCmds

\* Devices stay when they have power, and do not come late and go late.
Sane ==
    /\ "replug" \notin Faults
    /\ "slow" \notin Faults \/ ("late" \notin Faults /\ "mismatch" \notin Faults)

\* The handler's state is a record of three fields.
Whole(h) == h = [port |-> h.port, file |-> h.file, null |-> h.null]

Busy(P) == \E p \in Ports : P[p].mode = "PROBE"

\* Every path belongs to one port.
Permuted(P) ==
    /\ \A p, q \in Ports : P[p].path = P[q].path => p = q
    /\ \A x \in Ports : \E p \in Ports : P[p].path = x

\* At most one timer runs; a port whose turn it is has it.
Serial(P) ==
    /\ \A p \in Ports : P[p].mode = "PROBE" /\ P[p].listed # 2
    /\ \A p \in Ports : P[p].probe \in {"UP", "DOWN_2", "WRITE_FILE"} => P[p].listed = 1
    /\ \A p, q \in Ports : P[p].listed # 0 /\ P[q].listed # 0 => p = q

\* The last queued event says what is plugged in; when all are dispatched, so
\* does the port.
Recorded(q, plugged, dev) ==
    /\ q = <<>> => dev = plugged
    /\ q # <<>> => plugged = IF q[Len(q)].what = "ARRIVED" THEN q[Len(q)].dev ELSE NoDev

\* The ports follow the events of their paths, and the ones that wait for their
\* turn, or for their device, have none.
Followed(P, E, G) ==
    /\ \A p \in Ports : Recorded(E[P[p].path], G[P[p].path], P[p].dev)
    /\ (\E u \in Ports : P[u].probe \in {"UP", "DOWN_2"}) =>
            \A p \in Ports : P[p].probe \in {"DOWN_DONE", "UP"} => P[p].dev = NoDev

Base(h, E, G) ==
    /\ Whole(h) /\ h.port \in [Ports -> ProbePort] /\ h.null \in BOOLEAN
    /\ h.file # <<>> => DOMAIN h.file = Ports
    /\ Permuted(h.port)
    /\ Busy(h.port) => Serial(h.port) /\ (~h.null => Followed(h.port, E, G))
-----------------------------------------------------------------------------
(* What is known of the wiring.                                            *)

Done == {"DONE", "WRITE_FILE"}

\* The power of a port and the state of its probe.
Lit(r) ==
    /\ r.probe # "IDLE" /\ r.enabled = r.pwr
    /\ r.probe = "UP" => r.pwr
    /\ r.pwr => r.probe \in {"UP", "DONE", "WRITE_FILE"}

\* A port that has been found has its path; one that has not been found has it
\* too, if its device works, since the device only came too late.
Mapped(r, pin) ==
    /\ r.probe \in Done /\ r.pwr => r.path = wires[pin]
    /\ "mismatch" \notin Faults /\ r.probe \in Done \cup {"DOWN_2"} /\ wires[pin] \in there =>
            r.path = wires[pin]

\* The mapping waits to be written when all ports are done.
AllDone(P) ==
    (\E w \in Ports : P[w].probe = "WRITE_FILE") => \A p \in Ports : P[p].probe \in Done

\* One port waits for its timer: the one that is probed, or, before that, one
\* that waits for the devices to leave.
Turn(P) ==
    \E t \in Ports :
        /\ P[t].listed = 1 /\ P[t].probe \notin {"IDLE", "DONE"}
        /\ P[t].probe \in {"DOWN", "DOWN_DONE"} =>
                \A p \in Ports : P[p].probe \in {"DOWN", "DOWN_DONE"}

\* The events that libusb queues.
Arrived(d) == [what |-> "ARRIVED", dev |-> d]
Left(d) == [what |-> "LEFT", dev |-> d]

\* All ports are off, and the devices leave.
Leaving(P, E, G) ==
    \A p \in Ports :
        LET q == E[P[p].path]
        IN /\ P[p].probe \in {"DOWN", "DOWN_DONE"}
           /\ \/ q = <<>>
              \/ /\ q = <<Left(P[p].dev)>>
                 /\ P[p].dev # NoDev /\ G[P[p].path] = NoDev

\* What there is at the path that pin r powers, with q its queued events and dev
\* the record of the port that has the path; own says that it is the same port,
\* works that the device at the path works.
Pin(r, own, dev, q, plugged, works) ==
    LET quiet == q = <<>> /\ plugged = NoDev
    IN /\ r.probe # "DOWN"
       /\ r.probe = "DOWN_DONE" \/ (r.probe \in Done /\ ~r.pwr) => quiet
       /\ r.probe = "UP" => quiet \/ /\ works /\ plugged \in Devs
                                     /\ q = <<Arrived(plugged)>>
       /\ r.probe = "DOWN_2" =>
            /\ ~works \/ ("late" \notin Faults /\ "mismatch" \notin Faults) => quiet
            /\ ~own => dev = NoDev /\ (q # <<>> => q[1].what = "ARRIVED")
       /\ r.probe \in Done /\ r.pwr =>
            /\ own /\ dev = plugged /\ plugged \in Devs
            /\ q \in {<<>>, <<Arrived(plugged)>>}

Scanning(P, E, G) ==
    \A p, m \in Ports : P[m].path = wires[p] =>
        /\ Pin(P[p], m = p, P[m].dev, E[wires[p]], G[wires[p]], wires[p] \in there)
        /\ P[p].probe = "UP" => P[m].dev = NoDev

\* A port that was given back to normal operation.
Handed(r, pin, G) ==
    /\ r.mode \in {"IDLE", "RESET"}
    /\ EnableWorks => r.enabled /\ (~r.pwr => r.mode = "RESET")
    /\ r.mode = "RESET" => r.listed # 0
    /\ "link" \notin Faults => r.listed # 2
    /\ r.mode = "IDLE" => r.dev = NoDev /\ G[r.path] = NoDev
    /\ "mismatch" \notin Faults /\ wires[pin] \in there => r.path = wires[pin]

Right(h, E, G) ==
    /\ "mismatch" \notin Faults => ~h.null
    /\ Busy(h.port) =>
        /\ h.file = <<>>
        /\ \A p \in Ports : Lit(h.port[p]) /\ Mapped(h.port[p], p)
        /\ AllDone(h.port)
        /\ EnableWorks => Turn(h.port)
        /\ ~h.null => Leaving(h.port, E, G) \/ Scanning(h.port, E, G)
    /\ ~Busy(h.port) => \A p \in Ports : Handed(h.port[p], p, G)

IInv ==
    /\ plug \in [Ports -> DevOrNone] /\ evq \in [Ports -> Seq(Event)]
    /\ wires \in Orders /\ there \in SUBSET Ports /\ stage \in {"boot", "run", "exit"}
    /\ Base(Here, evq, plug)
    /\ stage \in {"boot", "exit"} =>
        /\ file = <<>> /\ null = FALSE
        /\ \A p \in Ports : /\ port[p].mode # "PROBE" /\ port[p].listed # 2
                            /\ evq[port[p].path] = <<>> /\ plug[port[p].path] = port[p].dev
    /\ stage = "run" /\ Sane => Right(Here, evq, plug)
-----------------------------------------------------------------------------
(* Numbers, ports and paths.                                               *)

\* A set of numbers that is not empty has a least one, which Min finds.
LEMMA Least ==
    ASSUME NEW S \in SUBSET Nat, S # {}
    PROVE  Min(S) \in S /\ \A k \in S : Min(S) <= k
<1>1. PICK n \in S : \A k \in S : ~(<<k, n>> \in OpToRel(<, Nat))
  BY NatLessThanWellFounded, WFMin
<1>2. \A k \in S : ~(k < n)
  BY <1>1 DEF OpToRel
<1>3. \A k \in S : n <= k
  BY <1>2
<1>4. QED
  BY <1>3 DEF Min

LEMMA PortsAreNumbers == Ports \in SUBSET Nat /\ IsFiniteSet(Ports)
BY ProbeAssumption, FS_CardinalityType

\* Every path is powered by a pin, and only by one.
LEMMA Wired ==
    ASSUME NEW f \in Orders
    PROVE  /\ f \in [Ports -> Ports]
           /\ \A p, q \in Ports : f[p] = f[q] => p = q
           /\ \A x \in Ports : \E p \in Ports : f[p] = x
<1>1. f \in Injection(Ports, Ports)
  BY DEF Orders, Injection, IsInjective
<1>2. f \in Surjection(Ports, Ports)
  BY <1>1, PortsAreNumbers, FS_Injection
<1>3. QED
  BY <1>2 DEF Orders, Surjection

LEMMA PinIs ==
    ASSUME wires \in Orders, NEW p \in Ports
    PROVE  PinOf(wires[p]) = p
BY Wired DEF PinOf

LEMMA HolderIs ==
    ASSUME NEW h, Permuted(h.port), NEW path \in Ports
    PROVE  /\ find_port_path(h, path) \in Ports
           /\ h.port[find_port_path(h, path)].path = path
BY DEF Permuted, find_port_path
-----------------------------------------------------------------------------
(* What each function leaves in the fields of a port.                      *)

Is(s, enabled, pwr, mode, dev, listed, probe, path) ==
    /\ s \in ProbePort
    /\ s.enabled = enabled /\ s.pwr = pwr /\ s.mode = mode /\ s.dev = dev
    /\ s.listed = listed /\ s.probe = probe /\ s.path = path

\* The timer that start_timeout and del_timeout leave.
Again(n) == IF n = 0 THEN 1 ELSE 2
Removed(n) == IF n = 2 THEN 2 ELSE 0

LEMMA Members ==
    /\ NoDev \in DevOrNone /\ Devs \subseteq DevOrNone /\ NoDev \notin Devs
    /\ 0 \in Failures /\ 0 \in Few /\ 1 \in Few /\ 2 \in Few
    /\ \A n : Again(n) \in Few /\ Removed(n) \in Few
    /\ {"IDLE", "PING", "RESET", "PROBE"} \subseteq Modes
    /\ {"IDLE", "DOWN", "DOWN_DONE", "UP", "DOWN_2", "DONE", "WRITE_FILE"} = ProbeStates
BY DevsAssumption, RetransAssumption
   DEF DevOrNone, Failures, Few, Modes, ProbeStates, Again, Removed

LEMMA FieldTypes ==
    ASSUME NEW r \in ProbePort
    PROVE  /\ r.enabled \in BOOLEAN /\ r.pwr \in BOOLEAN /\ r.mode \in Modes
           /\ r.dev \in DevOrNone /\ r.listed \in 0 .. 2 /\ r.probe \in ProbeStates
           /\ r.path \in Ports
BY DEF ProbePort, Few

LEMMA StartIs ==
    ASSUME NEW r \in ProbePort
    PROVE  Is(start_timeout(r), r.enabled, r.pwr, r.mode, r.dev, Again(r.listed), r.probe, r.path)
BY Members, Zenon DEF start_timeout, Is, ProbePort, Again

LEMMA DelIs ==
    ASSUME NEW r \in ProbePort
    PROVE  Is(del_timeout(r), r.enabled, r.pwr, r.mode, r.dev, Removed(r.listed), r.probe, r.path)
BY Members, Zenon DEF del_timeout, Is, ProbePort, Removed

LEMMA PutDev ==
    ASSUME NEW r \in ProbePort, NEW d \in DevOrNone
    PROVE  Is([r EXCEPT !.dev = d], r.enabled, r.pwr, r.mode, d, r.listed, r.probe, r.path)
BY Zenon DEF Is, ProbePort

LEMMA PutProbe ==
    ASSUME NEW r \in ProbePort, NEW s \in ProbeStates
    PROVE  Is([r EXCEPT !.probe = s], r.enabled, r.pwr, r.mode, r.dev, r.listed, s, r.path)
BY Zenon DEF Is, ProbePort

LEMMA PutMode ==
    ASSUME NEW r \in ProbePort, NEW m \in Modes
    PROVE  Is([r EXCEPT !.mode = m], r.enabled, r.pwr, m, r.dev, r.listed, r.probe, r.path)
BY Zenon DEF Is, ProbePort

LEMMA PutPower ==
    ASSUME NEW r \in ProbePort, NEW b \in BOOLEAN
    PROVE  /\ Is([r EXCEPT !.pwr = b], r.enabled, b, r.mode, r.dev, r.listed, r.probe, r.path)
           /\ Is([r EXCEPT !.enabled = b, !.pwr = b], b, b, r.mode, r.dev, r.listed, r.probe,
                 r.path)
BY Zenon DEF Is, ProbePort

LEMMA ResetIs ==
    ASSUME NEW r \in ProbePort, r.mode = "PROBE"
    PROVE  Is(reset_port(r), r.enabled, r.pwr, r.mode, NoDev, r.listed, r.probe, r.path)
<1>1. reset_port(r) =
        [r EXCEPT !.dev = NoDev, !.handle = NoDev, !.retrans = 0,
                  !.pings = IF Connected(r) /\ r.handle # NoDev THEN 0 ELSE @]
  BY DEF reset_port
<1>2. QED
  BY <1>1, Members, Zenon DEF Is, ProbePort

LEMMA EnableIs ==
    ASSUME NEW r \in ProbePort, NEW o \in update(r, "ENABLE")
    PROVE  \/ /\ o.ret = 0
              /\ Is(o.port, TRUE, TRUE, r.mode, r.dev, r.listed, r.probe, r.path)
           \/ o.ret # 0 /\ o.port = r /\ ~EnableWorks
<1>1. PICK written \in BOOLEAN : o = gpio_enable(r, written) /\ (~written => "write" \in Faults)
  BY DEF update, gpio_update_port, gpio_write_value
<1>2. o.ret = 0 \/ "ENABLE" \in FailingCmds
  BY DEF update
<1>3. CASE written
  <2>1. o.ret = 0 /\ o.port = [r EXCEPT !.enabled = TRUE, !.pwr = TRUE]
    BY <1>1, <1>3 DEF gpio_enable
  <2>2. QED
    BY <2>1, PutPower
<1>4. CASE ~written
  <2>1. o.ret = -1 /\ o.port = r
    BY <1>1, <1>4 DEF gpio_enable
  <2>2. QED
    BY <1>1, <1>2, <1>4, <2>1 DEF EnableWorks
<1>5. QED
  BY <1>3, <1>4

LEMMA OffIs ==
    ASSUME NEW r \in ProbePort
    PROVE  Is([r EXCEPT !.enabled = FALSE, !.pwr = FALSE, !.mode = "IDLE"],
              FALSE, FALSE, "IDLE", r.dev, r.listed, r.probe, r.path)
BY Members, Zenon DEF Is, ProbePort

LEMMA DisableIs ==
    ASSUME NEW r \in ProbePort, NEW o \in update(r, "DISABLE")
    PROVE  \/ /\ o.ret = 0
              /\ Is(o.port, FALSE, FALSE, "IDLE", r.dev, r.listed, r.probe, r.path)
           \/ o.ret # 0 /\ o.port = r
<1>1. PICK written \in BOOLEAN : o = gpio_disable(r, written)
  BY DEF update, gpio_update_port, gpio_write_value
<1>2. CASE written
  <2>1. o.ret = 0 /\ o.port = [r EXCEPT !.enabled = FALSE, !.pwr = FALSE, !.mode = "IDLE"]
    BY <1>1, <1>2 DEF gpio_disable
  <2>2. QED
    BY <2>1, OffIs
<1>3. CASE ~written
  BY <1>1, <1>3 DEF gpio_disable
<1>4. QED
  BY <1>2, <1>3

\* CMD_RESTART leaves a port that is on in RESET, with its timer.
Restarted(s, r) ==
    /\ s \in ProbePort /\ s.path = r.path /\ s.dev = r.dev
    /\ s.enabled /\ s.mode \in {"IDLE", "RESET"}
    /\ r.pwr => s.mode = "RESET" /\ s.listed # 0
    /\ r.listed = 0 => s.listed # 2

LEMMA RestartIs ==
    ASSUME NEW r \in ProbePort, NEW written \in BOOLEAN
    PROVE  /\ r.enabled => Restarted(gpio_restart(r, written).port, r)
           /\ ~r.enabled => gpio_restart(r, written).port = r
<1> DEFINE m == [r EXCEPT !.mode = "RESET"]
           s == del_timeout(m)
           off == [s EXCEPT !.pwr = FALSE]
           t == [s EXCEPT !.pwr = TRUE]
           on == [s EXCEPT !.pwr = TRUE, !.mode = "IDLE"]
           o == gpio_restart(r, written)
<1>1. Is(m, r.enabled, r.pwr, "RESET", r.dev, r.listed, r.probe, r.path)
  BY PutMode, Members
<1>2. Is(s, r.enabled, r.pwr, "RESET", r.dev, Removed(r.listed), r.probe, r.path)
  <2> HIDE DEF m
  <2>1. Is(s, m.enabled, m.pwr, m.mode, m.dev, Removed(m.listed), m.probe, m.path)
    BY <1>1, DelIs, Zenon DEF Is
  <2>2. QED
    BY <1>1, <2>1, Zenon DEF Is
<1>3. Is(off, r.enabled, FALSE, "RESET", r.dev, Removed(r.listed), r.probe, r.path)
  BY <1>2, Members, Zenon DEF Is, ProbePort
<1>4. Is(on, r.enabled, TRUE, "IDLE", r.dev, Removed(r.listed), r.probe, r.path)
  BY <1>2, Members, Zenon DEF Is, ProbePort
<1>5. o = IF ~r.enabled THEN [port |-> r, ret |-> 0]
          ELSE IF ~written THEN [port |-> start_timeout(s), ret |-> -1]
          ELSE IF r.pwr THEN [port |-> start_timeout(off), ret |-> 0]
          ELSE [port |-> on, ret |-> 0]
  BY Zenon DEF gpio_restart
<1> HIDE DEF s, off, on, o
<1>6. /\ Is(start_timeout(s), r.enabled, r.pwr, "RESET", r.dev, Again(Removed(r.listed)), r.probe,
            r.path)
      /\ Is(start_timeout(off), r.enabled, FALSE, "RESET", r.dev, Again(Removed(r.listed)),
            r.probe, r.path)
  BY <1>2, <1>3, StartIs, Zenon DEF Is
<1>7. r.listed = 0 => Again(Removed(r.listed)) # 2 /\ Removed(r.listed) # 2
  BY DEF Again, Removed
<1>8. Again(Removed(r.listed)) # 0
  BY DEF Again
<1>9. r.enabled => Restarted(start_timeout(s), r) /\ Restarted(start_timeout(off), r)
  BY <1>6, <1>7, <1>8 DEF Is, Restarted
<1>10. r.enabled /\ ~r.pwr => Restarted(on, r)
  BY <1>4, <1>7 DEF Is, Restarted
<1>11. o.port = IF ~r.enabled THEN r ELSE IF ~written THEN start_timeout(s)
                ELSE IF r.pwr THEN start_timeout(off) ELSE on
  BY <1>5
<1>12. QED
  BY <1>9, <1>10, <1>11 DEF o

\* A port as gpio_handler_restart_all_ports leaves it.
Restored(s, r) ==
    /\ s \in ProbePort /\ s.path = r.path /\ s.dev = r.dev
    /\ s.mode \in {"IDLE", "RESET"}
    /\ r.listed = 0 => s.listed # 2
    /\ r.enabled => s.enabled
    /\ r.enabled /\ r.pwr => s.mode = "RESET" /\ s.listed # 0
    /\ ~r.enabled => s.mode = "IDLE" /\ (EnableWorks => s.enabled /\ s.pwr)

LEMMA RestoreIs ==
    ASSUME NEW r \in ProbePort, NEW written \in BOOLEAN,
           ~written => restart_cmd(r) \in FailingCmds /\ "write" \in Faults
    PROVE  Restored(restart_port(r, written), r)
<1>1. CASE r.enabled
  <2>1. restart_port(r, written) = gpio_restart(r, written).port
    BY <1>1 DEF restart_port
  <2>2. QED
    BY <1>1, <2>1, RestartIs DEF Restarted, Restored
<1>2. CASE ~r.enabled
  <2> DEFINE i == [r EXCEPT !.mode = "IDLE"]
             e == [i EXCEPT !.enabled = TRUE, !.pwr = TRUE]
  <2>1. Is(i, r.enabled, r.pwr, "IDLE", r.dev, r.listed, r.probe, r.path)
    BY PutMode, Members
  <2>2. Is(e, TRUE, TRUE, "IDLE", r.dev, r.listed, r.probe, r.path)
    <3> HIDE DEF i
    <3>1. Is(e, TRUE, TRUE, i.mode, i.dev, i.listed, i.probe, i.path)
      BY <2>1, PutPower DEF Is
    <3>2. QED
      BY <2>1, <3>1 DEF Is
  <2>3. restart_port(r, written) = IF written THEN e ELSE i
    BY <1>2 DEF restart_port, gpio_enable
  <2>4. ~written => ~EnableWorks
    BY <1>2 DEF restart_cmd, EnableWorks
  <2> HIDE DEF i, e
  <2>5. QED
    BY <1>2, <2>1, <2>2, <2>3, <2>4 DEF Is, Restored
<1>3. QED
  BY <1>1, <1>2

\* usb_device_added for a port that is not being probed.
LEMMA AddedIs ==
    ASSUME NEW r \in ProbePort, r.mode # "PROBE", NEW d \in Devs, NEW t \in gpio_device_added(r, d)
    PROVE  /\ t \in ProbePort /\ t.path = r.path /\ t.mode # "PROBE"
           /\ r.mode = "RESET" => t = r
<1> DEFINE s == [r EXCEPT !.dev = d, !.mode = "PING"]
           a == attached(r, d)
<1>1. Is(s, r.enabled, r.pwr, "PING", d, r.listed, r.probe, r.path)
  BY Members, Zenon DEF Is, ProbePort
<1>2. a = start_timeout(s)
  BY DEF attached
<1> HIDE DEF s
<1>3. a \in ProbePort /\ a.path = r.path /\ a.mode = "PING"
  BY <1>1, <1>2, StartIs DEF Is
<1> HIDE DEF a
<1>4. ASSUME NEW o \in GpioRestart(a)
      PROVE  o.port \in ProbePort /\ o.port.path = r.path /\ o.port.mode # "PROBE"
  <2>1. PICK written \in BOOLEAN : o = gpio_restart(a, written)
    BY DEF GpioRestart, gpio_update_port, gpio_write_value
  <2>2. QED
    BY <1>3, <2>1, RestartIs DEF Restarted
<1>5. t \in (IF added_ignored(r, d) THEN {r}
             ELSE IF d \in BadDevs THEN {o.port : o \in GpioRestart(a)} ELSE {a})
  BY DEF gpio_device_added, device_added, a
<1>6. r.mode = "RESET" => added_ignored(r, d)
  BY DEF added_ignored
<1>7. QED
  BY <1>3, <1>4, <1>5, <1>6

\* A port after gpio_handler_start_probe.
LEMMA ProbeStartIs ==
    ASSUME NEW r \in ProbePort
    PROVE  Is(start_probe_port(r), FALSE, FALSE, "PROBE", r.dev, Removed(r.listed), "DOWN", r.path)
<1> DEFINE s == [r EXCEPT !.enabled = FALSE, !.pwr = FALSE, !.mode = "IDLE"]
           t == del_timeout(s)
<1>1. Is(s, FALSE, FALSE, "IDLE", r.dev, r.listed, r.probe, r.path)
  BY OffIs
<1>2. start_probe_port(r) = [t EXCEPT !.probe = "DOWN", !.mode = "PROBE"]
  BY DEF start_probe_port, gpio_disable
<1> HIDE DEF s
<1>3. Is(t, s.enabled, s.pwr, s.mode, s.dev, Removed(s.listed), s.probe, s.path)
  BY <1>1, DelIs DEF Is
<1>4. Is(t, FALSE, FALSE, "IDLE", r.dev, Removed(r.listed), r.probe, r.path)
  BY <1>1, <1>3, Zenon DEF Is
<1> HIDE DEF t
<1>5. Is([t EXCEPT !.probe = "DOWN", !.mode = "PROBE"],
         FALSE, FALSE, "PROBE", r.dev, Removed(r.listed), "DOWN", r.path)
  BY <1>4, Members, Zenon DEF Is, ProbePort
<1>6. QED
  BY <1>2, <1>5
-----------------------------------------------------------------------------
(* What each function leaves in the handler's state.                       *)

State(P, f, n) == [port |-> P, file |-> f, null |-> n]

\* One port of the handler's state changes.
Store(h, p, s) == [h EXCEPT !.port[p] = s]
Put(P, p, s) == [P EXCEPT ![p] = s]

\* Only port p has changed.
Only(Q, P, p) == Q \in [Ports -> ProbePort] /\ \A q \in Ports : q # p => Q[q] = P[q]

LEMMA Stored ==
    ASSUME NEW P \in [Ports -> ProbePort], NEW f, NEW n, NEW p \in Ports, NEW s \in ProbePort
    PROVE  /\ Store(State(P, f, n), p, s) = State(Put(P, p, s), f, n)
           /\ Only(Put(P, p, s), P, p) /\ Put(P, p, s)[p] = s
BY DEF State, Store, Put, Only

LEMMA StateIs ==
    ASSUME NEW P, NEW f, NEW n
    PROVE  State(P, f, n).port = P /\ State(P, f, n).file = f /\ State(P, f, n).null = n
BY DEF State

\* Between two turns no timer runs.
Rest(M) == \A p \in Ports : M[p].mode = "PROBE" /\ M[p].listed = 0

\* The next port is being probed, or could not be switched on.
Started(Q, M) ==
    \E u \in Ports :
        /\ M[u].probe = "DOWN_DONE" /\ Only(Q, M, u)
        /\ \/ Is(Q[u], TRUE, TRUE, "PROBE", M[u].dev, 1, "UP", M[u].path)
           \/ /\ ~EnableWorks
              /\ Is(Q[u], M[u].enabled, M[u].pwr, "PROBE", M[u].dev, 1, "DOWN_DONE", M[u].path)

\* Port p writes the file later.
Delayed(Q, M, p) ==
    /\ Only(Q, M, p)
    /\ Is(Q[p], M[p].enabled, M[p].pwr, "PROBE", M[p].dev, 1, "WRITE_FILE", M[p].path)

\* All ports are given back.
Given(s, r) ==
    /\ s \in ProbePort /\ s.path = r.path /\ s.dev = r.dev
    /\ s.mode \in {"IDLE", "RESET"}
    /\ "link" \notin Faults => s.listed # 2
    /\ r.enabled => s.enabled
    /\ r.enabled /\ r.pwr => s.mode = "RESET" /\ s.listed # 0
    /\ ~r.enabled => s.mode = "IDLE" /\ (EnableWorks => s.enabled /\ s.pwr)

Over(Q, M) == Q \in [Ports -> ProbePort] /\ \A q \in Ports : Given(Q[q], M[q])

LEMMA EnableOut ==
    ASSUME NEW M \in [Ports -> ProbePort], Rest(M), NEW f, NEW n,
           In(State(M, f, n), "DOWN_DONE") # {},
           NEW g \in gpio_probe_enable_port(State(M, f, n))
    PROVE  \E Q : g = State(Q, f, n) /\ Started(Q, M)
<1> DEFINE h == State(M, f, n)
           u == Min(In(h, "DOWN_DONE"))
           r == M[u]
           after(o) == start_timeout(IF o.ret = 0 THEN [o.port EXCEPT !.probe = "UP"] ELSE o.port)
<1>1. h.port = M
  BY DEF State
<1>2. u \in In(h, "DOWN_DONE")
  <2>1. In(h, "DOWN_DONE") \in SUBSET Nat
    BY PortsAreNumbers DEF In
  <2>2. QED
    BY <2>1, Least
<1>3. u \in Ports /\ r.probe = "DOWN_DONE" /\ r \in ProbePort /\ r.mode = "PROBE" /\ r.listed = 0
  BY <1>1, <1>2 DEF In, Rest
<1>4. PICK o \in update(r, "ENABLE") : g = [h EXCEPT !.port[u] = after(o)]
  BY <1>1 DEF gpio_probe_enable_port
<1> HIDE DEF h, u
<1>5. \/ Is(after(o), TRUE, TRUE, "PROBE", r.dev, 1, "UP", r.path)
      \/ ~EnableWorks /\ Is(after(o), r.enabled, r.pwr, "PROBE", r.dev, 1, "DOWN_DONE", r.path)
  <2> HIDE DEF r
  <2>0. Again(0) = 1
    BY DEF Again
  <2>1. CASE o.ret = 0
    <3> DEFINE s == [o.port EXCEPT !.probe = "UP"]
    <3>1. Is(o.port, TRUE, TRUE, "PROBE", r.dev, 0, "DOWN_DONE", r.path)
      BY <1>3, <2>1, EnableIs
    <3>2. Is(s, TRUE, TRUE, "PROBE", r.dev, 0, "UP", r.path)
      BY <3>1, PutProbe, Members DEF Is
    <3>3. after(o) = start_timeout(s)
      BY <2>1
    <3> HIDE DEF s, after
    <3>4. Is(after(o), TRUE, TRUE, "PROBE", r.dev, 1, "UP", r.path)
      BY <2>0, <3>2, <3>3, StartIs DEF Is
    <3>5. QED
      BY <3>4
  <2>2. CASE o.ret # 0
    <3>1. o.port = r /\ ~EnableWorks
      BY <1>3, <2>2, EnableIs
    <3>2. after(o) = start_timeout(r)
      BY <2>2, <3>1
    <3> HIDE DEF after
    <3>3. QED
      BY <1>3, <2>0, <3>1, <3>2, StartIs DEF Is
  <2>3. QED
    BY <2>1, <2>2
<1>6. after(o) \in ProbePort
  BY <1>5 DEF Is
<1> HIDE DEF after
<1>7. g = Store(h, u, after(o))
  BY <1>4 DEF Store
<1>8. /\ g = State(Put(M, u, after(o)), f, n) /\ Only(Put(M, u, after(o)), M, u)
      /\ Put(M, u, after(o))[u] = after(o)
  BY <1>3, <1>6, <1>7, Stored DEF h
<1>9. Started(Put(M, u, after(o)), M)
  BY <1>3, <1>5, <1>8 DEF Started
<1>10. QED
  BY <1>8, <1>9

LEMMA ProbeDoneOut ==
    ASSUME NEW M \in [Ports -> ProbePort], Rest(M), NEW f, NEW n,
           NEW g \in handle_probe_done(State(M, f, n))
    PROVE  \E Q : /\ g = State(Q, f, n) /\ Q \in [Ports -> ProbePort]
                  /\ \A q \in Ports : Restored(Q[q], M[q])
<1> DEFINE h == State(M, f, n)
           mayfail == {p \in Ports : FALSE \in gpio_write_value
                                     /\ restart_cmd(h.port[p]) \in FailingCmds}
<1>1. h.port = M
  BY DEF State
<1>2. PICK S \in SUBSET mayfail :
        g = [h EXCEPT !.port = [p \in Ports |-> restart_port(h.port[p], p \notin S)]]
  BY DEF handle_probe_done
<1> DEFINE Q == [p \in Ports |-> restart_port(M[p], p \notin S)]
<1>3. ASSUME NEW p \in Ports PROVE Restored(restart_port(M[p], p \notin S), M[p])
  <2>1. p \in S => restart_cmd(M[p]) \in FailingCmds /\ "write" \in Faults
    BY <1>1 DEF gpio_write_value
  <2>2. (p \notin S) \in BOOLEAN
    OBVIOUS
  <2>3. QED
    BY <2>1, <2>2, RestoreIs
<1>4. Q \in [Ports -> ProbePort] /\ \A q \in Ports : Restored(Q[q], M[q])
  BY <1>3 DEF Restored
<1>5. g = State(Q, f, n)
  BY <1>1, <1>2 DEF State
<1>6. QED
  BY <1>4, <1>5

\* Without a circular list, the timer of a restored port runs at most once.
LEMMA RestoredGiven ==
    ASSUME NEW r, r.listed = 0, NEW s, Restored(s, r)
    PROVE  Given(s, r)
BY DEF Restored, Given

LEMMA LaterIs ==
    ASSUME NEW P \in [Ports -> ProbePort], NEW f, NEW n, NEW p \in Ports
    PROVE  \E Q : /\ write_later(State(P, f, n), p) = State(Q, f, n) /\ Only(Q, P, p)
                  /\ Is(Q[p], P[p].enabled, P[p].pwr, P[p].mode, P[p].dev, Again(P[p].listed),
                        "WRITE_FILE", P[p].path)
<1> DEFINE w == [P[p] EXCEPT !.probe = "WRITE_FILE"]
           s == start_timeout(w)
<1>1. Is(w, P[p].enabled, P[p].pwr, P[p].mode, P[p].dev, P[p].listed, "WRITE_FILE", P[p].path)
  BY PutProbe, Members
<1>2. Is(s, P[p].enabled, P[p].pwr, P[p].mode, P[p].dev, Again(P[p].listed), "WRITE_FILE",
         P[p].path)
  <2> HIDE DEF w
  <2>1. QED
    BY <1>1, StartIs DEF Is
<1>3. write_later(State(P, f, n), p) = Store(State(P, f, n), p, s)
  BY DEF write_later, State, Store
<1> HIDE DEF s
<1>4. s \in ProbePort
  BY <1>2 DEF Is
<1>5. /\ write_later(State(P, f, n), p) = State(Put(P, p, s), f, n)
      /\ Only(Put(P, p, s), P, p) /\ Put(P, p, s)[p] = s
  BY <1>3, <1>4, Stored
<1>6. QED
  BY <1>2, <1>5

LEMMA ConfigOut ==
    ASSUME NEW M \in [Ports -> ProbePort], Rest(M), NEW f, NEW n, NEW p \in Ports,
           NEW g \in gpio_write_config(State(M, f, n), p)
    PROVE  \/ \E Q : g = State(Q, f, n) /\ Delayed(Q, M, p)
           \/ \E Q, F : g = State(Q, F, n) /\ Over(Q, M) /\ (F = f \/ DOMAIN F = Ports)
<1> DEFINE h == State(M, f, n)
           json == gpio_create_mapping_json(port_list(h.port))
<1>0. DOMAIN json = Ports
  BY DEF gpio_create_mapping_json, port_list
<1> HIDE DEF json
<1>1. \/ \E d \in handle_probe_done(h) : g = [d EXCEPT !.file = json]
      \/ g = write_later(h, p)
      \/ \E d \in handle_probe_done(h) : "link" \in Faults /\ g = write_later(d, p)
  BY DEF gpio_write_config, json
<1>2. ASSUME NEW d \in handle_probe_done(h), g = [d EXCEPT !.file = json]
      PROVE  \E Q, F : g = State(Q, F, n) /\ Over(Q, M) /\ (F = f \/ DOMAIN F = Ports)
  <2>1. PICK Q : /\ d = State(Q, f, n) /\ Q \in [Ports -> ProbePort]
                 /\ \A q \in Ports : Restored(Q[q], M[q])
    BY ProbeDoneOut
  <2>2. g = State(Q, json, n)
    BY <1>2, <2>1 DEF State
  <2>3. Over(Q, M)
    BY <2>1, RestoredGiven DEF Over, Rest
  <2>4. QED
    BY <1>0, <2>2, <2>3
<1>3. ASSUME g = write_later(h, p) PROVE \E Q : g = State(Q, f, n) /\ Delayed(Q, M, p)
  <2>1. M[p].mode = "PROBE" /\ Again(M[p].listed) = 1
    BY DEF Rest, Again
  <2>2. QED
    BY <1>3, <2>1, LaterIs DEF Delayed
<1>4. ASSUME NEW d \in handle_probe_done(h), "link" \in Faults, g = write_later(d, p)
      PROVE  \E Q, F : g = State(Q, F, n) /\ Over(Q, M) /\ (F = f \/ DOMAIN F = Ports)
  <2>1. PICK R : /\ d = State(R, f, n) /\ R \in [Ports -> ProbePort]
                 /\ \A q \in Ports : Restored(R[q], M[q])
    BY ProbeDoneOut
  <2>2. PICK Q : /\ g = State(Q, f, n) /\ Only(Q, R, p)
                 /\ Is(Q[p], R[p].enabled, R[p].pwr, R[p].mode, R[p].dev, Again(R[p].listed),
                       "WRITE_FILE", R[p].path)
    BY <1>4, <2>1, LaterIs
  <2>3. Again(R[p].listed) # 0
    BY DEF Again
  <2>4. Given(Q[p], M[p])
    BY <1>4, <2>1, <2>2, <2>3 DEF Restored, Given, Is
  <2>5. \A q \in Ports : q # p => Given(Q[q], M[q])
    BY <2>1, <2>2, RestoredGiven DEF Only, Rest
  <2>6. Over(Q, M)
    BY <2>2, <2>4, <2>5 DEF Over, Only
  <2>7. QED
    BY <2>2, <2>6
<1>5. QED
  BY <1>1, <1>2, <1>3, <1>4

\* What follows when port p is done: the next port, or the file.
Outcome(g, M, f, n, p) ==
    \/ /\ \E u \in Ports : M[u].probe = "DOWN_DONE"
       /\ \E Q : g = State(Q, f, n) /\ Started(Q, M)
    \/ /\ \A u \in Ports : M[u].probe # "DOWN_DONE"
       /\ \/ \E Q : g = State(Q, f, n) /\ Delayed(Q, M, p)
          \/ \E Q, F : g = State(Q, F, n) /\ Over(Q, M) /\ (F = f \/ DOMAIN F = Ports)

\* Port p is done, and its timer stopped.
Finished(M, P, p) ==
    /\ Only(M, P, p)
    /\ Is(M[p], P[p].enabled, P[p].pwr, "PROBE", P[p].dev, 0, "DONE", P[p].path)

\* No other port than p has a timer.
Alone(P, p) ==
    /\ P[p].listed # 2
    /\ \A q \in Ports : P[q].mode = "PROBE" /\ (q # p => P[q].listed = 0)

LEMMA NextOut ==
    ASSUME NEW P \in [Ports -> ProbePort], Rest(P), NEW f, NEW n, NEW p \in Ports,
           NEW g \in probe_next(State(P, f, n), p)
    PROVE  \E M : Finished(M, P, p) /\ Outcome(g, M, f, n, p)
<1> DEFINE s == [P[p] EXCEPT !.probe = "DONE"]
           M == Put(P, p, s)
           d == State(M, f, n)
<1>1. Is(s, P[p].enabled, P[p].pwr, "PROBE", P[p].dev, 0, "DONE", P[p].path)
  BY PutProbe, Members DEF Rest
<1>2. [State(P, f, n) EXCEPT !.port[p].probe = "DONE"] = Store(State(P, f, n), p, s)
  BY DEF Store, State
<1> HIDE DEF s
<1>3. s \in ProbePort
  BY <1>1 DEF Is
<1>4. Store(State(P, f, n), p, s) = d /\ Only(M, P, p) /\ M[p] = s
  BY <1>3, Stored
<1> HIDE DEF M
<1>5. Finished(M, P, p)
  BY <1>1, <1>4 DEF Finished
<1>6. M \in [Ports -> ProbePort] /\ Rest(M)
  <2>1. \A q \in Ports : M[q].mode = "PROBE" /\ M[q].listed = 0
    BY <1>1, <1>4 DEF Only, Rest, Is
  <2>2. QED
    BY <1>4, <2>1 DEF Only, Rest
<1>7. In(d, "DOWN_DONE") = {u \in Ports : M[u].probe = "DOWN_DONE"}
  BY StateIs DEF In
<1>8. g \in IF In(d, "DOWN_DONE") # {} THEN gpio_probe_enable_port(d) ELSE gpio_write_config(d, p)
  <2>1. g \in LET e == [State(P, f, n) EXCEPT !.port[p].probe = "DONE"]
              IN IF In(e, "DOWN_DONE") # {} THEN gpio_probe_enable_port(e)
                 ELSE gpio_write_config(e, p)
    BY DEF probe_next
  <2> HIDE DEF d
  <2>2. QED
    BY <1>2, <1>4, <2>1
<1>9. CASE In(d, "DOWN_DONE") # {}
  <2>1. \E Q : g = State(Q, f, n) /\ Started(Q, M)
    BY <1>6, <1>8, <1>9, EnableOut
  <2>2. QED
    BY <1>5, <1>7, <1>9, <2>1 DEF Outcome
<1>10. CASE In(d, "DOWN_DONE") = {}
  <2>1. \/ \E Q : g = State(Q, f, n) /\ Delayed(Q, M, p)
        \/ \E Q, F : g = State(Q, F, n) /\ Over(Q, M) /\ (F = f \/ DOMAIN F = Ports)
    BY <1>6, <1>8, <1>10, ConfigOut
  <2>2. \A u \in Ports : M[u].probe # "DOWN_DONE"
    BY <1>7, <1>10
  <2>3. QED
    BY <1>5, <2>1, <2>2 DEF Outcome
<1>11. QED
  BY <1>9, <1>10

\* The timer of port p is taken off the list.
LEMMA StoppedIs ==
    ASSUME NEW P \in [Ports -> ProbePort], NEW p \in Ports, Alone(P, p)
    PROVE  \E D : /\ \A f, n : [State(P, f, n) EXCEPT !.port[p] = del_timeout(@)] = State(D, f, n)
                  /\ \A f, n : [State(P, f, n) EXCEPT !.port[p] = del_timeout(P[p])]
                                    = State(D, f, n)
                  /\ Only(D, P, p) /\ Rest(D)
                  /\ Is(D[p], P[p].enabled, P[p].pwr, "PROBE", P[p].dev, 0, P[p].probe, P[p].path)
<1> DEFINE s == del_timeout(P[p])
           D == Put(P, p, s)
<1>1. Removed(P[p].listed) = 0
  BY DEF Removed, Alone
<1>2. Is(s, P[p].enabled, P[p].pwr, "PROBE", P[p].dev, 0, P[p].probe, P[p].path)
  BY <1>1, DelIs DEF Alone
<1>3. \A f, n : [State(P, f, n) EXCEPT !.port[p] = del_timeout(@)] = Store(State(P, f, n), p, s)
  BY DEF Store, State
<1>4. \A f, n : [State(P, f, n) EXCEPT !.port[p] = del_timeout(P[p])] = Store(State(P, f, n), p, s)
  BY DEF Store
<1> HIDE DEF s
<1>5. s \in ProbePort
  BY <1>2 DEF Is
<1>6. (\A f, n : Store(State(P, f, n), p, s) = State(D, f, n)) /\ Only(D, P, p) /\ D[p] = s
  BY <1>5, Stored
<1> HIDE DEF D
<1>7. Rest(D)
  BY <1>2, <1>6 DEF Alone, Rest, Only, Is
<1>8. WITNESS D
<1>9. QED
  BY <1>2, <1>3, <1>4, <1>6, <1>7

LEMMA ProbedOut ==
    ASSUME NEW P \in [Ports -> ProbePort], NEW f, NEW n, NEW p \in Ports, Alone(P, p),
           NEW g \in probed(State(P, f, n), p)
    PROVE  \E M : Finished(M, P, p) /\ Outcome(g, M, f, n, p)
<1>1. PICK D : /\ [State(P, f, n) EXCEPT !.port[p] = del_timeout(@)] = State(D, f, n)
               /\ Only(D, P, p) /\ Rest(D)
               /\ Is(D[p], P[p].enabled, P[p].pwr, "PROBE", P[p].dev, 0, P[p].probe, P[p].path)
  BY StoppedIs
<1>2. g \in probe_next(State(D, f, n), p)
  BY <1>1 DEF probed
<1>3. PICK M : Finished(M, D, p) /\ Outcome(g, M, f, n, p)
  BY <1>1, <1>2, NextOut DEF Only
<1>4. Finished(M, P, p)
  BY <1>1, <1>3 DEF Finished, Only, Is
<1>5. QED
  BY <1>3, <1>4

\* Port m records the device d.
Noted(Q, P, m, d) ==
    /\ Only(Q, P, m)
    /\ Is(Q[m], P[m].enabled, P[m].pwr, P[m].mode, d, P[m].listed, P[m].probe, P[m].path)

\* Port u takes the path of m, with the device d, and m gets the path of u; u
\* is then done.
Swapped(M, P, m, u, d) ==
    /\ M \in [Ports -> ProbePort] /\ \A q \in Ports : q \notin {m, u} => M[q] = P[q]
    /\ Is(M[m], P[m].enabled, P[m].pwr, "PROBE", NoDev, 0, P[m].probe, P[u].path)
    /\ Is(M[u], P[u].enabled, P[u].pwr, "PROBE", d, 0, "DONE", P[m].path)

\* gpio_handler_handle_probe_connect, seen from port m at whose path the device
\* was reported.
Reported(g, P, f, n, m, d) ==
    \/ P[m].dev = d /\ g = State(P, f, n)
    \/ /\ P[m].dev # d /\ P[m].probe = "DOWN_2"
       /\ \E Q : g = State(Q, f, n) /\ Noted(Q, P, m, d)
    \/ /\ P[m].dev # d /\ P[m].probe = "UP"
       /\ \E Q, M : Noted(Q, P, m, d) /\ Finished(M, Q, m) /\ Outcome(g, M, f, n, m)
    \/ /\ P[m].dev # d /\ P[m].probe \notin {"UP", "DOWN_2"}
       /\ \E u \in Ports : /\ P[u].probe = "UP"
                           /\ \E M : Swapped(M, P, m, u, d) /\ Outcome(g, M, f, n, u)
    \/ /\ P[m].dev # d /\ P[m].probe # "DOWN_2" /\ \A u \in Ports : P[u].probe # "UP"
       /\ \E Q : g = State(Q, f, TRUE) /\ Noted(Q, P, m, d)

LEMMA NotedIs ==
    ASSUME NEW P \in [Ports -> ProbePort], NEW m \in Ports, NEW d \in DevOrNone
    PROVE  \E Q : Noted(Q, P, m, d)
                  /\ \A f, n : [State(P, f, n) EXCEPT !.port[m].dev = d] = State(Q, f, n)
<1> DEFINE s == [P[m] EXCEPT !.dev = d]
           Q == Put(P, m, s)
<1>1. Is(s, P[m].enabled, P[m].pwr, P[m].mode, d, P[m].listed, P[m].probe, P[m].path)
  BY PutDev
<1>2. \A f, n : [State(P, f, n) EXCEPT !.port[m].dev = d] = Store(State(P, f, n), m, s)
  BY DEF Store, State
<1> HIDE DEF s
<1>3. s \in ProbePort
  BY <1>1 DEF Is
<1>4. (\A f, n : Store(State(P, f, n), m, s) = State(Q, f, n)) /\ Only(Q, P, m) /\ Q[m] = s
  BY <1>3, Stored
<1> HIDE DEF Q
<1>5. WITNESS Q
<1>6. QED
  BY <1>1, <1>2, <1>4 DEF Noted

\* A swap leaves two ports with the paths exchanged.
LEMMA SwapIs ==
    ASSUME NEW P \in [Ports -> ProbePort], NEW f, NEW n, NEW m \in Ports, NEW u \in Ports, m # u
    PROVE  \E Q : /\ swap_port_info(State(P, f, n), m, u) = State(Q, f, n)
                  /\ Q \in [Ports -> ProbePort] /\ \A q \in Ports : q \notin {m, u} => Q[q] = P[q]
                  /\ Is(Q[m], P[m].enabled, P[m].pwr, P[m].mode, NoDev, P[m].listed, P[m].probe,
                        P[u].path)
                  /\ Is(Q[u], P[u].enabled, P[u].pwr, P[u].mode, P[m].dev, P[u].listed,
                        P[u].probe, P[m].path)
<1> DEFINE a == [P[u] EXCEPT !.path = P[m].path, !.dev = P[m].dev]
           b == [P[m] EXCEPT !.path = P[u].path, !.dev = NoDev]
           A == Put(P, u, a)
           Q == Put(A, m, b)
<1>0. P[m] \in ProbePort /\ P[u] \in ProbePort
  OBVIOUS
<1>1. /\ Is(a, P[u].enabled, P[u].pwr, P[u].mode, P[m].dev, P[u].listed, P[u].probe, P[m].path)
      /\ Is(b, P[m].enabled, P[m].pwr, P[m].mode, NoDev, P[m].listed, P[m].probe, P[u].path)
  <2>1. ASSUME NEW r \in ProbePort, NEW x \in Ports, NEW d \in DevOrNone
        PROVE  Is([r EXCEPT !.path = x, !.dev = d], r.enabled, r.pwr, r.mode, d, r.listed,
                  r.probe, x)
    BY Zenon DEF Is, ProbePort
  <2>2. P[m].path \in Ports /\ P[u].path \in Ports /\ P[m].dev \in DevOrNone
    BY <1>0, FieldTypes
  <2>3. QED
    BY <1>0, <2>1, <2>2, Members
<1>2. swap_port_info(State(P, f, n), m, u) = Store(Store(State(P, f, n), u, a), m, b)
  BY DEF swap_port_info, Store, State
<1> HIDE DEF a, b
<1>3. a \in ProbePort /\ b \in ProbePort
  BY <1>1 DEF Is
<1>4. Store(State(P, f, n), u, a) = State(A, f, n) /\ Only(A, P, u) /\ A[u] = a
  BY <1>3, Stored
<1> HIDE DEF A
<1>5. Store(State(A, f, n), m, b) = State(Q, f, n) /\ Only(Q, A, m) /\ Q[m] = b
  BY <1>3, <1>4, Stored DEF Only
<1> HIDE DEF Q
<1>6. WITNESS Q
<1>7. QED
  BY <1>1, <1>2, <1>4, <1>5 DEF Only

\* A port whose turn it is has the only timer.
LEMMA SerialAlone ==
    ASSUME NEW P \in [Ports -> ProbePort], Serial(P), NEW p \in Ports,
           P[p].listed # 0 \/ P[p].probe \in {"UP", "DOWN_2", "WRITE_FILE"}
    PROVE  /\ Alone(P, p) /\ P[p].listed = 1
           /\ \A q \in Ports : P[q].probe \in {"UP", "DOWN_2", "WRITE_FILE"} => q = p
<1>1. \A q \in Ports : P[q].listed \in 0 .. 2
  BY FieldTypes
<1>2. QED
  BY <1>1 DEF Serial, Alone

LEMMA AddedOut ==
    ASSUME NEW P \in [Ports -> ProbePort], Permuted(P), Serial(P), NEW f, NEW n, NEW m \in Ports,
           NEW d \in Devs, NEW g \in probe_device_added(State(P, f, n), P[m].path, d)
    PROVE  Reported(g, P, f, n, m, d)
<1> DEFINE h == State(P, f, n)
<1>0. h.port = P
  BY StateIs
<1>1. find_port_path(h, P[m].path) = m /\ P[m].mode = "PROBE"
  <2>1. P[m].path \in Ports
    BY FieldTypes
  <2>2. Permuted(h.port)
    BY <1>0
  <2> HIDE DEF h
  <2>3. /\ find_port_path(h, P[m].path) \in Ports
        /\ P[find_port_path(h, P[m].path)].path = P[m].path
    BY <1>0, <2>1, <2>2, HolderIs
  <2>4. QED
    BY <2>3 DEF Permuted, Serial
<1>2. added_ignored(P[m], d) <=> P[m].dev = d
  BY <1>1 DEF added_ignored
<1>3. g \in IF P[m].dev # d THEN handle_probe_connect([h EXCEPT !.port[m].dev = d], m)
            ELSE {[h EXCEPT !.port[m] = t] : t \in gpio_device_added(P[m], d)}
  <2>1. g \in LET k == find_port_path(h, P[m].path)
                  r == h.port[k]
              IN IF r.mode = "PROBE" /\ ~added_ignored(r, d)
                 THEN handle_probe_connect([h EXCEPT !.port[k].dev = d], k)
                 ELSE {[h EXCEPT !.port[k] = t] : t \in gpio_device_added(r, d)}
    BY DEF probe_device_added
  <2> HIDE DEF h
  <2>2. QED
    BY <1>0, <1>1, <1>2, <2>1
<1>4. CASE P[m].dev = d
  <2>1. gpio_device_added(P[m], d) = {P[m]}
    BY <1>2, <1>4 DEF gpio_device_added, device_added
  <2>2. g = [h EXCEPT !.port[m] = P[m]]
    BY <1>3, <1>4, <2>1
  <2>3. g = h
    BY <2>2 DEF State
  <2>4. QED
    BY <1>4, <2>3 DEF Reported
<1>5. CASE P[m].dev # d
  <2>1. PICK Q : Noted(Q, P, m, d) /\ [h EXCEPT !.port[m].dev = d] = State(Q, f, n)
    BY NotedIs, Members
  <2> DEFINE e == State(Q, f, n)
  <2>2. g \in handle_probe_connect(e, m)
    BY <1>3, <1>5, <2>1
  <2>3. /\ e.port = Q /\ Q \in [Ports -> ProbePort] /\ Q[m].dev = d
        /\ \A q \in Ports : /\ Q[q].probe = P[q].probe /\ Q[q].listed = P[q].listed
                            /\ Q[q].mode = P[q].mode
    BY <2>1, StateIs DEF Noted, Only, Is
  <2>4. \A q \in Ports : Alone(P, q) => Alone(Q, q)
    BY <2>3 DEF Alone
  <2>5. In(e, "UP") = {u \in Ports : P[u].probe = "UP"}
    BY <2>3 DEF In
  <2>6. CASE P[m].probe = "DOWN_2"
    <3>1. g = e
      BY <2>2, <2>3, <2>6 DEF handle_probe_connect
    <3>2. QED
      BY <1>5, <2>1, <2>6, <3>1 DEF Reported
  <2>7. CASE P[m].probe = "UP"
    <3>1. g \in probed(e, m)
      BY <2>2, <2>3, <2>7 DEF handle_probe_connect
    <3>2. PICK M : Finished(M, Q, m) /\ Outcome(g, M, f, n, m)
      BY <2>3, <2>4, <2>7, <3>1, SerialAlone, ProbedOut
    <3>3. QED
      BY <1>5, <2>1, <2>7, <3>2 DEF Reported
  <2>8. CASE P[m].probe \notin {"UP", "DOWN_2"} /\ In(e, "UP") # {}
    <3> DEFINE u == Min(In(e, "UP"))
    <3>1. u \in Ports /\ P[u].probe = "UP" /\ u # m
      <4>1. In(e, "UP") \in SUBSET Nat
        BY PortsAreNumbers DEF In
      <4>2. u \in In(e, "UP")
        BY <2>8, <4>1, Least
      <4>3. QED
        BY <2>5, <2>8, <4>2
    <3>2. g \in probed(swap_port_info(e, m, u), u)
      BY <2>2, <2>3, <2>8 DEF handle_probe_connect
    <3> HIDE DEF u
    <3>3. PICK R : /\ swap_port_info(e, m, u) = State(R, f, n)
                   /\ R \in [Ports -> ProbePort]
                   /\ \A q \in Ports : q \notin {m, u} => R[q] = Q[q]
                   /\ Is(R[m], Q[m].enabled, Q[m].pwr, Q[m].mode, NoDev, Q[m].listed,
                         Q[m].probe, Q[u].path)
                   /\ Is(R[u], Q[u].enabled, Q[u].pwr, Q[u].mode, Q[m].dev, Q[u].listed,
                         Q[u].probe, Q[m].path)
      BY <2>3, <3>1, SwapIs
    <3>4. Alone(P, u) /\ P[m].listed = 0 /\ P[u].mode = "PROBE" /\ P[m].mode = "PROBE"
      BY <1>1, <3>1, SerialAlone DEF Alone
    <3>5. Alone(R, u)
      BY <2>3, <3>1, <3>3, <3>4 DEF Alone, Is
    <3>6. PICK M : Finished(M, R, u) /\ Outcome(g, M, f, n, u)
      BY <3>1, <3>2, <3>3, <3>5, ProbedOut
    <3>7. Is(M[m], P[m].enabled, P[m].pwr, "PROBE", NoDev, 0, P[m].probe, P[u].path)
      BY <2>1, <3>1, <3>3, <3>4, <3>6 DEF Finished, Only, Noted, Is
    <3>8. Is(M[u], P[u].enabled, P[u].pwr, "PROBE", d, 0, "DONE", P[m].path)
      BY <2>1, <3>1, <3>3, <3>4, <3>6 DEF Finished, Only, Noted, Is
    <3>9. Swapped(M, P, m, u, d)
      BY <2>1, <3>1, <3>3, <3>6, <3>7, <3>8 DEF Swapped, Finished, Only, Noted
    <3>10. QED
      BY <1>5, <2>8, <3>1, <3>6, <3>9 DEF Reported
  <2>9. CASE P[m].probe \notin {"UP", "DOWN_2"} /\ In(e, "UP") = {}
    <3>1. g = [e EXCEPT !.null = TRUE]
      BY <2>2, <2>3, <2>9 DEF handle_probe_connect
    <3>2. g = State(Q, f, TRUE)
      BY <3>1 DEF State
    <3>3. \A u \in Ports : P[u].probe # "UP"
      BY <2>5, <2>9
    <3>4. QED
      BY <1>5, <2>1, <2>9, <3>2, <3>3 DEF Reported
  <2>10. QED
    BY <2>6, <2>7, <2>8, <2>9
<1>6. QED
  BY <1>4, <1>5

\* The timer of port p is off the list, and nothing else has changed.
Stopped(D, P, p) ==
    /\ Only(D, P, p)
    /\ Is(D[p], P[p].enabled, P[p].pwr, "PROBE", P[p].dev, 0, P[p].probe, P[p].path)

\* gpio_on_probe_down_done marks port p, whose timer expired, and the ports
\* before the first one that has a device.
Marked(P, q) == \A x \in Ports : Connected(P[x]) => q < x

Cleared(M, P, p) ==
    /\ M \in [Ports -> ProbePort]
    /\ \A q \in Ports :
        Is(M[q], P[q].enabled, P[q].pwr, "PROBE", P[q].dev, 0,
           IF q = p \/ Marked(P, q) THEN "DOWN_DONE" ELSE P[q].probe, P[q].path)

\* Port w, which still has a device, waits for it to leave.
Waits(Q, M, w) ==
    /\ Only(Q, M, w) /\ Connected(M[w])
    /\ Is(Q[w], M[w].enabled, M[w].pwr, "PROBE", M[w].dev, 1, M[w].probe, M[w].path)

\* gpio_on_probe_down_done when the timer of port p has expired.
Downed(h, p) == [h EXCEPT !.port[p].probe = "DOWN_DONE"]

Settling(g, P, f, n, p) ==
    \E M : /\ Cleared(M, P, p)
           /\ \/ /\ \A q \in Ports : ~Connected(P[q])
                 /\ \E Q : g = State(Q, f, n) /\ Started(Q, M)
              \/ \E Q : \E w \in Ports : g = State(Q, f, n) /\ Waits(Q, M, w)

\* gpio_handle_probe_up_timeout: port p is off, or could not be switched off.
GivenUp(g, P, f, n, p) ==
    \E Q : /\ g = State(Q, f, n) /\ Only(Q, P, p)
           /\ \/ Is(Q[p], FALSE, FALSE, "PROBE", P[p].dev, 1, "DOWN_2", P[p].path)
              \/ Is(Q[p], P[p].enabled, P[p].pwr, "PROBE", P[p].dev, 1, P[p].probe, P[p].path)

\* gpio_on_probe_timeout for port p.
Expired(g, P, f, n, p) ==
    \/ P[p].probe \in {"DOWN", "DOWN_DONE"} /\ Settling(g, P, f, n, p)
    \/ P[p].probe = "UP" /\ GivenUp(g, P, f, n, p)
    \/ P[p].probe = "DOWN_2" /\ \E M : Finished(M, P, p) /\ Outcome(g, M, f, n, p)
    \/ /\ P[p].probe = "WRITE_FILE"
       /\ \E M : /\ Stopped(M, P, p)
                 /\ \/ \E Q : g = State(Q, f, n) /\ Delayed(Q, M, p)
                    \/ \E Q, F : g = State(Q, F, n) /\ Over(Q, M) /\ (F = f \/ DOMAIN F = Ports)
    \/ P[p].probe \in {"IDLE", "DONE"} /\ \E Q : g = State(Q, f, n) /\ Stopped(Q, P, p)

LEMMA DownDoneOut ==
    ASSUME NEW P \in [Ports -> ProbePort], Rest(P), NEW f, NEW n, NEW p \in Ports,
           NEW g \in gpio_on_probe_down_done(Downed(State(P, f, n), p))
    PROVE  Settling(g, P, f, n, p)
<1> DEFINE s == [P[p] EXCEPT !.probe = "DOWN_DONE"]
           D == Put(P, p, s)
           h == State(D, f, n)
           still == {q \in Ports : Connected(P[q])}
           marked == {q \in Ports : \A x \in still : q < x}
           M == [q \in Ports |-> IF q \in marked THEN [D[q] EXCEPT !.probe = "DOWN_DONE"]
                                 ELSE D[q]]
           d == State(M, f, n)
<1>1. Is(s, P[p].enabled, P[p].pwr, "PROBE", P[p].dev, 0, "DOWN_DONE", P[p].path)
  BY PutProbe, Members DEF Rest
<1>2. Downed(State(P, f, n), p) = Store(State(P, f, n), p, s)
  BY DEF Store, State, Downed
<1> HIDE DEF s
<1>3. s \in ProbePort
  BY <1>1 DEF Is
<1>4. Store(State(P, f, n), p, s) = h /\ Only(D, P, p) /\ D[p] = s
  BY <1>3, Stored
<1> HIDE DEF D
<1>5. D \in [Ports -> ProbePort] /\ \A q \in Ports : D[q].dev = P[q].dev
  BY <1>1, <1>4 DEF Only, Is
<1>6. ASSUME NEW q \in Ports
      PROVE  /\ M[q] \in ProbePort
             /\ Is(M[q], P[q].enabled, P[q].pwr, "PROBE", P[q].dev, 0,
                   IF q = p \/ Marked(P, q) THEN "DOWN_DONE" ELSE P[q].probe, P[q].path)
  <2>1. q \in marked <=> Marked(P, q)
    BY DEF Marked
  <2>2. Is(D[q], P[q].enabled, P[q].pwr, "PROBE", P[q].dev, 0,
           IF q = p THEN "DOWN_DONE" ELSE P[q].probe, P[q].path)
    BY <1>1, <1>4 DEF Only, Rest, Is
  <2>3. Is([D[q] EXCEPT !.probe = "DOWN_DONE"], P[q].enabled, P[q].pwr, "PROBE", P[q].dev, 0,
           "DOWN_DONE", P[q].path)
    BY <1>5, <2>2, PutProbe, Members DEF Is
  <2>4. M[q] = IF q \in marked THEN [D[q] EXCEPT !.probe = "DOWN_DONE"] ELSE D[q]
    OBVIOUS
  <2> HIDE DEF marked, M
  <2>5. CASE q \in marked
    BY <2>1, <2>3, <2>4, <2>5 DEF Is
  <2>6. CASE q \notin marked
    BY <2>1, <2>2, <2>4, <2>6 DEF Is
  <2>7. QED
    BY <2>5, <2>6
<1>7. Cleared(M, P, p) /\ Rest(M)
  <2>1. M \in [Ports -> ProbePort]
    BY <1>6
  <2> HIDE DEF M
  <2>2. QED
    BY <1>6, <2>1 DEF Cleared, Rest, Is
<1>8. g \in IF still = {} THEN gpio_probe_enable_port(d)
            ELSE {[d EXCEPT !.port[Min(still)] = start_timeout(@)]}
  <2>1. g \in gpio_on_probe_down_done(h)
    BY <1>2, <1>4
  <2>2. h.port = D
    BY StateIs
  <2>3. still = {q \in Ports : Connected(h.port[q])}
    BY <1>5, <2>2 DEF Connected
  <2>4. d = [h EXCEPT !.port = [q \in Ports |->
                IF q \in marked THEN [h.port[q] EXCEPT !.probe = "DOWN_DONE"] ELSE h.port[q]]]
    BY <2>2 DEF State
  <2> HIDE DEF h, d, still
  <2>5. QED
    BY <2>1, <2>3, <2>4 DEF gpio_on_probe_down_done
<1> HIDE DEF M
<1>9. CASE still = {}
  <2>1. \A q \in Ports : ~Connected(P[q])
    BY <1>9
  <2>2. p \in Ports /\ M[p].probe = "DOWN_DONE"
    BY <1>6 DEF Is
  <2>3. In(d, "DOWN_DONE") # {}
    BY <2>2, StateIs DEF In
  <2>4. \E Q : g = State(Q, f, n) /\ Started(Q, M)
    BY <1>7, <1>8, <1>9, <2>3, EnableOut DEF Cleared
  <2>5. QED
    BY <1>7, <2>1, <2>4 DEF Settling
<1>10. CASE still # {}
  <2> DEFINE w == Min(still)
             t == start_timeout(M[w])
  <2>1. w \in Ports /\ Connected(P[w])
    <3>1. still \in SUBSET Nat
      BY PortsAreNumbers
    <3>2. w \in still
      BY <1>10, <3>1, Least
    <3>3. QED
      BY <3>2
  <2>2. g = [d EXCEPT !.port[w] = start_timeout(@)]
    BY <1>8, <1>10
  <2> HIDE DEF w
  <2>3. g = Store(State(M, f, n), w, t)
    BY <2>2 DEF Store, State
  <2>4. M[w] \in ProbePort /\ Again(M[w].listed) = 1 /\ M[w].mode = "PROBE" /\ Connected(M[w])
    BY <1>6, <2>1 DEF Again, Is, Connected
  <2>5. Is(t, M[w].enabled, M[w].pwr, "PROBE", M[w].dev, 1, M[w].probe, M[w].path)
    BY <2>4, StartIs
  <2> HIDE DEF t
  <2>6. t \in ProbePort
    BY <2>5 DEF Is
  <2>7. g = State(Put(M, w, t), f, n) /\ Only(Put(M, w, t), M, w) /\ Put(M, w, t)[w] = t
    BY <1>7, <2>1, <2>3, <2>6, Stored DEF Cleared
  <2>8. Waits(Put(M, w, t), M, w)
    BY <2>4, <2>5, <2>7 DEF Waits
  <2>9. QED
    BY <1>7, <2>1, <2>7, <2>8 DEF Settling
<1>11. QED
  BY <1>9, <1>10

LEMMA UpOut ==
    ASSUME NEW P \in [Ports -> ProbePort], Rest(P), NEW f, NEW n, NEW p \in Ports,
           NEW g \in gpio_handle_probe_up_timeout(State(P, f, n), p)
    PROVE  GivenUp(g, P, f, n, p)
<1> DEFINE h == State(P, f, n)
           r == P[p]
           after(o) == start_timeout(IF o.ret = 0
                                     THEN [o.port EXCEPT !.probe = "DOWN_2", !.mode = "PROBE"]
                                     ELSE o.port)
<1>1. h.port = P
  BY StateIs
<1>2. r \in ProbePort /\ r.mode = "PROBE" /\ r.listed = 0
  BY DEF Rest
<1>3. PICK o \in update(r, "DISABLE") : g = [h EXCEPT !.port[p] = after(o)]
  BY <1>1 DEF gpio_handle_probe_up_timeout
<1>4. Again(0) = 1
  BY DEF Again
<1> HIDE DEF h
<1>5. \/ Is(after(o), FALSE, FALSE, "PROBE", r.dev, 1, "DOWN_2", r.path)
      \/ Is(after(o), r.enabled, r.pwr, "PROBE", r.dev, 1, r.probe, r.path)
  <2> HIDE DEF r
  <2>1. CASE o.ret = 0
    <3> DEFINE s == [o.port EXCEPT !.probe = "DOWN_2", !.mode = "PROBE"]
    <3>1. Is(o.port, FALSE, FALSE, "IDLE", r.dev, 0, r.probe, r.path)
      BY <1>2, <2>1, DisableIs
    <3>2. Is(s, FALSE, FALSE, "PROBE", r.dev, 0, "DOWN_2", r.path)
      <4> DEFINE t == o.port
      <4> HIDE DEF t
      <4>1. QED
        BY <3>1, Members, Zenon DEF t, Is, ProbePort
    <3>3. after(o) = start_timeout(s)
      BY <2>1
    <3> HIDE DEF s, after
    <3>4. Is(after(o), FALSE, FALSE, "PROBE", r.dev, 1, "DOWN_2", r.path)
      BY <1>4, <3>2, <3>3, StartIs DEF Is
    <3>5. QED
      BY <3>4
  <2>2. CASE o.ret # 0
    <3>1. o.port = r
      BY <1>2, <2>2, DisableIs
    <3>2. after(o) = start_timeout(r)
      BY <2>2, <3>1
    <3> HIDE DEF after
    <3>3. QED
      BY <1>2, <1>4, <3>2, StartIs
  <2>3. QED
    BY <2>1, <2>2
<1>6. after(o) \in ProbePort
  BY <1>5 DEF Is
<1> HIDE DEF after
<1>7. g = Store(h, p, after(o))
  BY <1>3 DEF Store
<1>8. /\ g = State(Put(P, p, after(o)), f, n) /\ Only(Put(P, p, after(o)), P, p)
      /\ Put(P, p, after(o))[p] = after(o)
  BY <1>6, <1>7, Stored DEF h
<1>9. QED
  BY <1>5, <1>8 DEF GivenUp

LEMMA ExpireOut ==
    ASSUME NEW P \in [Ports -> ProbePort], NEW f, NEW n, NEW p \in Ports, Alone(P, p),
           NEW g \in probe_expire(State(P, f, n), p)
    PROVE  Expired(g, P, f, n, p)
<1>1. PICK D : /\ [State(P, f, n) EXCEPT !.port[p] = del_timeout(P[p])] = State(D, f, n)
               /\ Only(D, P, p) /\ Rest(D)
               /\ Is(D[p], P[p].enabled, P[p].pwr, "PROBE", P[p].dev, 0, P[p].probe, P[p].path)
  BY StoppedIs
<1> DEFINE h == State(D, f, n)
           probe == P[p].probe
<1>2. D \in [Ports -> ProbePort] /\ h.port = D /\ D[p].probe = probe /\ D[p].mode = "PROBE"
      /\ Stopped(D, P, p)
  BY <1>1, StateIs DEF Only, Is, Stopped
<1>3. g \in gpio_on_probe_timeout(h, p)
  <2>1. State(P, f, n).port = P
    BY StateIs
  <2>2. del_timeout(P[p]).mode = "PROBE"
    BY DelIs DEF Is, Alone
  <2>3. QED
    BY <1>1, <2>1, <2>2 DEF probe_expire
<1> HIDE DEF h
<1>4. CASE probe \in {"DOWN", "DOWN_DONE"}
  <2>1. g \in gpio_on_probe_down_done(Downed(h, p))
    BY <1>2, <1>3, <1>4 DEF gpio_on_probe_timeout, Downed
  <2>2. PICK M : /\ Cleared(M, D, p)
                 /\ \/ /\ \A q \in Ports : ~Connected(D[q])
                       /\ \E Q : g = State(Q, f, n) /\ Started(Q, M)
                    \/ \E Q : \E w \in Ports : g = State(Q, f, n) /\ Waits(Q, M, w)
    <3>1. Settling(g, D, f, n, p)
      BY <1>1, <1>2, <2>1, DownDoneOut DEF h
    <3>2. QED
      BY <3>1 DEF Settling
  <2>3. \A q \in Ports : /\ D[q].enabled = P[q].enabled /\ D[q].pwr = P[q].pwr
                         /\ D[q].dev = P[q].dev /\ D[q].path = P[q].path
                         /\ q # p => D[q].probe = P[q].probe
    BY <1>1 DEF Only, Is
  <2>4. \A q \in Ports : Marked(D, q) <=> Marked(P, q)
    BY <2>3 DEF Marked, Connected
  <2>5. Cleared(M, P, p)
    BY <2>2, <2>3, <2>4 DEF Cleared, Is
  <2>6. (\A q \in Ports : ~Connected(D[q])) => \A q \in Ports : ~Connected(P[q])
    BY <2>3 DEF Connected
  <2>7. QED
    BY <1>4, <2>2, <2>5, <2>6 DEF Expired, Settling
<1>5. CASE probe = "UP"
  <2>1. g \in gpio_handle_probe_up_timeout(h, p)
    BY <1>2, <1>3, <1>5 DEF gpio_on_probe_timeout
  <2>2. PICK Q : /\ g = State(Q, f, n) /\ Only(Q, D, p)
                 /\ \/ Is(Q[p], FALSE, FALSE, "PROBE", D[p].dev, 1, "DOWN_2", D[p].path)
                    \/ Is(Q[p], D[p].enabled, D[p].pwr, "PROBE", D[p].dev, 1, D[p].probe,
                          D[p].path)
    <3>1. GivenUp(g, D, f, n, p)
      BY <1>1, <1>2, <2>1, UpOut DEF h
    <3>2. QED
      BY <3>1 DEF GivenUp
  <2>3. /\ Only(Q, P, p)
        /\ \/ Is(Q[p], FALSE, FALSE, "PROBE", P[p].dev, 1, "DOWN_2", P[p].path)
           \/ Is(Q[p], P[p].enabled, P[p].pwr, "PROBE", P[p].dev, 1, P[p].probe, P[p].path)
    BY <1>1, <2>2 DEF Only, Is
  <2>4. QED
    BY <1>5, <2>2, <2>3 DEF Expired, GivenUp
<1>6. CASE probe = "DOWN_2"
  <2>1. g \in probe_next(h, p)
    BY <1>2, <1>3, <1>6 DEF gpio_on_probe_timeout
  <2>2. PICK M : Finished(M, D, p) /\ Outcome(g, M, f, n, p)
    BY <1>1, <1>2, <2>1, NextOut DEF h
  <2>3. Finished(M, P, p)
    BY <1>1, <2>2 DEF Finished, Only, Is
  <2>4. QED
    BY <1>6, <2>2, <2>3 DEF Expired
<1>7. CASE probe = "WRITE_FILE"
  <2>1. g \in gpio_write_config(h, p)
    BY <1>2, <1>3, <1>7 DEF gpio_on_probe_timeout
  <2>2. \/ \E Q : g = State(Q, f, n) /\ Delayed(Q, D, p)
        \/ \E Q, F : g = State(Q, F, n) /\ Over(Q, D) /\ (F = f \/ DOMAIN F = Ports)
    BY <1>1, <1>2, <2>1, ConfigOut DEF h
  <2>3. QED
    BY <1>2, <1>7, <2>2 DEF Expired
<1>8. CASE probe \in {"IDLE", "DONE"}
  <2>1. g = h
    BY <1>2, <1>3, <1>8 DEF gpio_on_probe_timeout
  <2>2. QED
    BY <1>2, <1>8, <2>1 DEF Expired, h
<1>9. probe \in ProbeStates
  BY FieldTypes
<1>10. QED
  BY <1>4, <1>5, <1>6, <1>7, <1>8, <1>9, Members
-----------------------------------------------------------------------------
(* One timer, and records that follow the paths.                           *)

Written(f) == f # <<>> => DOMAIN f = Ports

LEMMA BaseIs ==
    ASSUME NEW Q \in [Ports -> ProbePort], NEW f, Written(f), NEW n \in BOOLEAN, NEW E, NEW G,
           Permuted(Q), Busy(Q) => Serial(Q) /\ (~n => Followed(Q, E, G))
    PROVE  Base(State(Q, f, n), E, G)
<1>1. Whole(State(Q, f, n))
  BY DEF Whole, State
<1>2. QED
  BY <1>1, StateIs DEF Base, Written

\* The paths are a permutation as long as no port gets another one.
LEMMA SamePaths ==
    ASSUME NEW P, NEW Q, Permuted(P), \A p \in Ports : Q[p].path = P[p].path
    PROVE  Permuted(Q)
BY DEF Permuted

\* The state between two turns, when port p has had its turn.
Mid(M, p, E, G) ==
    /\ M \in [Ports -> ProbePort] /\ Rest(M) /\ Permuted(M)
    /\ \A q \in Ports : /\ M[q].probe \notin {"UP", "DOWN_2"}
                        /\ q # p => M[q].probe # "WRITE_FILE"
                        /\ Recorded(E[M[q].path], G[M[q].path], M[q].dev)

\* Port p is done, and the ports that wait have no device.
Ready(M, p, E, G) ==
    /\ Mid(M, p, E, G) /\ M[p].probe = "DONE"
    /\ \A q \in Ports : M[q].probe = "DOWN_DONE" => M[q].dev = NoDev

LEMMA StartedBase ==
    ASSUME NEW M, NEW p \in Ports, NEW E, NEW G, Mid(M, p, E, G), M[p].probe # "WRITE_FILE",
           \A q \in Ports : M[q].probe = "DOWN_DONE" => M[q].dev = NoDev,
           NEW f, Written(f), NEW n \in BOOLEAN, NEW Q, Started(Q, M)
    PROVE  Base(State(Q, f, n), E, G)
<1>1. PICK u \in Ports :
        /\ M[u].probe = "DOWN_DONE" /\ Only(Q, M, u)
        /\ \/ Is(Q[u], TRUE, TRUE, "PROBE", M[u].dev, 1, "UP", M[u].path)
           \/ Is(Q[u], M[u].enabled, M[u].pwr, "PROBE", M[u].dev, 1, "DOWN_DONE", M[u].path)
  BY DEF Started
<1>2. /\ Q[u].mode = "PROBE" /\ Q[u].dev = M[u].dev /\ Q[u].listed = 1 /\ Q[u].path = M[u].path
      /\ Q[u].probe \in {"UP", "DOWN_DONE"}
  BY <1>1 DEF Is
<1>3. Q \in [Ports -> ProbePort] /\ \A q \in Ports : q # u => Q[q] = M[q]
  BY <1>1 DEF Only
<1>4. Permuted(Q)
  BY <1>2, <1>3, SamePaths DEF Mid
<1>5. Serial(Q)
  BY <1>2, <1>3 DEF Serial, Mid, Rest
<1>6. Followed(Q, E, G)
  <2>1. ASSUME NEW q \in Ports PROVE Recorded(E[Q[q].path], G[Q[q].path], Q[q].dev)
    BY <1>2, <1>3 DEF Mid
  <2>2. ASSUME NEW q \in Ports, Q[q].probe \in {"DOWN_DONE", "UP"} PROVE Q[q].dev = NoDev
    BY <1>1, <1>2, <1>3, <2>2 DEF Mid
  <2>3. QED
    BY <2>1, <2>2 DEF Followed
<1>7. QED
  BY <1>3, <1>4, <1>5, <1>6, BaseIs

LEMMA DelayedBase ==
    ASSUME NEW M, NEW p \in Ports, NEW E, NEW G, Mid(M, p, E, G),
           NEW f, Written(f), NEW n \in BOOLEAN, NEW Q, Delayed(Q, M, p)
    PROVE  Base(State(Q, f, n), E, G)
<1>1. /\ Q[p].mode = "PROBE" /\ Q[p].dev = M[p].dev /\ Q[p].listed = 1 /\ Q[p].path = M[p].path
      /\ Q[p].probe = "WRITE_FILE"
  BY DEF Delayed, Is
<1>2. Q \in [Ports -> ProbePort] /\ \A q \in Ports : q # p => Q[q] = M[q]
  BY DEF Delayed, Only
<1>3. Permuted(Q)
  BY <1>1, <1>2, SamePaths DEF Mid
<1>4. Serial(Q)
  BY <1>1, <1>2 DEF Serial, Mid, Rest
<1>5. Followed(Q, E, G)
  <2>1. ASSUME NEW q \in Ports PROVE Recorded(E[Q[q].path], G[Q[q].path], Q[q].dev)
    BY <1>1, <1>2 DEF Mid
  <2>2. \A q \in Ports : Q[q].probe \notin {"UP", "DOWN_2"}
    BY <1>1, <1>2 DEF Mid
  <2>3. QED
    BY <2>1, <2>2 DEF Followed
<1>6. QED
  BY <1>2, <1>3, <1>4, <1>5, BaseIs

LEMMA OverBase ==
    ASSUME NEW M, Permuted(M), NEW E, NEW G, NEW F, Written(F), NEW n \in BOOLEAN,
           NEW Q, Over(Q, M)
    PROVE  Base(State(Q, F, n), E, G) /\ ~Busy(Q)
<1>1. Q \in [Ports -> ProbePort] /\ \A q \in Ports : Q[q].path = M[q].path /\ Q[q].mode # "PROBE"
  BY DEF Over, Given
<1>2. Permuted(Q)
  BY <1>1, SamePaths
<1>3. ~Busy(Q)
  BY <1>1 DEF Busy
<1>4. QED
  BY <1>1, <1>2, <1>3, BaseIs

LEMMA OutcomeBase ==
    ASSUME NEW M, NEW p \in Ports, NEW E, NEW G, Ready(M, p, E, G),
           NEW f, Written(f), NEW n \in BOOLEAN, NEW g, Outcome(g, M, f, n, p)
    PROVE  Base(g, E, G)
<1>0. /\ Mid(M, p, E, G) /\ M[p].probe = "DONE"
      /\ \A q \in Ports : M[q].probe = "DOWN_DONE" => M[q].dev = NoDev
  BY DEF Ready
<1>1. ASSUME NEW Q, g = State(Q, f, n), Started(Q, M) PROVE Base(g, E, G)
  BY <1>0, <1>1, StartedBase
<1>2. ASSUME NEW Q, g = State(Q, f, n), Delayed(Q, M, p) PROVE Base(g, E, G)
  BY <1>0, <1>2, DelayedBase
<1>3. ASSUME NEW Q, NEW F, g = State(Q, F, n), Over(Q, M), F = f \/ DOMAIN F = Ports
      PROVE  Base(g, E, G)
  <2>1. Written(F)
    BY <1>3 DEF Written
  <2>2. QED
    BY <1>0, <1>3, <2>1, OverBase DEF Mid
<1>4. QED
  BY <1>1, <1>2, <1>3 DEF Outcome

\* What a report of device d at a path changes: nothing but the queue of that
\* path, and the port that has the path may then record d.
Fresh(E, E2, G, path, d) ==
    /\ \A x \in Ports : x # path => E2[x] = E[x]
    /\ Recorded(E2[path], G[path], d)

\* What the ports record when the device d has been reported for port m, before
\* m records it.
LEMMA FreshRecords ==
    ASSUME NEW P \in [Ports -> ProbePort], Permuted(P), NEW E, NEW E2, NEW G,
           Followed(P, E, G), NEW m \in Ports, NEW d, Fresh(E, E2, G, P[m].path, d)
    PROVE  /\ \A q \in Ports : q # m => Recorded(E2[P[q].path], G[P[q].path], P[q].dev)
           /\ Recorded(E2[P[m].path], G[P[m].path], d)
<1>1. \A q \in Ports : q # m => P[q].path # P[m].path /\ P[q].path \in Ports
  BY FieldTypes DEF Permuted
<1>2. QED
  BY <1>1 DEF Fresh, Followed

Keeps(Q, P, E2, G, m) ==
    /\ Q \in [Ports -> ProbePort] /\ Permuted(Q) /\ Serial(Q)
    /\ \A q \in Ports : Recorded(E2[Q[q].path], G[Q[q].path], Q[q].dev)
    /\ \A q \in Ports : Q[q].path = P[q].path /\ Q[q].probe = P[q].probe
    /\ \A q \in Ports : q # m => Q[q] = P[q]

LEMMA NotedRecords ==
    ASSUME NEW P \in [Ports -> ProbePort], Permuted(P), Serial(P), NEW E, NEW E2, NEW G,
           Followed(P, E, G), NEW m \in Ports, NEW d, Fresh(E, E2, G, P[m].path, d),
           NEW Q, Noted(Q, P, m, d)
    PROVE  Keeps(Q, P, E2, G, m)
<1>0. /\ \A q \in Ports : q # m => Recorded(E2[P[q].path], G[P[q].path], P[q].dev)
      /\ Recorded(E2[P[m].path], G[P[m].path], d)
  BY FreshRecords
<1>1. /\ Q[m].mode = P[m].mode /\ Q[m].dev = d /\ Q[m].listed = P[m].listed
      /\ Q[m].probe = P[m].probe /\ Q[m].path = P[m].path
  BY DEF Noted, Is
<1>2. Q \in [Ports -> ProbePort] /\ \A q \in Ports : q # m => Q[q] = P[q]
  BY DEF Noted, Only
<1>3. Permuted(Q)
  BY <1>1, <1>2, SamePaths
<1>4. Serial(Q)
  <2>1. \A q \in Ports : /\ Q[q].mode = P[q].mode /\ Q[q].listed = P[q].listed
                         /\ Q[q].probe = P[q].probe
    BY <1>1, <1>2
  <2>2. QED
    BY <2>1 DEF Serial
<1>5. \A q \in Ports : Recorded(E2[Q[q].path], G[Q[q].path], Q[q].dev)
  BY <1>0, <1>1, <1>2
<1>6. QED
  BY <1>1, <1>2, <1>3, <1>4, <1>5 DEF Keeps

\* The device is that of the port that is being probed.
LEMMA FoundMid ==
    ASSUME NEW P \in [Ports -> ProbePort], Permuted(P), Serial(P), NEW E, NEW E2, NEW G,
           Followed(P, E, G), NEW m \in Ports, NEW d, Fresh(E, E2, G, P[m].path, d),
           P[m].probe = "UP", NEW Q, Noted(Q, P, m, d), NEW M, Finished(M, Q, m)
    PROVE  Ready(M, m, E2, G)
<1>0. /\ \A q \in Ports : q # m => Recorded(E2[P[q].path], G[P[q].path], P[q].dev)
      /\ Recorded(E2[P[m].path], G[P[m].path], d)
  BY FreshRecords
<1>1. /\ M[m].mode = "PROBE" /\ M[m].dev = d /\ M[m].listed = 0 /\ M[m].pwr = P[m].pwr
      /\ M[m].probe = "DONE" /\ M[m].path = P[m].path /\ M[m].enabled = P[m].enabled
  BY DEF Finished, Noted, Is
<1>2. M \in [Ports -> ProbePort] /\ \A q \in Ports : q # m => M[q] = P[q]
  BY DEF Finished, Noted, Only
<1>3. Permuted(M)
  BY <1>1, <1>2, SamePaths
<1>4. Alone(P, m) /\ \A q \in Ports : P[q].probe \in {"UP", "DOWN_2", "WRITE_FILE"} => q = m
  BY SerialAlone
<1>5. Rest(M)
  BY <1>1, <1>2, <1>4 DEF Alone, Rest
<1>6. \A q \in Ports : Recorded(E2[M[q].path], G[M[q].path], M[q].dev)
  BY <1>0, <1>1, <1>2
<1>7. Mid(M, m, E2, G)
  BY <1>1, <1>2, <1>3, <1>4, <1>5, <1>6 DEF Mid
<1>8. \A q \in Ports : M[q].probe = "DOWN_DONE" => M[q].dev = NoDev
  BY <1>1, <1>2 DEF Followed
<1>9. QED
  BY <1>1, <1>7, <1>8 DEF Ready

\* The device is that of another port: paths and records are exchanged.
LEMMA SwappedMid ==
    ASSUME NEW P \in [Ports -> ProbePort], Permuted(P), Serial(P), NEW E, NEW E2, NEW G,
           Followed(P, E, G), NEW m \in Ports, NEW d, Fresh(E, E2, G, P[m].path, d),
           P[m].probe # "UP", NEW u \in Ports, P[u].probe = "UP", NEW M, Swapped(M, P, m, u, d)
    PROVE  Ready(M, u, E2, G)
<1>0. /\ \A q \in Ports : q # m => Recorded(E2[P[q].path], G[P[q].path], P[q].dev)
      /\ Recorded(E2[P[m].path], G[P[m].path], d)
  BY FreshRecords
<1>1. /\ M \in [Ports -> ProbePort] /\ \A q \in Ports : q \notin {m, u} => M[q] = P[q]
      /\ M[m].mode = "PROBE" /\ M[m].dev = NoDev /\ M[m].listed = 0
      /\ M[m].probe = P[m].probe /\ M[m].path = P[u].path
      /\ M[u].mode = "PROBE" /\ M[u].dev = d /\ M[u].listed = 0
      /\ M[u].probe = "DONE" /\ M[u].path = P[m].path /\ u # m
  BY DEF Swapped, Is
<1>2. Alone(P, u) /\ \A q \in Ports : P[q].probe \in {"UP", "DOWN_2", "WRITE_FILE"} => q = u
  BY SerialAlone
<1>3. Permuted(M)
  <2>1. \A q \in Ports : M[q].path = IF q = m THEN P[u].path ELSE IF q = u THEN P[m].path
                                     ELSE P[q].path
    BY <1>1
  <2>2. ASSUME NEW q \in Ports, NEW t \in Ports, M[q].path = M[t].path PROVE q = t
    BY <1>1, <2>1, <2>2 DEF Permuted
  <2>3. ASSUME NEW x \in Ports PROVE \E q \in Ports : M[q].path = x
    <3>1. PICK q \in Ports : P[q].path = x
      BY DEF Permuted
    <3>2. M[IF q = m THEN u ELSE IF q = u THEN m ELSE q].path = x
      BY <1>1, <2>1, <3>1
    <3>3. QED
      BY <3>2
  <2>4. QED
    BY <2>2, <2>3 DEF Permuted
<1>4. Rest(M)
  BY <1>1, <1>2 DEF Alone, Rest
<1>5. P[u].dev = NoDev /\ \A q \in Ports : P[q].probe = "DOWN_DONE" => P[q].dev = NoDev
  BY DEF Followed
<1>6. ASSUME NEW q \in Ports PROVE Recorded(E2[M[q].path], G[M[q].path], M[q].dev)
  BY <1>0, <1>1, <1>5
<1>7. Mid(M, u, E2, G)
  BY <1>1, <1>2, <1>3, <1>4, <1>6 DEF Mid
<1>8. \A q \in Ports : M[q].probe = "DOWN_DONE" => M[q].dev = NoDev
  BY <1>1, <1>5
<1>9. QED
  BY <1>1, <1>7, <1>8 DEF Ready

LEMMA ReportedBase ==
    ASSUME NEW P \in [Ports -> ProbePort], Permuted(P), Serial(P), NEW E, NEW E2, NEW G,
           Followed(P, E, G), NEW m \in Ports, NEW d \in Devs, Fresh(E, E2, G, P[m].path, d),
           NEW f, Written(f), NEW n \in BOOLEAN, NEW g, Reported(g, P, f, n, m, d)
    PROVE  Base(g, E2, G)
<1>1. CASE P[m].dev = d /\ g = State(P, f, n)
  <2>1. Followed(P, E2, G)
    BY <1>1, FreshRecords DEF Followed
  <2>2. QED
    BY <1>1, <2>1, BaseIs
<1>2. CASE P[m].probe = "DOWN_2" /\ \E Q : g = State(Q, f, n) /\ Noted(Q, P, m, d)
  <2>1. PICK Q : g = State(Q, f, n) /\ Noted(Q, P, m, d)
    BY <1>2
  <2>2. Keeps(Q, P, E2, G, m)
    BY <2>1, NotedRecords
  <2>3. \A q \in Ports : Q[q].probe \in {"DOWN_DONE", "UP"} => Q[q].dev = NoDev
    BY <1>2, <2>2 DEF Followed, Keeps
  <2>4. Followed(Q, E2, G)
    BY <2>2, <2>3 DEF Followed, Keeps
  <2>5. QED
    BY <2>1, <2>2, <2>4, BaseIs DEF Keeps
<1>3. CASE P[m].probe = "UP" /\ \E Q, M : Noted(Q, P, m, d) /\ Finished(M, Q, m)
                                            /\ Outcome(g, M, f, n, m)
  <2>1. PICK Q, M : Noted(Q, P, m, d) /\ Finished(M, Q, m) /\ Outcome(g, M, f, n, m)
    BY <1>3
  <2>2. Ready(M, m, E2, G)
    BY <1>3, <2>1, FoundMid
  <2>3. QED
    BY <2>1, <2>2, OutcomeBase
<1>4. CASE /\ P[m].probe \notin {"UP", "DOWN_2"}
           /\ \E u \in Ports : /\ P[u].probe = "UP"
                               /\ \E M : Swapped(M, P, m, u, d) /\ Outcome(g, M, f, n, u)
  <2>0. PICK u \in Ports : /\ P[u].probe = "UP"
                          /\ \E M : Swapped(M, P, m, u, d) /\ Outcome(g, M, f, n, u)
    BY <1>4
  <2>1. PICK M : P[u].probe = "UP" /\ Swapped(M, P, m, u, d) /\ Outcome(g, M, f, n, u)
    BY <2>0
  <2>2. Ready(M, u, E2, G)
    BY <1>4, <2>1, SwappedMid
  <2>3. QED
    BY <2>1, <2>2, OutcomeBase
<1>5. CASE \E Q : g = State(Q, f, TRUE) /\ Noted(Q, P, m, d)
  <2>1. PICK Q : g = State(Q, f, TRUE) /\ Noted(Q, P, m, d)
    BY <1>5
  <2>2. /\ Whole(g) /\ g.port = Q /\ g.file = f /\ g.null = TRUE
    BY <2>1 DEF State, Whole
  <2>3. Keeps(Q, P, E2, G, m)
    BY <2>1, NotedRecords
  <2>4. QED
    BY <2>2, <2>3 DEF Base, Written, Keeps
<1>6. QED
  BY <1>1, <1>2, <1>3, <1>4, <1>5 DEF Reported

\* Port p changes, but neither its path nor what it records.
LEMMA OnlyBase ==
    ASSUME NEW P \in [Ports -> ProbePort], Permuted(P), Serial(P), NEW E, NEW G,
           Followed(P, E, G), NEW p \in Ports, Alone(P, p), NEW Q, Only(Q, P, p),
           Q[p].mode = "PROBE", Q[p].path = P[p].path, Q[p].dev = P[p].dev,
           \/ Q[p].listed = 1 /\ P[p].probe = "UP" /\ Q[p].probe \in {"UP", "DOWN_2"}
           \/ Q[p].listed = 0 /\ Q[p].probe = P[p].probe /\ P[p].probe \in {"IDLE", "DONE"},
           NEW f, Written(f), NEW n \in BOOLEAN
    PROVE  Base(State(Q, f, n), E, G)
<1>1. Q \in [Ports -> ProbePort] /\ \A q \in Ports : q # p => Q[q] = P[q]
  BY DEF Only
<1>2. Permuted(Q)
  BY <1>1, SamePaths
<1>3. Serial(Q)
  BY <1>1 DEF Serial, Alone
<1>4. Followed(Q, E, G)
  <2>1. \A q \in Ports : Recorded(E[Q[q].path], G[Q[q].path], Q[q].dev)
    BY <1>1 DEF Followed
  <2>2. (\E u \in Ports : Q[u].probe \in {"UP", "DOWN_2"}) =>
            \A q \in Ports : Q[q].probe \in {"DOWN_DONE", "UP"} => Q[q].dev = NoDev
    BY <1>1 DEF Followed
  <2>3. QED
    BY <2>1, <2>2 DEF Followed
<1>5. QED
  BY <1>1, <1>2, <1>3, <1>4, BaseIs

LEMMA ClearedMid ==
    ASSUME NEW P \in [Ports -> ProbePort], Permuted(P), Serial(P), NEW E, NEW G,
           Followed(P, E, G), NEW p \in Ports, P[p].listed = 1,
           P[p].probe \in {"DOWN", "DOWN_DONE"}, NEW M, Cleared(M, P, p)
    PROVE  Mid(M, p, E, G) /\ M[p].probe = "DOWN_DONE"
<1>1. \A q \in Ports : P[q].probe \notin {"UP", "DOWN_2", "WRITE_FILE"}
  BY SerialAlone
<1>2. /\ M \in [Ports -> ProbePort]
      /\ \A q \in Ports : /\ M[q].mode = "PROBE" /\ M[q].listed = 0 /\ M[q].dev = P[q].dev
                          /\ M[q].path = P[q].path /\ M[q].probe \in {"DOWN_DONE", P[q].probe}
      /\ M[p].probe = "DOWN_DONE"
  BY DEF Cleared, Is
<1>3. Permuted(M)
  BY <1>2, SamePaths
<1>4. \A q \in Ports : Recorded(E[M[q].path], G[M[q].path], M[q].dev)
  BY <1>2 DEF Followed
<1>5. QED
  BY <1>1, <1>2, <1>3, <1>4 DEF Mid, Rest

LEMMA WaitsBase ==
    ASSUME NEW M, NEW p \in Ports, NEW E, NEW G, Mid(M, p, E, G), M[p].probe # "WRITE_FILE",
           NEW w \in Ports, NEW Q, Waits(Q, M, w), NEW f, Written(f), NEW n \in BOOLEAN
    PROVE  Base(State(Q, f, n), E, G)
<1>1. /\ Q[w].mode = "PROBE" /\ Q[w].dev = M[w].dev /\ Q[w].listed = 1 /\ Q[w].path = M[w].path
      /\ Q[w].probe = M[w].probe
  BY DEF Waits, Is
<1>2. Q \in [Ports -> ProbePort] /\ \A q \in Ports : q # w => Q[q] = M[q]
  BY DEF Waits, Only
<1>3. Permuted(Q)
  BY <1>1, <1>2, SamePaths DEF Mid
<1>4. \A q \in Ports : Q[q].probe \notin {"UP", "DOWN_2", "WRITE_FILE"}
  BY <1>1, <1>2 DEF Mid
<1>5. Serial(Q)
  BY <1>1, <1>2, <1>4 DEF Serial, Mid, Rest
<1>6. \A q \in Ports : Recorded(E[Q[q].path], G[Q[q].path], Q[q].dev)
  BY <1>1, <1>2 DEF Mid
<1>7. QED
  BY <1>2, <1>3, <1>4, <1>5, <1>6, BaseIs DEF Followed

LEMMA FinishedMid ==
    ASSUME NEW P \in [Ports -> ProbePort], Permuted(P), Serial(P), NEW E, NEW G,
           Followed(P, E, G), NEW p \in Ports, P[p].probe \in {"UP", "DOWN_2"},
           NEW M, Finished(M, P, p)
    PROVE  Ready(M, p, E, G)
<1>1. /\ M[p].mode = "PROBE" /\ M[p].dev = P[p].dev /\ M[p].listed = 0
      /\ M[p].probe = "DONE" /\ M[p].path = P[p].path
  BY DEF Finished, Is
<1>2. M \in [Ports -> ProbePort] /\ \A q \in Ports : q # p => M[q] = P[q]
  BY DEF Finished, Only
<1>3. Permuted(M)
  BY <1>1, <1>2, SamePaths
<1>4. Alone(P, p) /\ \A q \in Ports : P[q].probe \in {"UP", "DOWN_2", "WRITE_FILE"} => q = p
  BY SerialAlone
<1>5. Rest(M)
  BY <1>1, <1>2, <1>4 DEF Alone, Rest
<1>6. \A q \in Ports : Recorded(E[M[q].path], G[M[q].path], M[q].dev)
  BY <1>1, <1>2 DEF Followed
<1>7. \A q \in Ports : M[q].probe = "DOWN_DONE" => M[q].dev = NoDev
  BY <1>1, <1>2 DEF Followed
<1>8. QED
  BY <1>1, <1>2, <1>3, <1>4, <1>5, <1>6, <1>7 DEF Mid, Ready

LEMMA StoppedMid ==
    ASSUME NEW P \in [Ports -> ProbePort], Permuted(P), Serial(P), NEW E, NEW G,
           Followed(P, E, G), NEW p \in Ports, P[p].probe = "WRITE_FILE", NEW M, Stopped(M, P, p)
    PROVE  Mid(M, p, E, G)
<1>1. /\ M[p].mode = "PROBE" /\ M[p].dev = P[p].dev /\ M[p].listed = 0
      /\ M[p].probe = P[p].probe /\ M[p].path = P[p].path
  BY DEF Stopped, Is
<1>2. M \in [Ports -> ProbePort] /\ \A q \in Ports : q # p => M[q] = P[q]
  BY DEF Stopped, Only
<1>3. Permuted(M)
  BY <1>1, <1>2, SamePaths
<1>4. Alone(P, p) /\ \A q \in Ports : P[q].probe \in {"UP", "DOWN_2", "WRITE_FILE"} => q = p
  BY SerialAlone
<1>5. Rest(M)
  BY <1>1, <1>2, <1>4 DEF Alone, Rest
<1>6. \A q \in Ports : Recorded(E[M[q].path], G[M[q].path], M[q].dev)
  BY <1>1, <1>2 DEF Followed
<1>7. QED
  BY <1>1, <1>2, <1>3, <1>4, <1>5, <1>6 DEF Mid

LEMMA ExpiredBase ==
    ASSUME NEW P \in [Ports -> ProbePort], Permuted(P), Serial(P), NEW E, NEW G,
           Followed(P, E, G), NEW p \in Ports, P[p].listed # 0,
           NEW f, Written(f), NEW n \in BOOLEAN, NEW g, Expired(g, P, f, n, p)
    PROVE  Base(g, E, G)
<1>0. Alone(P, p) /\ P[p].listed = 1
  BY SerialAlone
<1>1. CASE P[p].probe \in {"DOWN", "DOWN_DONE"} /\ Settling(g, P, f, n, p)
  <2>1. PICK M : /\ Cleared(M, P, p)
                 /\ \/ /\ \A q \in Ports : ~Connected(P[q])
                       /\ \E Q : g = State(Q, f, n) /\ Started(Q, M)
                    \/ \E Q : \E w \in Ports : g = State(Q, f, n) /\ Waits(Q, M, w)
    BY <1>1 DEF Settling
  <2>2. Mid(M, p, E, G) /\ M[p].probe = "DOWN_DONE"
    BY <1>0, <1>1, <2>1, ClearedMid
  <2>3. ASSUME \A q \in Ports : ~Connected(P[q]), NEW Q, g = State(Q, f, n), Started(Q, M)
        PROVE  Base(g, E, G)
    <3>1. \A q \in Ports : M[q].dev = NoDev
      BY <2>1, <2>3 DEF Cleared, Is, Connected
    <3>2. QED
      BY <2>2, <2>3, <3>1, StartedBase
  <2>4. ASSUME NEW Q, NEW w \in Ports, g = State(Q, f, n), Waits(Q, M, w) PROVE Base(g, E, G)
    BY <2>2, <2>4, WaitsBase
  <2>5. QED
    BY <2>1, <2>3, <2>4
<1>2. CASE P[p].probe = "UP" /\ GivenUp(g, P, f, n, p)
  <2>1. PICK Q : /\ g = State(Q, f, n) /\ Only(Q, P, p)
                 /\ \/ Is(Q[p], FALSE, FALSE, "PROBE", P[p].dev, 1, "DOWN_2", P[p].path)
                    \/ Is(Q[p], P[p].enabled, P[p].pwr, "PROBE", P[p].dev, 1, P[p].probe, P[p].path)
    BY <1>2 DEF GivenUp
  <2>2. /\ Q[p].mode = "PROBE" /\ Q[p].path = P[p].path /\ Q[p].dev = P[p].dev
        /\ Q[p].listed = 1 /\ Q[p].probe \in {"UP", "DOWN_2"}
    BY <1>2, <2>1 DEF Is
  <2>3. QED
    BY <1>0, <1>2, <2>1, <2>2, OnlyBase
<1>3. CASE P[p].probe = "DOWN_2" /\ \E M : Finished(M, P, p) /\ Outcome(g, M, f, n, p)
  BY <1>3, FinishedMid, OutcomeBase
<1>4. CASE /\ P[p].probe = "WRITE_FILE"
           /\ \E M : /\ Stopped(M, P, p)
                     /\ \/ \E Q : g = State(Q, f, n) /\ Delayed(Q, M, p)
                        \/ \E Q, F : /\ g = State(Q, F, n) /\ Over(Q, M)
                                     /\ (F = f \/ DOMAIN F = Ports)
  <2>1. PICK M : /\ Stopped(M, P, p)
                 /\ \/ \E Q : g = State(Q, f, n) /\ Delayed(Q, M, p)
                    \/ \E Q, F : g = State(Q, F, n) /\ Over(Q, M) /\ (F = f \/ DOMAIN F = Ports)
    BY <1>4
  <2>2. Mid(M, p, E, G)
    BY <1>4, <2>1, StoppedMid
  <2>3. ASSUME NEW Q, g = State(Q, f, n), Delayed(Q, M, p) PROVE Base(g, E, G)
    BY <2>2, <2>3, DelayedBase
  <2>4. ASSUME NEW Q, NEW F, g = State(Q, F, n), Over(Q, M), F = f \/ DOMAIN F = Ports
        PROVE  Base(g, E, G)
    <3>1. Written(F)
      BY <2>4 DEF Written
    <3>2. QED
      BY <2>2, <2>4, <3>1, OverBase DEF Mid
  <2>5. QED
    BY <2>1, <2>3, <2>4
<1>5. CASE P[p].probe \in {"IDLE", "DONE"} /\ \E Q : g = State(Q, f, n) /\ Stopped(Q, P, p)
  <2>1. PICK Q : g = State(Q, f, n) /\ Stopped(Q, P, p)
    BY <1>5
  <2>2. /\ Only(Q, P, p) /\ Q[p].mode = "PROBE" /\ Q[p].path = P[p].path
        /\ Q[p].dev = P[p].dev /\ Q[p].listed = 0 /\ Q[p].probe = P[p].probe
    BY <2>1 DEF Stopped, Is
  <2>3. QED
    BY <1>0, <1>5, <2>1, <2>2, OnlyBase
<1>6. QED
  BY <1>1, <1>2, <1>3, <1>4, <1>5 DEF Expired
-----------------------------------------------------------------------------
(* What is on the lines.                                                   *)

Lines(P) == \A p \in Ports : Lit(P[p]) /\ Mapped(P[p], p)

\* While it probes, and the daemon has not dereferenced NULL.
Sound(P, E, G) ==
    /\ Lines(P) /\ AllDone(P) /\ (EnableWorks => Turn(P))
    /\ Leaving(P, E, G) \/ Scanning(P, E, G)

LEMMA RightIs ==
    ASSUME NEW Q, NEW n \in BOOLEAN, ~n, NEW E, NEW G, Busy(Q), Sound(Q, E, G)
    PROVE  Right(State(Q, <<>>, n), E, G)
BY StateIs DEF Right, Sound, Lines

\* The ports have the same power, timers, states and paths as before.
LEMMA SameLines ==
    ASSUME NEW P, NEW Q, \A q \in Ports : /\ Q[q].enabled = P[q].enabled /\ Q[q].pwr = P[q].pwr
                                          /\ Q[q].listed = P[q].listed
                                          /\ Q[q].probe = P[q].probe /\ Q[q].path = P[q].path
    PROVE  /\ Lines(P) => Lines(Q)
           /\ AllDone(P) => AllDone(Q)
           /\ Turn(P) => Turn(Q)
BY DEF Lines, Lit, Mapped, AllDone, Turn

LEMMA StartedRight ==
    ASSUME wires \in Orders, NEW M, NEW p \in Ports, NEW E, NEW G, Mid(M, p, E, G),
           M[p].probe # "WRITE_FILE", Lines(M), Scanning(M, E, G),
           NEW n \in BOOLEAN, ~n, NEW Q, Started(Q, M)
    PROVE  Right(State(Q, <<>>, n), E, G)
<1>1. PICK u \in Ports :
        /\ M[u].probe = "DOWN_DONE" /\ Only(Q, M, u)
        /\ \/ Is(Q[u], TRUE, TRUE, "PROBE", M[u].dev, 1, "UP", M[u].path)
           \/ /\ ~EnableWorks
              /\ Is(Q[u], M[u].enabled, M[u].pwr, "PROBE", M[u].dev, 1, "DOWN_DONE", M[u].path)
  BY DEF Started
<1>2. /\ Q[u].mode = "PROBE" /\ Q[u].dev = M[u].dev /\ Q[u].listed = 1 /\ Q[u].path = M[u].path
      /\ \/ Q[u].probe = "UP" /\ Q[u].enabled = TRUE /\ Q[u].pwr = TRUE
         \/ /\ ~EnableWorks /\ Q[u].probe = "DOWN_DONE" /\ Q[u].enabled = M[u].enabled
            /\ Q[u].pwr = M[u].pwr
  BY <1>1 DEF Is
<1>3. \A q \in Ports : q # u => Q[q] = M[q]
  BY <1>1 DEF Only
<1>4. Lines(Q)
  <2>1. Lit(Q[u]) /\ Mapped(Q[u], u)
    <3>1. Lit(M[u]) /\ Mapped(M[u], u)
      BY DEF Lines
    <3>2. QED
      BY <1>1, <1>2, <3>1 DEF Lit, Mapped, Done
  <2>2. QED
    BY <1>3, <2>1 DEF Lines
<1>5. AllDone(Q)
  BY <1>2, <1>3 DEF AllDone, Mid
<1>6. EnableWorks => Turn(Q)
  BY <1>2 DEF Turn
<1>7. Scanning(Q, E, G)
  <2>1. ASSUME NEW x \in Ports, NEW m \in Ports, Q[m].path = wires[x]
        PROVE  /\ Pin(Q[x], m = x, Q[m].dev, E[wires[x]], G[wires[x]], wires[x] \in there)
               /\ Q[x].probe = "UP" => Q[m].dev = NoDev
    <3>1. M[m].path = wires[x] /\ Q[m].dev = M[m].dev
      BY <1>2, <1>3, <2>1
    <3>2. /\ Pin(M[x], m = x, M[m].dev, E[wires[x]], G[wires[x]], wires[x] \in there)
          /\ M[x].probe = "UP" => M[m].dev = NoDev
      BY <3>1 DEF Scanning
    <3>3. CASE x # u
      BY <1>3, <3>1, <3>2, <3>3
    <3>4. CASE x = u
      <4>1. E[wires[x]] = <<>> /\ G[wires[x]] = NoDev
        BY <1>1, <3>2, <3>4 DEF Pin
      <4>2. M[m].dev = NoDev
        BY <3>1, <4>1 DEF Mid, Recorded
      <4>3. Pin(Q[x], m = x, Q[m].dev, E[wires[x]], G[wires[x]], wires[x] \in there)
        BY <1>2, <3>4, <4>1 DEF Pin, Done
      <4>4. QED
        BY <3>1, <4>2, <4>3
    <3>5. QED
      BY <3>3, <3>4
  <2>2. QED
    BY <2>1 DEF Scanning
<1>8. Busy(Q)
  BY <1>2 DEF Busy
<1>9. QED
  BY <1>4, <1>5, <1>6, <1>7, <1>8, RightIs DEF Sound

LEMMA DelayedRight ==
    ASSUME NEW M, NEW p \in Ports, NEW E, NEW G, Mid(M, p, E, G), Lines(M), Scanning(M, E, G),
           \A q \in Ports : M[q].probe \in Done, NEW n \in BOOLEAN, ~n, NEW Q, Delayed(Q, M, p)
    PROVE  Right(State(Q, <<>>, n), E, G)
<1>1. /\ Q[p].mode = "PROBE" /\ Q[p].dev = M[p].dev /\ Q[p].listed = 1 /\ Q[p].path = M[p].path
      /\ Q[p].probe = "WRITE_FILE" /\ Q[p].enabled = M[p].enabled /\ Q[p].pwr = M[p].pwr
  BY DEF Delayed, Is
<1>2. \A q \in Ports : q # p => Q[q] = M[q]
  BY DEF Delayed, Only
<1>3. \A q \in Ports : /\ Q[q].enabled = M[q].enabled /\ Q[q].pwr = M[q].pwr
                       /\ Q[q].path = M[q].path /\ Q[q].dev = M[q].dev
                       /\ Q[q].probe \in Done /\ M[q].probe \in Done
  BY <1>1, <1>2 DEF Done
<1>4. Lines(Q)
  BY <1>3 DEF Lines, Lit, Mapped, Done
<1>5. AllDone(Q)
  BY <1>3 DEF AllDone
<1>6. Turn(Q)
  BY <1>1 DEF Turn
<1>7. Scanning(Q, E, G)
  <2>1. ASSUME NEW x \in Ports, NEW m \in Ports, Q[m].path = wires[x]
        PROVE  Pin(Q[x], m = x, Q[m].dev, E[wires[x]], G[wires[x]], wires[x] \in there)
    <3>1. Pin(M[x], m = x, M[m].dev, E[wires[x]], G[wires[x]], wires[x] \in there)
      BY <1>3, <2>1 DEF Scanning
    <3>2. QED
      BY <1>3, <3>1 DEF Pin, Done
  <2>2. QED
    BY <1>3, <2>1 DEF Scanning, Done
<1>8. Busy(Q)
  BY <1>1 DEF Busy
<1>9. QED
  BY <1>4, <1>5, <1>6, <1>7, <1>8, RightIs DEF Sound

LEMMA OverRight ==
    ASSUME wires \in Orders, NEW M, NEW p \in Ports, NEW E, NEW G, Mid(M, p, E, G),
           Lines(M), Scanning(M, E, G), \A q \in Ports : M[q].probe \in Done,
           NEW F, NEW n \in BOOLEAN, ~n, NEW Q, Over(Q, M)
    PROVE  Right(State(Q, F, n), E, G)
<1>1. ASSUME NEW q \in Ports PROVE Handed(Q[q], q, G)
  <2>1. Given(Q[q], M[q])
    BY DEF Over
  <2>2. Lit(M[q]) /\ Mapped(M[q], q) /\ M[q].probe \in Done
    BY DEF Lines
  <2>3. Q[q].mode = "IDLE" => Q[q].dev = NoDev /\ G[Q[q].path] = NoDev
    <3>1. SUFFICES ASSUME Q[q].mode = "IDLE" PROVE Q[q].dev = NoDev /\ G[Q[q].path] = NoDev
      OBVIOUS
    <3>2. ~M[q].pwr
      BY <2>1, <2>2, <3>1 DEF Given, Lit
    <3>3. PICK x \in Ports : wires[x] = M[q].path
      <4>1. M[q].path \in Ports
        BY FieldTypes DEF Mid
      <4>2. QED
        BY <4>1, Wired
    <3>4. Pin(M[x], q = x, M[q].dev, E[wires[x]], G[wires[x]], wires[x] \in there)
      BY <3>3 DEF Scanning
    <3>5. E[wires[x]] = <<>> /\ G[wires[x]] = NoDev
      BY <3>2, <3>4 DEF Pin
    <3>6. M[q].dev = NoDev
      BY <3>3, <3>5 DEF Mid, Recorded
    <3>7. QED
      BY <2>1, <3>3, <3>5, <3>6 DEF Given
  <2>4. QED
    BY <2>1, <2>2, <2>3 DEF Handed, Given, Lit, Mapped
<1>2. ~Busy(Q)
  BY DEF Over, Given, Busy
<1>3. QED
  BY <1>1, <1>2, StateIs DEF Right

LEMMA OutcomeRight ==
    ASSUME wires \in Orders, NEW M, NEW p \in Ports, NEW E, NEW G, Mid(M, p, E, G),
           M[p].probe = "DONE", Lines(M), Scanning(M, E, G),
           NEW n \in BOOLEAN, ~n, NEW g, Outcome(g, M, <<>>, n, p)
    PROVE  Right(g, E, G)
<1>1. ASSUME NEW Q, g = State(Q, <<>>, n), Started(Q, M) PROVE Right(g, E, G)
  BY <1>1, StartedRight
<1>2. ASSUME \A u \in Ports : M[u].probe # "DOWN_DONE", NEW q \in Ports PROVE M[q].probe \in Done
  <2>1. Lit(M[q]) /\ M[q].probe \notin {"UP", "DOWN_2"} /\ M[q].probe \in ProbeStates
    BY FieldTypes DEF Mid, Lines
  <2>2. M[q].probe # "DOWN"
    <3>1. PICK m \in Ports : M[m].path = wires[q]
      BY Wired DEF Mid, Permuted
    <3>2. QED
      BY <3>1 DEF Scanning, Pin
  <2>3. QED
    BY <1>2, <2>1, <2>2, Members DEF Lit, Done
<1>3. ASSUME \A u \in Ports : M[u].probe # "DOWN_DONE",
             NEW Q, g = State(Q, <<>>, n), Delayed(Q, M, p)
      PROVE  Right(g, E, G)
  BY <1>2, <1>3, DelayedRight
<1>4. ASSUME \A u \in Ports : M[u].probe # "DOWN_DONE", NEW Q, NEW F, g = State(Q, F, n), Over(Q, M)
      PROVE  Right(g, E, G)
  BY <1>2, <1>4, OverRight
<1>5. QED
  BY <1>1, <1>3, <1>4 DEF Outcome

\* A device is reported: libusb's list shows it, or its arrival is the first
\* event of the queue.
Comes(E, E2, G, path, d) ==
    /\ d \in Devs
    /\ \A x \in Ports : x # path => E2[x] = E[x]
    /\ \/ E2[path] = E[path] /\ d = G[path]
       \/ E[path] # <<>> /\ Head(E[path]) = Arrived(d) /\ E2[path] = Tail(E[path])

\* What the queue says of the device.
Known(E, E2, G, path, d) ==
    /\ E[path] = <<>> => G[path] # NoDev /\ d = G[path] /\ E2[path] = <<>>
    /\ E[path] = <<Arrived(G[path])>> => d = G[path] /\ E2[path] \in {<<>>, E[path]}
    /\ \A x : E[path] = <<Left(x)>> => G[path] # NoDev

LEMMA ComesFacts ==
    ASSUME NEW E \in [Ports -> Seq(Event)], NEW E2, NEW G, NEW path \in Ports, NEW d,
           Comes(E, E2, G, path, d)
    PROVE  Known(E, E2, G, path, d)
<1>1. NoDev \notin Devs
  BY Members
<1>2. E[path] = <<>> => G[path] # NoDev /\ d = G[path] /\ E2[path] = <<>>
  BY <1>1 DEF Comes
<1>3. ASSUME E[path] = <<Arrived(G[path])>> PROVE d = G[path] /\ E2[path] \in {<<>>, E[path]}
  <2>1. Head(E[path]) = Arrived(G[path]) /\ Tail(E[path]) = <<>>
    <3> DEFINE a == Arrived(G[path])
    <3> HIDE DEF a
    <3>1. Head(<<a>>) = a /\ Tail(<<a>>) = <<>>
      OBVIOUS
    <3>2. QED
      BY <1>3, <3>1 DEF a
  <2>2. Arrived(d) = Arrived(G[path]) => d = G[path]
    BY DEF Arrived
  <2>3. QED
    BY <2>1, <2>2 DEF Comes
<1>4. ASSUME NEW x, E[path] = <<Left(x)>> PROVE G[path] # NoDev
  <2>1. Head(E[path]).what = "LEFT"
    BY <1>4 DEF Left
  <2>2. QED
    BY <1>1, <2>1 DEF Comes, Arrived
<1>5. QED
  BY <1>2, <1>3, <1>4 DEF Known

\* The port that has the path may record the device.
LEMMA ComesFresh ==
    ASSUME NEW E \in [Ports -> Seq(Event)], NEW E2, NEW G, NEW path \in Ports, NEW d, NEW dev,
           Comes(E, E2, G, path, d), Recorded(E[path], G[path], dev)
    PROVE  Fresh(E, E2, G, path, d)
<1>1. CASE E2[path] = E[path] /\ d = G[path]
  BY <1>1 DEF Comes, Fresh, Recorded
<1>2. CASE E[path] # <<>> /\ Head(E[path]) = Arrived(d) /\ E2[path] = Tail(E[path])
  <2> DEFINE q == E[path]
  <2>1. q \in Seq(Event) /\ q # <<>>
    BY <1>2
  <2>2. G[path] = IF q[Len(q)].what = "ARRIVED" THEN q[Len(q)].dev ELSE NoDev
    BY <1>2 DEF Recorded
  <2> HIDE DEF q
  <2>3. CASE Tail(q) = <<>>
    <3>1. Len(q) = 1 /\ q[1] = Head(q)
      <4>1. Len(Tail(q)) = 0 /\ Len(Tail(q)) = Len(q) - 1 /\ Len(q) \in Nat
        BY <2>1, <2>3, HeadTailProperties, LenProperties, EmptySeq
      <4>2. QED
        BY <2>1, <4>1
    <3>2. G[path] = d
      BY <1>2, <2>2, <3>1 DEF Arrived, q
    <3>3. QED
      BY <1>2, <2>3, <3>2 DEF Comes, Fresh, Recorded, q
  <2>4. CASE Tail(q) # <<>>
    <3>1. Tail(q) \in Seq(Event) /\ Len(Tail(q)) = Len(q) - 1 /\ Len(Tail(q)) > 0
      BY <2>1, <2>4, HeadTailProperties, EmptySeq
    <3>2. Tail(q)[Len(Tail(q))] = q[Len(q)]
      BY <2>1, <3>1, HeadTailProperties
    <3>3. Recorded(Tail(q), G[path], d)
      BY <2>2, <2>4, <3>2 DEF Recorded
    <3>4. QED
      BY <1>2, <3>3 DEF Comes, Fresh, q
  <2>5. QED
    BY <2>3, <2>4
<1>3. QED
  BY <1>1, <1>2 DEF Comes

\* A device that port m does not know comes at its path: the devices have left,
\* and it is the device of the pin that is being probed, or of the one that has
\* been switched off because the device did not come.
Seen(P, E2, G, m, d, x) ==
    /\ wires[x] = P[m].path
    /\ \/ /\ P[x].probe = "UP" /\ d = G[wires[x]]
          /\ E2[wires[x]] \in {<<>>, <<Arrived(d)>>}
       \/ /\ P[x].probe = "DOWN_2" /\ wires[x] \in there
          /\ "late" \in Faults \/ "mismatch" \in Faults

LEMMA DeviceSeen ==
    ASSUME wires \in Orders, NEW P \in [Ports -> ProbePort], NEW E \in [Ports -> Seq(Event)],
           NEW E2, NEW G, Followed(P, E, G), Lines(P), Leaving(P, E, G) \/ Scanning(P, E, G),
           NEW m \in Ports, NEW d, Comes(E, E2, G, P[m].path, d), P[m].dev # d
    PROVE  Scanning(P, E, G) /\ \E x \in Ports : Seen(P, E2, G, m, d, x)
<1> DEFINE path == P[m].path
<1>0. path \in Ports
  BY FieldTypes
<1>1. /\ E[path] = <<>> => G[path] # NoDev /\ d = G[path] /\ E2[path] = <<>>
      /\ E[path] = <<Arrived(G[path])>> => d = G[path] /\ E2[path] \in {<<>>, E[path]}
      /\ \A x : E[path] = <<Left(x)>> => G[path] # NoDev
  <2>1. Comes(E, E2, G, path, d)
    OBVIOUS
  <2> HIDE DEF path
  <2>2. Known(E, E2, G, path, d)
    BY <1>0, <2>1, ComesFacts
  <2>3. QED
    BY <2>2 DEF Known
<1>2. Recorded(E[path], G[path], P[m].dev)
  BY DEF Followed
<1>3. Scanning(P, E, G)
  <2>1. SUFFICES ASSUME Leaving(P, E, G) PROVE FALSE
    OBVIOUS
  <2>2. CASE E[path] = <<>>
    BY <1>1, <1>2, <2>2 DEF Recorded
  <2>3. CASE E[path] # <<>>
    BY <1>1, <2>1, <2>3 DEF Leaving
  <2>4. QED
    BY <2>2, <2>3
<1>4. PICK x \in Ports : wires[x] = path
  BY <1>0, Wired
<1>5. Pin(P[x], m = x, P[m].dev, E[path], G[path], path \in there)
  BY <1>3, <1>4 DEF Scanning
<1>6. ~(E[path] = <<>> /\ G[path] = NoDev)
  BY <1>1
<1>7. P[x].probe \in {"UP", "DOWN_2"}
  <2>1. P[x].probe \in ProbeStates /\ P[x].probe # "IDLE"
    BY FieldTypes DEF Lines, Lit
  <2>2. ~(P[x].probe \in Done /\ P[x].pwr)
    BY <1>1, <1>5 DEF Pin
  <2>3. QED
    BY <1>5, <1>6, <2>1, <2>2, Members DEF Pin, Done
<1>8. CASE P[x].probe = "UP"
  <2>1. E[path] = <<Arrived(G[path])>>
    BY <1>5, <1>6, <1>8 DEF Pin
  <2>2. QED
    BY <1>1, <1>3, <1>4, <1>8, <2>1 DEF Seen
<1>9. CASE P[x].probe = "DOWN_2"
  <2>1. path \in there /\ ("late" \in Faults \/ "mismatch" \in Faults)
    BY <1>5, <1>6, <1>9 DEF Pin
  <2>2. QED
    BY <1>3, <1>4, <1>9, <2>1 DEF Seen
<1>10. QED
  BY <1>7, <1>8, <1>9

\* A device that is reported twice is ignored.
LEMMA IgnoredSound ==
    ASSUME wires \in Orders, NEW P \in [Ports -> ProbePort], Permuted(P),
           NEW E \in [Ports -> Seq(Event)], NEW E2, NEW G, Sound(P, E, G),
           NEW m \in Ports, NEW d, Comes(E, E2, G, P[m].path, d), P[m].dev = d
    PROVE  Sound(P, E2, G)
<1> DEFINE path == P[m].path
<1>0. path \in Ports /\ d # NoDev /\ \A x \in Ports : x # path => E2[x] = E[x]
  BY FieldTypes, Members DEF Comes
<1>1. Known(E, E2, G, path, d)
  <2>1. Comes(E, E2, G, path, d)
    OBVIOUS
  <2> HIDE DEF path
  <2>2. QED
    BY <1>0, <2>1, ComesFacts
<1>2. ASSUME Leaving(P, E, G) PROVE Leaving(P, E2, G)
  <2>1. ASSUME NEW q \in Ports
        PROVE  /\ P[q].probe \in {"DOWN", "DOWN_DONE"}
               /\ \/ E2[P[q].path] = <<>>
                  \/ /\ E2[P[q].path] = <<Left(P[q].dev)>>
                     /\ P[q].dev # NoDev /\ G[P[q].path] = NoDev
    <3>1. CASE q = m
      BY <1>1, <1>2, <3>1 DEF Leaving, Known
    <3>2. CASE q # m
      <4>1. P[q].path # path /\ P[q].path \in Ports
        BY <3>2, FieldTypes DEF Permuted
      <4>2. QED
        BY <1>0, <1>2, <4>1 DEF Leaving
    <3>3. QED
      BY <3>1, <3>2
  <2>2. QED
    BY <2>1 DEF Leaving
<1>3. ASSUME Scanning(P, E, G) PROVE Scanning(P, E2, G)
  <2>1. ASSUME NEW x \in Ports, NEW k \in Ports, P[k].path = wires[x]
        PROVE  /\ Pin(P[x], k = x, P[k].dev, E2[wires[x]], G[wires[x]], wires[x] \in there)
               /\ P[x].probe = "UP" => P[k].dev = NoDev
    <3>1. /\ Pin(P[x], k = x, P[k].dev, E[wires[x]], G[wires[x]], wires[x] \in there)
          /\ P[x].probe = "UP" => P[k].dev = NoDev
      BY <1>3, <2>1 DEF Scanning
    <3>2. wires[x] \in Ports
      BY <2>1, FieldTypes
    <3>3. CASE k # m
      <4>1. E2[wires[x]] = E[wires[x]]
        BY <1>0, <2>1, <3>2, <3>3 DEF Permuted
      <4>2. QED
        BY <3>1, <4>1
    <3>4. CASE k = m
      <4>1. wires[x] = path /\ P[k].dev # NoDev
        BY <1>0, <2>1, <3>4
      <4>2. ~(E[path] = <<>> /\ G[path] = NoDev)
        BY <1>1 DEF Known
      <4>3. E[path] \in {<<>>, <<Arrived(G[path])>>} => E2[path] \in {<<>>, <<Arrived(G[path])>>}
        BY <1>1 DEF Known
      <4> HIDE DEF path
      <4>4. Pin(P[x], k = x, P[k].dev, E2[path], G[path], path \in there)
        BY <3>1, <4>1, <4>2, <4>3 DEF Pin, Done
      <4>5. QED
        BY <3>1, <4>1, <4>4
    <3>5. QED
      BY <3>3, <3>4
  <2>2. QED
    BY <2>1 DEF Scanning
<1>4. QED
  BY <1>2, <1>3 DEF Sound

\* Port m records the device; its power, timer, state and path stay.
LEMMA NotedLines ==
    ASSUME NEW P, NEW m \in Ports, NEW d, NEW Q, Noted(Q, P, m, d)
    PROVE  /\ \A q \in Ports : /\ Q[q].enabled = P[q].enabled /\ Q[q].pwr = P[q].pwr
                               /\ Q[q].listed = P[q].listed /\ Q[q].mode = P[q].mode
                               /\ Q[q].probe = P[q].probe /\ Q[q].path = P[q].path
                               /\ q # m => Q[q].dev = P[q].dev
           /\ Q[m].dev = d
           /\ Lines(P) => Lines(Q)
           /\ AllDone(P) => AllDone(Q)
           /\ Turn(P) => Turn(Q)
<1>1. \A q \in Ports : /\ Q[q].enabled = P[q].enabled /\ Q[q].pwr = P[q].pwr
                       /\ Q[q].listed = P[q].listed /\ Q[q].mode = P[q].mode
                       /\ Q[q].probe = P[q].probe /\ Q[q].path = P[q].path
                       /\ q # m => Q[q].dev = P[q].dev
  BY DEF Noted, Only, Is
<1>2. Q[m].dev = d
  BY DEF Noted, Is
<1>3. QED
  BY <1>1, <1>2, SameLines

LEMMA WiresAt ==
    ASSUME wires \in Orders
    PROVE  \A x \in Ports : wires[x] \in Ports
BY Wired

\* A device that comes late, at the path of the port that waited for it, is
\* recorded and changes nothing.
LEMMA LateSound ==
    ASSUME wires \in Orders, NEW P \in [Ports -> ProbePort], Permuted(P), Serial(P),
           NEW E, NEW E2, NEW G, Sound(P, E, G), Scanning(P, E, G),
           NEW m \in Ports, \A x \in Ports : x # P[m].path => E2[x] = E[x],
           NEW d, P[m].probe = "DOWN_2",
           NEW y \in Ports, Seen(P, E2, G, m, d, y), NEW Q, Noted(Q, P, m, d)
    PROVE  Sound(Q, E2, G)
<1>1. /\ \A q \in Ports : /\ Q[q].pwr = P[q].pwr /\ Q[q].probe = P[q].probe
                          /\ Q[q].path = P[q].path
                          /\ q # m => Q[q].dev = P[q].dev
      /\ Lines(Q) /\ AllDone(Q) /\ (EnableWorks => Turn(Q))
  BY NotedLines DEF Sound
<1>2. y = m /\ wires[y] = P[m].path /\ wires[y] \in there
      /\ ("late" \in Faults \/ "mismatch" \in Faults)
  BY SerialAlone DEF Seen
<1>3. ASSUME NEW x \in Ports, NEW k \in Ports, Q[k].path = wires[x]
      PROVE  /\ Pin(Q[x], k = x, Q[k].dev, E2[wires[x]], G[wires[x]], wires[x] \in there)
             /\ Q[x].probe = "UP" => Q[k].dev = NoDev
  <2>1. P[k].path = wires[x] /\ wires[x] \in Ports
    BY <1>1, <1>3, WiresAt
  <2>2. CASE x = m
    <3>1. k = m
      BY <1>2, <2>1, <2>2 DEF Permuted
    <3>2. Q[x].probe = "DOWN_2" /\ wires[x] \in there
      BY <1>1, <1>2, <2>2
    <3>3. QED
      BY <1>2, <2>2, <3>1, <3>2 DEF Pin, Done
  <2>3. CASE x # m
    <3>1. wires[x] # P[m].path
      BY <1>2, <2>3, Wired
    <3>2. k # m /\ E2[wires[x]] = E[wires[x]]
      BY <2>1, <3>1
    <3>3. /\ Pin(P[x], k = x, P[k].dev, E[wires[x]], G[wires[x]], wires[x] \in there)
          /\ P[x].probe = "UP" => P[k].dev = NoDev
      BY <2>1 DEF Scanning
    <3>4. Q[k].dev = P[k].dev /\ Q[x].probe = P[x].probe /\ Q[x].pwr = P[x].pwr
      BY <1>1, <3>2
    <3>5. Pin(Q[x], k = x, P[k].dev, E[wires[x]], G[wires[x]], wires[x] \in there)
      BY <3>3, <3>4 DEF Pin
    <3>6. QED
      BY <3>2, <3>3, <3>4, <3>5
  <2>4. QED
    BY <2>2, <2>3
<1>4. QED
  BY <1>1, <1>3 DEF Sound, Scanning

\* The device of a pin that has been found.
LEMMA FoundPin ==
    ASSUME NEW r, r.probe = "DONE", r.pwr, NEW d \in Devs, NEW q, q \in {<<>>, <<Arrived(d)>>},
           NEW works
    PROVE  Pin(r, TRUE, d, q, d, works)
BY DEF Pin, Done

\* The device comes at the path of the port that is being probed: it is its own.
LEMMA FoundLines ==
    ASSUME wires \in Orders, NEW P \in [Ports -> ProbePort], Permuted(P), Serial(P),
           NEW E, NEW E2, NEW G, Followed(P, E, G), Lines(P), Scanning(P, E, G),
           NEW m \in Ports, \A x \in Ports : x # P[m].path => E2[x] = E[x],
           NEW d \in Devs, Fresh(E, E2, G, P[m].path, d), P[m].probe = "UP",
           NEW y \in Ports, Seen(P, E2, G, m, d, y),
           NEW Q, Noted(Q, P, m, d), NEW M, Finished(M, Q, m)
    PROVE  Lines(M) /\ Scanning(M, E2, G)
<1>1. /\ M[m].probe = "DONE" /\ M[m].pwr = P[m].pwr
      /\ M[m].enabled = P[m].enabled /\ M[m].path = P[m].path /\ M[m].dev = d
      /\ \A q \in Ports : q # m => M[q] = P[q]
  BY DEF Finished, Noted, Only, Is
<1>2. y = m
  BY SerialAlone DEF Seen
<1>3. wires[m] = P[m].path /\ d = G[wires[m]] /\ E2[wires[m]] \in {<<>>, <<Arrived(d)>>}
  BY <1>2 DEF Seen
<1>4. Lit(P[m]) /\ P[m].pwr
  BY DEF Lines, Lit
<1>5. Lines(M)
  <2>1. Lit(M[m]) /\ Mapped(M[m], m)
    BY <1>1, <1>3, <1>4 DEF Lit, Mapped
  <2>2. QED
    BY <1>1, <2>1 DEF Lines
<1>6. ASSUME NEW x \in Ports, NEW k \in Ports, M[k].path = wires[x]
      PROVE  /\ Pin(M[x], k = x, M[k].dev, E2[wires[x]], G[wires[x]], wires[x] \in there)
             /\ M[x].probe = "UP" => M[k].dev = NoDev
  <2>1. P[k].path = wires[x] /\ wires[x] \in Ports
    BY <1>1, <1>6, WiresAt
  <2>2. CASE x = m
    <3>1. k = m
      BY <1>3, <2>1, <2>2 DEF Permuted
    <3>2. Pin(M[m], TRUE, d, E2[wires[m]], d, wires[m] \in there)
      BY <1>1, <1>3, <1>4, FoundPin
    <3>3. Pin(M[x], k = x, M[k].dev, E2[wires[x]], G[wires[x]], wires[x] \in there)
      BY <1>1, <1>3, <2>2, <3>1, <3>2
    <3>4. QED
      BY <1>1, <2>2, <3>3
  <2>3. CASE x # m
    <3>1. wires[x] # P[m].path
      BY <1>3, <2>3, Wired
    <3>2. k # m /\ E2[wires[x]] = E[wires[x]]
      BY <2>1, <3>1
    <3>3. /\ Pin(P[x], k = x, P[k].dev, E[wires[x]], G[wires[x]], wires[x] \in there)
          /\ P[x].probe = "UP" => P[k].dev = NoDev
      BY <2>1 DEF Scanning
    <3>4. QED
      BY <1>1, <2>3, <3>2, <3>3
  <2>4. QED
    BY <2>2, <2>3
<1>7. QED
  BY <1>5, <1>6 DEF Scanning

\* The device comes at the path of port m while u is being probed: the path is
\* the one that the pin of u powers, and m, whose path it was, has not been found.
LEMMA SwappedLines ==
    ASSUME wires \in Orders, NEW P \in [Ports -> ProbePort], Permuted(P), Serial(P),
           NEW E, NEW E2, NEW G, Lines(P), Scanning(P, E, G),
           NEW m \in Ports, \A x \in Ports : x # P[m].path => E2[x] = E[x],
           NEW d \in Devs, P[m].probe # "UP", NEW u \in Ports, P[u].probe = "UP",
           NEW y \in Ports, Seen(P, E2, G, m, d, y), NEW M, Swapped(M, P, m, u, d), Permuted(M)
    PROVE  Lines(M) /\ Scanning(M, E2, G)
<1>1. /\ \A q \in Ports : q \notin {m, u} => M[q] = P[q]
      /\ M[m].dev = NoDev /\ M[m].probe = P[m].probe /\ M[m].path = P[u].path
      /\ M[m].pwr = P[m].pwr /\ M[m].enabled = P[m].enabled
      /\ M[u].dev = d /\ M[u].probe = "DONE" /\ M[u].path = P[m].path
      /\ M[u].pwr = P[u].pwr /\ M[u].enabled = P[u].enabled /\ u # m
  BY DEF Swapped, Is
<1>2. \A q \in Ports : P[q].probe \in {"UP", "DOWN_2", "WRITE_FILE"} => q = u
  BY SerialAlone
<1>3. y = u
  BY <1>2 DEF Seen
<1>4. wires[u] = P[m].path /\ d = G[wires[u]] /\ E2[wires[u]] \in {<<>>, <<Arrived(d)>>}
  BY <1>3 DEF Seen
<1>5. Lit(P[u]) /\ P[u].pwr /\ Lit(P[m]) /\ Mapped(P[m], m)
  BY DEF Lines, Lit
<1>6. wires[m] # P[m].path
  BY <1>1, <1>4, Wired
<1>7. Lines(M)
  <2>1. Lit(M[u]) /\ Mapped(M[u], u)
    BY <1>1, <1>4, <1>5 DEF Lit, Mapped
  <2>2. Lit(M[m]) /\ Mapped(M[m], m)
    BY <1>1, <1>5, <1>6 DEF Lit, Mapped
  <2>3. QED
    BY <1>1, <2>1, <2>2 DEF Lines
<1>8. ASSUME NEW x \in Ports, NEW k \in Ports, M[k].path = wires[x]
      PROVE  /\ Pin(M[x], k = x, M[k].dev, E2[wires[x]], G[wires[x]], wires[x] \in there)
             /\ M[x].probe = "UP" => M[k].dev = NoDev
  <2>1. CASE x = u
    <3>1. k = u
      BY <1>1, <1>4, <1>8, <2>1 DEF Permuted
    <3>2. Pin(M[u], TRUE, d, E2[wires[u]], d, wires[u] \in there)
      BY <1>1, <1>4, <1>5, FoundPin
    <3>3. Pin(M[x], k = x, M[k].dev, E2[wires[x]], G[wires[x]], wires[x] \in there)
      BY <1>1, <1>4, <2>1, <3>1, <3>2
    <3>4. QED
      BY <1>1, <2>1, <3>3
  <2>2. CASE x # u
    <3>1. wires[x] # wires[u] /\ wires[x] \in Ports /\ E2[wires[x]] = E[wires[x]]
      BY <1>4, <2>2, Wired
    <3>2. k # u
      BY <1>1, <1>4, <1>8, <3>1
    <3>3. /\ M[x].probe = P[x].probe /\ M[x].pwr = P[x].pwr
          /\ P[x].probe \notin {"UP", "DOWN_2", "WRITE_FILE"}
      BY <1>1, <1>2, <2>2
    <3>4. CASE k = m
      <4>1. Pin(P[x], u = x, P[u].dev, E[wires[x]], G[wires[x]], wires[x] \in there)
        BY <1>1, <1>8, <3>4 DEF Scanning
      <4>2. ~(P[x].probe \in Done /\ P[x].pwr)
        BY <2>2, <4>1 DEF Pin
      <4>3. Pin(M[x], k = x, M[k].dev, E[wires[x]], G[wires[x]], wires[x] \in there)
        BY <3>3, <4>1, <4>2 DEF Pin
      <4>4. QED
        BY <3>1, <3>3, <4>3
    <3>5. CASE k # m
      <4>1. M[k] = P[k]
        BY <1>1, <3>2, <3>5
      <4>2. Pin(P[x], k = x, P[k].dev, E[wires[x]], G[wires[x]], wires[x] \in there)
        BY <1>8, <4>1 DEF Scanning
      <4>3. Pin(M[x], k = x, M[k].dev, E[wires[x]], G[wires[x]], wires[x] \in there)
        BY <3>3, <4>1, <4>2 DEF Pin
      <4>4. QED
        BY <3>1, <3>3, <4>3
    <3>6. QED
      BY <3>4, <3>5
  <2>3. QED
    BY <2>1, <2>2
<1>9. QED
  BY <1>7, <1>8 DEF Scanning

LEMMA ReportedRight ==
    ASSUME wires \in Orders, NEW P \in [Ports -> ProbePort], Permuted(P), Serial(P),
           NEW E \in [Ports -> Seq(Event)], NEW E2, NEW G, Followed(P, E, G), Sound(P, E, G),
           NEW m \in Ports, NEW d, Comes(E, E2, G, P[m].path, d),
           NEW n \in BOOLEAN, ~n, NEW g, Reported(g, P, <<>>, n, m, d)
    PROVE  Right(g, E2, G)
<1>0. /\ d \in Devs /\ P[m].path \in Ports /\ Fresh(E, E2, G, P[m].path, d)
      /\ \A x \in Ports : x # P[m].path => E2[x] = E[x]
  <2>1. P[m].path \in Ports /\ Recorded(E[P[m].path], G[P[m].path], P[m].dev)
    BY FieldTypes DEF Followed
  <2>2. QED
    BY <2>1, ComesFresh DEF Comes
<1>1. CASE P[m].dev = d /\ g = State(P, <<>>, n)
  <2>1. Busy(P)
    BY DEF Serial, Busy
  <2>2. QED
    BY <1>1, <2>1, IgnoredSound, RightIs
<1>2. SUFFICES ASSUME P[m].dev # d PROVE Right(g, E2, G)
  BY <1>1 DEF Reported
<1>3. Scanning(P, E, G) /\ \E y \in Ports : Seen(P, E2, G, m, d, y)
  BY <1>2, DeviceSeen DEF Sound
<1>4. PICK y \in Ports : Seen(P, E2, G, m, d, y)
  BY <1>3
<1>5. Lines(P)
  BY DEF Sound
<1>6. CASE P[m].probe = "DOWN_2" /\ \E Q : g = State(Q, <<>>, n) /\ Noted(Q, P, m, d)
  <2>1. PICK Q : g = State(Q, <<>>, n) /\ Noted(Q, P, m, d)
    BY <1>6
  <2>2. Sound(Q, E2, G)
    BY <1>0, <1>3, <1>4, <1>6, <2>1, LateSound
  <2>3. Busy(Q)
    BY <2>1, NotedLines DEF Serial, Busy
  <2>4. QED
    BY <2>1, <2>2, <2>3, RightIs
<1>7. CASE P[m].probe = "UP" /\ \E Q, M : Noted(Q, P, m, d) /\ Finished(M, Q, m)
                                            /\ Outcome(g, M, <<>>, n, m)
  <2>1. PICK Q, M : Noted(Q, P, m, d) /\ Finished(M, Q, m) /\ Outcome(g, M, <<>>, n, m)
    BY <1>7
  <2>2. Ready(M, m, E2, G)
    BY <1>0, <1>7, <2>1, FoundMid
  <2>3. Lines(M) /\ Scanning(M, E2, G)
    BY <1>0, <1>3, <1>4, <1>5, <1>7, <2>1, FoundLines
  <2>4. QED
    BY <2>1, <2>2, <2>3, OutcomeRight DEF Ready
<1>8. CASE /\ P[m].probe \notin {"UP", "DOWN_2"}
           /\ \E u \in Ports : /\ P[u].probe = "UP"
                               /\ \E M : Swapped(M, P, m, u, d) /\ Outcome(g, M, <<>>, n, u)
  <2>0. PICK u \in Ports : /\ P[u].probe = "UP"
                          /\ \E M : Swapped(M, P, m, u, d) /\ Outcome(g, M, <<>>, n, u)
    BY <1>8
  <2>1. PICK M : P[u].probe = "UP" /\ Swapped(M, P, m, u, d) /\ Outcome(g, M, <<>>, n, u)
    BY <2>0
  <2>2. Ready(M, u, E2, G)
    BY <1>0, <1>8, <2>1, SwappedMid
  <2>3. Permuted(M)
    BY <2>2 DEF Mid, Ready
  <2>4. Lines(M) /\ Scanning(M, E2, G)
    BY <1>0, <1>3, <1>4, <1>5, <1>8, <2>1, <2>3, SwappedLines
  <2>5. QED
    BY <2>1, <2>2, <2>4, OutcomeRight DEF Ready
<1>9. CASE /\ P[m].probe # "DOWN_2" /\ \A u \in Ports : P[u].probe # "UP"
           /\ \E Q : g = State(Q, <<>>, TRUE) /\ Noted(Q, P, m, d)
  <2>1. PICK Q : g = State(Q, <<>>, TRUE) /\ Noted(Q, P, m, d)
    BY <1>9
  <2>2. "mismatch" \in Faults
    <3>1. P[y].probe = "DOWN_2" /\ wires[y] \in there /\ wires[y] = P[m].path
      BY <1>4, <1>9 DEF Seen
    <3>2. P[y].path # wires[y]
      BY <1>9, <3>1 DEF Permuted
    <3>3. QED
      BY <1>5, <3>1, <3>2 DEF Lines, Mapped
  <2>3. Lines(Q) /\ AllDone(Q) /\ (EnableWorks => Turn(Q)) /\ Busy(Q)
    <3>1. Busy(Q)
      BY <2>1, NotedLines DEF Serial, Busy
    <3>2. QED
      BY <2>1, <3>1, NotedLines DEF Sound
  <2>4. g.port = Q /\ g.file = <<>> /\ g.null = TRUE
    BY <2>1 DEF State
  <2>5. QED
    BY <2>2, <2>3, <2>4 DEF Right, Lines
<1>10. QED
  BY <1>2, <1>6, <1>7, <1>8, <1>9 DEF Reported

\* A port that gpio_on_probe_down_done marks has no device, and is off.
LEMMA MarkedOff ==
    ASSUME wires \in Orders, NEW P \in [Ports -> ProbePort], Permuted(P), Serial(P),
           NEW E, NEW G, Sound(P, E, G), NEW p \in Ports, P[p].listed = 1,
           P[p].probe \in {"DOWN", "DOWN_DONE"}, NEW q \in Ports, q = p \/ Marked(P, q)
    PROVE  ~P[q].pwr /\ P[q].probe \notin {"UP", "DOWN_2"}
<1>1. \A x \in Ports : P[x].probe \notin {"UP", "DOWN_2", "WRITE_FILE"}
  BY SerialAlone
<1>2. Lit(P[q])
  BY DEF Sound, Lines
<1>3. SUFFICES ASSUME P[q].pwr PROVE FALSE
  BY <1>1
<1>4. P[q].probe \in Done /\ q # p
  BY <1>1, <1>2, <1>3 DEF Lit, Done
<1>5. Scanning(P, E, G)
  BY <1>4 DEF Sound, Leaving, Done
<1>6. PICK m \in Ports : P[m].path = wires[q]
  BY WiresAt DEF Permuted
<1>7. Pin(P[q], m = q, P[m].dev, E[wires[q]], G[wires[q]], wires[q] \in there)
  BY <1>5, <1>6 DEF Scanning
<1>8. m = q /\ P[q].dev \in Devs
  BY <1>3, <1>4, <1>7 DEF Pin
<1>9. Connected(P[q])
  BY <1>8, Members DEF Connected
<1>10. q < q
  BY <1>4, <1>9 DEF Marked
<1>11. QED
  BY <1>10, PortsAreNumbers

LEMMA ClearedLines ==
    ASSUME wires \in Orders, NEW P \in [Ports -> ProbePort], Permuted(P), Serial(P),
           NEW E, NEW G, Sound(P, E, G), NEW p \in Ports, P[p].listed = 1,
           P[p].probe \in {"DOWN", "DOWN_DONE"}, NEW M, Cleared(M, P, p)
    PROVE  /\ Lines(M) /\ AllDone(M)
           /\ Leaving(P, E, G) => Leaving(M, E, G)
           /\ Scanning(P, E, G) => Scanning(M, E, G)
<1>0. \A x \in Ports : P[x].probe \notin {"UP", "DOWN_2", "WRITE_FILE"}
  BY SerialAlone
<1>1. \A q \in Ports : /\ M[q].enabled = P[q].enabled /\ M[q].pwr = P[q].pwr
                       /\ M[q].dev = P[q].dev /\ M[q].path = P[q].path
                       /\ \/ M[q].probe = P[q].probe
                          \/ M[q].probe = "DOWN_DONE" /\ ~P[q].pwr
  <2>1. ASSUME NEW q \in Ports
        PROVE  /\ M[q].enabled = P[q].enabled /\ M[q].pwr = P[q].pwr
               /\ M[q].dev = P[q].dev /\ M[q].path = P[q].path
               /\ M[q].probe = IF q = p \/ Marked(P, q) THEN "DOWN_DONE" ELSE P[q].probe
    BY DEF Cleared, Is
  <2>2. ASSUME NEW q \in Ports, q = p \/ Marked(P, q) PROVE ~P[q].pwr
    BY <2>2, MarkedOff
  <2>3. QED
    BY <2>1, <2>2
<1>2. Lines(M)
  <2>1. ASSUME NEW q \in Ports PROVE Lit(M[q]) /\ Mapped(M[q], q)
    <3>1. Lit(P[q]) /\ Mapped(P[q], q)
      BY DEF Sound, Lines
    <3>2. QED
      BY <1>1, <3>1 DEF Lit, Mapped, Done
  <2>2. QED
    BY <2>1 DEF Lines
<1>3. AllDone(M)
  BY <1>0, <1>1 DEF AllDone
<1>4. Leaving(P, E, G) => Leaving(M, E, G)
  BY <1>1 DEF Leaving
<1>5. ASSUME Scanning(P, E, G), NEW x \in Ports, NEW m \in Ports, M[m].path = wires[x]
      PROVE  /\ Pin(M[x], m = x, M[m].dev, E[wires[x]], G[wires[x]], wires[x] \in there)
             /\ M[x].probe = "UP" => M[m].dev = NoDev
  <2>1. Pin(P[x], m = x, P[m].dev, E[wires[x]], G[wires[x]], wires[x] \in there)
    BY <1>1, <1>5 DEF Scanning
  <2>2. M[m].dev = P[m].dev /\ M[x].pwr = P[x].pwr /\ M[x].probe # "UP"
    BY <1>0, <1>1
  <2>3. CASE M[x].probe = P[x].probe
    <3>1. Pin(M[x], m = x, P[m].dev, E[wires[x]], G[wires[x]], wires[x] \in there)
      BY <2>1, <2>2, <2>3 DEF Pin
    <3>2. QED
      BY <2>2, <3>1
  <2>4. CASE M[x].probe = "DOWN_DONE" /\ ~P[x].pwr
    <3>1. Lit(P[x]) /\ P[x].probe \in ProbeStates
      BY FieldTypes DEF Sound, Lines
    <3>2. P[x].probe \in {"DOWN_DONE", "DONE"}
      BY <1>0, <2>1, <3>1, Members DEF Lit, Pin
    <3>3. E[wires[x]] = <<>> /\ G[wires[x]] = NoDev
      BY <2>1, <2>4, <3>2 DEF Pin, Done
    <3>4. QED
      BY <2>2, <2>4, <3>3 DEF Pin, Done
  <2>5. QED
    BY <1>1, <2>3, <2>4
<1>6. QED
  BY <1>2, <1>3, <1>4, <1>5 DEF Scanning

\* All devices have left: the scan starts.
LEMMA AllLeft ==
    ASSUME wires \in Orders, NEW P \in [Ports -> ProbePort], NEW E, NEW G, Followed(P, E, G),
           Leaving(P, E, G), NEW p \in Ports, NEW M, Cleared(M, P, p),
           \A q \in Ports : ~Connected(P[q])
    PROVE  Scanning(M, E, G)
<1>1. ASSUME NEW q \in Ports PROVE E[P[q].path] = <<>> /\ G[P[q].path] = NoDev
  <2>1. P[q].dev = NoDev
    BY DEF Connected
  <2>2. E[P[q].path] = <<>>
    BY <2>1 DEF Leaving
  <2>3. QED
    BY <2>1, <2>2 DEF Followed, Recorded
<1>2. ASSUME NEW q \in Ports PROVE M[q].probe = "DOWN_DONE" /\ M[q].path = P[q].path
  BY DEF Cleared, Is, Marked
<1>3. ASSUME NEW x \in Ports, NEW m \in Ports, M[m].path = wires[x]
      PROVE  Pin(M[x], m = x, M[m].dev, E[wires[x]], G[wires[x]], wires[x] \in there)
  <2>1. E[wires[x]] = <<>> /\ G[wires[x]] = NoDev
    BY <1>1, <1>2, <1>3
  <2>2. QED
    BY <1>2, <2>1 DEF Pin, Done
<1>4. QED
  BY <1>2, <1>3 DEF Scanning

\* The ports have the same power, states, paths and devices as before.
LEMMA SameScan ==
    ASSUME NEW P, NEW Q, NEW E, NEW G,
           \A q \in Ports : /\ Q[q].enabled = P[q].enabled /\ Q[q].pwr = P[q].pwr
                            /\ Q[q].probe = P[q].probe /\ Q[q].path = P[q].path
                            /\ Q[q].dev = P[q].dev
    PROVE  /\ Lines(P) => Lines(Q)
           /\ AllDone(P) => AllDone(Q)
           /\ Leaving(P, E, G) => Leaving(Q, E, G)
           /\ Scanning(P, E, G) => Scanning(Q, E, G)
<1>1. Lines(P) => Lines(Q)
  BY DEF Lines, Lit, Mapped
<1>2. AllDone(P) => AllDone(Q)
  BY DEF AllDone
<1>3. Leaving(P, E, G) => Leaving(Q, E, G)
  BY DEF Leaving
<1>4. ASSUME Scanning(P, E, G), NEW x \in Ports, NEW m \in Ports, Q[m].path = wires[x]
      PROVE  /\ Pin(Q[x], m = x, Q[m].dev, E[wires[x]], G[wires[x]], wires[x] \in there)
             /\ Q[x].probe = "UP" => Q[m].dev = NoDev
  <2>1. /\ Pin(P[x], m = x, P[m].dev, E[wires[x]], G[wires[x]], wires[x] \in there)
        /\ P[x].probe = "UP" => P[m].dev = NoDev
    BY <1>4 DEF Scanning
  <2>2. Q[m].dev = P[m].dev /\ Q[x].pwr = P[x].pwr /\ Q[x].probe = P[x].probe
    OBVIOUS
  <2>3. Pin(Q[x], m = x, P[m].dev, E[wires[x]], G[wires[x]], wires[x] \in there)
    BY <2>1, <2>2 DEF Pin
  <2>4. QED
    BY <2>1, <2>2, <2>3
<1>5. QED
  BY <1>1, <1>2, <1>3, <1>4 DEF Scanning

\* A device is still there when the timer of port p expires.
LEMMA SettlingRight ==
    ASSUME wires \in Orders, NEW P \in [Ports -> ProbePort], Permuted(P), Serial(P),
           NEW E, NEW G, Followed(P, E, G), Sound(P, E, G), NEW p \in Ports, P[p].listed = 1,
           P[p].probe \in {"DOWN", "DOWN_DONE"}, NEW n \in BOOLEAN, ~n,
           NEW g, Settling(g, P, <<>>, n, p)
    PROVE  Right(g, E, G)
<1>1. PICK M : /\ Cleared(M, P, p)
               /\ \/ /\ \A q \in Ports : ~Connected(P[q])
                     /\ \E Q : g = State(Q, <<>>, n) /\ Started(Q, M)
                  \/ \E Q : \E w \in Ports : g = State(Q, <<>>, n) /\ Waits(Q, M, w)
  BY DEF Settling
<1>2. /\ Lines(M) /\ AllDone(M)
      /\ Leaving(P, E, G) => Leaving(M, E, G)
      /\ Scanning(P, E, G) => Scanning(M, E, G)
  BY <1>1, ClearedLines
<1>3. Mid(M, p, E, G) /\ M[p].probe = "DOWN_DONE"
  BY <1>1, ClearedMid
<1>4. ASSUME \A q \in Ports : ~Connected(P[q]), NEW Q, g = State(Q, <<>>, n), Started(Q, M)
      PROVE  Right(g, E, G)
  <2>1. Scanning(M, E, G)
    BY <1>1, <1>2, <1>4, AllLeft DEF Sound
  <2>2. QED
    BY <1>2, <1>3, <1>4, <2>1, StartedRight
<1>5. ASSUME NEW Q, NEW w \in Ports, g = State(Q, <<>>, n), Waits(Q, M, w)
      PROVE  Right(g, E, G)
  <2>1. /\ Q[w].mode = "PROBE" /\ Q[w].listed = 1
        /\ \A q \in Ports : /\ Q[q].enabled = M[q].enabled /\ Q[q].pwr = M[q].pwr
                            /\ Q[q].probe = M[q].probe /\ Q[q].path = M[q].path
                            /\ Q[q].dev = M[q].dev
    BY <1>5 DEF Waits, Only, Is
  <2>2. /\ Lines(Q) /\ AllDone(Q)
        /\ Leaving(M, E, G) => Leaving(Q, E, G)
        /\ Scanning(M, E, G) => Scanning(Q, E, G)
    BY <1>2, <2>1, SameScan
  <2>3. ASSUME EnableWorks PROVE Turn(Q)
    <3>1. PICK t \in Ports : /\ P[t].listed = 1
                             /\ P[t].probe \in {"DOWN", "DOWN_DONE"} =>
                                    \A q \in Ports : P[q].probe \in {"DOWN", "DOWN_DONE"}
      BY <2>3 DEF Sound, Turn
    <3>2. t = p
      BY <3>1 DEF Serial
    <3>3. \A q \in Ports : M[q].probe \in {"DOWN", "DOWN_DONE"}
      BY <1>1, <3>1, <3>2 DEF Cleared, Is
    <3>4. QED
      BY <2>1, <3>3 DEF Turn
  <2>4. Busy(Q)
    BY <2>1 DEF Busy
  <2>5. Sound(Q, E, G)
    BY <1>2, <2>2, <2>3 DEF Sound
  <2>6. QED
    BY <1>5, <2>4, <2>5, RightIs
<1>6. QED
  BY <1>1, <1>4, <1>5

\* The timer of port p expires only when its device had the time to come, or to
\* leave.
Due(P, E, G, p) ==
    /\ P[p].probe = "UP" /\ wires[p] \in there =>
            (IF P[p].path = wires[p] THEN "late" ELSE "mismatch") \in Faults
    /\ P[p].probe = "DOWN_2" =>
            "slow" \in Faults \/ P[p].pwr \/ (E[wires[p]] = <<>> /\ G[wires[p]] = NoDev)

\* No device came, and port p is switched off again.
LEMMA GivenUpRight ==
    ASSUME wires \in Orders, NEW P \in [Ports -> ProbePort], Permuted(P), Serial(P),
           NEW E, NEW G, Sound(P, E, G), NEW p \in Ports, P[p].probe = "UP", Due(P, E, G, p),
           NEW n \in BOOLEAN, ~n, NEW g, GivenUp(g, P, <<>>, n, p)
    PROVE  Right(g, E, G)
<1>1. PICK Q : /\ g = State(Q, <<>>, n) /\ Only(Q, P, p)
               /\ \/ Is(Q[p], FALSE, FALSE, "PROBE", P[p].dev, 1, "DOWN_2", P[p].path)
                  \/ Is(Q[p], P[p].enabled, P[p].pwr, "PROBE", P[p].dev, 1, P[p].probe, P[p].path)
  BY DEF GivenUp
<1>2. P[p].listed = 1 /\ \A q \in Ports : P[q].probe \in {"UP", "DOWN_2", "WRITE_FILE"} => q = p
  BY SerialAlone
<1>3. Q[p].mode = "PROBE" /\ Q[p].listed = 1 /\ Q[p].dev = P[p].dev /\ Q[p].path = P[p].path
      /\ Q[p].probe \in {"UP", "DOWN_2"} /\ \A q \in Ports : q # p => Q[q] = P[q]
  BY <1>1 DEF Is, Only
<1>4. Busy(Q) /\ Turn(Q) /\ AllDone(Q)
  BY <1>2, <1>3 DEF Busy, Turn, AllDone
<1>5. CASE Is(Q[p], P[p].enabled, P[p].pwr, "PROBE", P[p].dev, 1, P[p].probe, P[p].path)
  <2>1. \A q \in Ports : /\ Q[q].enabled = P[q].enabled /\ Q[q].pwr = P[q].pwr
                         /\ Q[q].probe = P[q].probe /\ Q[q].path = P[q].path
                         /\ Q[q].dev = P[q].dev
    BY <1>3, <1>5 DEF Is
  <2>2. Sound(Q, E, G)
    BY <1>4, <2>1, SameScan DEF Sound
  <2>3. QED
    BY <1>1, <1>4, <2>2, RightIs
<1>6. CASE Is(Q[p], FALSE, FALSE, "PROBE", P[p].dev, 1, "DOWN_2", P[p].path)
  <2>1. Q[p].enabled = FALSE /\ Q[p].pwr = FALSE /\ Q[p].probe = "DOWN_2"
    BY <1>6 DEF Is
  <2>2. Scanning(P, E, G)
    BY DEF Sound, Leaving
  <2>3. Lines(Q)
    <3>1. Lit(Q[p])
      BY <2>1 DEF Lit
    <3>2. Mapped(Q[p], p)
      BY <1>3, <2>1 DEF Mapped, Due, Done
    <3>3. QED
      BY <1>3, <3>1, <3>2 DEF Sound, Lines
  <2>4. ASSUME NEW x \in Ports, NEW m \in Ports, Q[m].path = wires[x]
        PROVE  /\ Pin(Q[x], m = x, Q[m].dev, E[wires[x]], G[wires[x]], wires[x] \in there)
               /\ Q[x].probe = "UP" => Q[m].dev = NoDev
    <3>1. Q[m].dev = P[m].dev /\ P[m].path = wires[x]
      BY <1>3, <2>4
    <3>2. /\ Pin(P[x], m = x, P[m].dev, E[wires[x]], G[wires[x]], wires[x] \in there)
          /\ P[x].probe = "UP" => P[m].dev = NoDev
      BY <2>2, <3>1 DEF Scanning
    <3>3. CASE x # p
      BY <1>3, <3>1, <3>2, <3>3
    <3>4. CASE x = p
      <4> DEFINE q == E[wires[x]]
                 plugged == G[wires[x]]
      <4>1. P[m].dev = NoDev /\ \/ q = <<>> /\ plugged = NoDev
                                \/ wires[x] \in there /\ q = <<Arrived(plugged)>>
        BY <3>2, <3>4 DEF Pin
      <4>2. q # <<>> => q[1].what = "ARRIVED"
        BY <4>1 DEF Arrived
      <4>3. wires[x] \in there => "late" \in Faults \/ "mismatch" \in Faults
        BY <3>4 DEF Due
      <4> HIDE DEF q, plugged
      <4>4. Pin(Q[x], m = x, P[m].dev, q, plugged, wires[x] \in there)
        BY <2>1, <3>4, <4>1, <4>2, <4>3 DEF Pin, Done
      <4>5. QED
        BY <2>1, <3>1, <3>4, <4>4 DEF q, plugged
    <3>5. QED
      BY <3>3, <3>4
  <2>5. Sound(Q, E, G)
    BY <1>4, <2>3, <2>4 DEF Sound, Scanning
  <2>6. QED
    BY <1>1, <1>4, <2>5, RightIs
<1>7. QED
  BY <1>1, <1>5, <1>6

\* Port p has been switched off, and its device, if any, has left.
LEMMA FinishedLines ==
    ASSUME wires \in Orders, Sane, NEW P \in [Ports -> ProbePort], Permuted(P),
           NEW E, NEW G, Sound(P, E, G), NEW p \in Ports, P[p].probe = "DOWN_2", Due(P, E, G, p),
           NEW M, Finished(M, P, p)
    PROVE  Lines(M) /\ Scanning(M, E, G)
<1>1. /\ M[p].probe = "DONE" /\ M[p].pwr = P[p].pwr /\ M[p].enabled = P[p].enabled
      /\ M[p].path = P[p].path /\ M[p].dev = P[p].dev /\ \A q \in Ports : q # p => M[q] = P[q]
  BY DEF Finished, Only, Is
<1>2. Lit(P[p]) /\ Mapped(P[p], p) /\ P[p].pwr \in BOOLEAN
  BY FieldTypes DEF Sound, Lines
<1>3. ~P[p].pwr
  BY <1>2 DEF Lit
<1>4. Lines(M)
  <2>1. Lit(M[p]) /\ Mapped(M[p], p)
    BY <1>1, <1>2, <1>3 DEF Lit, Mapped, Done
  <2>2. QED
    BY <1>1, <2>1 DEF Lines, Sound
<1>5. Scanning(P, E, G)
  BY DEF Sound, Leaving
<1>6. ASSUME NEW x \in Ports, NEW m \in Ports, M[m].path = wires[x]
      PROVE  /\ Pin(M[x], m = x, M[m].dev, E[wires[x]], G[wires[x]], wires[x] \in there)
             /\ M[x].probe = "UP" => M[m].dev = NoDev
  <2>1. M[m].dev = P[m].dev /\ P[m].path = wires[x]
    BY <1>1, <1>6
  <2>2. /\ Pin(P[x], m = x, P[m].dev, E[wires[x]], G[wires[x]], wires[x] \in there)
        /\ P[x].probe = "UP" => P[m].dev = NoDev
    BY <1>5, <2>1 DEF Scanning
  <2>3. CASE x # p
    BY <1>1, <2>1, <2>2, <2>3
  <2>4. CASE x = p
    <3>1. E[wires[x]] = <<>> /\ G[wires[x]] = NoDev
      BY <1>3, <2>2, <2>4 DEF Pin, Due, Sane
    <3>2. Pin(M[x], m = x, M[m].dev, E[wires[x]], G[wires[x]], wires[x] \in there)
      BY <1>1, <1>3, <2>4, <3>1 DEF Pin, Done
    <3>3. QED
      BY <1>1, <2>4, <3>2
  <2>5. QED
    BY <2>3, <2>4
<1>7. QED
  BY <1>4, <1>6 DEF Scanning

LEMMA ExpiredRight ==
    ASSUME wires \in Orders, Sane, NEW P \in [Ports -> ProbePort], Permuted(P), Serial(P),
           NEW E, NEW G, Followed(P, E, G), Sound(P, E, G), NEW p \in Ports, P[p].listed # 0,
           Due(P, E, G, p), NEW n \in BOOLEAN, ~n, NEW g, Expired(g, P, <<>>, n, p)
    PROVE  Right(g, E, G)
<1>0. Alone(P, p) /\ P[p].listed = 1
  BY SerialAlone
<1>1. CASE P[p].probe \in {"DOWN", "DOWN_DONE"} /\ Settling(g, P, <<>>, n, p)
  BY <1>0, <1>1, SettlingRight
<1>2. CASE P[p].probe = "UP" /\ GivenUp(g, P, <<>>, n, p)
  BY <1>2, GivenUpRight
<1>3. CASE P[p].probe = "DOWN_2" /\ \E M : Finished(M, P, p) /\ Outcome(g, M, <<>>, n, p)
  <2>1. PICK M : Finished(M, P, p) /\ Outcome(g, M, <<>>, n, p)
    BY <1>3
  <2>2. Ready(M, p, E, G)
    BY <1>3, <2>1, FinishedMid
  <2>3. Lines(M) /\ Scanning(M, E, G)
    BY <1>3, <2>1, FinishedLines
  <2>4. QED
    BY <2>1, <2>2, <2>3, OutcomeRight DEF Ready
<1>4. ASSUME NEW M, Stopped(M, P, p)
      PROVE  \A q \in Ports : /\ M[q].enabled = P[q].enabled /\ M[q].pwr = P[q].pwr
                              /\ M[q].probe = P[q].probe /\ M[q].path = P[q].path
                              /\ M[q].dev = P[q].dev
  BY <1>4 DEF Stopped, Only, Is
<1>5. CASE /\ P[p].probe = "WRITE_FILE"
           /\ \E M : /\ Stopped(M, P, p)
                     /\ \/ \E Q : g = State(Q, <<>>, n) /\ Delayed(Q, M, p)
                        \/ \E Q, F : /\ g = State(Q, F, n) /\ Over(Q, M)
                                     /\ (F = <<>> \/ DOMAIN F = Ports)
  <2>1. PICK M : /\ Stopped(M, P, p)
                 /\ \/ \E Q : g = State(Q, <<>>, n) /\ Delayed(Q, M, p)
                    \/ \E Q, F : g = State(Q, F, n) /\ Over(Q, M)
    BY <1>5
  <2>2. Mid(M, p, E, G)
    BY <1>5, <2>1, StoppedMid
  <2>3. Lines(M) /\ Scanning(M, E, G)
    <3>1. Lines(P) /\ Scanning(P, E, G)
      BY <1>5 DEF Sound, Leaving
    <3>2. QED
      BY <1>4, <2>1, <3>1, SameScan
  <2>4. \A q \in Ports : M[q].probe \in Done
    BY <1>4, <1>5, <2>1 DEF Sound, AllDone
  <2>5. ASSUME NEW Q, g = State(Q, <<>>, n), Delayed(Q, M, p) PROVE Right(g, E, G)
    BY <2>2, <2>3, <2>4, <2>5, DelayedRight
  <2>6. ASSUME NEW Q, NEW F, g = State(Q, F, n), Over(Q, M) PROVE Right(g, E, G)
    BY <2>2, <2>3, <2>4, <2>6, OverRight
  <2>7. QED
    BY <2>1, <2>5, <2>6
<1>6. CASE P[p].probe \in {"IDLE", "DONE"} /\ \E Q : g = State(Q, <<>>, n) /\ Stopped(Q, P, p)
  <2>1. PICK Q : g = State(Q, <<>>, n) /\ Stopped(Q, P, p)
    BY <1>6
  <2>2. ~EnableWorks
    BY <1>0, <1>6 DEF Sound, Turn, Serial
  <2>3. /\ Lines(Q) /\ AllDone(Q)
        /\ Leaving(P, E, G) => Leaving(Q, E, G)
        /\ Scanning(P, E, G) => Scanning(Q, E, G)
    BY <1>4, <2>1, SameScan DEF Sound
  <2>4. Busy(Q)
    BY <2>1 DEF Stopped, Is, Busy
  <2>5. Sound(Q, E, G)
    BY <2>2, <2>3 DEF Sound
  <2>6. QED
    BY <2>1, <2>4, <2>5, RightIs
<1>7. QED
  BY <1>1, <1>2, <1>3, <1>5, <1>6 DEF Expired
-----------------------------------------------------------------------------
(* A device leaves.                                                        *)

LEMMA RemovedOut ==
    ASSUME NEW P \in [Ports -> ProbePort], Permuted(P), Serial(P), NEW f, NEW n, NEW m \in Ports,
           NEW g, g = probe_device_removed(State(P, f, n), P[m].path)
    PROVE  \E Q : g = State(Q, f, n) /\ Noted(Q, P, m, NoDev)
<1> DEFINE h == State(P, f, n)
           s == reset_port(P[m])
<1>0. h.port = P
  BY StateIs
<1>1. find_port_path(h, P[m].path) = m /\ P[m].mode = "PROBE"
  <2>1. P[m].path \in Ports
    BY FieldTypes
  <2>2. Permuted(h.port)
    BY <1>0
  <2> HIDE DEF h
  <2>3. /\ find_port_path(h, P[m].path) \in Ports
        /\ P[find_port_path(h, P[m].path)].path = P[m].path
    BY <1>0, <2>1, <2>2, HolderIs
  <2>4. QED
    BY <2>3 DEF Permuted, Serial
<1>2. Is(s, P[m].enabled, P[m].pwr, P[m].mode, NoDev, P[m].listed, P[m].probe, P[m].path)
  BY <1>1, ResetIs
<1>3. g = [h EXCEPT !.port[m] = reset_port(@)]
  <2>1. g = [h EXCEPT !.port[find_port_path(h, P[m].path)] = reset_port(@)]
    BY DEF probe_device_removed
  <2> HIDE DEF h
  <2>2. QED
    BY <1>1, <2>1
<1>4. g = Store(h, m, s)
  BY <1>3 DEF Store, State
<1> HIDE DEF s
<1>5. s \in ProbePort
  BY <1>2 DEF Is
<1>6. g = State(Put(P, m, s), f, n) /\ Only(Put(P, m, s), P, m) /\ Put(P, m, s)[m] = s
  BY <1>4, <1>5, Stored
<1>7. Noted(Put(P, m, s), P, m, NoDev)
  BY <1>2, <1>6 DEF Noted
<1>8. QED
  BY <1>6, <1>7

\* The first event of the queue says that the device at the path has left.
Goes(E, E2, path) ==
    /\ E[path] # <<>> /\ E[path][1].what # "ARRIVED" /\ E2[path] = Tail(E[path])
    /\ \A x \in Ports : x # path => E2[x] = E[x]

LEMMA GoesFresh ==
    ASSUME NEW E \in [Ports -> Seq(Event)], NEW E2, NEW G, NEW path \in Ports, NEW dev,
           Goes(E, E2, path), Recorded(E[path], G[path], dev)
    PROVE  Fresh(E, E2, G, path, NoDev)
<1> DEFINE q == E[path]
<1>1. q \in Seq(Event) /\ q # <<>> /\ q[1].what # "ARRIVED" /\ E2[path] = Tail(q)
  BY DEF Goes
<1>2. G[path] = IF q[Len(q)].what = "ARRIVED" THEN q[Len(q)].dev ELSE NoDev
  BY <1>1 DEF Recorded
<1> HIDE DEF q
<1>3. CASE Tail(q) = <<>>
  <2>1. Len(Tail(q)) = 0 /\ Len(Tail(q)) = Len(q) - 1 /\ Len(q) \in Nat
    BY <1>1, <1>3, HeadTailProperties, LenProperties, EmptySeq
  <2>2. Len(q) = 1
    BY <2>1
  <2>3. G[path] = NoDev
    BY <1>1, <1>2, <2>2
  <2>4. QED
    BY <1>1, <1>3, <2>3 DEF Goes, Fresh, Recorded
<1>4. CASE Tail(q) # <<>>
  <2>1. Tail(q) \in Seq(Event) /\ Len(Tail(q)) = Len(q) - 1 /\ Len(Tail(q)) > 0
    BY <1>1, <1>4, HeadTailProperties, EmptySeq
  <2>2. Tail(q)[Len(Tail(q))] = q[Len(q)]
    BY <1>1, <2>1, HeadTailProperties
  <2>3. Recorded(Tail(q), G[path], NoDev)
    BY <1>2, <1>4, <2>2 DEF Recorded
  <2>4. QED
    BY <1>1, <2>3 DEF Goes, Fresh
<1>5. QED
  BY <1>3, <1>4

LEMMA GoneBase ==
    ASSUME NEW P \in [Ports -> ProbePort], Permuted(P), Serial(P),
           NEW E \in [Ports -> Seq(Event)], NEW E2, NEW G, Followed(P, E, G),
           NEW m \in Ports, Goes(E, E2, P[m].path), NEW Q, Noted(Q, P, m, NoDev),
           NEW f, Written(f), NEW n \in BOOLEAN
    PROVE  Base(State(Q, f, n), E2, G)
<1>1. Fresh(E, E2, G, P[m].path, NoDev)
  <2>1. P[m].path \in Ports /\ Recorded(E[P[m].path], G[P[m].path], P[m].dev)
    BY FieldTypes DEF Followed
  <2>2. QED
    BY <2>1, GoesFresh
<1>2. Keeps(Q, P, E2, G, m)
  BY <1>1, NotedRecords
<1>3. Q[m].dev = NoDev
  BY DEF Noted, Is
<1>4. Followed(Q, E2, G)
  BY <1>2, <1>3 DEF Followed, Keeps
<1>5. QED
  BY <1>2, <1>4, BaseIs DEF Keeps

LEMMA GoneRight ==
    ASSUME wires \in Orders, NEW P \in [Ports -> ProbePort], Permuted(P), Serial(P),
           NEW E \in [Ports -> Seq(Event)], NEW E2, NEW G, Sound(P, E, G),
           NEW m \in Ports, Goes(E, E2, P[m].path), NEW Q, Noted(Q, P, m, NoDev),
           NEW n \in BOOLEAN, ~n
    PROVE  Right(State(Q, <<>>, n), E2, G)
<1>1. /\ \A q \in Ports : /\ Q[q].pwr = P[q].pwr /\ Q[q].mode = P[q].mode
                          /\ Q[q].probe = P[q].probe /\ Q[q].path = P[q].path
                          /\ q # m => Q[q].dev = P[q].dev
      /\ Q[m].dev = NoDev
      /\ Lines(Q) /\ AllDone(Q) /\ (EnableWorks => Turn(Q))
  BY NotedLines DEF Sound
<1>2. Busy(Q)
  BY <1>1 DEF Serial, Busy
<1>3. ASSUME Leaving(P, E, G), NEW q \in Ports
      PROVE  /\ Q[q].probe \in {"DOWN", "DOWN_DONE"}
             /\ \/ E2[Q[q].path] = <<>>
                \/ /\ E2[Q[q].path] = <<Left(Q[q].dev)>>
                   /\ Q[q].dev # NoDev /\ G[Q[q].path] = NoDev
  <2>1. CASE q = m
    <3>1. E[P[m].path] = <<Left(P[m].dev)>>
      BY <1>3 DEF Leaving, Goes
    <3>2. E2[P[m].path] = <<>>
      <4> DEFINE a == Left(P[m].dev)
      <4> HIDE DEF a
      <4>1. Tail(<<a>>) = <<>>
        OBVIOUS
      <4>2. QED
        BY <3>1, <4>1 DEF Goes, a
    <3>3. QED
      BY <1>1, <1>3, <2>1, <3>2 DEF Leaving
  <2>2. CASE q # m
    <3>1. P[q].path # P[m].path /\ P[q].path \in Ports
      BY <2>2, FieldTypes DEF Permuted
    <3>2. E2[P[q].path] = E[P[q].path]
      BY <3>1 DEF Goes
    <3>3. QED
      BY <1>1, <1>3, <2>2, <3>2 DEF Leaving
  <2>3. QED
    BY <2>1, <2>2
<1>4. ASSUME Scanning(P, E, G), NEW x \in Ports, NEW k \in Ports, Q[k].path = wires[x]
      PROVE  /\ Pin(Q[x], k = x, Q[k].dev, E2[wires[x]], G[wires[x]], wires[x] \in there)
             /\ Q[x].probe = "UP" => Q[k].dev = NoDev
  <2>1. P[k].path = wires[x] /\ wires[x] \in Ports
    BY <1>1, <1>4, WiresAt
  <2>2. /\ Pin(P[x], k = x, P[k].dev, E[wires[x]], G[wires[x]], wires[x] \in there)
        /\ P[x].probe = "UP" => P[k].dev = NoDev
    BY <1>4, <2>1 DEF Scanning
  <2>3. CASE k = m
    <3>1. E[wires[x]] # <<>> /\ E[wires[x]][1].what # "ARRIVED"
      BY <2>1, <2>3 DEF Goes
    <3>2. E[wires[x]] # <<Arrived(G[wires[x]])>>
      BY <3>1 DEF Arrived
    <3>3. P[x].probe \in ProbeStates /\ P[x].probe # "IDLE"
      <4>1. Lit(P[x]) /\ P[x] \in ProbePort
        BY DEF Sound, Lines
      <4>2. QED
        BY <4>1, FieldTypes DEF Lit
    <3>4. P[x].probe = "DOWN_2"
      BY <2>2, <3>1, <3>2, <3>3, Members DEF Pin, Done
    <3>5. k = x /\ wires[x] \in there /\ ("late" \in Faults \/ "mismatch" \in Faults)
      BY <2>2, <3>1, <3>4 DEF Pin
    <3>6. QED
      BY <1>1, <3>4, <3>5 DEF Pin, Done
  <2>4. CASE k # m
    <3>1. E2[wires[x]] = E[wires[x]]
      BY <2>1, <2>4 DEF Goes, Permuted
    <3>2. Q[k].dev = P[k].dev /\ Q[x].probe = P[x].probe /\ Q[x].pwr = P[x].pwr
      BY <1>1, <2>4
    <3>3. Pin(Q[x], k = x, P[k].dev, E[wires[x]], G[wires[x]], wires[x] \in there)
      BY <2>2, <3>2 DEF Pin
    <3>4. QED
      BY <2>2, <3>1, <3>2, <3>3
  <2>5. QED
    BY <2>3, <2>4
<1>5. Leaving(Q, E2, G) \/ Scanning(Q, E2, G)
  BY <1>3, <1>4 DEF Sound, Leaving, Scanning
<1>6. QED
  BY <1>1, <1>2, <1>5, RightIs DEF Sound
-----------------------------------------------------------------------------
(* Devices are plugged in and out.                                         *)

\* The event e of a path is queued, and d is plugged in there.
Queued(E, E2, G, G2, path, e, d) ==
    /\ E2[path] = Append(E[path], e) /\ G2[path] = d
    /\ d = IF e.what = "ARRIVED" THEN e.dev ELSE NoDev
    /\ \A x \in Ports : x # path => E2[x] = E[x] /\ G2[x] = G[x]

LEMMA AppendIs ==
    ASSUME NEW q \in Seq(Event), NEW e \in Event
    PROVE  /\ Append(q, e) # <<>> /\ Append(q, e)[Len(Append(q, e))] = e
           /\ q = <<>> => Append(q, e) = <<e>>
           /\ q # <<>> => Append(q, e)[1] = q[1]
<1>1. /\ Append(q, e) \in Seq(Event) /\ Len(Append(q, e)) = Len(q) + 1
      /\ \A i \in 1 .. Len(q) : Append(q, e)[i] = q[i]
      /\ Append(q, e)[Len(q) + 1] = e /\ Append(q, e) # <<>>
  BY AppendProperties
<1>2. Append(<<>>, e) = <<e>>
  OBVIOUS
<1>3. q # <<>> => 1 \in 1 .. Len(q)
  BY EmptySeq
<1>4. Append(q, e)[Len(Append(q, e))] = e
  BY <1>1
<1>5. q = <<>> => Append(q, e) = <<e>>
  BY <1>2
<1>6. q # <<>> => Append(q, e)[1] = q[1]
  BY <1>1, <1>3
<1>7. QED
  BY <1>1, <1>4, <1>5, <1>6, Zenon

LEMMA QueuedFollowed ==
    ASSUME NEW P \in [Ports -> ProbePort], NEW E \in [Ports -> Seq(Event)], NEW E2, NEW G, NEW G2,
           NEW path \in Ports, NEW e \in Event, NEW d,
           Queued(E, E2, G, G2, path, e, d), Followed(P, E, G)
    PROVE  Followed(P, E2, G2)
<1>1. ASSUME NEW p \in Ports PROVE Recorded(E2[P[p].path], G2[P[p].path], P[p].dev)
  <2>1. P[p].path \in Ports /\ Recorded(E[P[p].path], G[P[p].path], P[p].dev)
    BY FieldTypes DEF Followed
  <2>2. CASE P[p].path = path
    <3> DEFINE q == E2[path]
    <3>1. q # <<>> /\ q[Len(q)] = e
      <4>1. E[path] \in Seq(Event) /\ q = Append(E[path], e)
        BY DEF Queued
      <4> HIDE DEF q
      <4>2. QED
        BY <4>1, AppendIs
    <3>2. QED
      BY <2>2, <3>1 DEF Queued, Recorded
  <2>3. CASE P[p].path # path
    BY <2>1, <2>3 DEF Queued
  <2>4. QED
    BY <2>2, <2>3
<1>2. QED
  BY <1>1 DEF Followed

\* It is enough to look at the path of the event.
LEMMA QueuedSound ==
    ASSUME wires \in Orders, NEW P \in [Ports -> ProbePort], Permuted(P),
           NEW E, NEW E2, NEW G, NEW G2, Sound(P, E, G), NEW path \in Ports, NEW e, NEW d,
           Queued(E, E2, G, G2, path, e, d), NEW m \in Ports, P[m].path = path,
           NEW x \in Ports, wires[x] = path,
           Leaving(P, E, G) =>
                E2[path] = <<Left(P[m].dev)>> /\ P[m].dev # NoDev /\ G2[path] = NoDev,
           Scanning(P, E, G) => Pin(P[x], m = x, P[m].dev, E2[path], G2[path], path \in there)
    PROVE  Sound(P, E2, G2)
<1>1. ASSUME Leaving(P, E, G), NEW q \in Ports
      PROVE  /\ P[q].probe \in {"DOWN", "DOWN_DONE"}
             /\ \/ E2[P[q].path] = <<>>
                \/ /\ E2[P[q].path] = <<Left(P[q].dev)>>
                   /\ P[q].dev # NoDev /\ G2[P[q].path] = NoDev
  <2>1. CASE q = m
    BY <1>1, <2>1 DEF Leaving
  <2>2. CASE q # m
    <3>1. E2[P[q].path] = E[P[q].path] /\ G2[P[q].path] = G[P[q].path]
      BY <2>2, FieldTypes DEF Permuted, Queued
    <3>2. QED
      BY <1>1, <3>1 DEF Leaving
  <2>3. QED
    BY <2>1, <2>2
<1>2. ASSUME Scanning(P, E, G), NEW y \in Ports, NEW k \in Ports, P[k].path = wires[y]
      PROVE  /\ Pin(P[y], k = y, P[k].dev, E2[wires[y]], G2[wires[y]], wires[y] \in there)
             /\ P[y].probe = "UP" => P[k].dev = NoDev
  <2>1. /\ Pin(P[y], k = y, P[k].dev, E[wires[y]], G[wires[y]], wires[y] \in there)
        /\ P[y].probe = "UP" => P[k].dev = NoDev
    BY <1>2 DEF Scanning
  <2>2. CASE y = x
    <3>1. k = m
      BY <1>2, <2>2 DEF Permuted
    <3>2. QED
      BY <1>2, <2>1, <2>2, <3>1
  <2>3. CASE y # x
    <3>1. wires[y] # path /\ wires[y] \in Ports
      BY <2>3, Wired
    <3>2. E2[wires[y]] = E[wires[y]] /\ G2[wires[y]] = G[wires[y]]
      BY <3>1 DEF Queued
    <3>3. QED
      BY <2>1, <3>2
  <2>4. QED
    BY <2>2, <2>3
<1>3. Leaving(P, E2, G2) \/ Scanning(P, E2, G2)
  BY <1>1, <1>2 DEF Sound, Leaving, Scanning
<1>4. QED
  BY <1>3 DEF Sound

\* A device comes where there is power: it is that of the port being probed.
LEMMA ConnectSound ==
    ASSUME wires \in Orders, NEW P \in [Ports -> ProbePort], Permuted(P),
           NEW E \in [Ports -> Seq(Event)], NEW E2, NEW G, NEW G2, Sound(P, E, G),
           NEW x \in Ports, wires[x] \in there, P[x].pwr, G[wires[x]] = NoDev, NEW d \in Devs,
           Queued(E, E2, G, G2, wires[x], Arrived(d), d)
    PROVE  Sound(P, E2, G2)
<1>0. wires[x] \in Ports
  BY WiresAt
<1>1. PICK m \in Ports : P[m].path = wires[x]
  BY <1>0 DEF Permuted
<1>2. Lit(P[x])
  BY DEF Sound, Lines
<1>3. ~Leaving(P, E, G)
  BY <1>2 DEF Leaving, Lit
<1>4. ASSUME Scanning(P, E, G)
      PROVE  Pin(P[x], m = x, P[m].dev, E2[wires[x]], G2[wires[x]], wires[x] \in there)
  <2>1. Pin(P[x], m = x, P[m].dev, E[wires[x]], G[wires[x]], wires[x] \in there)
    BY <1>1, <1>4 DEF Scanning
  <2>2. P[x].probe = "UP" /\ E[wires[x]] = <<>>
    BY <1>2, <2>1, Members DEF Pin, Lit, Done
  <2>3. E2[wires[x]] = <<Arrived(d)>> /\ G2[wires[x]] = d
    BY <1>0, <2>2, AppendIs DEF Queued
  <2>4. QED
    BY <2>2, <2>3 DEF Pin, Done
<1>5. QED
  BY <1>0, <1>1, <1>3, <1>4, QueuedSound

\* A device goes where there is no power: it has been there since the daemon
\* started, or it came too late.
LEMMA DisconnectSound ==
    ASSUME wires \in Orders, NEW P \in [Ports -> ProbePort], Permuted(P),
           NEW E \in [Ports -> Seq(Event)], NEW E2, NEW G, NEW G2, Followed(P, E, G),
           Sound(P, E, G), NEW x \in Ports, ~P[x].pwr, G[wires[x]] # NoDev,
           Queued(E, E2, G, G2, wires[x], Left(G[wires[x]]), NoDev)
    PROVE  Sound(P, E2, G2)
<1>0. wires[x] \in Ports
  BY WiresAt
<1>1. PICK m \in Ports : P[m].path = wires[x]
  BY <1>0 DEF Permuted
<1>2. Recorded(E[wires[x]], G[wires[x]], P[m].dev)
  BY <1>1 DEF Followed
<1>3. G2[wires[x]] = NoDev
  BY DEF Queued
<1>4. ASSUME Leaving(P, E, G)
      PROVE  E2[wires[x]] = <<Left(P[m].dev)>> /\ P[m].dev # NoDev
  <2>1. E[wires[x]] = <<>>
    BY <1>1, <1>4 DEF Leaving
  <2>2. P[m].dev = G[wires[x]]
    BY <1>2, <2>1 DEF Recorded
  <2>3. QED
    BY <1>0, <2>1, <2>2, AppendIs DEF Queued
<1>5. ASSUME Scanning(P, E, G)
      PROVE  Pin(P[x], m = x, P[m].dev, E2[wires[x]], G2[wires[x]], wires[x] \in there)
  <2>1. Pin(P[x], m = x, P[m].dev, E[wires[x]], G[wires[x]], wires[x] \in there)
    BY <1>1, <1>5 DEF Scanning
  <2>2. P[x].probe \in ProbeStates /\ Lit(P[x])
    BY FieldTypes DEF Sound, Lines
  <2>3. P[x].probe = "DOWN_2"
    BY <2>1, <2>2, Members DEF Pin, Lit, Done
  <2>4. wires[x] \in there /\ ("late" \in Faults \/ "mismatch" \in Faults)
    BY <2>1, <2>3 DEF Pin
  <2>5. ASSUME m # x PROVE P[m].dev = NoDev /\ E2[wires[x]][1].what = "ARRIVED"
    <3>1. P[m].dev = NoDev /\ (E[wires[x]] # <<>> => E[wires[x]][1].what = "ARRIVED")
      BY <2>1, <2>3, <2>5 DEF Pin
    <3>2. E[wires[x]] # <<>>
      BY <1>2, <3>1 DEF Recorded
    <3>3. E2[wires[x]][1] = E[wires[x]][1]
      BY <1>0, <3>2, AppendIs DEF Queued
    <3>4. QED
      BY <3>1, <3>2, <3>3
  <2>6. QED
    BY <2>3, <2>4, <2>5 DEF Pin, Done
<1>6. QED
  BY <1>0, <1>1, <1>3, <1>4, <1>5, QueuedSound
-----------------------------------------------------------------------------
(* The devices of libusb's list are reported, one after the other.         *)

Good(h) == Base(h, evq, plug) /\ (Sane => Right(h, evq, plug))

\* What does not change while the devices are reported.
Around == plug \in [Ports -> DevOrNone] /\ evq \in [Ports -> Seq(Event)] /\ wires \in Orders

LEMMA BusySound ==
    ASSUME NEW P, NEW f, NEW n, ~n, Busy(P), NEW E, NEW G, Right(State(P, f, n), E, G)
    PROVE  f = <<>> /\ Sound(P, E, G)
BY StateIs DEF Right, Sound, Lines

LEMMA WholeState ==
    ASSUME NEW h, Whole(h)
    PROVE  h = State(h.port, h.file, h.null)
BY DEF Whole, State

LEMMA ReportGood ==
    ASSUME Around, NEW h, Good(h), NEW path \in Ports, NEW g \in report(h, path)
    PROVE  Good(g)
<1>1. CASE plug[path] = NoDev \/ h.null
  BY <1>1 DEF report
<1>2. SUFFICES ASSUME plug[path] # NoDev, ~h.null PROVE Good(g)
  BY <1>1
<1> DEFINE d == plug[path]
           P == h.port
           f == h.file
           n == h.null
<1>3. d \in Devs /\ g \in probe_device_added(h, path, d)
  BY <1>2 DEF Around, DevOrNone, report
<1>4. /\ h = State(P, f, n) /\ P \in [Ports -> ProbePort] /\ n \in BOOLEAN /\ ~n
      /\ Permuted(P) /\ Written(f) /\ (Busy(P) => Serial(P) /\ Followed(P, evq, plug))
      /\ Sane => Right(State(P, f, n), evq, plug)
  BY <1>2, WholeState DEF Good, Base, Written
<1> HIDE DEF d, P, f, n
<1>5. PICK m \in Ports : P[m].path = path
  BY <1>4 DEF Permuted
<1>6. CASE Busy(P)
  <2>1. Serial(P) /\ Followed(P, evq, plug)
    BY <1>4, <1>6
  <2>2. Reported(g, P, f, n, m, d)
    BY <1>3, <1>4, <1>5, <2>1, AddedOut
  <2>3. Comes(evq, evq, plug, P[m].path, d)
    BY <1>3, <1>5 DEF Comes, d
  <2>4. Recorded(evq[path], plug[path], P[m].dev)
    BY <1>5, <2>1 DEF Followed
  <2>5. Fresh(evq, evq, plug, P[m].path, d)
    BY <1>5, <2>3, <2>4, ComesFresh DEF Around
  <2>6. Base(g, evq, plug)
    BY <1>3, <1>4, <2>1, <2>2, <2>5, ReportedBase
  <2>7. ASSUME Sane PROVE Right(g, evq, plug)
    <3>1. f = <<>> /\ Sound(P, evq, plug)
      BY <1>4, <1>6, <2>7, BusySound
    <3>2. QED
      BY <1>4, <2>1, <2>2, <2>3, <3>1, ReportedRight DEF Around
  <2>8. QED
    BY <2>6, <2>7 DEF Good
<1>7. CASE ~Busy(P)
  <2>1. P[m] \in ProbePort /\ P[m].mode # "PROBE"
    BY <1>4, <1>7 DEF Busy
  <2>2. PICK t \in gpio_device_added(P[m], d) : g = Store(h, m, t)
    <3>1. h.port = P /\ Permuted(h.port)
      BY <1>4 DEF P
    <3>2. find_port_path(h, path) = m
      <4>1. find_port_path(h, path) \in Ports /\ P[find_port_path(h, path)].path = path
        BY <3>1, HolderIs
      <4>2. QED
        BY <1>4, <1>5, <4>1 DEF Permuted
    <3>3. QED
      BY <1>3, <2>1, <3>1, <3>2 DEF probe_device_added, Store
  <2>3. /\ t \in ProbePort /\ t.path = P[m].path /\ t.mode # "PROBE"
        /\ P[m].mode = "RESET" => t = P[m]
    BY <1>3, <2>1, AddedIs
  <2> DEFINE Q == Put(P, m, t)
  <2>4. g = State(Q, f, n) /\ Only(Q, P, m) /\ Q[m] = t
    BY <1>4, <2>2, <2>3, Stored
  <2> HIDE DEF Q
  <2>5. Q \in [Ports -> ProbePort] /\ Permuted(Q) /\ ~Busy(Q)
    <3>1. \A q \in Ports : Q[q].path = P[q].path /\ Q[q].mode # "PROBE"
      BY <1>7, <2>3, <2>4 DEF Only, Busy
    <3>2. QED
      BY <1>4, <2>4, <3>1, SamePaths DEF Only, Busy
  <2>6. Base(g, evq, plug)
    BY <1>4, <2>4, <2>5, BaseIs
  <2>7. ASSUME Sane PROVE Right(g, evq, plug)
    <3>1. /\ "mismatch" \notin Faults => ~n
          /\ \A q \in Ports : Handed(P[q], q, plug)
      BY <1>4, <1>7, <2>7, StateIs DEF Right
    <3>2. P[m].mode = "RESET"
      BY <1>2, <1>5, <3>1 DEF Handed
    <3>3. \A q \in Ports : Q[q] = P[q]
      BY <2>3, <2>4, <3>2 DEF Only
    <3>4. \A q \in Ports : Handed(Q[q], q, plug)
      BY <3>1, <3>3
    <3>5. QED
      BY <2>4, <2>5, <3>1, <3>4, StateIs DEF Right
  <2>8. QED
    BY <2>6, <2>7 DEF Good
<1>8. QED
  BY <1>6, <1>7

\* The states that a report at a path can leave, and those that the first k
\* reports of the list can leave.
Reporting(S, path) == UNION {report(h, path) : h \in S}

Reports(k, list, f) ==
    f = [i \in 0 .. k |-> IF i = 0 THEN {Here} ELSE Reporting(f[i - 1], list[i])]

\* The least member of a set of numbers is 0, or follows one that is not in it.
LEMMA LeastFollows ==
    ASSUME NEW S \in SUBSET Nat, S # {}
    PROVE  \E m \in S : m # 0 => m - 1 \in Nat \ S
<1> DEFINE m == Min(S)
<1>1. m \in S /\ \A k \in S : m <= k
  BY Least
<1> HIDE DEF m
<1>2. m # 0 => m - 1 \in Nat /\ m - 1 \notin S
  BY <1>1
<1>3. QED
  BY <1>1, <1>2

LEMMA ReportsExist ==
    ASSUME NEW list, NEW k \in Nat
    PROVE  \E f : Reports(k, list, f)
<1> DEFINE bad == {j \in Nat : ~\E f : Reports(j, list, f)}
<1>1. ASSUME bad # {} PROVE FALSE
  <2>1. PICK m \in bad : m # 0 => m - 1 \in Nat \ bad
    <3>1. bad \in SUBSET Nat
      OBVIOUS
    <3> HIDE DEF bad
    <3>2. QED
      BY <1>1, <3>1, LeastFollows
  <2>2. CASE m = 0
    <3> DEFINE f == [i \in 0 .. 0 |-> {Here}]
    <3>1. Reports(0, list, f)
      BY DEF Reports
    <3>2. QED
      BY <2>1, <2>2, <3>1
  <2>3. CASE m # 0
    <3>1. m \in Nat /\ m - 1 \in Nat /\ m - 1 \notin bad
      BY <2>1, <2>3
    <3>2. PICK g : Reports(m - 1, list, g)
      BY <3>1
    <3> DEFINE f == [i \in 0 .. m |-> IF i = m THEN Reporting(g[m - 1], list[m]) ELSE g[i]]
    <3>3. ASSUME NEW i \in 0 .. m
          PROVE  f[i] = IF i = 0 THEN {Here} ELSE Reporting(f[i - 1], list[i])
      <4>1. \A j \in 0 .. m - 1 :
                g[j] = IF j = 0 THEN {Here} ELSE Reporting(g[j - 1], list[j])
        BY <3>2 DEF Reports
      <4>2. (\A j \in 0 .. m - 1 : f[j] = g[j]) /\ f[m] = Reporting(g[m - 1], list[m])
        BY <3>1
      <4> HIDE DEF f
      <4>3. CASE i = m
        BY <2>3, <3>1, <4>2, <4>3
      <4>4. CASE i # m
        <5>1. i \in 0 .. m - 1 /\ (i # 0 => i - 1 \in 0 .. m - 1)
          BY <3>1, <3>3, <4>4
        <5>2. QED
          BY <4>1, <4>2, <5>1
      <4>5. QED
        BY <4>3, <4>4
    <3>4. Reports(m, list, f)
      BY <3>3 DEF Reports
    <3>5. QED
      BY <2>1, <3>4
  <2>4. QED
    BY <2>2, <2>3
<1>2. QED
  BY <1>1

\* A loop over the list leaves a good state, turn by turn.
LEMMA ReportsGood ==
    ASSUME Around, Good(Here), NEW list \in Orders, NEW n \in Nat, Ports = 1 .. n,
           NEW f, Reports(n, list, f)
    PROVE  \A h \in f[n] : Good(h)
<1>1. f[0] = {Here} /\ \A i \in 1 .. n : f[i] = Reporting(f[i - 1], list[i])
  <2> DEFINE F == [i \in 0 .. n |-> IF i = 0 THEN {Here} ELSE Reporting(f[i - 1], list[i])]
  <2>1. f = F
    BY DEF Reports
  <2>2. F[0] = {Here}
    OBVIOUS
  <2>3. ASSUME NEW i \in 1 .. n PROVE F[i] = Reporting(f[i - 1], list[i])
    OBVIOUS
  <2> HIDE DEF F
  <2>4. QED
    BY <2>1, <2>2, <2>3
<1> DEFINE bad == {j \in 0 .. n : ~\A h \in f[j] : Good(h)}
<1>2. ASSUME bad # {} PROVE FALSE
  <2>1. PICK m \in bad : m # 0 => m - 1 \in Nat \ bad
    <3>1. bad \in SUBSET Nat
      OBVIOUS
    <3> HIDE DEF bad
    <3>2. QED
      BY <1>2, <3>1, LeastFollows
  <2>2. m # 0
    BY <1>1, <2>1
  <2>3. m \in 1 .. n /\ \A h \in f[m - 1] : Good(h)
    BY <2>1, <2>2
  <2>4. list[m] \in Ports
    BY <2>3, Wired
  <2>5. ASSUME NEW g \in f[m] PROVE Good(g)
    <3>1. PICK h \in f[m - 1] : g \in report(h, list[m])
      BY <1>1, <2>3 DEF Reporting
    <3>2. QED
      BY <2>3, <2>4, <3>1, ReportGood
  <2>6. QED
    BY <2>1, <2>5
<1>3. QED
  BY <1>2

LEMMA CheckDevicesGood ==
    ASSUME Around, Good(Here), CheckDevices
    PROVE  \E h : Good(h) /\ Becomes(h)
<1> DEFINE n == Cardinality(Ports)
<1>1. PICK list \in Orders :
        LET reported[i \in 0 .. n] ==
                IF i = 0 THEN {Here} ELSE UNION {report(h, list[i]) : h \in reported[i - 1]}
        IN \E h \in reported[n] : Becomes(h)
  BY DEF CheckDevices
<1> DEFINE f == CHOOSE f : Reports(n, list, f)
<1>2. \E h \in f[n] : Becomes(h)
  BY <1>1 DEF Reports, Reporting
<1>3. n \in Nat /\ Ports = 1 .. n
  BY ProbeAssumption, FS_CardinalityType
<1> HIDE DEF n
<1>4. Reports(n, list, f)
  <2>1. \E g : Reports(n, list, g)
    BY <1>3, ReportsExist
  <2>2. QED
    BY <2>1
<1> HIDE DEF f
<1>5. QED
  BY <1>2, <1>3, <1>4, ReportsGood
-----------------------------------------------------------------------------
(* The invariant.                                                          *)

LEMMA AddPortIs ==
    ASSUME NEW p \in Ports, NEW c \in BOOLEAN, NEW d \in Devs
    PROVE  /\ Is(gpio_port(p, c), TRUE, TRUE, "IDLE", NoDev, 0, "IDLE", p)
           /\ Is(attached(gpio_port(p, c), d), TRUE, TRUE, "PING", d, 1, "IDLE", p)
<1> DEFINE r == gpio_port(p, c)
           s == [r EXCEPT !.dev = d, !.mode = "PING"]
<1>1. Is(r, TRUE, TRUE, "IDLE", NoDev, 0, "IDLE", p)
  BY Members DEF gpio_port, configure_port, Is, ProbePort
<1>2. attached(r, d) = start_timeout(s)
  BY DEF attached
<1> HIDE DEF r
<1>3. Is(s, TRUE, TRUE, "PING", d, 0, "IDLE", p)
  BY <1>1, Members, Zenon DEF Is, ProbePort
<1> HIDE DEF s
<1>4. Again(0) = 1
  BY DEF Again
<1>5. Is(attached(r, d), TRUE, TRUE, "PING", d, 1, "IDLE", p)
  BY <1>2, <1>3, <1>4, StartIs DEF Is
<1>6. QED
  BY <1>1, <1>5 DEF r

LEMMA InitIInv == Init => IInv
<1>1. SUFFICES ASSUME Init PROVE IInv
  OBVIOUS
<1>2. /\ wires \in Orders /\ there \in SUBSET Ports /\ stage = "boot"
      /\ evq = [p \in Ports |-> <<>>] /\ file = <<>> /\ null = FALSE
  BY <1>1 DEF Init
<1>3. PICK d \in Devs, custom \in SUBSET Ports :
        /\ plug = [p \in Ports |-> IF p \in there THEN d ELSE NoDev]
        /\ port = [p \in Ports |-> IF p \in there THEN attached(gpio_port(p, p \in custom), d)
                                  ELSE gpio_port(p, p \in custom)]
  BY <1>1 DEF Init
<1>4. ASSUME NEW p \in Ports
      PROVE  /\ port[p] \in ProbePort /\ port[p].mode # "PROBE" /\ port[p].listed # 2
             /\ port[p].path = p /\ port[p].dev = plug[p]
  <2> DEFINE r == gpio_port(p, p \in custom)
             a == attached(r, d)
  <2>1. (p \in custom) \in BOOLEAN
    OBVIOUS
  <2>2. /\ Is(r, TRUE, TRUE, "IDLE", NoDev, 0, "IDLE", p)
        /\ Is(a, TRUE, TRUE, "PING", d, 1, "IDLE", p)
    BY <2>1, AddPortIs
  <2>3. port[p] = (IF p \in there THEN a ELSE r) /\ plug[p] = IF p \in there THEN d ELSE NoDev
    BY <1>3
  <2> HIDE DEF r, a
  <2>4. QED
    BY <2>2, <2>3 DEF Is
<1>5. port \in [Ports -> ProbePort]
  <2>1. port = [p \in Ports |-> port[p]]
    BY <1>3
  <2>2. QED
    BY <1>4, <2>1
<1>6. plug \in [Ports -> DevOrNone] /\ evq \in [Ports -> Seq(Event)]
  BY <1>2, <1>3, Members
<1>7. Permuted(port) /\ ~Busy(port)
  BY <1>4 DEF Permuted, Busy
<1>8. /\ Here.port = port /\ Here.file = file /\ Here.null = null
      /\ Whole(Here)
  BY DEF Here, Whole
<1>9. Base(Here, evq, plug)
  BY <1>2, <1>5, <1>7, <1>8 DEF Base
<1>10. \A p \in Ports : evq[port[p].path] = <<>> /\ plug[port[p].path] = port[p].dev
  BY <1>2, <1>4
<1>11. QED
  BY <1>2, <1>4, <1>6, <1>9, <1>10 DEF IInv

\* gpio_handler_start_probe leaves all ports off, and the timer with the last.
StartsAt(Q, P, p) ==
    Is(Q[p], FALSE, FALSE, "PROBE", P[p].dev, IF p = Cardinality(Ports) THEN 1 ELSE 0, "DOWN",
       P[p].path)

LEMMA StartOut ==
    ASSUME NEW P \in [Ports -> ProbePort], \A p \in Ports : P[p].listed # 2, NEW f, NEW n
    PROVE  \E Q : /\ gpio_handler_start_probe(State(P, f, n)) = State(Q, f, n)
                  /\ Q \in [Ports -> ProbePort] /\ \A p \in Ports : StartsAt(Q, P, p)
<1> DEFINE last == Cardinality(Ports)
           Q == [p \in Ports |-> IF p = last THEN start_timeout(start_probe_port(P[p]))
                                 ELSE start_probe_port(P[p])]
<1>1. gpio_handler_start_probe(State(P, f, n)) = State(Q, f, n)
  BY DEF gpio_handler_start_probe, State
<1>2. ASSUME NEW p \in Ports PROVE StartsAt(Q, P, p)
  <2> DEFINE s == start_probe_port(P[p])
             t == start_timeout(s)
  <2>1. Removed(P[p].listed) = 0 /\ Again(0) = 1
    BY DEF Removed, Again
  <2>2. Is(s, FALSE, FALSE, "PROBE", P[p].dev, 0, "DOWN", P[p].path)
    BY <2>1, ProbeStartIs
  <2>3. Q[p] = IF p = last THEN t ELSE s
    OBVIOUS
  <2> HIDE DEF s
  <2>4. Is(t, FALSE, FALSE, "PROBE", P[p].dev, 1, "DOWN", P[p].path)
    BY <2>1, <2>2, StartIs DEF Is
  <2> HIDE DEF t, Q
  <2>5. QED
    BY <2>2, <2>3, <2>4 DEF StartsAt
<1>3. Q \in [Ports -> ProbePort]
  <2>1. \A p \in Ports : Q[p] \in ProbePort
    <3> HIDE DEF Q
    <3>1. QED
      BY <1>2 DEF StartsAt, Is
  <2>2. QED
    BY <2>1
<1>4. QED
  BY <1>1, <1>2, <1>3

LEMMA StartGood ==
    ASSUME IInv, stage = "boot", NEW h, h = gpio_handler_start_probe(Here)
    PROVE  Good(h)
<1>1. /\ Here = State(port, file, null) /\ port \in [Ports -> ProbePort] /\ Permuted(port)
      /\ file = <<>> /\ null = FALSE
      /\ \A p \in Ports : /\ port[p].listed # 2
                          /\ evq[port[p].path] = <<>> /\ plug[port[p].path] = port[p].dev
  <2>1. Here.port = port /\ Here = State(port, file, null)
    BY DEF Here, State
  <2>2. QED
    BY <2>1 DEF IInv, Base
<1>2. PICK Q : /\ h = State(Q, file, null) /\ Q \in [Ports -> ProbePort]
               /\ \A p \in Ports : StartsAt(Q, port, p)
  BY <1>1, StartOut
<1>3. \A p \in Ports : /\ Q[p].enabled = FALSE /\ Q[p].pwr = FALSE /\ Q[p].mode = "PROBE"
                       /\ Q[p].dev = port[p].dev /\ Q[p].probe = "DOWN"
                       /\ Q[p].path = port[p].path
                       /\ Q[p].listed = IF p = Cardinality(Ports) THEN 1 ELSE 0
  BY <1>2 DEF StartsAt, Is
<1>4. Permuted(Q)
  BY <1>1, <1>3, SamePaths
<1>5. Serial(Q)
  BY <1>3 DEF Serial
<1>6. Followed(Q, evq, plug)
  BY <1>1, <1>3 DEF Followed, Recorded
<1>7. Written(file) /\ null \in BOOLEAN /\ ~null
  BY <1>1 DEF Written
<1>8. Base(h, evq, plug)
  BY <1>2, <1>4, <1>5, <1>6, <1>7, BaseIs
<1>9. Right(h, evq, plug)
  <2>1. CASE Busy(Q)
    <3>1. Lines(Q) /\ AllDone(Q)
      BY <1>3 DEF Lines, Lit, Mapped, Done, AllDone
    <3>2. Leaving(Q, evq, plug)
      BY <1>1, <1>3 DEF Leaving
    <3>3. Turn(Q)
      <4>1. Cardinality(Ports) \in Ports
        <5>1. Ports # {} /\ Ports = 1 .. Cardinality(Ports) /\ Cardinality(Ports) \in Nat
          BY <2>1, ProbeAssumption, FS_CardinalityType DEF Busy
        <5>2. QED
          BY <5>1
      <4>2. QED
        BY <1>3, <4>1 DEF Turn
    <3>4. Sound(Q, evq, plug)
      BY <3>1, <3>2, <3>3 DEF Sound
    <3>5. QED
      BY <1>1, <1>2, <1>7, <2>1, <3>4, RightIs
  <2>2. CASE ~Busy(Q)
    <3>1. Ports = {}
      BY <1>3, <2>2 DEF Busy
    <3>2. QED
      BY <1>1, <1>2, <2>2, <3>1, StateIs DEF Right
  <2>3. QED
    BY <2>1, <2>2
<1>10. QED
  BY <1>8, <1>9 DEF Good

\* What holds while the daemon runs and probes.
Working ==
    /\ Here = State(port, file, null) /\ port \in [Ports -> ProbePort]
    /\ Permuted(port) /\ Serial(port) /\ Busy(port) /\ Followed(port, evq, plug)
    /\ Written(file) /\ null \in BOOLEAN /\ ~null /\ stage = "run"
    /\ plug \in [Ports -> DevOrNone] /\ evq \in [Ports -> Seq(Event)]
    /\ wires \in Orders /\ there \in SUBSET Ports
    /\ Sane => file = <<>> /\ Sound(port, evq, plug)

LEMMA RunningWorks ==
    ASSUME IInv, Running
    PROVE  Working
<1>1. Here = State(port, file, null) /\ Here.port = port /\ Here.file = file /\ Here.null = null
  BY DEF Here, State
<1>2. Busy(port) /\ stage = "run" /\ ~null
  BY DEF Running, Probing, Busy
<1>3. Base(Here, evq, plug) /\ (Sane => Right(Here, evq, plug))
  BY <1>2 DEF IInv
<1>4. Sane => file = <<>> /\ Sound(port, evq, plug)
  BY <1>1, <1>2, <1>3, BusySound
<1>5. QED
  BY <1>1, <1>2, <1>3, <1>4 DEF Working, IInv, Base, Written

\* A step of the running daemon that leaves a good state.
LEMMA Lands ==
    ASSUME wires \in Orders, there \in SUBSET Ports, stage' = "run", UNCHANGED world,
           plug' \in [Ports -> DevOrNone], evq' \in [Ports -> Seq(Event)],
           NEW h, Becomes(h), Base(h, evq', plug'), Sane => Right(h, evq', plug')
    PROVE  IInv'
<1>1. wires' = wires /\ there' = there
  BY DEF world
<1>2. h = Here'
  BY DEF Base, Whole, Becomes, Here
<1>3. Base(Here', evq', plug')
  BY <1>2
<1>4. ASSUME Sane PROVE Right(Here, evq, plug)'
  <2>1. Right(Here', evq', plug')
    BY <1>2, <1>4
  <2>2. QED
    BY <1>1, <2>1 DEF Right, Mapped, Scanning, Handed
<1>5. wires' \in Orders /\ there' \in SUBSET Ports
  BY <1>1
<1>6. QED
  BY <1>3, <1>4, <1>5 DEF IInv

LEMMA StartStep ==
    ASSUME IInv, StartProbe
    PROVE  IInv'
<1>1. stage = "boot" /\ UNCHANGED <<plug, evq, world>>
  BY DEF StartProbe
<1>2. /\ wires \in Orders /\ there \in SUBSET Ports
      /\ plug' \in [Ports -> DevOrNone] /\ evq' \in [Ports -> Seq(Event)]
  BY <1>1 DEF IInv
<1>3. CASE Becomes(gpio_handler_start_probe(Here)) /\ stage' = "run"
  <2> DEFINE h == gpio_handler_start_probe(Here)
  <2>1. Good(h)
    BY <1>1, StartGood
  <2>2. Becomes(h)
    BY <1>3
  <2> HIDE DEF h
  <2>3. Base(h, evq', plug') /\ (Sane => Right(h, evq', plug'))
    BY <1>1, <2>1 DEF Good
  <2>4. QED
    BY <1>1, <1>2, <1>3, <2>2, <2>3, Lands
<1>4. CASE stage' = "exit" /\ UNCHANGED <<port, file, null>>
  <2>1. Here' = Here /\ UNCHANGED <<port, file, null, plug, evq, wires, there>>
    BY <1>1, <1>4 DEF Here, world
  <2>2. Base(Here', evq', plug')
    BY <2>1 DEF IInv
  <2>3. QED
    BY <1>1, <1>4, <2>1, <2>2 DEF IInv
<1>5. QED
  BY <1>3, <1>4 DEF StartProbe

\* The event e is queued, for a device that comes or goes.
LEMMA QueueStep ==
    ASSUME Working, NEW path \in Ports, NEW e \in Event, NEW d \in DevOrNone,
           d = IF e.what = "ARRIVED" THEN e.dev ELSE NoDev,
           plug' = [plug EXCEPT ![path] = d], evq' = [evq EXCEPT ![path] = Append(@, e)],
           Queued(evq, evq', plug, plug', path, e, d)
                /\ Sane => Sound(port, evq', plug'),
           UNCHANGED <<port, file, null, stage, world>>
    PROVE  IInv'
<1>1. Queued(evq, evq', plug, plug', path, e, d)
  BY DEF Queued, Working
<1>2. Followed(port, evq', plug')
  BY <1>1, QueuedFollowed DEF Working
<1>3. Base(State(port, file, null), evq', plug')
  BY <1>2, BaseIs DEF Working
<1>4. ASSUME Sane PROVE Right(State(port, file, null), evq', plug')
  <2>1. Sound(port, evq', plug')
    BY <1>1, <1>4
  <2>2. QED
    BY <1>4, <2>1, RightIs DEF Working
<1>5. plug' \in [Ports -> DevOrNone] /\ evq' \in [Ports -> Seq(Event)]
  <2>1. Append(evq[path], e) \in Seq(Event)
    BY AppendProperties DEF Working
  <2>2. QED
    BY <2>1 DEF Working
<1>6. Becomes(State(port, file, null))
  BY StateIs DEF Becomes
<1>7. wires \in Orders /\ there \in SUBSET Ports /\ stage' = "run" /\ UNCHANGED world
  BY DEF Working
<1>8. QED
  BY <1>3, <1>4, <1>5, <1>6, <1>7, Lands

LEMMA ConnectStep ==
    ASSUME Working, NEW path \in Ports, Connect(path)
    PROVE  IInv'
<1>1. /\ path \in there /\ Powered(path) /\ plug[path] = NoDev
      /\ UNCHANGED <<port, file, null, stage, world>>
  BY DEF Connect
<1>2. PICK d \in Devs : /\ plug' = [plug EXCEPT ![path] = d]
                        /\ evq' = [evq EXCEPT ![path] = Append(@, Arrived(d))]
  BY DEF Connect, Arrived
<1>3. /\ Arrived(d) \in Event /\ d \in DevOrNone
      /\ d = IF Arrived(d).what = "ARRIVED" THEN Arrived(d).dev ELSE NoDev
  BY Members DEF Arrived, Event
<1>4. PICK x \in Ports : wires[x] = path
  BY Wired DEF Working
<1>5. port[x].pwr
  BY <1>1, <1>4, PinIs DEF Powered, Working
<1>6. ASSUME Queued(evq, evq', plug, plug', path, Arrived(d), d), Sane
      PROVE  Sound(port, evq', plug')
  BY <1>1, <1>4, <1>5, <1>6, ConnectSound DEF Working
<1>7. QED
  BY <1>1, <1>2, <1>3, <1>6, QueueStep

LEMMA DisconnectStep ==
    ASSUME Working, NEW path \in Ports, Disconnect(path)
    PROVE  IInv'
<1>1. /\ ~Powered(path) \/ "replug" \in Faults
      /\ plug[path] # NoDev /\ UNCHANGED <<port, file, null, stage, world>>
      /\ plug' = [plug EXCEPT ![path] = NoDev]
      /\ evq' = [evq EXCEPT ![path] = Append(@, Left(plug[path]))]
  BY DEF Disconnect, Leave, Left
<1>2. /\ Left(plug[path]) \in Event /\ NoDev \in DevOrNone
      /\ NoDev = IF Left(plug[path]).what = "ARRIVED" THEN Left(plug[path]).dev ELSE NoDev
  BY <1>1, Members DEF Left, Event, Working, DevOrNone
<1>3. PICK x \in Ports : wires[x] = path
  BY Wired DEF Working
<1>4. ASSUME Queued(evq, evq', plug, plug', path, Left(plug[path]), NoDev), Sane
      PROVE  Sound(port, evq', plug')
  <2>1. ~port[x].pwr
    BY <1>1, <1>3, <1>4, PinIs DEF Powered, Working, Sane
  <2>2. QED
    BY <1>1, <1>3, <1>4, <2>1, DisconnectSound DEF Working
<1>5. QED
  BY <1>1, <1>2, <1>4, QueueStep

LEMMA DispatchStep ==
    ASSUME Working, NEW path \in Ports, DispatchHotplug(path)
    PROVE  IInv'
<1> DEFINE e == Head(evq[path])
<1>1. /\ evq[path] # <<>> /\ evq[path] \in Seq(Event)
      /\ evq' = [evq EXCEPT ![path] = Tail(@)] /\ UNCHANGED <<plug, stage, world>>
  BY DEF DispatchHotplug, Working
<1>2. PICK h \in IF e.what = "ARRIVED" THEN probe_device_added(Here, path, e.dev)
                 ELSE {probe_device_removed(Here, path)} : Becomes(h)
  BY DEF DispatchHotplug
<1>3. e \in Event /\ e = evq[path][1] /\ Tail(evq[path]) \in Seq(Event)
  BY <1>1, HeadTailProperties
<1>4. /\ evq'[path] = Tail(evq[path]) /\ \A x \in Ports : x # path => evq'[x] = evq[x]
      /\ evq' \in [Ports -> Seq(Event)]
  BY <1>1, <1>3 DEF Working
<1>5. PICK m \in Ports : port[m].path = path
  BY DEF Working, Permuted
<1> HIDE DEF e
<1>6. Base(h, evq', plug) /\ (Sane => Right(h, evq', plug))
  <2>1. CASE e.what = "ARRIVED"
    <3> DEFINE d == e.dev
    <3>1. d \in Devs /\ e = Arrived(d)
      BY <1>3, <2>1 DEF Event, Arrived
    <3>2. h \in probe_device_added(State(port, file, null), port[m].path, d)
      BY <1>2, <1>5, <2>1 DEF Working
    <3> HIDE DEF d
    <3>3. Reported(h, port, file, null, m, d)
      BY <3>1, <3>2, AddedOut DEF Working
    <3>4. Comes(evq, evq', plug, port[m].path, d)
      BY <1>1, <1>4, <1>5, <3>1 DEF Comes, e
    <3>5. Fresh(evq, evq', plug, port[m].path, d)
      <4>1. Recorded(evq[path], plug[path], port[m].dev)
        BY <1>5 DEF Working, Followed
      <4>2. QED
        BY <1>5, <3>4, <4>1, ComesFresh DEF Working
    <3>6. Base(h, evq', plug)
      BY <3>1, <3>3, <3>5, ReportedBase DEF Working
    <3>7. ASSUME Sane PROVE Right(h, evq', plug)
      BY <3>3, <3>4, <3>7, ReportedRight DEF Working
    <3>8. QED
      BY <3>6, <3>7
  <2>2. CASE e.what # "ARRIVED"
    <3>1. h = probe_device_removed(State(port, file, null), port[m].path)
      BY <1>2, <1>5, <2>2 DEF Working
    <3>2. PICK Q : h = State(Q, file, null) /\ Noted(Q, port, m, NoDev)
      BY <3>1, RemovedOut DEF Working
    <3>3. Goes(evq, evq', port[m].path)
      BY <1>1, <1>3, <1>4, <1>5, <2>2 DEF Goes
    <3>4. Base(h, evq', plug)
      BY <3>2, <3>3, GoneBase DEF Working
    <3>5. ASSUME Sane PROVE Right(h, evq', plug)
      BY <3>2, <3>3, <3>5, GoneRight DEF Working
    <3>6. QED
      BY <3>4, <3>5
  <2>3. QED
    BY <2>1, <2>2
<1>7. /\ wires \in Orders /\ there \in SUBSET Ports /\ stage' = "run" /\ UNCHANGED world
      /\ plug' = plug /\ plug' \in [Ports -> DevOrNone]
  BY <1>1 DEF Working
<1>8. QED
  BY <1>2, <1>4, <1>6, <1>7, Lands

LEMMA CheckDevicesStep ==
    ASSUME Working, IInv, CheckDevices
    PROVE  IInv'
<1>1. Around /\ Good(Here)
  BY DEF Around, Good, IInv, Working
<1>2. PICK h : Good(h) /\ Becomes(h)
  BY <1>1, CheckDevicesGood
<1>3. /\ wires \in Orders /\ there \in SUBSET Ports /\ stage' = "run" /\ UNCHANGED world
      /\ plug' = plug /\ evq' = evq
      /\ plug' \in [Ports -> DevOrNone] /\ evq' \in [Ports -> Seq(Event)]
  BY DEF CheckDevices, Working
<1>4. QED
  BY <1>2, <1>3, Lands DEF Good

LEMMA CheckTimeoutsStep ==
    ASSUME Working, NEW p \in Ports, CheckTimeouts(p)
    PROVE  IInv'
<1>1. port[p].listed # 0 /\ InTime(p) /\ UNCHANGED <<plug, evq, stage, world>>
  BY DEF CheckTimeouts, timeout_active
<1>2. PICK h \in probe_expire(Here, p) : Becomes(h)
  BY DEF CheckTimeouts
<1>3. Alone(port, p)
  BY <1>1, SerialAlone DEF Working
<1>4. Expired(h, port, file, null, p)
  BY <1>2, <1>3, ExpireOut DEF Working
<1>5. Due(port, evq, plug, p)
  BY <1>1 DEF InTime, Settled, Due
<1>6. Base(h, evq, plug)
  BY <1>1, <1>4, ExpiredBase DEF Working
<1>7. ASSUME Sane PROVE Right(h, evq, plug)
  BY <1>1, <1>4, <1>5, <1>7, ExpiredRight DEF Working
<1>8. /\ wires \in Orders /\ there \in SUBSET Ports /\ stage' = "run" /\ UNCHANGED world
      /\ plug' = plug /\ evq' = evq
      /\ plug' \in [Ports -> DevOrNone] /\ evq' \in [Ports -> Seq(Event)]
  BY <1>1 DEF Working
<1>9. QED
  BY <1>2, <1>6, <1>7, <1>8, Lands

LEMMA StutterStep ==
    ASSUME IInv, UNCHANGED vars
    PROVE  IInv'
<1>1. /\ UNCHANGED <<port, plug, evq, file, null, stage, wires, there>> /\ UNCHANGED world
      /\ Here' = Here
  BY DEF vars, world, Here
<1>2. CASE stage = "run"
  <2>1. Becomes(Here)
    BY <1>1 DEF Becomes, Here
  <2>2. /\ wires \in Orders /\ there \in SUBSET Ports /\ stage' = "run"
        /\ plug' \in [Ports -> DevOrNone] /\ evq' \in [Ports -> Seq(Event)]
        /\ Base(Here, evq', plug') /\ (Sane => Right(Here, evq', plug'))
    BY <1>1, <1>2 DEF IInv
  <2>3. QED
    BY <1>1, <2>1, <2>2, Lands
<1>3. CASE stage # "run"
  <2>1. Base(Here', evq', plug')
    BY <1>1 DEF IInv
  <2>2. QED
    BY <1>1, <1>3, <2>1 DEF IInv
<1>4. QED
  BY <1>2, <1>3

LEMMA NextIInv == IInv /\ [Next]_vars => IInv'
<1>1. SUFFICES ASSUME IInv, [Next]_vars PROVE IInv'
  OBVIOUS
<1>2. ASSUME Running PROVE Working
  BY <1>1, <1>2, RunningWorks
<1>3. CASE StartProbe
  BY <1>1, <1>3, StartStep
<1>4. ASSUME NEW path \in Ports, Connect(path) PROVE IInv'
  BY <1>2, <1>4, ConnectStep DEF Connect
<1>5. ASSUME NEW path \in Ports, Disconnect(path) PROVE IInv'
  BY <1>2, <1>5, DisconnectStep DEF Disconnect
<1>6. ASSUME NEW path \in Ports, DispatchHotplug(path) PROVE IInv'
  BY <1>2, <1>6, DispatchStep DEF DispatchHotplug
<1>7. CASE CheckDevices
  BY <1>1, <1>2, <1>7, CheckDevicesStep DEF CheckDevices
<1>8. ASSUME NEW p \in Ports, CheckTimeouts(p) PROVE IInv'
  BY <1>2, <1>8, CheckTimeoutsStep DEF CheckTimeouts
<1>9. CASE UNCHANGED vars
  BY <1>1, <1>9, StutterStep
<1>10. QED
  BY <1>1, <1>3, <1>4, <1>5, <1>6, <1>7, <1>8, <1>9 DEF Next
-----------------------------------------------------------------------------
(* The theorems.                                                           *)

\* Probing keeps its invariant, whatever fails.
THEOREM Invariance == Safe => []IInv
BY InitIInv, NextIInv, PTL DEF Safe

\* The variables of ProbeMonitor always have their types.
THEOREM TypeCorrect == Safe => []TypeOK
<1>1. IInv => TypeOK
  BY DEF IInv, Base, Here, TypeOK
<1>2. QED
  BY Invariance, <1>1, PTL

\* The paths of the ports stay a permutation through all swaps, and a port that
\* is being probed records the device of the path it has now, whatever fails.
THEOREM RecordFollowsPathAlways == Safe => []RecordFollowsPath
<1>1. ASSUME IInv PROVE RecordFollowsPath
  <2>1. \A p, q \in Ports : port[p].path = port[q].path => p = q
    BY <1>1 DEF IInv, Base, Here, Permuted
  <2>2. ASSUME Running, NEW p \in Ports, evq[port[p].path] = <<>>
        PROVE  port[p].dev = plug[port[p].path]
    <3>1. Working
      BY <1>1, <2>2, RunningWorks
    <3>2. QED
      BY <2>2, <3>1 DEF Working, Followed, Recorded
  <2>3. QED
    BY <2>1, <2>2 DEF RecordFollowsPath
<1>2. QED
  BY Invariance, <1>1, PTL

\* The mapping that is found and written is the wiring, for every wiring and
\* whatever writes fail, if devices do not restart by themselves, none is both
\* late to come and slow to go, and none comes late at a path that is not yet
\* known to be its own.
THEOREM MappingIsRightAlways ==
    ASSUME Sane, "mismatch" \notin Faults
    PROVE  Safe => []MappingIsRight
<1>1. ASSUME IInv PROVE MappingIsRight
  <2>1. Here.port = port /\ Here.file = file /\ (stage = "run" => Right(Here, evq, plug))
    BY <1>1 DEF IInv, Here
  <2>2. ASSUME NEW p \in Ports, port[p].mode = "PROBE", port[p].enabled, port[p].probe \in Done
        PROVE  port[p].path = wires[p]
    <3>1. stage = "run" /\ Busy(port)
      BY <1>1, <2>2 DEF IInv, Busy
    <3>2. Lit(port[p]) /\ Mapped(port[p], p)
      BY <2>1, <3>1 DEF Right
    <3>3. QED
      BY <2>2, <3>2 DEF Lit, Mapped
  <2>3. ASSUME file # <<>>, NEW p \in Ports, wires[p] \in there
        PROVE  port[p].path = wires[p]
    <3>1. stage = "run"
      BY <1>1, <2>3 DEF IInv
    <3>2. ~Busy(port)
      BY <2>1, <2>3, <3>1 DEF Right
    <3>3. QED
      BY <2>1, <2>3, <3>1, <3>2 DEF Right, Handed
  <2>4. QED
    BY <2>2, <2>3 DEF MappingIsRight, FoundIsRight, FileIsRight, Done
<1>2. QED
  BY Invariance, <1>1, PTL

\* All ports are given back to normal operation in a state that it may start
\* from, if no pin fails to be switched on, devices do not restart by themselves
\* and none is both late to come and slow to go.
THEOREM HandedOverAlways ==
    ASSUME Sane, EnableWorks
    PROVE  Safe => []HandedOver
<1>1. ASSUME IInv, stage = "run", ~Probing, NEW p \in Ports
      PROVE  Handed(port[p], p, plug)
  <2>1. Here.port = port /\ Right(Here, evq, plug) /\ ~Busy(port)
    BY <1>1 DEF IInv, Here, Probing, Busy
  <2>2. QED
    BY <2>1 DEF Right
<1>2. IInv => HandedOver
  BY <1>1 DEF HandedOver, Handed, timeout_active, Connected
<1>3. QED
  BY Invariance, <1>2, PTL

\* Access to the ports is serialized while probing: one timer, at most one port
\* with power that is not done, no second entry in the timeout list and no NULL,
\* if no pin fails to be switched on, the file can be linked once it is written,
\* and devices behave as for MappingIsRight.
THEOREM SerializedAlways ==
    ASSUME Sane, EnableWorks, "mismatch" \notin Faults, "link" \notin Faults
    PROVE  Safe => []Serialized
<1>1. IInv => TypeOK
  BY DEF IInv, Base, Here, TypeOK
<1>2. ASSUME IInv PROVE GlobalTimer /\ OneAtATime /\ ~Hung /\ ~null
  <2>1. /\ Here.port = port /\ Here.null = null /\ port \in [Ports -> ProbePort]
        /\ stage = "run" => Right(Here, evq, plug)
        /\ Busy(port) => Serial(port)
        /\ stage # "run" => ~null /\ \A p \in Ports : port[p].mode # "PROBE" /\ port[p].listed # 2
    BY <1>2 DEF IInv, Here, Base
  <2>2. ~null
    BY <2>1 DEF Right
  <2>3. ~Hung
    BY <2>1 DEF Hung, Right, Handed, Serial
  <2>4. GlobalTimer
    <3>1. SUFFICES ASSUME Running, Probing PROVE GlobalTimer
      BY DEF GlobalTimer
    <3>2. stage = "run" /\ Busy(port) /\ Serial(port)
      BY <2>1, <3>1 DEF Running, Probing, Busy
    <3>3. Turn(port)
      BY <2>1, <3>2 DEF Right
    <3>4. PICK t \in Ports : port[t].listed = 1 /\ port[t].probe \notin {"IDLE", "DONE"}
      BY <3>3 DEF Turn
    <3>5. \A q \in Ports \ {t} : ~timeout_active(port[q])
      BY <3>2, <3>4 DEF Serial, timeout_active
    <3>6. \A q \in Ports : port[q].probe \in {"UP", "DOWN_2", "WRITE_FILE"} => q = t
      BY <3>2, <3>4 DEF Serial
    <3>7. timeout_active(port[t]) /\ port[t].mode = "PROBE"
      BY <3>2, <3>4 DEF Serial, timeout_active
    <3>8. QED
      BY <3>4, <3>5, <3>6, <3>7 DEF GlobalTimer
  <2>5. OneAtATime
    <3> DEFINE waiting == {p \in Ports : /\ port[p].mode = "PROBE" /\ port[p].pwr
                                         /\ port[p].probe \notin {"DONE", "WRITE_FILE"}}
    <3>1. ASSUME NEW p \in waiting, NEW q \in waiting PROVE p = q
      <4>1. stage = "run" /\ Busy(port) /\ Serial(port)
        BY <2>1 DEF Busy
      <4>2. Lit(port[p]) /\ Lit(port[q])
        BY <2>1, <4>1 DEF Right
      <4>3. port[p].probe = "UP" /\ port[q].probe = "UP"
        BY <4>2 DEF Lit
      <4>4. QED
        BY <4>1, <4>3 DEF Serial
    <3>2. waiting = {} \/ \E p \in waiting : waiting = {p}
      BY <3>1
    <3> HIDE DEF waiting
    <3>3. Cardinality(waiting) \in {0, 1}
      <4>1. Cardinality({}) = 0 /\ \A p : Cardinality({p}) = 1
        BY FS_EmptySet, FS_Singleton, Zenon
      <4>2. QED
        BY <3>2, <4>1, Zenon
    <3>4. QED
      BY <3>3 DEF OneAtATime, waiting
  <2>6. QED
    BY <2>2, <2>3, <2>4, <2>5
<1>3. IInv => Serialized
  BY <1>1, <1>2 DEF Serialized
<1>4. QED
  BY Invariance, <1>3, PTL
=============================================================================
