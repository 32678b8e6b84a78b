-------------------------- MODULE GpioEventProofs --------------------------
(***************************************************************************)
(* What the order of the hotplug events gives: a device is attached only   *)
(* to a port without one.  The functions of the code do not see to that    *)
(* (usb_device_added overwrites port->dev), so the invariant has to follow *)
(* the events libusb has queued.  It holds as long as the device list is   *)
(* not read while the removal of an earlier device is queued ("stale").    *)
(* What is left without that suffices for IdleMeansEmpty.                  *)
(***************************************************************************)
EXTENDS GpioMonitorProofs, UsbMonitorProofs

\* The parts of PingsAreSound, for one port.
Sound(r) ==
    /\ r.handle \in {NoDev, r.dev}
    /\ r.mode = "PING" /\ r.pings > 0 => r.listed = 0 /\ r.pings = 1
    /\ r.mode = "PING" => r.dev \notin BadDevs

\* Nobody disables a port.  A port that a client disables keeps its timer and its
\* device, and has them still when it is enabled.
NeverDisabled == "DISABLE" \notin UserCmds

\* Where no write fails either, a timer runs only for what the mode says, and a
\* port in RESET is off.
Once(r) ==
    "write" \notin Faults /\ NeverDisabled =>
        /\ r.listed # 2
        /\ r.mode = "IDLE" => r.listed = 0
        /\ r.mode = "RESET" => ~r.pwr

EventInv(r) == Sound(r) /\ Once(r) /\ (NeverDisabled => r.enabled)

EInv ==
    /\ IInv
    /\ \A p \in Ports : Told(evq[p], plug[p], port[p].dev) /\ EventInv(port[p])
-----------------------------------------------------------------------------
(* The functions that change a port.                                       *)

LEMMA RestartEvent ==
    ASSUME NEW r \in Port, r.enabled, r.handle \in {NoDev, r.dev},
           "write" \notin Faults /\ NeverDisabled => r.listed # 2,
           NEW o \in GpioRestart(r)
    PROVE  /\ o.port \in Port /\ EventInv(o.port) /\ o.port.dev = r.dev
           /\ o.port.mode # "PING"
           /\ o.ret # 0 => "write" \in Faults
<1> DEFINE s == o.port
<1>1. s \in Port /\ s.enabled /\ s.dev = r.dev /\ s.handle = r.handle /\ s.mode # "PING"
  BY GpioRestartIs DEF Is
<1>2. Sound(s)
  BY <1>1 DEF Sound
<1>3. Once(s)
  <2>1. "write" \notin Faults => \/ s.mode = "RESET" /\ ~s.pwr
                                 \/ s.mode = "IDLE" /\ (r.listed # 2 => s.listed = 0)
    BY GpioRestartIs, Zenon DEF Is
  <2>2. r.listed # 2 => s.listed \in {0, 1}
    BY GpioRestartIs, Zenon DEF Is
  <2>3. QED
    BY <2>1, <2>2 DEF Once
<1>4. o.ret # 0 => "write" \in Faults
  BY GpioRestartIs
<1> HIDE DEF s
<1>5. EventInv(s)
  BY <1>1, <1>2, <1>3 DEF EventInv
<1>6. QED
  BY <1>1, <1>4, <1>5 DEF s

\* The port has no device, or the one that is reported.
LEMMA DeviceAddedEvent ==
    ASSUME NEW r \in Port, PortInv(r), EventInv(r), NEW d \in Devs, r.dev \in {NoDev, d},
           NEW s \in gpio_device_added(r, d)
    PROVE  EventInv(s) /\ s.dev \in {r.dev, d} /\ (r.dev # NoDev => s = r)
<1> DEFINE t == attached(r, d)
<1>1. Is(t, r.enabled, r.pwr, "PING", r.retrans, d, r.handle, r.pings,
         IF r.listed = 0 THEN 1 ELSE 2)
  BY AttachedIs
<1>2. \/ s = r
      \/ /\ r.enabled /\ r.mode # "RESET" /\ r.dev # d
         /\ \/ d \notin BadDevs /\ s = t
            \/ \E o \in GpioRestart(t) : s = o.port
  BY DeviceAddedIs
<1> HIDE DEF t
<1>3. CASE s = r
  BY <1>3
<1>4. CASE r.enabled /\ r.mode # "RESET" /\ r.dev # d
  <2>1. r.dev = NoDev /\ r.handle = NoDev /\ r.pings = 0 /\ r.pwr
    BY <1>4, FieldTypes DEF PortInv
  <2>2. /\ t \in Port /\ t.enabled /\ t.pwr /\ t.mode = "PING" /\ t.dev = d
        /\ t.handle = NoDev /\ t.pings = 0
    BY <1>1, <1>4, <2>1 DEF Is
  <2>3. "write" \notin Faults /\ NeverDisabled => t.listed # 2
    BY <1>1, <1>4, <2>1, FieldTypes DEF Is, EventInv, Once, PortInv, Modes
  <2>4. d \notin BadDevs => EventInv(t)
    BY <2>2, <2>3 DEF EventInv, Sound, Once
  <2>5. \A o \in GpioRestart(t) : EventInv(o.port) /\ o.port.dev = d
    BY <2>2, <2>3, RestartEvent
  <2>6. QED
    BY <1>2, <1>3, <2>1, <2>2, <2>4, <2>5
<1>5. QED
  BY <1>2, <1>3, <1>4

LEMMA ResetPortEvent ==
    ASSUME NEW r \in Port, PortInv(r), EventInv(r), r.listed # 2
    PROVE  EventInv(reset_port(r)) /\ reset_port(r).dev = NoDev
<1> DEFINE t == reset_port(r)
<1>1. Is(t, r.enabled, r.pwr, r.mode, 0, NoDev, NoDev, 0,
         IF r.mode = "RESET" THEN r.listed ELSE 0)
  BY ResetPortIs
<1> HIDE DEF t
<1>2. t.enabled = r.enabled /\ Sound(t)
  BY <1>1, DevsAssumption DEF Is, Sound
<1>3. Once(t)
  BY <1>1 DEF Is, Once, EventInv
<1>4. QED
  BY <1>1, <1>2, <1>3 DEF EventInv, Is, t

LEMMA SendPingEvent ==
    ASSUME NEW r \in Port, r.enabled, r.mode = "PING", r.dev \notin BadDevs,
           r.handle \in {NoDev, r.dev}, r.pings = 0, r.listed = 0,
           NEW s \in send_ping(r)
    PROVE  EventInv(s) /\ s.dev = r.dev /\ s.pwr = r.pwr
<1>1. s.enabled /\ s.mode = "PING" /\ s.dev = r.dev /\ s.pwr = r.pwr
  BY SendPingIs DEF Is
<1>2. s.handle \in {NoDev, s.dev}
  BY SendPingIs DEF Is, OpenHandle
<1>3. (s.listed = 0 /\ s.pings = 1) \/ (s.listed = 1 /\ s.pings = 0)
  BY SendPingIs DEF Is
<1>4. QED
  BY <1>1, <1>2, <1>3 DEF EventInv, Sound, Once

LEMMA ExpireEvent ==
    ASSUME NEW r \in Port, PortInv(r), EventInv(r), r.listed = 1,
           NEW s \in expire(r)
    PROVE  /\ EventInv(s) /\ s.dev = r.dev
           /\ "write" \notin Faults /\ NeverDisabled /\ r.pwr => s.pwr
<1> DEFINE t == del_timeout(r)
<1>1. Is(t, r.enabled, r.pwr, r.mode, r.retrans, r.dev, r.handle, r.pings, 0)
  BY DelIs DEF Is
<1>2. \/ ~r.enabled /\ s = t
      \/ r.enabled /\ r.mode = "PING" /\ s \in send_ping(t)
      \/ r.enabled /\ r.mode # "PING" /\ \E o \in GpioRestart(t) : s = o.port
  BY ExpireIs
<1> HIDE DEF t
<1>3. CASE ~r.enabled /\ s = t
  BY <1>1, <1>3 DEF Is, EventInv, Sound, Once, PortInv
<1>4. CASE r.enabled /\ r.mode = "PING" /\ s \in send_ping(t)
  <2>1. /\ t \in Port /\ t.enabled /\ t.mode = "PING" /\ t.dev \notin BadDevs
        /\ t.handle \in {NoDev, t.dev} /\ t.pings = 0 /\ t.listed = 0
        /\ t.dev = r.dev /\ t.pwr = r.pwr
    BY <1>1, <1>4, FieldTypes DEF Is, EventInv, Sound
  <2>2. QED
    BY <1>4, <2>1, SendPingEvent
<1>5. CASE r.enabled /\ r.mode # "PING" /\ \E o \in GpioRestart(t) : s = o.port
  <2>1. /\ t \in Port /\ t.enabled /\ t.handle \in {NoDev, t.dev} /\ t.listed # 2
        /\ t.dev = r.dev
    BY <1>1, <1>5 DEF Is, EventInv, Sound
  <2>2. EventInv(s) /\ s.dev = t.dev
    BY <1>5, <2>1, RestartEvent
  <2>3. "write" \notin Faults /\ NeverDisabled => ~r.pwr
    BY <1>5, FieldTypes DEF EventInv, Once, PortInv, Modes
  <2>4. QED
    BY <2>1, <2>2, <2>3
<1>6. QED
  BY <1>2, <1>3, <1>4, <1>5

LEMMA PingCbEvent ==
    ASSUME NEW r \in Port, PortInv(r), EventInv(r), r.listed # 2, r.pings > 0,
           NEW ok \in BOOLEAN, NEW s \in gpio_ping_cb(r, ok)
    PROVE  /\ EventInv(s) /\ s.dev = r.dev
           /\ r.pwr /\ ~s.pwr => ~ok /\ r.retrans = USB_RETRANS_LIMIT
<1>1. CASE /\ ~r.enabled \/ r.mode # "PING"
           /\ Is(s, r.enabled, r.pwr, r.mode, r.retrans, r.dev, r.handle, r.pings - 1, r.listed)
  <2>1. s.mode # "PING"
    BY <1>1 DEF Is, PortInv
  <2>2. QED
    BY <1>1, <2>1 DEF Is, EventInv, Sound, Once
<1>2. ASSUME r.enabled, r.mode = "PING", NEW n \in Failures,
             Is(s, r.enabled, r.pwr, r.mode, n, r.dev, r.handle, r.pings - 1,
                IF r.listed = 0 THEN 1 ELSE 2)
      PROVE  EventInv(s) /\ s.dev = r.dev /\ s.pwr = r.pwr
  <2>1. s.pings = 0 /\ s.listed = 1
    BY <1>2 DEF Is, EventInv, Sound
  <2>2. QED
    BY <1>2, <2>1 DEF Is, EventInv, Sound, Once
<1>3. ASSUME r.enabled, r.mode = "PING", NEW o \in GpioRestart(at_limit(r)),
             s = IF o.ret = 0 THEN o.port
                 ELSE start_timeout([o.port EXCEPT !.retrans = USB_RETRANS_LIMIT])
      PROVE  EventInv(s) /\ s.dev = r.dev
  <2> DEFINE t == at_limit(r)
             v == o.port
  <2>1. /\ t \in Port /\ t.enabled /\ t.handle \in {NoDev, t.dev} /\ t.listed # 2 /\ t.pwr
        /\ t.dev = r.dev
    <3>1. Is(t, r.enabled, r.pwr, r.mode, 0, r.dev, r.handle, r.pings - 1, r.listed)
      BY AtLimitIs
    <3> HIDE DEF t
    <3>2. QED
      BY <1>3, <3>1 DEF Is, EventInv, Sound, PortInv
  <2>2. /\ v \in Port /\ EventInv(v) /\ v.dev = r.dev /\ v.mode # "PING"
        /\ o.ret # 0 => "write" \in Faults
    BY <2>1, RestartEvent
  <2>3. ASSUME o.ret # 0 PROVE EventInv(s) /\ s.dev = r.dev
    <3>1. Is(s, v.enabled, v.pwr, v.mode, USB_RETRANS_LIMIT, v.dev, v.handle,
             v.pings, IF v.listed = 0 THEN 1 ELSE 2)
      BY <1>3, <2>2, <2>3, RetryIs
    <3> HIDE DEF v
    <3>2. QED
      BY <2>2, <2>3, <3>1 DEF Is, EventInv, Sound, Once
  <2>4. QED
    BY <1>3, <2>2, <2>3
<1>4. QED
  BY <1>1, <1>2, <1>3, PingCbIs DEF Is

LEMMA ResetIfNeededEvent ==
    ASSUME NEW r \in Port, PortInv(r), EventInv(r), r.listed # 2, NEW forced \in BOOLEAN,
           NEW s \in gpio_reset_if_needed(r, forced)
    PROVE  EventInv(s) /\ s.dev = r.dev /\ (~forced /\ r.dev # NoDev => s = r)
<1>1. \/ s = r
      \/ /\ r.enabled /\ r.mode # "RESET" /\ (forced \/ r.dev = NoDev)
         /\ \E o \in GpioRestart(r) : s = o.port
  BY DEF gpio_reset_if_needed, reset_if_needed, Connected
<1>2. r.enabled /\ r.mode # "RESET" => r.pwr
  BY DEF PortInv
<1>3. QED
  BY <1>1, <1>2, RestartEvent DEF EventInv, Sound

LEMMA UpdateEvent ==
    ASSUME NEW r \in Port, PortInv(r), EventInv(r), r.listed # 2, NEW cmd \in UserCmds,
           ~skip_command(r, cmd), NEW o \in gpio_update_port(r, cmd)
    PROVE  EventInv(o.port) /\ o.port.dev = r.dev
<1>1. CASE cmd = "RESTART"
  <2>1. o \in GpioRestart(r) /\ r.mode # "RESET"
    BY <1>1 DEF GpioRestart, skip_command
  <2>2. CASE r.enabled
    BY <2>1, <2>2, RestartEvent DEF EventInv, Sound, PortInv
  <2>3. CASE ~r.enabled
    BY <2>1, <2>3, GpioRestartDisabled
  <2>4. QED
    BY <2>2, <2>3
<1>2. CASE cmd = "ENABLE"
  <2> DEFINE s == [r EXCEPT !.enabled = TRUE, !.pwr = TRUE]
  <2>1. PICK written \in BOOLEAN : o = gpio_enable(r, written)
    BY <1>2 DEF gpio_update_port, gpio_write_value
  <2>2. Is(s, TRUE, TRUE, r.mode, r.retrans, r.dev, r.handle, r.pings, r.listed)
    BY Zenon DEF Is, Port
  <2>3. ~r.enabled /\ ~NeverDisabled
    BY <1>2 DEF skip_command, EventInv
  <2>4. o.port \in {s, r}
    BY <2>1 DEF gpio_enable
  <2> HIDE DEF s
  <2>5. EventInv(s) /\ s.dev = r.dev
    BY <2>2, <2>3 DEF Is, EventInv, Sound, Once
  <2>6. QED
    BY <2>4, <2>5
<1>3. CASE cmd = "DISABLE"
  <2> DEFINE s == [r EXCEPT !.enabled = FALSE, !.pwr = FALSE, !.mode = "IDLE"]
  <2>1. PICK written \in BOOLEAN : o = gpio_disable(r, written)
    BY <1>3 DEF gpio_update_port, gpio_write_value
  <2>2. Is(s, FALSE, FALSE, "IDLE", r.retrans, r.dev, r.handle, r.pings, r.listed)
    BY Members, Zenon DEF Is, Port
  <2>3. ~NeverDisabled
    BY <1>3 DEF NeverDisabled
  <2>4. o.port \in {s, r}
    BY <2>1 DEF gpio_disable
  <2> HIDE DEF s
  <2>5. EventInv(s) /\ s.dev = r.dev
    BY <2>2, <2>3 DEF Is, EventInv, Sound, Once
  <2>6. QED
    BY <2>4, <2>5
<1>4. QED
  BY <1>1, <1>2, <1>3, MonitorAssumption DEF Cmds
-----------------------------------------------------------------------------
(* The invariant is inductive where the device list is current.            *)

LEMMA EventInit == Init => EInv
<1> SUFFICES ASSUME Init PROVE EInv
  OBVIOUS
<1>1. IInv
  BY InitInv
<1>2. EventInv(configure_port) /\ configure_port.dev = NoDev
  BY DevsAssumption DEF configure_port, EventInv, Sound, Once
<1>3. Told(<<>>, NoDev, NoDev)
  BY DEF Told
<1>4. QED
  BY <1>1, <1>2, <1>3 DEF Init, EInv

LEMMA EventNext ==
    ASSUME EInv, [Next]_vars, "stale" \notin Faults
    PROVE  EInv'
<1>1. IInv /\ IInv'
  BY NextInv DEF EInv
<1>2. \A p \in Ports :
        /\ port[p] \in Port /\ PortInv(port[p]) /\ EventInv(port[p])
        /\ Told(evq[p], plug[p], port[p].dev)
        /\ evq[p] \in Seq(Event) /\ plug[p] \in DevOrNone
  BY <1>1 DEF EInv, IInv
<1> DEFINE Good(p) == Told(evq'[p], plug'[p], port'[p].dev) /\ EventInv(port'[p])
<1>3. SUFFICES ASSUME NEW p \in Ports PROVE Good(p)
  BY <1>1 DEF EInv
<1>4. ~Hung => port[p].listed # 2
  BY DEF Hung
<1>5. ASSUME UNCHANGED libusb, EventInv(port'[p]), port'[p].dev = port[p].dev
      PROVE  Good(p)
  BY <1>2, <1>5 DEF libusb
<1>6. ASSUME NEW q \in Ports, Connect(q) PROVE Good(p)
  <2>1. PICK d \in Devs : /\ plug' = [plug EXCEPT ![q] = d]
                          /\ evq' = [evq EXCEPT ![q] = Append(@, [what |-> "ARRIVED", dev |-> d])]
    BY <1>6 DEF Connect, Arrive
  <2>2. port' = port /\ plug[q] = NoDev
    BY <1>6 DEF Connect, Arrive
  <2>3. CASE p = q
    BY <1>1, <1>2, <2>1, <2>2, <2>3, ArriveTold DEF IInv
  <2>4. CASE p # q
    BY <1>1, <1>2, <2>1, <2>2, <2>4 DEF IInv
  <2>5. QED
    BY <2>3, <2>4
<1>7. ASSUME NEW q \in Ports, Disconnect(q) PROVE Good(p)
  <2>1. /\ plug' = [plug EXCEPT ![q] = NoDev]
        /\ evq' = [evq EXCEPT ![q] = Append(@, [what |-> "LEFT", dev |-> plug[q]])]
        /\ port' = port /\ plug[q] \in Devs
    BY <1>2, <1>7 DEF Disconnect, Leave, DevOrNone
  <2>2. CASE p = q
    BY <1>1, <1>2, <2>1, <2>2, LeaveTold DEF IInv
  <2>3. CASE p # q
    BY <1>1, <1>2, <2>1, <2>3 DEF IInv
  <2>4. QED
    BY <2>2, <2>3
<1>8. ASSUME NEW q \in Ports, DispatchHotplug(q) PROVE Good(p)
  <2> DEFINE e == Head(evq[q])
  <2>1. evq[q] # <<>> /\ evq' = [evq EXCEPT ![q] = Tail(@)] /\ plug' = plug /\ ~Hung
    BY <1>8 DEF DispatchHotplug
  <2>2. PICK s \in IF e.what = "ARRIVED" THEN gpio_device_added(port[q], e.dev)
                   ELSE {reset_port(port[q])} : port' = [port EXCEPT ![q] = s]
    BY <1>8 DEF DispatchHotplug
  <2>3. CASE p # q
    BY <1>1, <1>2, <2>1, <2>2, <2>3 DEF IInv
  <2>4. CASE p = q
    <3>1. e \in Event /\ e = evq[q][1] /\ port[p].dev \in {NoDev, e.dev}
      BY <1>2, <2>1, <2>4 DEF Told
    <3>2. e.dev \in Devs
      BY <3>1 DEF Event
    <3>3. port'[p] = s /\ evq'[p] = Tail(evq[p]) /\ plug'[p] = plug[p]
      BY <1>1, <2>1, <2>2, <2>4 DEF IInv
    <3> HIDE DEF e
    <3>4. EventInv(s) /\ s.dev \in {NoDev, IF e.what = "ARRIVED" THEN e.dev ELSE NoDev}
      <4>1. CASE e.what = "ARRIVED"
        BY <1>2, <2>2, <2>4, <3>1, <3>2, <4>1, DeviceAddedEvent
      <4>2. CASE e.what # "ARRIVED"
        BY <1>2, <1>4, <2>1, <2>2, <2>4, <4>2, ResetPortEvent
      <4>3. QED
        BY <4>1, <4>2
    <3>5. Told(Tail(evq[p]), plug[p], s.dev)
      BY <1>2, <2>1, <2>4, <3>4, DispatchTold DEF e
    <3>6. QED
      BY <3>3, <3>4, <3>5
  <2>5. QED
    BY <2>3, <2>4
<1>9. ASSUME CheckDevices PROVE Good(p)
  <2>1. /\ plug' = plug /\ evq' = evq /\ ~StaleList(p)
        /\ port'[p] \in IF plug[p] = NoDev THEN {port[p]}
                        ELSE gpio_device_added(port[p], plug[p])
    BY <1>9 DEF CheckDevices, ForEach, libusb, ListIsCurrent
  <2>2. CASE plug[p] = NoDev
    BY <1>2, <2>1, <2>2
  <2>3. CASE plug[p] # NoDev
    <3>1. plug[p] \in Devs /\ \A i \in DOMAIN evq[p] : evq[p][i].what # "LEFT"
      BY <1>2, <2>1, <2>3 DEF DevOrNone, StaleList, Pending
    <3>2. port[p].dev \in {NoDev, plug[p]} /\ Told(evq[p], plug[p], plug[p])
      BY <1>2, <3>1, CurrentList
    <3>3. EventInv(port'[p]) /\ port'[p].dev \in {port[p].dev, plug[p]}
      BY <1>2, <2>1, <2>3, <3>1, <3>2, DeviceAddedEvent
    <3>4. QED
      BY <1>2, <2>1, <3>2, <3>3
  <2>4. QED
    BY <2>2, <2>3
<1>10. ASSUME NEW q \in Ports, NEW ok \in BOOLEAN, PingDone(q, ok) PROVE Good(p)
  <2>1. PICK s \in gpio_ping_cb(port[q], ok) : port' = [port EXCEPT ![q] = s]
    BY <1>10 DEF PingDone
  <2>2. ~Hung /\ port[q].pings > 0 /\ UNCHANGED libusb
    BY <1>10 DEF PingDone
  <2>3. CASE p = q
    <3>1. EventInv(s) /\ s.dev = port[p].dev
      BY <1>2, <1>4, <2>1, <2>2, <2>3, PingCbEvent
    <3>2. QED
      BY <1>1, <1>5, <2>1, <2>2, <2>3, <3>1 DEF IInv
  <2>4. CASE p # q
    BY <1>1, <1>2, <1>5, <2>1, <2>2, <2>4 DEF IInv
  <2>5. QED
    BY <2>3, <2>4
<1>11. ASSUME NEW S \in SUBSET Ports, CheckTimeouts(S) PROVE Good(p)
  <2>1. /\ UNCHANGED libusb /\ ~Hung
        /\ port'[p] \in IF p \in S THEN expire(port[p]) ELSE {port[p]}
        /\ p \in S => timeout_active(port[p])
    BY <1>11 DEF CheckTimeouts, ForEach
  <2>2. CASE p \in S
    <3>1. port[p].listed = 1
      BY <1>2, <1>4, <2>1, <2>2, FieldTypes DEF timeout_active
    <3>2. EventInv(port'[p]) /\ port'[p].dev = port[p].dev
      BY <1>2, <2>1, <2>2, <3>1, ExpireEvent
    <3>3. QED
      BY <1>5, <2>1, <3>2
  <2>3. CASE p \notin S
    BY <1>2, <1>5, <2>1, <2>3
  <2>4. QED
    BY <2>2, <2>3
<1>12. ASSUME NEW forced \in BOOLEAN, ResetAllPorts(forced) PROVE Good(p)
  <2>1. UNCHANGED libusb /\ ~Hung /\ port'[p] \in gpio_reset_if_needed(port[p], forced)
    BY <1>12 DEF ResetAllPorts, ForEach
  <2>2. QED
    BY <1>2, <1>4, <1>5, <2>1, ResetIfNeededEvent
<1>13. ASSUME NEW q \in Ports, NEW cmd \in UserCmds, ClientCommand(q, cmd) PROVE Good(p)
  <2>1. PICK o \in gpio_update_port(port[q], cmd) : port' = [port EXCEPT ![q] = o.port]
    BY <1>13 DEF ClientCommand
  <2>2. ~Hung /\ ~skip_command(port[q], cmd) /\ UNCHANGED libusb
    BY <1>13 DEF ClientCommand
  <2>3. CASE p = q
    <3>1. EventInv(o.port) /\ o.port.dev = port[p].dev
      BY <1>2, <1>4, <2>1, <2>2, <2>3, UpdateEvent
    <3>2. QED
      BY <1>1, <1>5, <2>1, <2>2, <2>3, <3>1 DEF IInv
  <2>4. CASE p # q
    BY <1>1, <1>2, <1>5, <2>1, <2>2, <2>4 DEF IInv
  <2>5. QED
    BY <2>3, <2>4
<1>14. CASE UNCHANGED vars
  BY <1>2, <1>14 DEF vars
<1> HIDE DEF Good
<1>15. QED
  BY <1>6, <1>7, <1>8, <1>9, <1>10, <1>11, <1>12, <1>13, <1>14
     DEF Next, CheckReset, SignalHandler
-----------------------------------------------------------------------------
(* The theorems.                                                           *)

\* Each port with its device, handle and timer follows the events of its path, if
\* no stale list is read.
THEOREM EventInvariance ==
    ASSUME "stale" \notin Faults
    PROVE  Safe => []EInv
<1>1. EInv /\ [Next]_vars => EInv'
  BY EventNext
<1>2. QED
  BY EventInit, <1>1, PTL DEF Safe

\* A reply to a ping finds the port off the timeout list, pings go to the device
\* the port shows, and a device with a bad id never gets one: for all commands,
\* all failures, and any number of ports, devices and queued events.
THEOREM PingsAreSoundAlways ==
    ASSUME "stale" \notin Faults
    PROVE  Safe => []PingsAreSound
<1>1. EInv => PingsAreSound
  BY DEF EInv, IInv, PortInv, EventInv, Sound, PingsAreSound, SafeToRearm, HandleIsCurrent,
         BadIdNeverPinged, timeout_active
<1>2. QED
  BY EventInvariance, <1>1, PTL

\* No port gets onto the timeout list twice, unless a client disables ports
\* (gpio_update_port leaves the timer running), a write of the pin fails
\* (usb_helpers_ping_cb starts the timer a second time) or a stale list is read.
THEOREM TimersListedOnceAlways ==
    ASSUME "stale" \notin Faults, "write" \notin Faults, "DISABLE" \notin UserCmds
    PROVE  Safe => []TimersListedOnce
<1>1. EInv => TimersListedOnce
  <2> SUFFICES ASSUME EInv, NEW p \in Ports PROVE port[p].listed < 2
    BY DEF TimersListedOnce
  <2>1. port[p].listed \in 0 .. 2 /\ port[p].listed # 2
    BY FieldTypes DEF EInv, IInv, EventInv, Once, NeverDisabled
  <2>2. QED
    BY <2>1
<1>2. QED
  BY EventInvariance, <1>1, PTL

\* Only a client, the signal or a ping that failed at the limit takes the power
\* of a connected device.
THEOREM PowerCutJustifiedAlways ==
    ASSUME "stale" \notin Faults, "write" \notin Faults, "DISABLE" \notin UserCmds
    PROVE  Safe => PowerCutJustified
<1> DEFINE Justified ==
        \A p \in Ports : Connected(port[p]) /\ port[p].pwr /\ ~port'[p].pwr =>
            \/ \E cmd \in UserCmds : ClientCommand(p, cmd)
            \/ SignalHandler
            \/ PingDone(p, FALSE) /\ port[p].retrans = USB_RETRANS_LIMIT
<1>1. ASSUME EInv, Next PROVE Justified
  <2> SUFFICES ASSUME NEW p \in Ports, port[p].dev # NoDev, port[p].pwr, ~port'[p].pwr
               PROVE  \/ \E cmd \in UserCmds : ClientCommand(p, cmd)
                      \/ SignalHandler
                      \/ PingDone(p, FALSE) /\ port[p].retrans = USB_RETRANS_LIMIT
    BY DEF Connected
  <2>1. /\ port \in [Ports -> Port] /\ port[p] \in Port /\ PortInv(port[p]) /\ EventInv(port[p])
        /\ Told(evq[p], plug[p], port[p].dev)
        /\ evq[p] \in Seq(Event) /\ plug[p] \in DevOrNone
    BY <1>1 DEF EInv, IInv
  <2>2. port'[p] # port[p]
    OBVIOUS
  <2>3. ASSUME NEW q \in Ports, Connect(q) \/ Disconnect(q) PROVE FALSE
    BY <2>2, <2>3 DEF Connect, Disconnect
  <2>4. ASSUME NEW q \in Ports, DispatchHotplug(q) PROVE FALSE
    <3> DEFINE e == Head(evq[q])
    <3>1. PICK s \in IF e.what = "ARRIVED" THEN gpio_device_added(port[q], e.dev)
                     ELSE {reset_port(port[q])} : port' = [port EXCEPT ![q] = s]
      BY <2>4 DEF DispatchHotplug
    <3>2. q = p /\ s = port'[p]
      BY <2>1, <2>2, <3>1
    <3>3. evq[p] # <<>> /\ port[p].listed # 2
      BY <2>4, <3>2 DEF DispatchHotplug, Hung
    <3>4. e \in Event /\ e = evq[p][1] /\ port[p].dev \in {NoDev, e.dev}
      BY <2>1, <3>2, <3>3 DEF Told
    <3>5. e.dev \in Devs
      BY <3>4 DEF Event
    <3> HIDE DEF e
    <3>6. CASE e.what = "ARRIVED"
      BY <2>1, <2>2, <3>1, <3>2, <3>4, <3>5, <3>6, DeviceAddedEvent
    <3>7. CASE e.what # "ARRIVED"
      BY <2>1, <3>1, <3>2, <3>3, <3>7, ResetPortIs DEF Is
    <3>8. QED
      BY <3>6, <3>7
  <2>5. ASSUME CheckDevices PROVE FALSE
    <3>1. /\ ~StaleList(p)
          /\ port'[p] \in IF plug[p] = NoDev THEN {port[p]}
                          ELSE gpio_device_added(port[p], plug[p])
      BY <2>5 DEF CheckDevices, ForEach, ListIsCurrent
    <3>2. plug[p] \in Devs /\ \A i \in DOMAIN evq[p] : evq[p][i].what # "LEFT"
      BY <2>1, <2>2, <3>1 DEF DevOrNone, StaleList, Pending
    <3>3. port[p].dev \in {NoDev, plug[p]}
      BY <2>1, <3>2, CurrentList
    <3>4. QED
      BY <2>1, <2>2, <3>1, <3>2, <3>3, DevsAssumption, DeviceAddedEvent
  <2>6. ASSUME NEW q \in Ports, NEW ok \in BOOLEAN, PingDone(q, ok)
        PROVE  PingDone(p, FALSE) /\ port[p].retrans = USB_RETRANS_LIMIT
    <3>1. PICK s \in gpio_ping_cb(port[q], ok) : port' = [port EXCEPT ![q] = s]
      BY <2>6 DEF PingDone
    <3>2. q = p /\ s = port'[p] /\ port[p].pings > 0 /\ port[p].listed # 2
      BY <2>1, <2>2, <2>6, <3>1 DEF PingDone, Hung
    <3>3. ~ok /\ port[p].retrans = USB_RETRANS_LIMIT
      BY <2>1, <3>1, <3>2, PingCbEvent
    <3>4. QED
      BY <2>6, <3>2, <3>3
  <2>7. ASSUME NEW S \in SUBSET Ports, CheckTimeouts(S) PROVE FALSE
    <3>1. /\ ~Hung /\ p \in S /\ port'[p] \in expire(port[p]) /\ timeout_active(port[p])
      BY <2>2, <2>7 DEF CheckTimeouts, ForEach
    <3>2. port[p].listed = 1
      BY <2>1, <3>1, FieldTypes DEF timeout_active, Hung
    <3>3. QED
      BY <2>1, <3>1, <3>2, ExpireEvent DEF NeverDisabled
  <2>8. ASSUME CheckReset PROVE FALSE
    <3>1. ~Hung /\ port'[p] \in gpio_reset_if_needed(port[p], FALSE)
      BY <2>8 DEF CheckReset, ResetAllPorts, ForEach
    <3>2. port[p].listed # 2
      BY <3>1 DEF Hung
    <3>3. QED
      BY <2>1, <2>2, <3>1, <3>2, ResetIfNeededEvent
  <2>9. ASSUME NEW q \in Ports, NEW cmd \in UserCmds, ClientCommand(q, cmd)
        PROVE  ClientCommand(p, cmd)
    BY <2>1, <2>2, <2>9 DEF ClientCommand
  <2>10. QED
    BY <1>1, <2>3, <2>4, <2>5, <2>6, <2>7, <2>8, <2>9 DEF Next
<1>2. EInv /\ [Next]_vars => [Justified]_vars
  BY <1>1
<1> HIDE DEF Justified
<1>3. Safe => [][Justified]_vars
  BY EventInvariance, <1>2, PTL DEF Safe
<1>4. QED
  BY <1>3 DEF Justified, PowerCutJustified
-----------------------------------------------------------------------------
(* A port that comes back has lost its device.  This needs less of the     *)
(* events (Known in place of Told), and so holds with stale lists too.     *)

Quiet(r) == r.enabled /\ (r.mode = "IDLE" => r.dev = NoDev)

KInv ==
    /\ IInv
    /\ \A p \in Ports : Known(evq[p], plug[p], port[p].dev) /\ Quiet(port[p])

\* Only a restart of a port that is off leads to IDLE.
LEMMA RestartQuiet ==
    ASSUME NEW r \in Port, r.enabled, r.pwr \/ r.dev = NoDev, NEW o \in GpioRestart(r)
    PROVE  o.port \in Port /\ Quiet(o.port) /\ o.port.dev = r.dev
BY GpioRestartIs DEF Is, Quiet

LEMMA DeviceAddedQuiet ==
    ASSUME NEW r \in Port, PortInv(r), Quiet(r), NEW d \in Devs,
           NEW s \in gpio_device_added(r, d)
    PROVE  Quiet(s) /\ s.dev \in {r.dev, d}
<1> DEFINE t == attached(r, d)
<1>1. Is(t, r.enabled, r.pwr, "PING", r.retrans, d, r.handle, r.pings,
         IF r.listed = 0 THEN 1 ELSE 2)
  BY AttachedIs
<1>2. \/ s = r
      \/ r.mode # "RESET" /\ (s = t \/ \E o \in GpioRestart(t) : s = o.port)
  BY DeviceAddedIs
<1> HIDE DEF t
<1>3. CASE s = r
  BY <1>3
<1>4. CASE r.mode # "RESET" /\ (s = t \/ \E o \in GpioRestart(t) : s = o.port)
  <2>1. t \in Port /\ t.enabled /\ t.pwr /\ t.dev = d /\ t.mode = "PING"
    BY <1>1, <1>4 DEF Is, PortInv, Quiet
  <2>2. QED
    BY <1>4, <2>1, RestartQuiet DEF Quiet
<1>5. QED
  BY <1>2, <1>3, <1>4

LEMMA PingCbQuiet ==
    ASSUME NEW r \in Port, PortInv(r), Quiet(r), r.pings > 0,
           NEW ok \in BOOLEAN, NEW s \in gpio_ping_cb(r, ok)
    PROVE  Quiet(s) /\ s.dev = r.dev
<1>1. ASSUME r.mode = "PING", NEW o \in GpioRestart(at_limit(r)),
             s = IF o.ret = 0 THEN o.port
                 ELSE start_timeout([o.port EXCEPT !.retrans = USB_RETRANS_LIMIT])
      PROVE  Quiet(s) /\ s.dev = r.dev
  <2> DEFINE t == at_limit(r)
             v == o.port
  <2>1. Is(t, r.enabled, r.pwr, r.mode, 0, r.dev, r.handle, r.pings - 1, r.listed)
    BY AtLimitIs
  <2> HIDE DEF t
  <2>2. t \in Port /\ t.enabled /\ t.pwr /\ t.dev = r.dev
    BY <1>1, <2>1 DEF Is, PortInv, Quiet
  <2>3. v \in Port /\ Quiet(v) /\ v.dev = r.dev
    BY <2>2, RestartQuiet DEF t
  <2>4. Is(start_timeout([v EXCEPT !.retrans = USB_RETRANS_LIMIT]), v.enabled, v.pwr, v.mode,
           USB_RETRANS_LIMIT, v.dev, v.handle, v.pings, IF v.listed = 0 THEN 1 ELSE 2)
    BY <2>3, RetryIs
  <2> HIDE DEF v
  <2>5. s = v \/ s = start_timeout([v EXCEPT !.retrans = USB_RETRANS_LIMIT])
    BY <1>1 DEF v
  <2>6. QED
    BY <2>3, <2>4, <2>5 DEF Is, Quiet
<1>2. QED
  BY <1>1, PingCbIs DEF Is, Quiet

\* The device of a port that is off is gone when its timer expires.
LEMMA ExpireQuiet ==
    ASSUME NEW r \in Port, PortInv(r), Quiet(r), r.pwr \/ r.dev = NoDev, NEW s \in expire(r)
    PROVE  Quiet(s) /\ s.dev = r.dev
<1> DEFINE t == del_timeout(r)
<1>1. /\ t \in Port /\ t.enabled /\ t.mode = r.mode /\ t.dev = r.dev /\ t.pwr = r.pwr
  BY DelIs DEF Is, Quiet
<1>2. \/ r.mode = "PING" /\ s \in send_ping(t)
      \/ \E o \in GpioRestart(t) : s = o.port
  BY ExpireIs DEF Quiet
<1> HIDE DEF t
<1>3. CASE r.mode = "PING" /\ s \in send_ping(t)
  BY <1>1, <1>3, SendPingIs DEF Is, Quiet
<1>4. CASE \E o \in GpioRestart(t) : s = o.port
  BY <1>1, <1>4, RestartQuiet
<1>5. QED
  BY <1>2, <1>3, <1>4

LEMMA ResetIfNeededQuiet ==
    ASSUME NEW r \in Port, PortInv(r), Quiet(r), NEW forced \in BOOLEAN,
           NEW s \in gpio_reset_if_needed(r, forced)
    PROVE  Quiet(s) /\ s.dev = r.dev
<1>1. s = r \/ (r.mode # "RESET" /\ \E o \in GpioRestart(r) : s = o.port)
  BY DEF gpio_reset_if_needed, reset_if_needed
<1>2. r.mode # "RESET" => r.pwr
  BY DEF PortInv, Quiet
<1>3. QED
  BY <1>1, <1>2, RestartQuiet DEF Quiet

LEMMA UpdateQuiet ==
    ASSUME NEW r \in Port, PortInv(r), Quiet(r), NEW cmd \in UserCmds, NeverDisabled,
           ~skip_command(r, cmd), NEW o \in gpio_update_port(r, cmd)
    PROVE  Quiet(o.port) /\ o.port.dev = r.dev
<1>1. cmd = "RESTART" /\ r.mode # "RESET"
  BY MonitorAssumption DEF Cmds, NeverDisabled, Quiet, skip_command
<1>2. o \in GpioRestart(r) /\ r.enabled /\ r.pwr
  BY <1>1 DEF GpioRestart, PortInv, Quiet
<1>3. QED
  BY <1>2, RestartQuiet

LEMMA QuietNext ==
    ASSUME KInv, [Next]_vars, "slow" \notin Faults, NeverDisabled
    PROVE  KInv'
<1>1. IInv /\ IInv'
  BY NextInv DEF KInv
<1>2. \A p \in Ports :
        /\ port[p] \in Port /\ PortInv(port[p]) /\ Quiet(port[p])
        /\ Known(evq[p], plug[p], port[p].dev)
        /\ evq[p] \in Seq(Event) /\ plug[p] \in DevOrNone
  BY <1>1 DEF KInv, IInv
<1> DEFINE Good(p) == Known(evq'[p], plug'[p], port'[p].dev) /\ Quiet(port'[p])
<1>3. SUFFICES ASSUME NEW p \in Ports PROVE Good(p)
  BY <1>1 DEF KInv
<1>4. ASSUME UNCHANGED libusb, Quiet(port'[p]), port'[p].dev = port[p].dev
      PROVE  Good(p)
  BY <1>2, <1>4 DEF libusb
<1>5. ASSUME NEW q \in Ports, Connect(q) \/ Disconnect(q) PROVE Good(p)
  <2>1. PICK e \in Event, d \in DevOrNone :
            /\ plug' = [plug EXCEPT ![q] = d] /\ evq' = [evq EXCEPT ![q] = Append(@, e)]
            /\ d = NoDev <=> e.what = "LEFT"
    <3>1. CASE Connect(q)
      <4>1. PICK d \in Devs :
                /\ plug' = [plug EXCEPT ![q] = d]
                /\ evq' = [evq EXCEPT ![q] = Append(@, [what |-> "ARRIVED", dev |-> d])]
        BY <3>1 DEF Connect, Arrive
      <4>2. [what |-> "ARRIVED", dev |-> d] \in Event /\ d \in DevOrNone /\ d # NoDev
        BY DevsAssumption DEF Event, DevOrNone
      <4>3. QED
        BY <4>1, <4>2
    <3>2. CASE Disconnect(q)
      <4>1. /\ plug' = [plug EXCEPT ![q] = NoDev] /\ plug[q] \in Devs
            /\ evq' = [evq EXCEPT ![q] = Append(@, [what |-> "LEFT", dev |-> plug[q]])]
        BY <1>2, <3>2 DEF Disconnect, Leave, DevOrNone
      <4>2. [what |-> "LEFT", dev |-> plug[q]] \in Event /\ NoDev \in DevOrNone
        BY <4>1 DEF Event, DevOrNone
      <4>3. QED
        BY <4>1, <4>2
    <3>3. QED
      BY <1>5, <3>1, <3>2
  <2>2. port' = port
    BY <1>5 DEF Connect, Disconnect
  <2>3. CASE p = q
    <3>1. evq'[p] = Append(evq[p], e) /\ plug'[p] = d
      BY <1>1, <2>1, <2>3 DEF IInv
    <3>2. QED
      BY <1>2, <2>1, <2>2, <3>1, QueueKnown
  <2>4. CASE p # q
    BY <1>1, <1>2, <2>1, <2>2, <2>4 DEF IInv
  <2>5. QED
    BY <2>3, <2>4
<1>6. ASSUME NEW q \in Ports, DispatchHotplug(q) PROVE Good(p)
  <2> DEFINE e == Head(evq[q])
  <2>1. evq[q] # <<>> /\ evq' = [evq EXCEPT ![q] = Tail(@)] /\ plug' = plug /\ ~Hung
    BY <1>6 DEF DispatchHotplug
  <2>2. PICK s \in IF e.what = "ARRIVED" THEN gpio_device_added(port[q], e.dev)
                   ELSE {reset_port(port[q])} : port' = [port EXCEPT ![q] = s]
    BY <1>6 DEF DispatchHotplug
  <2>3. CASE p # q
    BY <1>1, <1>2, <2>1, <2>2, <2>3 DEF IInv
  <2>4. CASE p = q
    <3>1. e \in Event
      BY <1>2, <2>1, <2>4
    <3>2. e.dev \in Devs /\ e.what \in {"ARRIVED", "LEFT"}
      BY <3>1 DEF Event
    <3>3. port'[p] = s /\ evq'[p] = Tail(evq[p]) /\ plug'[p] = plug[p]
      BY <1>1, <2>1, <2>2, <2>4 DEF IInv
    <3> HIDE DEF e
    <3>4. Quiet(s) /\ (e.what = "LEFT" => s.dev = NoDev)
      <4>1. CASE e.what = "ARRIVED"
        BY <1>2, <2>2, <2>4, <3>2, <4>1, DeviceAddedQuiet
      <4>2. CASE e.what # "ARRIVED"
        BY <1>2, <2>1, <2>2, <2>4, <4>2, ResetPortIs DEF Hung, Is, Quiet
      <4>3. QED
        BY <4>1, <4>2
    <3>5. Known(Tail(evq[p]), plug[p], s.dev)
      BY <1>2, <2>1, <2>4, <3>4, DispatchKnown DEF e
    <3>6. QED
      BY <3>3, <3>4, <3>5
  <2>5. QED
    BY <2>3, <2>4
<1>7. ASSUME CheckDevices PROVE Good(p)
  <2>1. /\ plug' = plug /\ evq' = evq
        /\ port'[p] \in IF plug[p] = NoDev THEN {port[p]}
                        ELSE gpio_device_added(port[p], plug[p])
    BY <1>7 DEF CheckDevices, ForEach, libusb
  <2>2. CASE plug[p] = NoDev
    BY <1>2, <2>1, <2>2
  <2>3. CASE plug[p] # NoDev
    <3>1. Quiet(port'[p])
      BY <1>2, <2>1, <2>3, DeviceAddedQuiet DEF DevOrNone
    <3>2. QED
      BY <1>2, <2>1, <2>3, <3>1 DEF Known
  <2>4. QED
    BY <2>2, <2>3
<1>8. ASSUME NEW q \in Ports, NEW ok \in BOOLEAN, PingDone(q, ok) PROVE Good(p)
  <2>1. PICK s \in gpio_ping_cb(port[q], ok) : port' = [port EXCEPT ![q] = s]
    BY <1>8 DEF PingDone
  <2>2. port[q].pings > 0 /\ UNCHANGED libusb
    BY <1>8 DEF PingDone
  <2>3. Quiet(s) /\ s.dev = port[q].dev
    BY <1>2, <2>1, <2>2, PingCbQuiet
  <2>4. QED
    BY <1>1, <1>2, <1>4, <2>1, <2>2, <2>3 DEF IInv
<1>9. ASSUME NEW S \in SUBSET Ports, CheckTimeouts(S) PROVE Good(p)
  <2>1. /\ UNCHANGED libusb
        /\ port'[p] \in IF p \in S THEN expire(port[p]) ELSE {port[p]}
        /\ p \in S => SleptLongEnough(p)
    BY <1>9 DEF CheckTimeouts, ForEach
  <2>2. p \in S => port[p].pwr \/ port[p].dev = NoDev
    BY <1>2, <2>1 DEF SleptLongEnough, Known, Quiet
  <2>3. QED
    BY <1>2, <1>4, <2>1, <2>2, ExpireQuiet
<1>10. ASSUME NEW forced \in BOOLEAN, ResetAllPorts(forced) PROVE Good(p)
  <2>1. UNCHANGED libusb /\ port'[p] \in gpio_reset_if_needed(port[p], forced)
    BY <1>10 DEF ResetAllPorts, ForEach
  <2>2. QED
    BY <1>2, <1>4, <2>1, ResetIfNeededQuiet
<1>11. ASSUME NEW q \in Ports, NEW cmd \in UserCmds, ClientCommand(q, cmd) PROVE Good(p)
  <2>1. PICK o \in gpio_update_port(port[q], cmd) : port' = [port EXCEPT ![q] = o.port]
    BY <1>11 DEF ClientCommand
  <2>2. ~skip_command(port[q], cmd) /\ UNCHANGED libusb
    BY <1>11 DEF ClientCommand
  <2>3. Quiet(o.port) /\ o.port.dev = port[q].dev
    BY <1>2, <2>1, <2>2, UpdateQuiet
  <2>4. QED
    BY <1>1, <1>2, <1>4, <2>1, <2>2, <2>3 DEF IInv
<1>12. CASE UNCHANGED vars
  BY <1>2, <1>12 DEF vars
<1> HIDE DEF Good
<1>13. QED
  BY <1>5, <1>6, <1>7, <1>8, <1>9, <1>10, <1>11, <1>12 DEF Next, CheckReset, SignalHandler

\* An enabled port with a device monitors or resets it, if the device is seen to
\* be gone before gpio_handle_timeout switches the port on, and no client
\* disables ports; a stale list does no harm here.
THEOREM IdleMeansEmptyAlways ==
    ASSUME "slow" \notin Faults, "DISABLE" \notin UserCmds
    PROVE  Safe => []IdleMeansEmpty
<1>1. ASSUME Init PROVE KInv
  <2>1. IInv
    BY <1>1, InitInv
  <2>2. Quiet(configure_port) /\ configure_port.dev = NoDev /\ Known(<<>>, NoDev, NoDev)
    BY DEF configure_port, Quiet, Known
  <2>3. QED
    BY <1>1, <2>1, <2>2 DEF Init, KInv
<1>2. KInv /\ [Next]_vars => KInv'
  BY QuietNext DEF NeverDisabled
<1>3. KInv => IdleMeansEmpty
  BY DEF KInv, Quiet, IdleMeansEmpty, Connected
<1>4. QED
  BY <1>1, <1>2, <1>3, PTL DEF Safe
=============================================================================
