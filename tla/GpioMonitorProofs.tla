------------------------- MODULE GpioMonitorProofs -------------------------
(***************************************************************************)
(* Safety of GpioMonitor for every set of ports and devices, every limit,  *)
(* every command and every fault: the ports do not share state, so the     *)
(* inductive invariant is a predicate on one port, and each function of    *)
(* the code is shown to preserve it once, whoever calls it.                *)
(***************************************************************************)
EXTENDS GpioMonitor, TLAPS

\* The part of the invariant that speaks of one port.
PortInv(r) ==
    /\ r \in Port
    /\ r.mode # "PROBE"
    /\ ~r.enabled => ~r.pwr
    /\ r.enabled /\ ~r.pwr => r.mode = "RESET" /\ r.listed # 0
    /\ r.mode = "RESET" => r.enabled /\ r.listed # 0
    /\ r.mode = "PING" => r.enabled
    /\ r.mode = "PING" /\ r.listed # 0 => r.dev # NoDev
    /\ r.mode = "PING" /\ r.dev # NoDev => r.listed # 0 \/ r.pings > 0
    /\ r.pings > 0 => r.handle # NoDev
    /\ r.handle # NoDev => r.dev # NoDev

\* The conjuncts about the handle, which hold in the middle of a callback too.
HandleInv(r) == (r.pings > 0 => r.handle # NoDev) /\ (r.handle # NoDev => r.dev # NoDev)

\* What a callback may do to a port: leave it in the invariant, and move its
\* power as PowerCycle allows.
PortStep(r, s) == PortInv(s) /\ (~r.enabled => ~s.enabled \/ s.pwr)

IInv ==
    /\ port \in [Ports -> Port]
    /\ \A p \in Ports : PortInv(port[p])
    /\ plug \in [Ports -> DevOrNone]
    /\ evq \in [Ports -> Seq(Event)]
-----------------------------------------------------------------------------
(* What each function leaves in each field.                                *)

Is(s, enabled, pwr, mode, retrans, dev, handle, pings, listed) ==
    /\ s \in Port
    /\ s.enabled = enabled /\ s.pwr = pwr /\ s.mode = mode /\ s.retrans = retrans
    /\ s.dev = dev /\ s.handle = handle /\ s.pings = pings /\ s.listed = listed

LEMMA Members ==
    /\ NoDev \in DevOrNone /\ Devs \subseteq DevOrNone /\ NoDev \notin Devs
    /\ 0 \in Failures /\ USB_RETRANS_LIMIT \in Failures
    /\ \A n \in Failures : (n + 1) % RETRANS_MOD \in Failures
    /\ 0 \in Few /\ 1 \in Few /\ 2 \in Few
    /\ \A n \in Few : n > 0 => n - 1 \in Few
    /\ {"IDLE", "PING", "RESET"} \subseteq Modes
BY DevsAssumption, RetransAssumption DEF DevOrNone, Failures, Few, Modes

LEMMA StartIs ==
    ASSUME NEW r \in Port
    PROVE  Is(start_timeout(r), r.enabled, r.pwr, r.mode, r.retrans, r.dev, r.handle,
              r.pings, IF r.listed = 0 THEN 1 ELSE 2)
BY Members, Zenon DEF start_timeout, Is, Port

LEMMA DelIs ==
    ASSUME NEW r \in Port
    PROVE  Is(del_timeout(r), r.enabled, r.pwr, r.mode, r.retrans, r.dev, r.handle,
              r.pings, IF r.listed = 2 THEN 2 ELSE 0)
BY Members, Zenon DEF del_timeout, Is, Port

LEMMA FailureIs ==
    ASSUME NEW r \in Port
    PROVE  Is(count_failure(r), r.enabled, r.pwr, r.mode, (r.retrans + 1) % RETRANS_MOD,
              r.dev, r.handle, r.pings, r.listed)
BY Members, Zenon DEF count_failure, Is, Port

\* The fields of a port have their types.
LEMMA FieldTypes ==
    ASSUME NEW r \in Port
    PROVE  /\ r.enabled \in BOOLEAN /\ r.pwr \in BOOLEAN /\ r.mode \in Modes
           /\ r.retrans \in Failures /\ r.dev \in DevOrNone /\ r.handle \in DevOrNone
           /\ r.pings \in 0 .. 2 /\ r.listed \in 0 .. 2
BY DEF Port, Few
-----------------------------------------------------------------------------
(* One lemma for each function that changes a port.                        *)

\* gpio_update_port(CMD_RESTART) on an enabled port: the write fails, the port is
\* switched off, or it is switched on.
LEMMA GpioRestartIs ==
    ASSUME NEW r \in Port, r.enabled, NEW o \in GpioRestart(r)
    PROVE  \/ /\ Is(o.port, TRUE, r.pwr, "RESET", r.retrans, r.dev, r.handle, r.pings,
                    IF r.listed = 2 THEN 2 ELSE 1)
              /\ o.ret = -1 /\ "write" \in Faults
           \/ /\ Is(o.port, TRUE, FALSE, "RESET", r.retrans, r.dev, r.handle, r.pings,
                    IF r.listed = 2 THEN 2 ELSE 1)
              /\ o.ret = 0 /\ r.pwr
           \/ /\ Is(o.port, TRUE, TRUE, "IDLE", r.retrans, r.dev, r.handle, r.pings,
                    IF r.listed = 2 THEN 2 ELSE 0)
              /\ o.ret = 0 /\ ~r.pwr
<1> DEFINE m == [r EXCEPT !.mode = "RESET"]
           s == del_timeout(m)
           off == [s EXCEPT !.pwr = FALSE]
           on == [s EXCEPT !.pwr = TRUE, !.mode = "IDLE"]
<1>0. r.enabled = TRUE
  BY FieldTypes
<1>1. PICK written \in BOOLEAN : o = gpio_restart(r, written) /\ (~written => "write" \in Faults)
  BY DEF GpioRestart, gpio_update_port, gpio_write_value
<1>2. Is(m, TRUE, r.pwr, "RESET", r.retrans, r.dev, r.handle, r.pings, r.listed)
  BY <1>0, Members, Zenon DEF Is, Port
<1>3. Is(s, TRUE, r.pwr, "RESET", r.retrans, r.dev, r.handle, r.pings,
         IF r.listed = 2 THEN 2 ELSE 0)
  <2> HIDE DEF m
  <2>1. Is(s, m.enabled, m.pwr, m.mode, m.retrans, m.dev, m.handle, m.pings,
           IF m.listed = 2 THEN 2 ELSE 0)
    BY <1>2, DelIs, Zenon DEF Is
  <2>2. QED
    BY <1>2, <2>1, Zenon DEF Is
<1>4. Is(off, TRUE, FALSE, "RESET", r.retrans, r.dev, r.handle, r.pings,
         IF r.listed = 2 THEN 2 ELSE 0)
  BY <1>3, Members, Zenon DEF Is, Port
<1>5. Is(on, TRUE, TRUE, "IDLE", r.retrans, r.dev, r.handle, r.pings,
         IF r.listed = 2 THEN 2 ELSE 0)
  BY <1>3, Members, Zenon DEF Is, Port
<1>6. o = IF ~written THEN [port |-> start_timeout(s), ret |-> -1]
          ELSE IF r.pwr THEN [port |-> start_timeout(off), ret |-> 0]
          ELSE [port |-> on, ret |-> 0]
  BY <1>1, Zenon DEF gpio_restart
<1> HIDE DEF s, off, on
<1>7. (IF s.listed = 0 THEN 1 ELSE 2) = (IF r.listed = 2 THEN 2 ELSE 1)
  BY <1>3 DEF Is
<1>8. (IF off.listed = 0 THEN 1 ELSE 2) = (IF r.listed = 2 THEN 2 ELSE 1)
  BY <1>4 DEF Is
<1>9. Is(start_timeout(s), TRUE, r.pwr, "RESET", r.retrans, r.dev, r.handle, r.pings,
         IF r.listed = 2 THEN 2 ELSE 1)
  BY <1>3, <1>7, StartIs, Zenon DEF Is
<1>10. Is(start_timeout(off), TRUE, FALSE, "RESET", r.retrans, r.dev, r.handle, r.pings,
          IF r.listed = 2 THEN 2 ELSE 1)
  BY <1>4, <1>8, StartIs, Zenon DEF Is
<1>11. CASE ~written
  <2>1. o.port = start_timeout(s) /\ o.ret = -1
    BY <1>6, <1>11
  <2>2. QED
    BY <1>1, <1>9, <1>11, <2>1
<1>12. CASE written /\ r.pwr
  <2>1. o.port = start_timeout(off) /\ o.ret = 0
    BY <1>6, <1>12
  <2>2. QED
    BY <1>10, <1>12, <2>1
<1>13. CASE written /\ ~r.pwr
  <2>1. o.port = on /\ o.ret = 0
    BY <1>6, <1>13
  <2>2. QED
    BY <1>5, <1>13, <2>1
<1>14. QED
  BY <1>11, <1>12, <1>13

\* So it leaves the port in the invariant, whatever its timer and power were.
LEMMA GpioRestartInv ==
    ASSUME NEW r \in Port, r.enabled, HandleInv(r), NEW o \in GpioRestart(r)
    PROVE  PortInv(o.port) /\ o.port.enabled /\ (o.ret # 0 => o.port.mode = "RESET")
<1>1. ASSUME NEW pwr \in BOOLEAN, NEW n \in 1 .. 2,
             Is(o.port, TRUE, pwr, "RESET", r.retrans, r.dev, r.handle, r.pings, n)
      PROVE  PortInv(o.port) /\ o.port.enabled /\ o.port.mode = "RESET"
  BY <1>1 DEF Is, PortInv, HandleInv
<1>2. ASSUME NEW n \in 0 .. 2, o.ret = 0,
             Is(o.port, TRUE, TRUE, "IDLE", r.retrans, r.dev, r.handle, r.pings, n)
      PROVE  PortInv(o.port) /\ o.port.enabled
  BY <1>2 DEF Is, PortInv, HandleInv
<1>3. (IF r.listed = 2 THEN 2 ELSE 1) \in 1 .. 2 /\ (IF r.listed = 2 THEN 2 ELSE 0) \in 0 .. 2
  OBVIOUS
<1>4. QED
  BY <1>1, <1>2, <1>3, GpioRestartIs, FieldTypes, Zenon

LEMMA GpioRestartDisabled ==
    ASSUME NEW r \in Port, ~r.enabled, NEW o \in GpioRestart(r)
    PROVE  o.port = r
<1>1. \A written \in BOOLEAN : gpio_restart(r, written).port = r
  BY DEF gpio_restart
<1>2. QED
  BY <1>1 DEF GpioRestart, gpio_update_port, gpio_write_value

\* A command of a client.
LEMMA GpioUpdateInv ==
    ASSUME NEW r \in Port, PortInv(r), NEW cmd \in Cmds, NEW o \in gpio_update_port(r, cmd)
    PROVE  PortStep(r, o.port)
<1>1. CASE cmd = "RESTART"
  <2>1. o \in GpioRestart(r)
    BY <1>1 DEF GpioRestart
  <2>2. HandleInv(r)
    BY DEF PortInv, HandleInv
  <2>3. QED
    BY <2>1, <2>2, GpioRestartInv, GpioRestartDisabled DEF PortStep
<1>2. CASE cmd = "ENABLE"
  <2> DEFINE s == [r EXCEPT !.enabled = TRUE, !.pwr = TRUE]
  <2>1. PICK written \in BOOLEAN : o = gpio_enable(r, written)
    BY <1>2 DEF gpio_update_port, gpio_write_value
  <2>2. Is(s, TRUE, TRUE, r.mode, r.retrans, r.dev, r.handle, r.pings, r.listed)
    BY Zenon DEF Is, Port
  <2>3. PortStep(r, s) /\ PortStep(r, r)
    BY <2>2, FieldTypes DEF Is, PortStep, PortInv
  <2>4. o.port \in {s, r}
    BY <2>1 DEF gpio_enable
  <2>5. QED
    BY <2>3, <2>4
<1>3. CASE cmd = "DISABLE"
  <2> DEFINE s == [r EXCEPT !.enabled = FALSE, !.pwr = FALSE, !.mode = "IDLE"]
  <2>1. PICK written \in BOOLEAN : o = gpio_disable(r, written)
    BY <1>3 DEF gpio_update_port, gpio_write_value
  <2>2. Is(s, FALSE, FALSE, "IDLE", r.retrans, r.dev, r.handle, r.pings, r.listed)
    BY Members, Zenon DEF Is, Port
  <2>3. PortStep(r, s) /\ PortStep(r, r)
    BY <2>2, FieldTypes DEF Is, PortStep, PortInv
  <2>4. o.port \in {s, r}
    BY <2>1 DEF gpio_disable
  <2>5. QED
    BY <2>3, <2>4
<1>4. QED
  BY <1>1, <1>2, <1>3 DEF Cmds

\* The device of the port is gone.  (From a circular list the timer could not
\* be removed.)
LEMMA ResetPortIs ==
    ASSUME NEW r \in Port, PortInv(r), r.listed # 2
    PROVE  Is(reset_port(r), r.enabled, r.pwr, r.mode, 0, NoDev, NoDev, 0,
              IF r.mode = "RESET" THEN r.listed ELSE 0)
<1> DEFINE s == IF r.mode \notin {"RESET", "PROBE"} /\ timeout_active(r)
                THEN del_timeout(r) ELSE r
           n == IF Connected(r) /\ r.handle # NoDev THEN 0 ELSE s.pings
           t == [s EXCEPT !.dev = NoDev, !.handle = NoDev, !.retrans = 0, !.pings = n]
<1>1. /\ s \in Port /\ s.enabled = r.enabled /\ s.pwr = r.pwr /\ s.mode = r.mode
      /\ s.pings = r.pings
      /\ s.listed = IF r.mode = "RESET" THEN r.listed ELSE 0
  BY DelIs, FieldTypes DEF Is, timeout_active, PortInv
<1>2. n = 0
  BY <1>1, FieldTypes DEF Connected, PortInv
<1> HIDE DEF s, n
<1>3. Is(t, s.enabled, s.pwr, s.mode, 0, NoDev, NoDev, n, s.listed)
  BY <1>1, <1>2, Members, Zenon DEF Is, Port
<1>4. reset_port(r) = t
  BY Zenon DEF reset_port, s, n
<1> HIDE DEF t
<1>5. QED
  BY <1>1, <1>2, <1>3, <1>4, Zenon DEF Is

LEMMA ResetPortInv ==
    ASSUME NEW r \in Port, PortInv(r), r.listed # 2
    PROVE  PortStep(r, reset_port(r))
<1> DEFINE t == reset_port(r)
<1>1. Is(t, r.enabled, r.pwr, r.mode, 0, NoDev, NoDev, 0,
         IF r.mode = "RESET" THEN r.listed ELSE 0)
  BY ResetPortIs
<1> HIDE DEF t
<1>2. QED
  BY <1>1, FieldTypes DEF Is, PortInv, PortStep, t

\* A device is reported at the path of the port, and not ignored: its first ping
\* is scheduled, or, because of its id, the port is restarted then.
LEMMA AttachedIs ==
    ASSUME NEW r \in Port, NEW d \in Devs
    PROVE  Is(attached(r, d), r.enabled, r.pwr, "PING", r.retrans, d, r.handle, r.pings,
              IF r.listed = 0 THEN 1 ELSE 2)
<1> DEFINE u == [r EXCEPT !.dev = d, !.mode = "PING"]
<1>1. Is(u, r.enabled, r.pwr, "PING", r.retrans, d, r.handle, r.pings, r.listed)
  BY Members, Zenon DEF Is, Port
<1>2. QED
  BY <1>1, StartIs, Zenon DEF Is, attached

LEMMA DeviceAddedIs ==
    ASSUME NEW r \in Port, PortInv(r), NEW d \in Devs, NEW s \in gpio_device_added(r, d)
    PROVE  \/ added_ignored(r, d) /\ s = r
           \/ /\ ~added_ignored(r, d) /\ r.enabled /\ r.mode # "RESET" /\ r.dev # d
              /\ \/ d \notin BadDevs /\ s = attached(r, d)
                 \/ d \in BadDevs /\ \E o \in GpioRestart(attached(r, d)) : s = o.port
BY DEF gpio_device_added, device_added, added_ignored, PortInv

LEMMA DeviceAddedInv ==
    ASSUME NEW r \in Port, PortInv(r), NEW d \in Devs,
           NEW s \in gpio_device_added(r, d)
    PROVE  PortStep(r, s)
<1> DEFINE t == attached(r, d)
<1>1. Is(t, r.enabled, r.pwr, "PING", r.retrans, d, r.handle, r.pings,
         IF r.listed = 0 THEN 1 ELSE 2)
  BY AttachedIs
<1>2. \/ s = r
      \/ r.enabled /\ r.mode # "RESET" /\ (s = t \/ \E o \in GpioRestart(t) : s = o.port)
  BY DeviceAddedIs
<1> HIDE DEF t
<1>3. ASSUME r.enabled, r.mode # "RESET"
      PROVE  t \in Port /\ t.enabled /\ PortInv(t) /\ HandleInv(t)
  BY <1>1, <1>3, Members, FieldTypes DEF Is, PortInv, HandleInv
<1>4. QED
  BY <1>2, <1>3, GpioRestartInv DEF PortStep, PortInv

\* A ping is sent, or the device cannot be opened, or no transfer allocated, or
\* none submitted.
OpenHandle(r) == IF r.handle = NoDev THEN r.dev ELSE r.handle

LEMMA SendPingIs ==
    ASSUME NEW r \in Port, NEW s \in send_ping(r)
    PROVE  \/ Is(s, r.enabled, r.pwr, r.mode, r.retrans, r.dev, OpenHandle(r),
                 IF r.pings = 0 THEN 1 ELSE 2, r.listed)
           \/ Is(s, r.enabled, r.pwr, r.mode, (r.retrans + 1) % RETRANS_MOD, r.dev, r.handle,
                 r.pings, IF r.listed = 0 THEN 1 ELSE 2)
           \/ Is(s, r.enabled, r.pwr, r.mode, r.retrans, r.dev, OpenHandle(r),
                 r.pings, IF r.listed = 0 THEN 1 ELSE 2)
           \/ Is(s, r.enabled, r.pwr, r.mode, r.retrans, r.dev, NoDev,
                 0, IF r.listed = 0 THEN 1 ELSE 2)
<1> DEFINE h == IF r.handle = NoDev THEN r.dev ELSE r.handle
           open == [r EXCEPT !.handle = h]
           sent == [open EXCEPT !.pings = IF open.pings = 0 THEN 1 ELSE 2]
           closed == [open EXCEPT !.handle = NoDev, !.pings = 0]
           failed == count_failure(r)
<1>1. s \in {sent, start_timeout(failed), start_timeout(open), start_timeout(closed)}
  BY DEF send_ping
<1>2. h \in DevOrNone /\ h = OpenHandle(r)
  BY FieldTypes DEF OpenHandle
<1> HIDE DEF h
<1>3. Is(open, r.enabled, r.pwr, r.mode, r.retrans, r.dev, h, r.pings, r.listed)
  BY <1>2, Zenon DEF Is, Port
<1>4. Is(sent, r.enabled, r.pwr, r.mode, r.retrans, r.dev, h,
         IF r.pings = 0 THEN 1 ELSE 2, r.listed)
  BY <1>3, Members, Zenon DEF Is, Port
<1>5. Is(closed, r.enabled, r.pwr, r.mode, r.retrans, r.dev, NoDev, 0, r.listed)
  BY <1>3, Members, Zenon DEF Is, Port
<1>6. Is(failed, r.enabled, r.pwr, r.mode, (r.retrans + 1) % RETRANS_MOD, r.dev, r.handle,
         r.pings, r.listed)
  BY FailureIs
<1> HIDE DEF open, sent, closed, failed
<1>7. Is(start_timeout(open), r.enabled, r.pwr, r.mode, r.retrans, r.dev, h, r.pings,
         IF r.listed = 0 THEN 1 ELSE 2)
  BY <1>3, StartIs, Zenon DEF Is
<1>8. Is(start_timeout(closed), r.enabled, r.pwr, r.mode, r.retrans, r.dev, NoDev, 0,
         IF r.listed = 0 THEN 1 ELSE 2)
  <2>1. Is(start_timeout(closed), closed.enabled, closed.pwr, closed.mode, closed.retrans,
           closed.dev, closed.handle, closed.pings, IF closed.listed = 0 THEN 1 ELSE 2)
    BY <1>5, StartIs, Zenon DEF Is
  <2>2. QED
    BY <1>5, <2>1 DEF Is
<1>9. Is(start_timeout(failed), r.enabled, r.pwr, r.mode, (r.retrans + 1) % RETRANS_MOD, r.dev,
         r.handle, r.pings, IF r.listed = 0 THEN 1 ELSE 2)
  BY <1>6, StartIs, Zenon DEF Is
<1>10. QED
  BY <1>1, <1>2, <1>4, <1>7, <1>8, <1>9, Zenon

\* The timer that led here has been taken off the list.
LEMMA SendPingInv ==
    ASSUME NEW r \in Port, r.enabled, r.pwr, r.mode = "PING", r.dev # NoDev, HandleInv(r),
           NEW s \in send_ping(r)
    PROVE  PortInv(s)
<1>1. OpenHandle(r) # NoDev
  BY DEF OpenHandle
<1>2. /\ s \in Port /\ s.enabled /\ s.pwr /\ s.mode = "PING" /\ s.dev # NoDev
      /\ s.pings > 0 => s.handle # NoDev
  BY <1>1, SendPingIs, FieldTypes DEF Is, HandleInv
<1>3. s.listed # 0 \/ s.pings > 0
  BY SendPingIs, FieldTypes DEF Is
<1>4. QED
  BY <1>2, <1>3 DEF PortInv

\* A timer expires.
LEMMA ExpireIs ==
    ASSUME NEW r \in Port, PortInv(r), NEW s \in expire(r)
    PROVE  \/ ~r.enabled /\ s = del_timeout(r)
           \/ r.enabled /\ r.mode = "PING" /\ s \in send_ping(del_timeout(r))
           \/ /\ r.enabled /\ r.mode # "PING"
              /\ \E o \in GpioRestart(del_timeout(r)) : s = o.port
<1>1. del_timeout(r).enabled = r.enabled /\ del_timeout(r).mode = r.mode /\ r.mode # "PROBE"
  BY DelIs DEF Is, PortInv
<1>2. QED
  BY <1>1, FieldTypes, Zenon DEF expire, gpio_handle_timeout

LEMMA ExpireInv ==
    ASSUME NEW r \in Port, PortInv(r), timeout_active(r), NEW s \in expire(r)
    PROVE  PortStep(r, s)
<1> DEFINE t == del_timeout(r)
<1>1. Is(t, r.enabled, r.pwr, r.mode, r.retrans, r.dev, r.handle, r.pings,
         IF r.listed = 2 THEN 2 ELSE 0)
  BY DelIs
<1>2. \/ ~r.enabled /\ s = t
      \/ r.enabled /\ r.mode = "PING" /\ s \in send_ping(t)
      \/ r.enabled /\ r.mode # "PING" /\ \E o \in GpioRestart(t) : s = o.port
  BY ExpireIs
<1> HIDE DEF t
<1>3. HandleInv(t)
  BY <1>1 DEF Is, PortInv, HandleInv
<1>4. CASE ~r.enabled /\ s = t
  BY <1>1, <1>4, FieldTypes DEF Is, PortInv, PortStep
<1>5. CASE r.enabled /\ r.mode = "PING" /\ s \in send_ping(t)
  <2>1. t \in Port /\ t.enabled /\ t.pwr /\ t.mode = "PING" /\ t.dev # NoDev
    BY <1>1, <1>5 DEF Is, PortInv, timeout_active
  <2>2. QED
    BY <1>3, <1>5, <2>1, SendPingInv DEF PortStep
<1>6. CASE r.enabled /\ r.mode # "PING" /\ \E o \in GpioRestart(t) : s = o.port
  <2>1. t \in Port /\ t.enabled
    BY <1>1, <1>6 DEF Is
  <2>2. QED
    BY <1>3, <1>6, <2>1, GpioRestartInv DEF PortStep
<1>7. QED
  BY <1>2, <1>4, <1>5, <1>6

\* A ping completes: the reply is ignored, the next ping is scheduled, or the
\* port is restarted, and a restart that fails is tried again.
LEMMA AtLimitIs ==
    ASSUME NEW r \in Port, r.pings > 0
    PROVE  Is(at_limit(r), r.enabled, r.pwr, r.mode, 0, r.dev, r.handle, r.pings - 1, r.listed)
<1>1. r.pings - 1 \in Few
  BY Members, FieldTypes DEF Few
<1>2. QED
  BY <1>1, Members, Zenon DEF Is, Port, at_limit

LEMMA RetryIs ==
    ASSUME NEW v \in Port
    PROVE  Is(start_timeout([v EXCEPT !.retrans = USB_RETRANS_LIMIT]), v.enabled, v.pwr, v.mode,
              USB_RETRANS_LIMIT, v.dev, v.handle, v.pings, IF v.listed = 0 THEN 1 ELSE 2)
<1> DEFINE w == [v EXCEPT !.retrans = USB_RETRANS_LIMIT]
<1>1. Is(w, v.enabled, v.pwr, v.mode, USB_RETRANS_LIMIT, v.dev, v.handle, v.pings, v.listed)
  BY Members, Zenon DEF Is, Port
<1> HIDE DEF w
<1>2. Is(start_timeout(w), v.enabled, v.pwr, v.mode, USB_RETRANS_LIMIT, v.dev, v.handle,
         v.pings, IF v.listed = 0 THEN 1 ELSE 2)
  BY <1>1, StartIs, Zenon DEF Is
<1>3. QED
  BY <1>2 DEF w

LEMMA PingCbIs ==
    ASSUME NEW r \in Port, r.pings > 0, NEW ok \in BOOLEAN, NEW s \in gpio_ping_cb(r, ok)
    PROVE  \/ /\ ~r.enabled \/ r.mode # "PING"
              /\ Is(s, r.enabled, r.pwr, r.mode, r.retrans, r.dev, r.handle, r.pings - 1, r.listed)
           \/ /\ r.enabled /\ r.mode = "PING"
              /\ \E n \in Failures :
                    Is(s, r.enabled, r.pwr, r.mode, n, r.dev, r.handle, r.pings - 1,
                       IF r.listed = 0 THEN 1 ELSE 2)
           \/ /\ r.enabled /\ r.mode = "PING" /\ ~ok /\ r.retrans = USB_RETRANS_LIMIT
              /\ \E o \in GpioRestart(at_limit(r)) :
                    s = IF o.ret = 0 THEN o.port
                        ELSE start_timeout([o.port EXCEPT !.retrans = USB_RETRANS_LIMIT])
<1> DEFINE t == [r EXCEPT !.pings = r.pings - 1]
           q == [t EXCEPT !.retrans = 0]
           f == count_failure(t)
<1>1. Is(t, r.enabled, r.pwr, r.mode, r.retrans, r.dev, r.handle, r.pings - 1, r.listed)
  <2>1. r.pings - 1 \in Few
    BY Members, FieldTypes DEF Few
  <2>2. QED
    BY <2>1, Zenon DEF Is, Port
<1>2. Is(q, r.enabled, r.pwr, r.mode, 0, r.dev, r.handle, r.pings - 1, r.listed)
  BY <1>1, Members, Zenon DEF Is, Port
<1>3. Is(f, r.enabled, r.pwr, r.mode, (r.retrans + 1) % RETRANS_MOD, r.dev, r.handle,
         r.pings - 1, r.listed)
  <2> HIDE DEF t
  <2>1. Is(f, t.enabled, t.pwr, t.mode, (t.retrans + 1) % RETRANS_MOD, t.dev, t.handle,
           t.pings, t.listed)
    BY <1>1, FailureIs, Zenon DEF Is
  <2>2. QED
    BY <1>1, <2>1, Zenon DEF Is
<1>4. CASE ~r.enabled \/ r.mode # "PING"
  <2>1. s = t
    BY <1>1, <1>4 DEF gpio_ping_cb, ping_cb, Is
  <2>2. QED
    BY <1>1, <1>4, <2>1
<1>5. CASE r.enabled /\ r.mode = "PING" /\ (ok \/ r.retrans # USB_RETRANS_LIMIT)
  <2>1. s = start_timeout(q) \/ s = start_timeout(f)
    BY <1>1, <1>5 DEF gpio_ping_cb, ping_cb, Is
  <2> HIDE DEF t, q, f
  <2>2. Is(start_timeout(q), r.enabled, r.pwr, r.mode, 0, r.dev, r.handle, r.pings - 1,
           IF r.listed = 0 THEN 1 ELSE 2)
    <3>1. Is(start_timeout(q), q.enabled, q.pwr, q.mode, q.retrans, q.dev, q.handle, q.pings,
             IF q.listed = 0 THEN 1 ELSE 2)
      BY <1>2, StartIs, Zenon DEF Is
    <3>2. QED
      BY <1>2, <3>1 DEF Is
  <2>3. Is(start_timeout(f), r.enabled, r.pwr, r.mode, (r.retrans + 1) % RETRANS_MOD, r.dev,
           r.handle, r.pings - 1, IF r.listed = 0 THEN 1 ELSE 2)
    BY <1>3, StartIs, Zenon DEF Is
  <2>4. 0 \in Failures /\ (r.retrans + 1) % RETRANS_MOD \in Failures
    BY Members, FieldTypes
  <2>5. QED
    BY <1>5, <2>1, <2>2, <2>3, <2>4, Zenon
<1>6. CASE r.enabled /\ r.mode = "PING" /\ ~ok /\ r.retrans = USB_RETRANS_LIMIT
  <2>1. \E o \in GpioRestart(at_limit(r)) :
            s = IF o.ret = 0 THEN o.port
                ELSE start_timeout([o.port EXCEPT !.retrans = USB_RETRANS_LIMIT])
    BY <1>1, <1>6 DEF gpio_ping_cb, ping_cb, Is
  <2>2. QED
    BY <1>6, <2>1
<1>7. QED
  BY <1>4, <1>5, <1>6

LEMMA PingCbInv ==
    ASSUME NEW r \in Port, PortInv(r), r.pings > 0, NEW ok \in BOOLEAN,
           NEW s \in gpio_ping_cb(r, ok)
    PROVE  PortStep(r, s)
<1>1. CASE /\ ~r.enabled \/ r.mode # "PING"
           /\ Is(s, r.enabled, r.pwr, r.mode, r.retrans, r.dev, r.handle, r.pings - 1, r.listed)
  BY <1>1, FieldTypes DEF Is, PortInv, PortStep
<1>2. ASSUME r.enabled, r.mode = "PING", NEW n \in Failures,
             Is(s, r.enabled, r.pwr, r.mode, n, r.dev, r.handle, r.pings - 1,
                IF r.listed = 0 THEN 1 ELSE 2)
      PROVE  PortStep(r, s)
  BY <1>2, FieldTypes DEF Is, PortInv, PortStep
<1>3. ASSUME r.enabled, NEW o \in GpioRestart(at_limit(r)),
             s = IF o.ret = 0 THEN o.port
                 ELSE start_timeout([o.port EXCEPT !.retrans = USB_RETRANS_LIMIT])
      PROVE  PortStep(r, s)
  <2>1. PortInv(o.port) /\ (o.ret # 0 => o.port.mode = "RESET")
    <3>1. at_limit(r) \in Port /\ at_limit(r).enabled /\ HandleInv(at_limit(r))
      BY <1>3, AtLimitIs, FieldTypes DEF Is, HandleInv, PortInv
    <3>2. QED
      BY <3>1, GpioRestartInv
  <2>2. ASSUME o.ret # 0 PROVE PortInv(s)
    <3> DEFINE v == o.port
    <3>1. PortInv(v) /\ v.mode = "RESET" /\ v \in Port
      BY <2>1, <2>2 DEF PortInv
    <3>2. Is(s, v.enabled, v.pwr, v.mode, USB_RETRANS_LIMIT, v.dev, v.handle,
             v.pings, IF v.listed = 0 THEN 1 ELSE 2)
      BY <1>3, <2>2, <3>1, RetryIs
    <3> HIDE DEF v
    <3>3. QED
      BY <3>1, <3>2, FieldTypes DEF Is, PortInv
  <2>3. QED
    BY <1>3, <2>1, <2>2 DEF PortStep
<1>4. QED
  BY <1>1, <1>2, <1>3, PingCbIs

\* The two-minute check or the signal comes by the port.
LEMMA ResetIfNeededInv ==
    ASSUME NEW r \in Port, PortInv(r), NEW forced \in BOOLEAN,
           NEW s \in gpio_reset_if_needed(r, forced)
    PROVE  PortStep(r, s)
<1>1. HandleInv(r) /\ PortStep(r, r)
  BY DEF PortInv, HandleInv, PortStep
<1>2. s = r \/ (r.enabled /\ \E o \in GpioRestart(r) : s = o.port)
  BY DEF gpio_reset_if_needed, reset_if_needed
<1>3. QED
  BY <1>1, <1>2, GpioRestartInv DEF PortStep
-----------------------------------------------------------------------------
(* The invariant is inductive.                                             *)

LEMMA InitInv == Init => IInv
<1> SUFFICES ASSUME Init PROVE IInv
  OBVIOUS
<1>1. configure_port \in Port
  BY Members DEF configure_port, Port
<1>2. PortInv(configure_port)
  BY <1>1 DEF configure_port, PortInv
<1>3. QED
  BY <1>1, <1>2, Members DEF Init, IInv

\* Every step keeps the invariant and takes each port through a PortStep.
LEMMA NextInv ==
    ASSUME IInv, [Next]_vars
    PROVE  IInv' /\ \A p \in Ports : PortStep(port[p], port'[p])
<1> USE DEF IInv
<1>1. \A p \in Ports : port[p] \in Port /\ PortInv(port[p]) /\ PortStep(port[p], port[p])
  BY DEF PortStep, PortInv
<1>2. ASSUME plug' = plug, evq' \in [Ports -> Seq(Event)],
             NEW p \in Ports, NEW s, PortStep(port[p], s), port' = [port EXCEPT ![p] = s]
      PROVE  IInv' /\ \A q \in Ports : PortStep(port[q], port'[q])
  BY <1>1, <1>2 DEF PortStep, PortInv
<1>3. ASSUME plug' = plug, evq' = evq, port' = [p \in Ports |-> port'[p]],
             \A p \in Ports : PortStep(port[p], port'[p])
      PROVE  IInv'
  BY <1>3 DEF PortStep, PortInv
<1>4. ASSUME NEW p \in Ports, Connect(p)
      PROVE  IInv' /\ \A q \in Ports : PortStep(port[q], port'[q])
  <2>1. PICK d \in Devs : /\ plug' = [plug EXCEPT ![p] = d]
                          /\ evq' = [evq EXCEPT ![p] = Append(@, [what |-> "ARRIVED", dev |-> d])]
    BY <1>4 DEF Connect, Arrive
  <2>2. [what |-> "ARRIVED", dev |-> d] \in Event
    BY DEF Event
  <2>3. evq' \in [Ports -> Seq(Event)]
    BY <2>1, <2>2
  <2>4. plug' \in [Ports -> DevOrNone]
    BY <2>1, Members
  <2>5. QED
    BY <1>1, <1>4, <2>3, <2>4 DEF Connect, Arrive
<1>5. ASSUME NEW p \in Ports, Disconnect(p)
      PROVE  IInv' /\ \A q \in Ports : PortStep(port[q], port'[q])
  <2>1. [what |-> "LEFT", dev |-> plug[p]] \in Event
    BY <1>5 DEF Disconnect, Leave, Event, DevOrNone
  <2>2. evq' \in [Ports -> Seq(Event)]
    BY <1>5, <2>1 DEF Disconnect, Leave
  <2>3. plug' \in [Ports -> DevOrNone]
    BY <1>5, Members DEF Disconnect, Leave
  <2>4. QED
    BY <1>1, <1>5, <2>2, <2>3 DEF Disconnect, Leave
<1>6. ASSUME NEW p \in Ports, DispatchHotplug(p)
      PROVE  IInv' /\ \A q \in Ports : PortStep(port[q], port'[q])
  <2> DEFINE e == Head(evq[p])
  <2>1. e \in Event /\ evq' \in [Ports -> Seq(Event)] /\ plug' = plug
    BY <1>6 DEF DispatchHotplug
  <2>2. e.dev \in Devs
    BY <2>1 DEF Event
  <2>3. port[p].listed # 2
    BY <1>6 DEF DispatchHotplug, Hung
  <2>4. PICK s \in IF e.what = "ARRIVED" THEN gpio_device_added(port[p], e.dev)
                   ELSE {reset_port(port[p])} : port' = [port EXCEPT ![p] = s]
    BY <1>6 DEF DispatchHotplug
  <2> HIDE DEF e
  <2>5. PortStep(port[p], s)
    BY <1>1, <2>2, <2>3, <2>4, DeviceAddedInv, ResetPortInv
  <2>6. QED
    BY <1>2, <2>1, <2>4, <2>5
<1>7. ASSUME CheckDevices
      PROVE  IInv' /\ \A q \in Ports : PortStep(port[q], port'[q])
  <2>1. /\ plug' = plug /\ evq' = evq /\ port' = [p \in Ports |-> port'[p]]
        /\ \A p \in Ports :
            port'[p] \in IF plug[p] = NoDev THEN {port[p]}
                         ELSE gpio_device_added(port[p], plug[p])
    BY <1>7 DEF CheckDevices, ForEach, libusb
  <2>2. ASSUME NEW p \in Ports PROVE PortStep(port[p], port'[p])
    <3>1. CASE plug[p] = NoDev
      BY <1>1, <2>1, <3>1
    <3>2. CASE plug[p] # NoDev
      <4>1. plug[p] \in Devs
        BY <3>2 DEF DevOrNone
      <4>2. QED
        BY <1>1, <2>1, <3>2, <4>1, DeviceAddedInv
    <3>3. QED
      BY <3>1, <3>2
  <2>3. QED
    BY <1>3, <2>1, <2>2
<1>8. ASSUME NEW p \in Ports, NEW ok \in BOOLEAN, PingDone(p, ok)
      PROVE  IInv' /\ \A q \in Ports : PortStep(port[q], port'[q])
  <2>1. PICK s \in gpio_ping_cb(port[p], ok) : port' = [port EXCEPT ![p] = s]
    BY <1>8 DEF PingDone
  <2>2. PortStep(port[p], s)
    BY <1>1, <1>8, <2>1, PingCbInv DEF PingDone
  <2>3. QED
    BY <1>2, <1>8, <2>1, <2>2 DEF PingDone, libusb
<1>9. ASSUME NEW S \in SUBSET Ports, CheckTimeouts(S)
      PROVE  IInv' /\ \A q \in Ports : PortStep(port[q], port'[q])
  <2>1. /\ plug' = plug /\ evq' = evq /\ port' = [p \in Ports |-> port'[p]]
        /\ \A p \in Ports : port'[p] \in IF p \in S THEN expire(port[p]) ELSE {port[p]}
        /\ \A p \in S : timeout_active(port[p])
    BY <1>9 DEF CheckTimeouts, ForEach, libusb
  <2>2. ASSUME NEW p \in Ports PROVE PortStep(port[p], port'[p])
    BY <1>1, <2>1, ExpireInv
  <2>3. QED
    BY <1>3, <2>1, <2>2
<1>10. ASSUME NEW forced \in BOOLEAN, ResetAllPorts(forced)
       PROVE  IInv' /\ \A q \in Ports : PortStep(port[q], port'[q])
  <2>1. /\ plug' = plug /\ evq' = evq /\ port' = [p \in Ports |-> port'[p]]
        /\ \A p \in Ports : port'[p] \in gpio_reset_if_needed(port[p], forced)
    BY <1>10 DEF ResetAllPorts, ForEach, libusb
  <2>2. ASSUME NEW p \in Ports PROVE PortStep(port[p], port'[p])
    BY <1>1, <2>1, ResetIfNeededInv
  <2>3. QED
    BY <1>3, <2>1, <2>2
<1>11. ASSUME NEW p \in Ports, NEW cmd \in UserCmds, ClientCommand(p, cmd)
       PROVE  IInv' /\ \A q \in Ports : PortStep(port[q], port'[q])
  <2>1. PICK o \in gpio_update_port(port[p], cmd) : port' = [port EXCEPT ![p] = o.port]
    BY <1>11 DEF ClientCommand
  <2>2. PortStep(port[p], o.port)
    BY <1>1, <2>1, GpioUpdateInv, MonitorAssumption
  <2>3. QED
    BY <1>2, <1>11, <2>1, <2>2 DEF ClientCommand, libusb
<1>12. CASE UNCHANGED vars
  BY <1>1, <1>12 DEF vars
<1> HIDE DEF IInv
<1>13. QED
  BY <1>4, <1>5, <1>6, <1>7, <1>8, <1>9, <1>10, <1>11, <1>12
     DEF Next, CheckReset, SignalHandler
-----------------------------------------------------------------------------
(* The theorems.                                                           *)

\* What the functions of the code may assume of a port holds of every port in every
\* reachable state.
THEOREM Invariance == Safe => []IInv
<1>1. IInv /\ [Next]_vars => IInv'
  BY NextInv
<1>2. QED
  BY InitInv, <1>1, PTL DEF Safe

\* The variables of GpioMonitor always have their types, for any number of
\* ports and any limits.
THEOREM TypeCorrect == Safe => []TypeOK
<1>1. IInv => TypeOK
  BY DEF IInv, TypeOK
<1>2. QED
  BY Invariance, <1>1, PTL

\* An enabled port that is switched off always has the timer running that
\* switches it on again: no order of callbacks loses it.
THEOREM PowerBackAlways == Safe => []PowerBack
<1>1. IInv => PowerBack
  BY DEF IInv, PowerBack, PortInv, timeout_active
<1>2. QED
  BY Invariance, <1>1, PTL

\* A port in RESET always has a timer.
THEOREM ResetHasTimerAlways == Safe => []ResetHasTimer
<1>1. IInv => ResetHasTimer
  BY DEF IInv, ResetHasTimer, PortInv, timeout_active
<1>2. QED
  BY Invariance, <1>1, PTL

\* usb_helpers_send_ping is never reached without a device.
THEOREM PingHasDeviceAlways == Safe => []PingHasDevice
<1>1. IInv => PingHasDevice
  BY DEF IInv, PingHasDevice, PortInv, timeout_active, Connected
<1>2. QED
  BY Invariance, <1>1, PTL

\* No failure of a system call or of libusb ends the monitoring of a device.
THEOREM MonitoredAlways == Safe => []Monitored
<1>1. IInv => Monitored
  BY DEF IInv, Monitored, PortInv, timeout_active, Connected
<1>2. QED
  BY Invariance, <1>1, PTL

\* The GPIO handler refines the safety part of PowerCycle.
THEOREM RefinesPowerCycle == Safe => PowerMoves
<1>1. Init => PC!Init
  BY DEF Init, PC!Init, Power, configure_port
<1>2. ASSUME IInv, [Next]_vars
      PROVE  [PC!Next]_Power
  <2>1. IInv' /\ \A p \in Ports : PortStep(port[p], port'[p])
    BY <1>2, NextInv
  <2>2. \A p \in Ports : Power[p] \in PC!States /\ Power'[p] \in PC!States
    BY <1>2, <2>1, FieldTypes DEF IInv, PortInv, Power, PC!States
  <2>3. \A p \in Ports : Power'[p] = Power[p] \/ <<Power[p], Power'[p]>> \in PC!Moves
    BY <1>2, <2>1, FieldTypes DEF IInv, PortInv, PortStep, Power, PC!Moves
  <2>4. Power' \in [Ports -> PC!States]
    BY <2>2 DEF Power
  <2>5. QED
    BY <2>3, <2>4 DEF PC!Next
<1>3. QED
  BY Invariance, <1>1, <1>2, PTL DEF PowerMoves, Safe
=============================================================================
