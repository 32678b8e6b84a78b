------------------------- MODULE YkushMonitorProofs -------------------------
(***************************************************************************)
(* Safety of YkushMonitor for every set of ports and devices, and every    *)
(* number of transfers in flight.  As for GpioMonitor the invariant is a   *)
(* predicate on one port; what is new is the queue of its transfers, whose *)
(* callbacks run long after the commands that submitted them.              *)
(***************************************************************************)
EXTENDS YkushMonitor, UsbMonitorProofs

\* The transfers of x whose callback is ykush_reset_cb.
ResetsIn(x) == {i \in DOMAIN x : x[i].cb = "reset"}

\* A client's command is sent only if the port's state calls for it
\* (usb_monitor_client_update_ports), which bounds how they can be mixed in the
\* queue of an enabled port and of a disabled one.
MayFollow(e, f, enabled) ==
    IF enabled THEN ~(e.cb = "disable" /\ f.cb = "enable")
    ELSE e.cb = "enable" => f.cb = "enable"

InOrder(x, enabled) == \A i, j \in DOMAIN x : i < j => MayFollow(x[i], x[j], enabled)

\* The queue fits the port: one reset at most, none together with a timer, and
\* with one an enabled port is in RESET; a port in RESET waits for something.
QueueInv(x, enabled, mode, listed) ==
    /\ \A i, j \in ResetsIn(x) : i = j
    /\ ResetsIn(x) # {} => listed # 1 /\ (enabled => mode = "RESET")
    /\ mode = "RESET" => enabled /\ (listed # 0 \/ ResetsIn(x) # {})
    /\ InOrder(x, enabled)

\* The other fields, as for a GPIO port.
FieldInv(r) ==
    /\ r \in YkushPort
    /\ r.mode # "PROBE"
    /\ ~r.enabled => ~r.pwr
    /\ r.mode = "PING" => r.enabled
    /\ r.mode = "PING" /\ r.listed # 0 => r.dev # NoDev
    /\ r.pings > 0 => r.handle # NoDev
    /\ r.handle # NoDev => r.dev # NoDev

PortInv(r) == FieldInv(r) /\ QueueInv(r.xfers, r.enabled, r.mode, r.listed)

PortStep(r, s) == PortInv(s) /\ (~r.enabled => ~s.enabled \/ s.pwr)

\* Nothing points to the port any more.
Gone(r) == r.listed = 0 /\ r.pings = 0 /\ r.xfers = <<>>

IInv ==
    /\ TypeOK
    /\ \A p \in Ports : PortInv(port[p])
    /\ ~hub => \A p \in Ports : Gone(port[p])
-----------------------------------------------------------------------------
(* Queues of transfers.                                                    *)

LEMMA SubmitQueue ==
    ASSUME NEW x \in Seq(Xfer), NEW e \in Xfer
    PROVE  /\ Append(x, e) \in Seq(Xfer)
           /\ ResetsIn(Append(x, e)) =
                ResetsIn(x) \cup (IF e.cb = "reset" THEN {Len(x) + 1} ELSE {})
           /\ InOrder(x, TRUE) /\ e.cb # "enable" => InOrder(Append(x, e), TRUE)
           /\ InOrder(x, FALSE) /\ e.cb = "enable" => InOrder(Append(x, e), FALSE)
<1> DEFINE y == Append(x, e)
<1>1. /\ y \in Seq(Xfer) /\ Len(y) = Len(x) + 1 /\ y[Len(x) + 1] = e
      /\ \A i \in 1 .. Len(x) : y[i] = x[i]
      /\ Len(x) \in Nat /\ DOMAIN x = 1 .. Len(x) /\ DOMAIN y = 1 .. Len(y)
  BY AppendProperties, LenProperties
<1> HIDE DEF y
<1>2. ResetsIn(y) = ResetsIn(x) \cup (IF e.cb = "reset" THEN {Len(x) + 1} ELSE {})
  BY <1>1 DEF ResetsIn
<1>3. InOrder(x, TRUE) /\ e.cb # "enable" => InOrder(y, TRUE)
  BY <1>1 DEF InOrder, MayFollow
<1>4. InOrder(x, FALSE) /\ e.cb = "enable" => InOrder(y, FALSE)
  BY <1>1 DEF InOrder, MayFollow
<1>5. QED
  BY <1>1, <1>2, <1>3, <1>4 DEF y

LEMMA CompleteQueue ==
    ASSUME NEW x \in Seq(Xfer), x # <<>>, NEW enabled \in BOOLEAN, InOrder(x, enabled),
           \A i, j \in ResetsIn(x) : i = j
    PROVE  /\ Head(x) \in Xfer /\ Tail(x) \in Seq(Xfer)
           /\ \A i, j \in ResetsIn(Tail(x)) : i = j
           /\ Head(x).cb = "reset" => ResetsIn(x) # {} /\ ResetsIn(Tail(x)) = {}
           /\ Head(x).cb # "reset" => (ResetsIn(Tail(x)) # {} <=> ResetsIn(x) # {})
           /\ InOrder(Tail(x), enabled)
           /\ Head(x).cb = "disable" => InOrder(Tail(x), FALSE)
           /\ Head(x).cb = "enable" => InOrder(Tail(x), TRUE)
           /\ Head(x).cb = "enable" /\ ~enabled => ResetsIn(Tail(x)) = {}
<1> DEFINE y == Tail(x)
<1>1. Len(x) \in Nat /\ Len(x) > 0 /\ DOMAIN x = 1 .. Len(x)
  BY EmptySeq, LenProperties
<1>2. y \in Seq(Xfer) /\ Len(y) = Len(x) - 1 /\ \A i \in 1 .. Len(y) : y[i] = x[i + 1]
  BY HeadTailProperties
<1>3. DOMAIN y = 1 .. Len(y)
  BY <1>2, LenProperties
<1>4. Head(x) \in Xfer
  BY HeadTailProperties
<1>5. Head(x) = x[1]
  OBVIOUS
<1> HIDE DEF y
<1>6. \A i \in 1 .. Len(x) : x[i] \in Xfer
  BY ElementOfSeq
<1>7. \A i \in ResetsIn(y) : i \in Nat /\ i > 0 /\ i + 1 \in ResetsIn(x)
  BY <1>1, <1>2, <1>3 DEF ResetsIn
<1>8. \A i \in ResetsIn(x) : i = 1 \/ i - 1 \in ResetsIn(y)
  BY <1>1, <1>2, <1>3 DEF ResetsIn
<1>9. \A i, j \in ResetsIn(y) : i = j
  BY <1>7
<1>10. x[1].cb = "reset" => 1 \in ResetsIn(x)
  BY <1>1 DEF ResetsIn
<1>11. x[1].cb = "reset" => ResetsIn(x) # {} /\ ResetsIn(y) = {}
  BY <1>7, <1>10
<1>12. x[1].cb # "reset" => (ResetsIn(y) # {} <=> ResetsIn(x) # {})
  BY <1>7, <1>8 DEF ResetsIn
<1>13. \A i, j \in DOMAIN y :
            /\ i + 1 \in DOMAIN x /\ j + 1 \in DOMAIN x /\ 1 < i + 1
            /\ y[i] = x[i + 1] /\ y[j] = x[j + 1]
            /\ i < j => i + 1 < j + 1
  BY <1>1, <1>2, <1>3
<1>14. InOrder(y, enabled)
  BY <1>13 DEF InOrder
<1>15. 1 \in DOMAIN x /\ \A i \in DOMAIN y : MayFollow(x[1], y[i], enabled)
  BY <1>1, <1>13 DEF InOrder
<1>16. x[1].cb = "disable" => InOrder(y, FALSE)
  <2>1. CASE enabled
    BY <1>15, <2>1 DEF InOrder, MayFollow
  <2>2. CASE ~enabled
    BY <1>14, <2>2
  <2>3. QED
    BY <2>1, <2>2
<1>17. x[1].cb = "enable" => InOrder(y, TRUE) /\ (~enabled => ResetsIn(y) = {})
  <2>1. CASE ~enabled
    BY <1>15, <2>1 DEF InOrder, ResetsIn, MayFollow
  <2>2. CASE enabled
    BY <1>14, <2>2
  <2>3. QED
    BY <2>1, <2>2
<1>18. QED
  BY <1>2, <1>4, <1>5, <1>9, <1>11, <1>12, <1>14, <1>16, <1>17 DEF y

\* The hub acts on a transfer.
LEMMA ApplyQueue ==
    ASSUME NEW x \in Seq(Xfer), NEW i \in DOMAIN x
    PROVE  LET y == [x EXCEPT ![i].applied = TRUE]
           IN  /\ y \in Seq(Xfer) /\ DOMAIN y = DOMAIN x
               /\ y[i] = [x[i] EXCEPT !.applied = TRUE]
               /\ \A j \in DOMAIN x : y[j].cb = x[j].cb
               /\ ResetsIn(y) = ResetsIn(x)
               /\ \A enabled \in BOOLEAN : InOrder(y, enabled) <=> InOrder(x, enabled)
<1> DEFINE e == [x[i] EXCEPT !.applied = TRUE]
           y == [x EXCEPT ![i] = e]
<1>1. x[i] \in Xfer /\ DOMAIN x = 1 .. Len(x) /\ Len(x) \in Nat /\ \A j \in DOMAIN x : x[j] \in Xfer
  BY ElementOfSeq, LenProperties
<1>2. e \in Xfer /\ e.cb = x[i].cb
  BY <1>1 DEF Xfer
<1> HIDE DEF e
<1>3. y \in Seq(Xfer) /\ DOMAIN y = DOMAIN x /\ y[i] = e
  BY <1>1, <1>2, ExceptSeq
<1>4. \A j \in DOMAIN x : y[j].cb = x[j].cb
  BY <1>2, <1>3
<1> HIDE DEF y
<1>5. ResetsIn(y) = ResetsIn(x)
  BY <1>3, <1>4 DEF ResetsIn
<1>6. \A enabled \in BOOLEAN : InOrder(y, enabled) <=> InOrder(x, enabled)
  BY <1>3, <1>4 DEF InOrder, MayFollow
<1>7. QED
  BY <1>3, <1>4, <1>5, <1>6 DEF y, e
-----------------------------------------------------------------------------
(* What each function leaves in each field.                                *)

Is(s, enabled, pwr, mode, retrans, dev, handle, pings, listed, xfers) ==
    /\ s \in YkushPort
    /\ s.enabled = enabled /\ s.pwr = pwr /\ s.mode = mode /\ s.retrans = retrans
    /\ s.dev = dev /\ s.handle = handle /\ s.pings = pings /\ s.listed = listed
    /\ s.xfers = xfers

LEMMA Members ==
    /\ NoDev \in DevOrNone /\ Devs \subseteq DevOrNone /\ NoDev \notin Devs
    /\ 0 \in Failures /\ USB_RETRANS_LIMIT \in Failures
    /\ \A n \in Failures : (n + 1) % RETRANS_MOD \in Failures
    /\ 0 \in Few /\ 1 \in Few /\ 2 \in Few
    /\ {"IDLE", "PING", "RESET"} \subseteq Modes
BY DevsAssumption, RetransAssumption DEF DevOrNone, Failures, Few, Modes

LEMMA FieldTypes ==
    ASSUME NEW r \in YkushPort
    PROVE  /\ r.enabled \in BOOLEAN /\ r.pwr \in BOOLEAN /\ r.mode \in Modes
           /\ r.retrans \in Failures /\ r.dev \in DevOrNone /\ r.handle \in DevOrNone
           /\ r.pings \in 0 .. 2 /\ r.listed \in 0 .. 2 /\ r.xfers \in Seq(Xfer)
BY DEF YkushPort, Few

LEMMA StartIs ==
    ASSUME NEW r \in YkushPort
    PROVE  Is(start_timeout(r), r.enabled, r.pwr, r.mode, r.retrans, r.dev, r.handle,
              r.pings, IF r.listed = 0 THEN 1 ELSE 2, r.xfers)
BY Members, Zenon DEF start_timeout, Is, YkushPort

LEMMA DelIs ==
    ASSUME NEW r \in YkushPort
    PROVE  Is(del_timeout(r), r.enabled, r.pwr, r.mode, r.retrans, r.dev, r.handle,
              r.pings, IF r.listed = 2 THEN 2 ELSE 0, r.xfers)
BY Members, Zenon DEF del_timeout, Is, YkushPort

LEMMA FailureIs ==
    ASSUME NEW r \in YkushPort
    PROVE  Is(count_failure(r), r.enabled, r.pwr, r.mode, (r.retrans + 1) % RETRANS_MOD,
              r.dev, r.handle, r.pings, r.listed, r.xfers)
BY Members, Zenon DEF count_failure, Is, YkushPort

\* The transfer that asks for the power on.
NewXfer(cb, on) == [cb |-> cb, on |-> on, applied |-> FALSE]

LEMMA SubmittedIs ==
    ASSUME NEW r \in YkushPort, NEW cb \in {"reset", "enable", "disable"}, NEW on \in BOOLEAN
    PROVE  /\ NewXfer(cb, on) \in Xfer /\ NewXfer(cb, on).cb = cb
           /\ Is(submitted(r, cb, on), r.enabled, r.pwr, r.mode, r.retrans, r.dev, r.handle,
                 r.pings, r.listed, Append(r.xfers, NewXfer(cb, on)))
<1>1. NewXfer(cb, on) \in Xfer /\ NewXfer(cb, on).cb = cb
  BY DEF NewXfer, Xfer
<1>2. Append(r.xfers, NewXfer(cb, on)) \in Seq(Xfer)
  BY <1>1, FieldTypes
<1>3. submitted(r, cb, on) = [r EXCEPT !.xfers = Append(r.xfers, NewXfer(cb, on))]
  BY Zenon DEF submitted, NewXfer
<1>4. QED
  BY <1>1, <1>2, <1>3, Zenon DEF Is, YkushPort

\* CMD_RESTART on an enabled port: a transfer is in flight, or the timer is
\* running that will try again.
LEMMA RestartIs ==
    ASSUME NEW r \in YkushPort, r.enabled, NEW o \in YkushRestart(r)
    PROVE  /\ o.ret = 0
           /\ \/ Is(o.port, TRUE, r.pwr, "RESET", r.retrans, r.dev, r.handle, r.pings,
                    IF r.listed = 2 THEN 2 ELSE 0, Append(r.xfers, NewXfer("reset", ~r.pwr)))
              \/ Is(o.port, TRUE, r.pwr, "RESET", r.retrans, r.dev, r.handle, r.pings,
                    IF r.listed = 2 THEN 2 ELSE 1, r.xfers)
<1> DEFINE m == [r EXCEPT !.mode = "RESET"]
           s == del_timeout(m)
<1>0. r.enabled = TRUE /\ (~r.pwr) \in BOOLEAN
  BY FieldTypes
<1>1. PICK sent \in BOOLEAN : o = ykush_restart(r, sent)
  BY DEF YkushRestart, ykush_update_port, perform_transfer
<1>2. Is(m, TRUE, r.pwr, "RESET", r.retrans, r.dev, r.handle, r.pings, r.listed, r.xfers)
  BY <1>0, Members, Zenon DEF Is, YkushPort
<1>3. Is(s, TRUE, r.pwr, "RESET", r.retrans, r.dev, r.handle, r.pings,
         IF r.listed = 2 THEN 2 ELSE 0, r.xfers)
  <2> HIDE DEF m
  <2>1. Is(s, m.enabled, m.pwr, m.mode, m.retrans, m.dev, m.handle, m.pings,
           IF m.listed = 2 THEN 2 ELSE 0, m.xfers)
    BY <1>2, DelIs, Zenon DEF Is
  <2>2. QED
    BY <1>2, <2>1, Zenon DEF Is
<1>4. /\ o.ret = 0
      /\ o.port = IF sent THEN submitted(s, "reset", ~r.pwr) ELSE start_timeout(s)
  BY <1>1 DEF ykush_restart
<1> HIDE DEF s
<1>5. (IF s.listed = 0 THEN 1 ELSE 2) = (IF r.listed = 2 THEN 2 ELSE 1)
  BY <1>3 DEF Is
<1>6. Is(start_timeout(s), TRUE, r.pwr, "RESET", r.retrans, r.dev, r.handle, r.pings,
         IF r.listed = 2 THEN 2 ELSE 1, r.xfers)
  BY <1>3, <1>5, StartIs, Zenon DEF Is
<1>7. Is(submitted(s, "reset", ~r.pwr), TRUE, r.pwr, "RESET", r.retrans, r.dev, r.handle, r.pings,
         IF r.listed = 2 THEN 2 ELSE 0, Append(r.xfers, NewXfer("reset", ~r.pwr)))
  <2> DEFINE on == ~r.pwr
  <2>1. s \in YkushPort /\ on \in BOOLEAN
    BY <1>0, <1>3, Zenon DEF Is
  <2> HIDE DEF on
  <2>2. Is(submitted(s, "reset", on), s.enabled, s.pwr, s.mode, s.retrans, s.dev, s.handle,
           s.pings, s.listed, Append(s.xfers, NewXfer("reset", on)))
    BY <2>1, SubmittedIs
  <2>3. Is(submitted(s, "reset", on), TRUE, r.pwr, "RESET", r.retrans, r.dev, r.handle, r.pings,
           IF r.listed = 2 THEN 2 ELSE 0, Append(r.xfers, NewXfer("reset", on)))
    BY <1>3, <2>2, Zenon DEF Is
  <2>4. QED
    BY <2>3 DEF on
<1>8. QED
  BY <1>4, <1>6, <1>7

LEMMA RestartDisabled ==
    ASSUME NEW r \in YkushPort, ~r.enabled, NEW o \in YkushRestart(r)
    PROVE  o.port = r
<1>1. \A sent \in BOOLEAN : ykush_restart(r, sent).port = r
  BY DEF ykush_restart
<1>2. QED
  BY <1>1 DEF YkushRestart, ykush_update_port, perform_transfer

LEMMA ResetPortIs ==
    ASSUME NEW r \in YkushPort, r.mode # "PROBE", r.listed # 2,
           r.pings > 0 => r.handle # NoDev, r.handle # NoDev => r.dev # NoDev
    PROVE  Is(reset_port(r), r.enabled, r.pwr, r.mode, 0, NoDev, NoDev, 0,
              IF r.mode = "RESET" THEN r.listed ELSE 0, r.xfers)
<1> DEFINE s == IF r.mode \notin {"RESET", "PROBE"} /\ timeout_active(r)
                THEN del_timeout(r) ELSE r
           n == IF Connected(r) /\ r.handle # NoDev THEN 0 ELSE s.pings
           t == [s EXCEPT !.dev = NoDev, !.handle = NoDev, !.retrans = 0, !.pings = n]
<1>1. /\ s \in YkushPort /\ s.enabled = r.enabled /\ s.pwr = r.pwr /\ s.mode = r.mode
      /\ s.pings = r.pings /\ s.xfers = r.xfers
      /\ s.listed = IF r.mode = "RESET" THEN r.listed ELSE 0
  BY DelIs, FieldTypes DEF Is, timeout_active
<1>2. n = 0
  BY <1>1, FieldTypes DEF Connected
<1> HIDE DEF s, n
<1>3. Is(t, s.enabled, s.pwr, s.mode, 0, NoDev, NoDev, n, s.listed, s.xfers)
  BY <1>1, <1>2, Members, Zenon DEF Is, YkushPort
<1>4. reset_port(r) = t
  BY Zenon DEF reset_port, s, n
<1> HIDE DEF t
<1>5. QED
  BY <1>1, <1>2, <1>3, <1>4, Zenon DEF Is

LEMMA AttachedIs ==
    ASSUME NEW r \in YkushPort, NEW d \in Devs
    PROVE  Is(attached(r, d), r.enabled, r.pwr, "PING", r.retrans, d, r.handle, r.pings,
              IF r.listed = 0 THEN 1 ELSE 2, r.xfers)
<1> DEFINE u == [r EXCEPT !.dev = d, !.mode = "PING"]
<1>1. Is(u, r.enabled, r.pwr, "PING", r.retrans, d, r.handle, r.pings, r.listed, r.xfers)
  BY Members, Zenon DEF Is, YkushPort
<1>2. QED
  BY <1>1, StartIs, Zenon DEF Is, attached

OpenHandle(r) == IF r.handle = NoDev THEN r.dev ELSE r.handle

LEMMA SendPingIs ==
    ASSUME NEW r \in YkushPort, NEW s \in send_ping(r)
    PROVE  \/ Is(s, r.enabled, r.pwr, r.mode, r.retrans, r.dev, OpenHandle(r),
                 IF r.pings = 0 THEN 1 ELSE 2, r.listed, r.xfers)
           \/ Is(s, r.enabled, r.pwr, r.mode, (r.retrans + 1) % RETRANS_MOD, r.dev, r.handle,
                 r.pings, IF r.listed = 0 THEN 1 ELSE 2, r.xfers)
           \/ Is(s, r.enabled, r.pwr, r.mode, r.retrans, r.dev, OpenHandle(r),
                 r.pings, IF r.listed = 0 THEN 1 ELSE 2, r.xfers)
           \/ Is(s, r.enabled, r.pwr, r.mode, r.retrans, r.dev, NoDev,
                 0, IF r.listed = 0 THEN 1 ELSE 2, r.xfers)
<1> DEFINE h == IF r.handle = NoDev THEN r.dev ELSE r.handle
           open == [r EXCEPT !.handle = h]
           sent == [open EXCEPT !.pings = IF open.pings = 0 THEN 1 ELSE 2]
           closed == [open EXCEPT !.handle = NoDev, !.pings = 0]
           failed == count_failure(r)
<1>1. s \in {sent, start_timeout(failed), start_timeout(open), start_timeout(closed)}
  BY DEF send_ping
<1>2. h \in DevOrNone /\ h = OpenHandle(r)
  BY FieldTypes DEF OpenHandle
<1> HIDE DEF h
<1>3. Is(open, r.enabled, r.pwr, r.mode, r.retrans, r.dev, h, r.pings, r.listed, r.xfers)
  BY <1>2, Zenon DEF Is, YkushPort
<1>4. Is(sent, r.enabled, r.pwr, r.mode, r.retrans, r.dev, h,
         IF r.pings = 0 THEN 1 ELSE 2, r.listed, r.xfers)
  BY <1>3, Members, Zenon DEF Is, YkushPort
<1>5. Is(closed, r.enabled, r.pwr, r.mode, r.retrans, r.dev, NoDev, 0, r.listed, r.xfers)
  BY <1>3, Members, Zenon DEF Is, YkushPort
<1>6. Is(failed, r.enabled, r.pwr, r.mode, (r.retrans + 1) % RETRANS_MOD, r.dev, r.handle,
         r.pings, r.listed, r.xfers)
  BY FailureIs
<1> HIDE DEF open, sent, closed, failed
<1>7. Is(start_timeout(open), r.enabled, r.pwr, r.mode, r.retrans, r.dev, h, r.pings,
         IF r.listed = 0 THEN 1 ELSE 2, r.xfers)
  BY <1>3, StartIs, Zenon DEF Is
<1>8. Is(start_timeout(closed), r.enabled, r.pwr, r.mode, r.retrans, r.dev, NoDev, 0,
         IF r.listed = 0 THEN 1 ELSE 2, r.xfers)
  <2>1. Is(start_timeout(closed), closed.enabled, closed.pwr, closed.mode, closed.retrans,
           closed.dev, closed.handle, closed.pings, IF closed.listed = 0 THEN 1 ELSE 2,
           closed.xfers)
    BY <1>5, StartIs, Zenon DEF Is
  <2>2. QED
    BY <1>5, <2>1 DEF Is
<1>9. Is(start_timeout(failed), r.enabled, r.pwr, r.mode, (r.retrans + 1) % RETRANS_MOD, r.dev,
         r.handle, r.pings, IF r.listed = 0 THEN 1 ELSE 2, r.xfers)
  BY <1>6, StartIs, Zenon DEF Is
<1>10. QED
  BY <1>1, <1>2, <1>4, <1>7, <1>8, <1>9, Zenon
-----------------------------------------------------------------------------
(* One lemma for each function that changes a port.                        *)

LEMMA RestartInv ==
    ASSUME NEW r \in YkushPort, r.enabled,
           r.pings > 0 => r.handle # NoDev, r.handle # NoDev => r.dev # NoDev,
           ResetsIn(r.xfers) = {}, InOrder(r.xfers, TRUE),
           NEW o \in YkushRestart(r)
    PROVE  PortInv(o.port) /\ o.port.enabled
<1> DEFINE x == Append(r.xfers, NewXfer("reset", ~r.pwr))
<1>1. ResetsIn(x) = {Len(r.xfers) + 1} /\ InOrder(x, TRUE)
  <2>1. (~r.pwr) \in BOOLEAN /\ r.xfers \in Seq(Xfer)
    BY FieldTypes
  <2>2. NewXfer("reset", ~r.pwr) \in Xfer /\ NewXfer("reset", ~r.pwr).cb = "reset"
    BY <2>1, SubmittedIs
  <2>3. QED
    BY <2>1, <2>2, SubmitQueue
<1> HIDE DEF x
<1>2. o.port \in YkushPort /\ o.port.enabled = TRUE /\ o.port.mode = "RESET" /\ FieldInv(o.port)
  BY RestartIs DEF Is, FieldInv
<1>3. QueueInv(o.port.xfers, TRUE, "RESET", o.port.listed)
  <2>1. ASSUME NEW n \in {0, 2} PROVE QueueInv(x, TRUE, "RESET", n)
    <3>1. n # 1 /\ \A i, j \in ResetsIn(x) : i = j
      BY <1>1
    <3>2. QED
      BY <1>1, <3>1, Zenon DEF QueueInv
  <2>2. ASSUME NEW n \in {1, 2} PROVE QueueInv(r.xfers, TRUE, "RESET", n)
    <3>1. n # 0
      OBVIOUS
    <3>2. QED
      BY <3>1, Zenon DEF QueueInv
  <2>3. \/ o.port.xfers = x /\ o.port.listed \in {0, 2}
        \/ o.port.xfers = r.xfers /\ o.port.listed \in {1, 2}
    BY RestartIs, Zenon DEF Is, x
  <2>4. QED
    BY <2>1, <2>2, <2>3
<1>4. QED
  BY <1>2, <1>3 DEF PortInv

LEMMA DeviceAddedIs ==
    ASSUME NEW r \in YkushPort, PortInv(r), NEW d \in Devs, NEW s \in ykush_device_added(r, d)
    PROVE  \/ s = r
           \/ /\ r.enabled /\ r.mode # "RESET" /\ r.dev # d
              /\ s = attached(r, d) \/ \E o \in YkushRestart(attached(r, d)) : s = o.port
BY DEF ykush_device_added, device_added, added_ignored, PortInv, FieldInv

LEMMA DeviceAddedInv ==
    ASSUME NEW r \in YkushPort, PortInv(r), NEW d \in Devs, NEW s \in ykush_device_added(r, d)
    PROVE  PortStep(r, s)
<1> DEFINE t == attached(r, d)
<1>1. Is(t, r.enabled, r.pwr, "PING", r.retrans, d, r.handle, r.pings,
         IF r.listed = 0 THEN 1 ELSE 2, r.xfers)
  BY AttachedIs
<1>2. \/ s = r
      \/ r.enabled /\ r.mode # "RESET" /\ (s = t \/ \E o \in YkushRestart(t) : s = o.port)
  BY DeviceAddedIs
<1> HIDE DEF t
<1>3. ASSUME r.enabled, r.mode # "RESET"
      PROVE  /\ t \in YkushPort /\ t.enabled /\ PortInv(t)
             /\ t.pings > 0 => t.handle # NoDev
             /\ t.handle # NoDev => t.dev # NoDev
             /\ ResetsIn(t.xfers) = {} /\ InOrder(t.xfers, TRUE)
  <2>1. r.enabled = TRUE /\ ResetsIn(r.xfers) = {} /\ InOrder(r.xfers, TRUE)
    BY <1>3, FieldTypes DEF PortInv, QueueInv
  <2>2. FieldInv(t)
    BY <1>1, <1>3, Members, FieldTypes DEF Is, PortInv, FieldInv
  <2>3. t.xfers = r.xfers /\ t.enabled = TRUE /\ t.mode = "PING"
    BY <1>1, <2>1, Zenon DEF Is
  <2>4. QueueInv(t.xfers, t.enabled, t.mode, t.listed)
    BY <2>1, <2>3 DEF QueueInv
  <2>5. QED
    BY <2>1, <2>2, <2>3, <2>4 DEF PortInv, FieldInv
<1>4. QED
  BY <1>2, <1>3, RestartInv DEF PortStep, PortInv, FieldInv

LEMMA ResetPortInv ==
    ASSUME NEW r \in YkushPort, PortInv(r), r.listed # 2
    PROVE  PortStep(r, reset_port(r))
<1> DEFINE t == reset_port(r)
<1>1. Is(t, r.enabled, r.pwr, r.mode, 0, NoDev, NoDev, 0,
         IF r.mode = "RESET" THEN r.listed ELSE 0, r.xfers)
  BY ResetPortIs DEF PortInv, FieldInv
<1> HIDE DEF t
<1>2. FieldInv(t)
  BY <1>1, FieldTypes DEF Is, PortInv, FieldInv
<1>3. QueueInv(r.xfers, r.enabled, r.mode, t.listed)
  BY <1>1 DEF Is, PortInv, QueueInv
<1>4. t.xfers = r.xfers /\ t.enabled = r.enabled /\ t.mode = r.mode /\ t.pwr = r.pwr
  BY <1>1, Zenon DEF Is
<1>5. PortInv(t)
  BY <1>2, <1>3, <1>4 DEF PortInv
<1>6. QED
  BY <1>4, <1>5 DEF PortStep, PortInv, FieldInv, t

LEMMA SendPingInv ==
    ASSUME NEW r \in YkushPort, r.enabled, r.mode = "PING", r.dev # NoDev,
           r.pings > 0 => r.handle # NoDev, r.handle # NoDev => r.dev # NoDev,
           ResetsIn(r.xfers) = {}, InOrder(r.xfers, TRUE),
           NEW s \in send_ping(r)
    PROVE  PortInv(s) /\ s.enabled
<1>1. OpenHandle(r) # NoDev /\ r.enabled = TRUE
  BY FieldTypes DEF OpenHandle
<1>2. /\ s \in YkushPort /\ s.enabled = TRUE /\ s.mode = "PING" /\ s.dev # NoDev
      /\ s.pings > 0 => s.handle # NoDev
      /\ s.xfers = r.xfers
  BY <1>1, SendPingIs, FieldTypes DEF Is
<1>3. QueueInv(s.xfers, s.enabled, s.mode, s.listed)
  BY <1>2 DEF QueueInv
<1>4. QED
  BY <1>2, <1>3 DEF PortInv, FieldInv

LEMMA ExpireIs ==
    ASSUME NEW r \in YkushPort, NEW s \in expire(r)
    PROVE  \/ ~r.enabled /\ s = del_timeout(r)
           \/ r.enabled /\ r.mode = "PING" /\ s \in send_ping(del_timeout(r))
           \/ /\ r.enabled /\ r.mode # "PING"
              /\ \E o \in YkushRestart(del_timeout(r)) : s = o.port
<1>1. del_timeout(r).enabled = r.enabled /\ del_timeout(r).mode = r.mode
  BY DelIs DEF Is
<1>2. QED
  BY <1>1, FieldTypes, Zenon DEF expire, ykush_handle_timeout

LEMMA ExpireInv ==
    ASSUME NEW r \in YkushPort, PortInv(r), r.listed = 1, NEW s \in expire(r)
    PROVE  PortStep(r, s)
<1> DEFINE t == del_timeout(r)
<1>1. Is(t, r.enabled, r.pwr, r.mode, r.retrans, r.dev, r.handle, r.pings, 0, r.xfers)
  BY DelIs DEF Is
<1>2. \/ ~r.enabled /\ s = t
      \/ r.enabled /\ r.mode = "PING" /\ s \in send_ping(t)
      \/ r.enabled /\ r.mode # "PING" /\ \E o \in YkushRestart(t) : s = o.port
  BY ExpireIs
<1> HIDE DEF t
<1>3. ResetsIn(r.xfers) = {} /\ InOrder(r.xfers, r.enabled)
  BY DEF PortInv, QueueInv
<1>4. CASE ~r.enabled /\ s = t
  <2>1. FieldInv(t)
    BY <1>1, FieldTypes DEF Is, PortInv, FieldInv
  <2>2. QueueInv(r.xfers, r.enabled, r.mode, 0)
    BY <1>3, <1>4 DEF PortInv, QueueInv
  <2>3. QueueInv(t.xfers, t.enabled, t.mode, t.listed)
    BY <1>1, <2>2, Zenon DEF Is
  <2>4. QED
    BY <1>1, <1>4, <2>1, <2>3 DEF PortInv, PortStep, Is
<1>5. CASE r.enabled
  <2>1. /\ t \in YkushPort /\ t.enabled /\ t.mode = r.mode /\ t.dev = r.dev
        /\ t.pings > 0 => t.handle # NoDev
        /\ t.handle # NoDev => t.dev # NoDev
        /\ ResetsIn(t.xfers) = {} /\ InOrder(t.xfers, TRUE)
    BY <1>1, <1>3, <1>5, FieldTypes DEF Is, PortInv, FieldInv
  <2>2. r.mode = "PING" => t.dev # NoDev
    BY <2>1 DEF PortInv, FieldInv
  <2>3. QED
    BY <1>2, <1>5, <2>1, <2>2, SendPingInv, RestartInv DEF PortStep
<1>6. QED
  BY <1>2, <1>4, <1>5

LEMMA AtLimitIs ==
    ASSUME NEW r \in YkushPort, r.pings > 0
    PROVE  Is(at_limit(r), r.enabled, r.pwr, r.mode, 0, r.dev, r.handle, r.pings - 1, r.listed,
              r.xfers)
<1>1. r.pings - 1 \in Few
  BY Members, FieldTypes DEF Few
<1>2. QED
  BY <1>1, Members, Zenon DEF Is, YkushPort, at_limit

LEMMA PingCbIs ==
    ASSUME NEW r \in YkushPort, r.pings > 0, NEW ok \in BOOLEAN, NEW s \in ykush_ping_cb(r, ok)
    PROVE  \/ /\ ~r.enabled \/ r.mode # "PING"
              /\ Is(s, r.enabled, r.pwr, r.mode, r.retrans, r.dev, r.handle, r.pings - 1, r.listed,
                    r.xfers)
           \/ /\ r.enabled /\ r.mode = "PING"
              /\ \E n \in Failures :
                    Is(s, r.enabled, r.pwr, r.mode, n, r.dev, r.handle, r.pings - 1,
                       IF r.listed = 0 THEN 1 ELSE 2, r.xfers)
           \/ /\ r.enabled /\ r.mode = "PING"
              /\ \E o \in YkushRestart(at_limit(r)) : s = o.port
<1> DEFINE t == [r EXCEPT !.pings = r.pings - 1]
           q == [t EXCEPT !.retrans = 0]
           f == count_failure(t)
<1>1. Is(t, r.enabled, r.pwr, r.mode, r.retrans, r.dev, r.handle, r.pings - 1, r.listed, r.xfers)
  <2>1. r.pings - 1 \in Few
    BY Members, FieldTypes DEF Few
  <2>2. QED
    BY <2>1, Zenon DEF Is, YkushPort
<1>2. Is(q, r.enabled, r.pwr, r.mode, 0, r.dev, r.handle, r.pings - 1, r.listed, r.xfers)
  BY <1>1, Members, Zenon DEF Is, YkushPort
<1>3. Is(f, r.enabled, r.pwr, r.mode, (r.retrans + 1) % RETRANS_MOD, r.dev, r.handle,
         r.pings - 1, r.listed, r.xfers)
  <2> HIDE DEF t
  <2>1. Is(f, t.enabled, t.pwr, t.mode, (t.retrans + 1) % RETRANS_MOD, t.dev, t.handle,
           t.pings, t.listed, t.xfers)
    BY <1>1, FailureIs, Zenon DEF Is
  <2>2. QED
    BY <1>1, <2>1, Zenon DEF Is
<1>4. CASE ~r.enabled \/ r.mode # "PING"
  <2>1. s = t
    BY <1>1, <1>4 DEF ykush_ping_cb, ping_cb, Is
  <2>2. QED
    BY <1>1, <1>4, <2>1
<1>5. CASE r.enabled /\ r.mode = "PING" /\ (ok \/ r.retrans # USB_RETRANS_LIMIT)
  <2>1. s = start_timeout(q) \/ s = start_timeout(f)
    BY <1>1, <1>5 DEF ykush_ping_cb, ping_cb, Is
  <2> HIDE DEF t, q, f
  <2>2. Is(start_timeout(q), r.enabled, r.pwr, r.mode, 0, r.dev, r.handle, r.pings - 1,
           IF r.listed = 0 THEN 1 ELSE 2, r.xfers)
    <3>1. Is(start_timeout(q), q.enabled, q.pwr, q.mode, q.retrans, q.dev, q.handle, q.pings,
             IF q.listed = 0 THEN 1 ELSE 2, q.xfers)
      BY <1>2, StartIs, Zenon DEF Is
    <3>2. QED
      BY <1>2, <3>1 DEF Is
  <2>3. Is(start_timeout(f), r.enabled, r.pwr, r.mode, (r.retrans + 1) % RETRANS_MOD, r.dev,
           r.handle, r.pings - 1, IF r.listed = 0 THEN 1 ELSE 2, r.xfers)
    BY <1>3, StartIs, Zenon DEF Is
  <2>4. 0 \in Failures /\ (r.retrans + 1) % RETRANS_MOD \in Failures
    BY Members, FieldTypes
  <2>5. QED
    BY <1>5, <2>1, <2>2, <2>3, <2>4, Zenon
<1>6. CASE r.enabled /\ r.mode = "PING" /\ ~ok /\ r.retrans = USB_RETRANS_LIMIT
  <2>1. PICK o \in YkushRestart(at_limit(r)) :
            s = IF o.ret = 0 THEN o.port
                ELSE start_timeout([o.port EXCEPT !.retrans = USB_RETRANS_LIMIT])
    BY <1>1, <1>6 DEF ykush_ping_cb, ping_cb, Is
  <2>2. o.ret = 0
    BY <1>6, AtLimitIs, RestartIs DEF Is
  <2>3. QED
    BY <1>6, <2>1, <2>2
<1>7. QED
  BY <1>4, <1>5, <1>6

LEMMA PingCbInv ==
    ASSUME NEW r \in YkushPort, PortInv(r), r.pings > 0, NEW ok \in BOOLEAN,
           NEW s \in ykush_ping_cb(r, ok)
    PROVE  PortStep(r, s)
<1>1. CASE /\ ~r.enabled \/ r.mode # "PING"
           /\ Is(s, r.enabled, r.pwr, r.mode, r.retrans, r.dev, r.handle, r.pings - 1, r.listed,
                 r.xfers)
  <2>1. QueueInv(s.xfers, s.enabled, s.mode, s.listed)
    BY <1>1, Zenon DEF Is, PortInv
  <2>2. FieldInv(s) /\ (~r.enabled => ~s.enabled)
    BY <1>1, FieldTypes DEF Is, PortInv, FieldInv
  <2>3. QED
    BY <2>1, <2>2 DEF PortStep, PortInv
<1>2. r.mode = "PING" =>
        /\ r.enabled = TRUE /\ r.dev # NoDev
        /\ ResetsIn(r.xfers) = {} /\ InOrder(r.xfers, TRUE)
  BY FieldTypes DEF PortInv, FieldInv, QueueInv
<1>3. ASSUME r.enabled, r.mode = "PING", NEW n \in Failures,
             Is(s, r.enabled, r.pwr, r.mode, n, r.dev, r.handle, r.pings - 1,
                IF r.listed = 0 THEN 1 ELSE 2, r.xfers)
      PROVE  PortStep(r, s)
  <2>1. s.xfers = r.xfers /\ s.enabled = TRUE /\ s.mode = "PING"
    BY <1>2, <1>3, Zenon DEF Is
  <2>2. QueueInv(s.xfers, s.enabled, s.mode, s.listed)
    BY <1>2, <1>3, <2>1 DEF QueueInv
  <2>3. FieldInv(s)
    BY <1>2, <1>3, FieldTypes DEF Is, PortInv, FieldInv
  <2>4. QED
    BY <1>3, <2>2, <2>3 DEF PortStep, PortInv
<1>4. ASSUME r.enabled, r.mode = "PING", NEW o \in YkushRestart(at_limit(r)), s = o.port
      PROVE  PortStep(r, s)
  <2> DEFINE t == at_limit(r)
  <2>1. Is(t, r.enabled, r.pwr, r.mode, 0, r.dev, r.handle, r.pings - 1, r.listed, r.xfers)
    BY AtLimitIs
  <2> HIDE DEF t
  <2>2. /\ t \in YkushPort /\ t.enabled
        /\ t.pings > 0 => t.handle # NoDev
        /\ t.handle # NoDev => t.dev # NoDev
        /\ ResetsIn(t.xfers) = {} /\ InOrder(t.xfers, TRUE)
    BY <1>2, <1>4, <2>1, FieldTypes DEF Is, PortInv, FieldInv
  <2>3. QED
    BY <1>4, <2>2, RestartInv DEF PortStep, t
<1>5. QED
  BY <1>1, <1>3, <1>4, PingCbIs

\* CMD_RESTART for a port that is not being reset.
LEMMA RestartStep ==
    ASSUME NEW r \in YkushPort, PortInv(r), r.mode # "RESET", NEW o \in YkushRestart(r)
    PROVE  PortStep(r, o.port)
<1>1. CASE r.enabled
  <2>1. ResetsIn(r.xfers) = {} /\ InOrder(r.xfers, TRUE)
    BY <1>1, FieldTypes DEF PortInv, QueueInv
  <2>2. QED
    BY <1>1, <2>1, RestartInv DEF PortStep, PortInv, FieldInv
<1>2. CASE ~r.enabled
  BY <1>2, RestartDisabled DEF PortStep
<1>3. QED
  BY <1>1, <1>2

LEMMA ResetIfNeededInv ==
    ASSUME NEW r \in YkushPort, PortInv(r), NEW forced \in BOOLEAN,
           NEW s \in ykush_reset_if_needed(r, forced)
    PROVE  PortStep(r, s)
<1>1. PortStep(r, r)
  BY DEF PortStep, PortInv, FieldInv
<1>2. s = r \/ (r.mode # "RESET" /\ \E o \in YkushRestart(r) : s = o.port)
  BY DEF ykush_reset_if_needed, reset_if_needed
<1>3. QED
  BY <1>1, <1>2, RestartStep

\* A client's command that is not dropped.
LEMMA UpdateInv ==
    ASSUME NEW r \in YkushPort, PortInv(r), NEW cmd \in Cmds, ~skip_command(r, cmd),
           NEW o \in ykush_update_port(r, cmd)
    PROVE  PortStep(r, o.port)
<1>1. CASE cmd = "RESTART"
  <2>1. o \in YkushRestart(r) /\ r.mode # "RESET"
    BY <1>1 DEF YkushRestart, skip_command
  <2>2. QED
    BY <2>1, RestartStep
<1>2. ASSUME NEW cb \in {"enable", "disable"}, NEW on \in BOOLEAN, NEW sent \in BOOLEAN,
             o = ykush_switch(r, cb, on, sent),
             IF r.enabled THEN cb = "disable" ELSE cb = "enable"
      PROVE  PortStep(r, o.port)
  <2> DEFINE s == submitted(r, cb, on)
             e == NewXfer(cb, on)
             x == Append(r.xfers, e)
  <2>1. /\ e \in Xfer /\ e.cb = cb
        /\ Is(s, r.enabled, r.pwr, r.mode, r.retrans, r.dev, r.handle, r.pings, r.listed, x)
    BY <1>2, SubmittedIs
  <2>2. o.port \in {s, r}
    BY <1>2 DEF ykush_switch
  <2>3. r.xfers \in Seq(Xfer) /\ InOrder(r.xfers, r.enabled) /\ r.enabled \in BOOLEAN
    BY FieldTypes DEF PortInv, QueueInv
  <2> HIDE DEF s, e
  <2>4. ResetsIn(x) = ResetsIn(r.xfers)
    BY <1>2, <2>1, <2>3, SubmitQueue
  <2>5. InOrder(x, r.enabled)
    <3>1. CASE r.enabled = TRUE
      BY <1>2, <2>1, <2>3, <3>1, SubmitQueue
    <3>2. CASE r.enabled = FALSE
      BY <1>2, <2>1, <2>3, <3>2, SubmitQueue
    <3>3. QED
      BY <2>3, <3>1, <3>2
  <2> HIDE DEF x
  <2>6. QueueInv(x, r.enabled, r.mode, r.listed)
    BY <2>4, <2>5 DEF PortInv, QueueInv
  <2>7. QueueInv(s.xfers, s.enabled, s.mode, s.listed)
    BY <2>1, <2>6, Zenon DEF Is
  <2>8. FieldInv(s)
    BY <2>1, FieldTypes DEF Is, PortInv, FieldInv
  <2>9. s.enabled = r.enabled
    BY <2>1, Zenon DEF Is
  <2>10. QED
    BY <2>2, <2>7, <2>8, <2>9 DEF PortStep, PortInv
<1>3. CASE cmd = "ENABLE"
  <2>1. \E sent \in BOOLEAN : o = ykush_switch(r, "enable", TRUE, sent)
    BY <1>3 DEF ykush_update_port, perform_transfer
  <2>2. ~r.enabled
    BY <1>3 DEF skip_command
  <2>3. QED
    BY <1>2, <2>1, <2>2
<1>4. CASE cmd = "DISABLE"
  <2>1. \E sent \in BOOLEAN : o = ykush_switch(r, "disable", FALSE, sent)
    BY <1>4 DEF ykush_update_port, perform_transfer
  <2>2. r.enabled
    BY <1>4 DEF skip_command
  <2>3. QED
    BY <1>2, <2>1, <2>2
<1>5. QED
  BY <1>1, <1>3, <1>4 DEF Cmds

\* The callback of the oldest transfer.
LEMMA TransferDoneIs ==
    ASSUME NEW r \in YkushPort, PortInv(r), r.xfers # <<>>, NEW ok \in BOOLEAN
    PROVE  LET s == transfer_done(r, ok)
               e == Head(r.xfers)
           IN  \/ /\ e.cb = "reset" => ~r.enabled
                  /\ e.cb # "reset" => ~ok
                  /\ Is(s, r.enabled, r.pwr, r.mode, r.retrans, r.dev, r.handle, r.pings,
                        r.listed, Tail(r.xfers))
               \/ /\ e.cb = "enable" /\ ok
                  /\ Is(s, TRUE, TRUE, r.mode, r.retrans, r.dev, r.handle, r.pings,
                        r.listed, Tail(r.xfers))
               \/ /\ e.cb = "disable" /\ ok
                  /\ Is(s, FALSE, FALSE, "IDLE", r.retrans, r.dev, r.handle, r.pings,
                        r.listed, Tail(r.xfers))
               \/ /\ e.cb = "reset" /\ r.enabled /\ ~ok
                  /\ Is(s, r.enabled, r.pwr, "IDLE", r.retrans, r.dev, r.handle, r.pings,
                        r.listed, Tail(r.xfers))
               \/ /\ e.cb = "reset" /\ r.enabled /\ ok /\ r.pwr
                  /\ Is(s, r.enabled, FALSE, r.mode, r.retrans, r.dev, r.handle, r.pings,
                        IF r.listed = 0 THEN 1 ELSE 2, Tail(r.xfers))
               \/ /\ e.cb = "reset" /\ r.enabled /\ ok /\ ~r.pwr
                  /\ Is(s, r.enabled, TRUE, "IDLE", r.retrans, r.dev, r.handle, r.pings,
                        r.listed, Tail(r.xfers))
<1> DEFINE s == transfer_done(r, ok)
           e == Head(r.xfers)
           t == [r EXCEPT !.xfers = Tail(r.xfers)]
<1>1. e \in Xfer /\ Tail(r.xfers) \in Seq(Xfer)
  BY FieldTypes, HeadTailProperties
<1>2. e.cb \in {"reset", "enable", "disable"}
  BY <1>1 DEF Xfer
<1>3. Is(t, r.enabled, r.pwr, r.mode, r.retrans, r.dev, r.handle, r.pings, r.listed, Tail(r.xfers))
  BY <1>1, Zenon DEF Is, YkushPort
<1>4. s = IF e.cb = "enable" THEN ykush_enable_cb(t, ok)
          ELSE IF e.cb = "disable" THEN ykush_disable_cb(t, ok) ELSE ykush_reset_cb(t, ok)
  BY <1>2 DEF transfer_done
<1> DEFINE on == [t EXCEPT !.enabled = TRUE, !.pwr = TRUE]
           off == [t EXCEPT !.enabled = FALSE, !.mode = "IDLE", !.pwr = FALSE]
           idle == [t EXCEPT !.mode = "IDLE"]
           cut == [t EXCEPT !.pwr = FALSE]
           back == [t EXCEPT !.pwr = TRUE, !.mode = "IDLE"]
<1> HIDE DEF e, s, t
<1>5. Is(on, TRUE, TRUE, r.mode, r.retrans, r.dev, r.handle, r.pings, r.listed, Tail(r.xfers))
  BY <1>3, Zenon DEF Is, YkushPort
<1>6. Is(off, FALSE, FALSE, "IDLE", r.retrans, r.dev, r.handle, r.pings, r.listed, Tail(r.xfers))
  BY <1>3, Members, Zenon DEF Is, YkushPort
<1>7. Is(idle, r.enabled, r.pwr, "IDLE", r.retrans, r.dev, r.handle, r.pings, r.listed,
         Tail(r.xfers))
  BY <1>3, Members, Zenon DEF Is, YkushPort
<1>8. Is(cut, r.enabled, FALSE, r.mode, r.retrans, r.dev, r.handle, r.pings, r.listed,
         Tail(r.xfers))
  BY <1>3, Zenon DEF Is, YkushPort
<1>9. Is(back, r.enabled, TRUE, "IDLE", r.retrans, r.dev, r.handle, r.pings, r.listed,
         Tail(r.xfers))
  BY <1>3, Members, Zenon DEF Is, YkushPort
<1>10. t.enabled = r.enabled /\ t.pwr = r.pwr
  BY <1>3, Zenon DEF Is
<1>11. CASE e.cb = "enable"
  <2>1. s = IF ok THEN on ELSE t
    BY <1>4, <1>11 DEF ykush_enable_cb
  <2>2. QED
    BY <1>3, <1>5, <1>11, <2>1 DEF e, s
<1>12. CASE e.cb = "disable"
  <2>1. s = IF ok THEN off ELSE t
    BY <1>4, <1>12 DEF ykush_disable_cb
  <2>2. QED
    BY <1>3, <1>6, <1>12, <2>1 DEF e, s
<1>13. CASE e.cb = "reset"
  <2>1. s = IF ~r.enabled THEN t ELSE IF ~ok THEN idle
            ELSE IF r.pwr THEN start_timeout(cut) ELSE back
    BY <1>4, <1>10, <1>13 DEF ykush_reset_cb
  <2> HIDE DEF on, off, idle, cut, back
  <2>2. Is(start_timeout(cut), r.enabled, FALSE, r.mode, r.retrans, r.dev, r.handle, r.pings,
           IF r.listed = 0 THEN 1 ELSE 2, Tail(r.xfers))
    BY <1>8, StartIs, Zenon DEF Is
  <2>3. CASE ~r.enabled
    BY <1>3, <1>13, <2>1, <2>3 DEF e, s
  <2>4. CASE r.enabled /\ ~ok
    BY <1>7, <1>13, <2>1, <2>4 DEF e, s
  <2>5. CASE r.enabled /\ ok /\ r.pwr
    BY <1>13, <2>1, <2>2, <2>5 DEF e, s
  <2>6. CASE r.enabled /\ ok /\ ~r.pwr
    BY <1>9, <1>13, <2>1, <2>6 DEF e, s
  <2>7. QED
    BY <2>3, <2>4, <2>5, <2>6
<1>14. QED
  BY <1>2, <1>11, <1>12, <1>13

LEMMA TransferDoneInv ==
    ASSUME NEW r \in YkushPort, PortInv(r), r.xfers # <<>>, r.listed # 2, NEW ok \in BOOLEAN
    PROVE  PortStep(r, transfer_done(r, ok))
<1> DEFINE s == transfer_done(r, ok)
           e == Head(r.xfers)
           y == Tail(r.xfers)
<1>1. /\ r.xfers \in Seq(Xfer) /\ r.enabled \in BOOLEAN /\ r.pwr \in BOOLEAN
      /\ r.listed \in 0 .. 1 /\ QueueInv(r.xfers, r.enabled, r.mode, r.listed) /\ FieldInv(r)
  BY FieldTypes DEF PortInv
<1>2. /\ \A i, j \in ResetsIn(y) : i = j
      /\ e.cb = "reset" => ResetsIn(r.xfers) # {} /\ ResetsIn(y) = {}
      /\ e.cb # "reset" => (ResetsIn(y) # {} <=> ResetsIn(r.xfers) # {})
      /\ InOrder(y, r.enabled)
      /\ e.cb = "disable" => InOrder(y, FALSE)
      /\ e.cb = "enable" => InOrder(y, TRUE)
      /\ e.cb = "enable" /\ ~r.enabled => ResetsIn(y) = {}
  <2>1. /\ InOrder(r.xfers, r.enabled)
        /\ \A i, j \in ResetsIn(r.xfers) : i = j
    BY <1>1 DEF QueueInv
  <2>2. QED
    BY <1>1, <2>1, CompleteQueue
<1>3. /\ ResetsIn(r.xfers) # {} => r.listed = 0
      /\ e.cb = "reset" /\ r.enabled => r.mode = "RESET"
      /\ r.mode = "RESET" => r.enabled /\ (r.listed # 0 \/ ResetsIn(r.xfers) # {})
  BY <1>1, <1>2 DEF QueueInv
<1> DEFINE Goal(q) == PortInv(q) /\ (~r.enabled => ~q.enabled \/ q.pwr)
<1>4. ASSUME NEW q, NEW enabled \in BOOLEAN, NEW pwr \in BOOLEAN, NEW mode, NEW listed,
             Is(q, enabled, pwr, mode, r.retrans, r.dev, r.handle, r.pings, listed, y),
             mode \in {r.mode, "IDLE"}, mode = "PING" => enabled /\ listed = r.listed,
             ~enabled => ~pwr, ~r.enabled => ~enabled \/ pwr,
             QueueInv(y, enabled, mode, listed)
      PROVE  Goal(q)
  <2>1. FieldInv(q)
    BY <1>1, <1>4 DEF Is, FieldInv
  <2>2. QueueInv(q.xfers, q.enabled, q.mode, q.listed) /\ q.enabled = enabled /\ q.pwr = pwr
    BY <1>4, Zenon DEF Is
  <2>3. QED
    BY <1>4, <2>1, <2>2 DEF PortInv
<1>5. SUFFICES Goal(s)
  BY DEF PortStep
<1> HIDE DEF s, e, y, Goal
<1>6. ~r.enabled => r.mode = "IDLE"
  BY <1>1, <1>3, FieldTypes DEF FieldInv, Modes
<1>7. CASE /\ e.cb = "reset" => ~r.enabled
           /\ Is(s, r.enabled, r.pwr, r.mode, r.retrans, r.dev, r.handle, r.pings, r.listed, y)
  <2>1. QueueInv(y, r.enabled, r.mode, r.listed)
    BY <1>1, <1>2, <1>3, <1>6, <1>7 DEF QueueInv
  <2>2. QED
    BY <1>1, <1>4, <1>7, <2>1 DEF FieldInv
<1>8. CASE /\ e.cb = "enable"
           /\ Is(s, TRUE, TRUE, r.mode, r.retrans, r.dev, r.handle, r.pings, r.listed, y)
  <2>1. QueueInv(y, TRUE, r.mode, r.listed)
    <3>1. ResetsIn(y) # {} => r.mode = "RESET" /\ r.listed # 1
      BY <1>1, <1>2, <1>3, <1>8 DEF QueueInv
    <3>2. r.mode = "RESET" => r.listed # 0 \/ ResetsIn(y) # {}
      BY <1>2, <1>3, <1>8
    <3>3. QED
      BY <1>2, <1>8, <3>1, <3>2, Zenon DEF QueueInv
  <2>2. QED
    BY <1>1, <1>4, <1>8, <2>1 DEF FieldInv
<1>9. CASE /\ e.cb = "disable"
           /\ Is(s, FALSE, FALSE, "IDLE", r.retrans, r.dev, r.handle, r.pings, r.listed, y)
  <2>1. QueueInv(y, FALSE, "IDLE", r.listed)
    <3>1. ResetsIn(y) # {} => r.listed # 1
      BY <1>2, <1>3, <1>9
    <3>2. "IDLE" # "RESET"
      OBVIOUS
    <3>3. QED
      BY <1>2, <1>9, <3>1, <3>2, Zenon DEF QueueInv
  <2>2. QED
    BY <1>4, <1>9, <2>1
<1>10. CASE /\ e.cb = "reset"
            /\ Is(s, r.enabled, r.pwr, "IDLE", r.retrans, r.dev, r.handle, r.pings, r.listed, y)
  <2>1. QueueInv(y, r.enabled, "IDLE", r.listed)
    BY <1>2, <1>10 DEF QueueInv
  <2>2. QED
    BY <1>1, <1>4, <1>10, <2>1 DEF FieldInv
<1>11. CASE /\ e.cb = "reset" /\ r.enabled
            /\ Is(s, r.enabled, FALSE, r.mode, r.retrans, r.dev, r.handle, r.pings,
                  IF r.listed = 0 THEN 1 ELSE 2, y)
  <2>1. r.listed = 0 /\ r.mode = "RESET"
    BY <1>2, <1>3, <1>11
  <2>2. QueueInv(y, r.enabled, r.mode, 1)
    BY <1>2, <1>11, <2>1 DEF QueueInv
  <2>3. Is(s, r.enabled, FALSE, r.mode, r.retrans, r.dev, r.handle, r.pings, 1, y)
    BY <1>11, <2>1
  <2>4. QED
    BY <1>1, <1>4, <1>11, <2>1, <2>2, <2>3
<1>12. CASE /\ e.cb = "reset" /\ r.enabled
            /\ Is(s, r.enabled, TRUE, "IDLE", r.retrans, r.dev, r.handle, r.pings, r.listed, y)
  <2>1. QueueInv(y, r.enabled, "IDLE", r.listed)
    BY <1>2, <1>12 DEF QueueInv
  <2>2. QED
    BY <1>1, <1>4, <1>12, <2>1
<1>13. QED
  <2>1. \/ /\ e.cb = "reset" => ~r.enabled
           /\ Is(s, r.enabled, r.pwr, r.mode, r.retrans, r.dev, r.handle, r.pings, r.listed, y)
        \/ /\ e.cb = "enable"
           /\ Is(s, TRUE, TRUE, r.mode, r.retrans, r.dev, r.handle, r.pings, r.listed, y)
        \/ /\ e.cb = "disable"
           /\ Is(s, FALSE, FALSE, "IDLE", r.retrans, r.dev, r.handle, r.pings, r.listed, y)
        \/ /\ e.cb = "reset"
           /\ Is(s, r.enabled, r.pwr, "IDLE", r.retrans, r.dev, r.handle, r.pings, r.listed, y)
        \/ /\ e.cb = "reset" /\ r.enabled
           /\ Is(s, r.enabled, FALSE, r.mode, r.retrans, r.dev, r.handle, r.pings,
                 IF r.listed = 0 THEN 1 ELSE 2, y)
        \/ /\ e.cb = "reset" /\ r.enabled
           /\ Is(s, r.enabled, TRUE, "IDLE", r.retrans, r.dev, r.handle, r.pings, r.listed, y)
    BY TransferDoneIs, Zenon DEF s, e, y
  <2>2. QED
    BY <1>7, <1>8, <1>9, <1>10, <1>11, <1>12, <2>1

\* The hub acts on a transfer: nothing that the daemon looks at changes.
LEMMA AppliedIs ==
    ASSUME NEW r \in YkushPort, PortInv(r), NEW i \in DOMAIN r.xfers
    PROVE  LET x == [r.xfers EXCEPT ![i].applied = TRUE]
               s == [r EXCEPT !.xfers[i].applied = TRUE]
           IN  /\ Is(s, r.enabled, r.pwr, r.mode, r.retrans, r.dev, r.handle, r.pings,
                     r.listed, x)
               /\ PortStep(r, s)
<1> DEFINE x == [r.xfers EXCEPT ![i].applied = TRUE]
           s == [r EXCEPT !.xfers = x]
<1>1. r.xfers \in Seq(Xfer) /\ r.enabled \in BOOLEAN
  BY FieldTypes
<1>2. /\ x \in Seq(Xfer) /\ ResetsIn(x) = ResetsIn(r.xfers)
      /\ InOrder(x, r.enabled) <=> InOrder(r.xfers, r.enabled)
  BY <1>1, ApplyQueue
<1> HIDE DEF x
<1>3. Is(s, r.enabled, r.pwr, r.mode, r.retrans, r.dev, r.handle, r.pings, r.listed, x)
  BY <1>2, Zenon DEF Is, YkushPort
<1>4. [r EXCEPT !.xfers[i].applied = TRUE] = s
  BY DEF x
<1> HIDE DEF s
<1>5. FieldInv(s) /\ s.enabled = r.enabled
  BY <1>3, FieldTypes DEF Is, PortInv, FieldInv
<1>6. QueueInv(x, r.enabled, r.mode, r.listed)
  BY <1>2 DEF PortInv, QueueInv
<1>7. QueueInv(s.xfers, s.enabled, s.mode, s.listed)
  BY <1>3, <1>6, Zenon DEF Is
<1>8. PortStep(r, s)
  BY <1>5, <1>7 DEF PortStep, PortInv
<1>9. QED
  BY <1>3, <1>4, <1>8 DEF x

\* A hub is given up, with whatever its ports were doing.
released(r) == [del_port(r) EXCEPT !.xfers = <<>>]

LEMMA ReleasedIs ==
    ASSUME NEW r \in YkushPort, PortInv(r), r.listed # 2
    PROVE  /\ Is(released(r), r.enabled, r.pwr, "IDLE", 0, NoDev, NoDev, 0, 0, <<>>)
           /\ PortStep(r, released(r)) /\ Gone(released(r))
<1> DEFINE m == [r EXCEPT !.mode = "IDLE"]
           d == reset_port(m)
           s == [d EXCEPT !.xfers = <<>>]
<1>1. Is(m, r.enabled, r.pwr, "IDLE", r.retrans, r.dev, r.handle, r.pings, r.listed, r.xfers)
  BY Members, Zenon DEF Is, YkushPort
<1> HIDE DEF m
<1>2. Is(d, r.enabled, r.pwr, "IDLE", 0, NoDev, NoDev, 0, 0, r.xfers)
  <2>1. /\ m \in YkushPort /\ m.mode # "PROBE" /\ m.listed # 2
        /\ m.pings > 0 => m.handle # NoDev
        /\ m.handle # NoDev => m.dev # NoDev
    BY <1>1 DEF Is, PortInv, FieldInv
  <2>2. Is(d, m.enabled, m.pwr, m.mode, 0, NoDev, NoDev, 0,
           IF m.mode = "RESET" THEN m.listed ELSE 0, m.xfers)
    BY <2>1, ResetPortIs
  <2>3. QED
    BY <1>1, <2>2 DEF Is
<1> HIDE DEF d
<1>3. <<>> \in Seq(Xfer)
  OBVIOUS
<1>4. Is(s, r.enabled, r.pwr, "IDLE", 0, NoDev, NoDev, 0, 0, <<>>)
  BY <1>2, <1>3, Zenon DEF Is, YkushPort
<1>5. s = released(r)
  BY DEF released, del_port, d, m
<1> HIDE DEF s
<1>6. ResetsIn(<<>>) = {} /\ InOrder(<<>>, TRUE) /\ InOrder(<<>>, FALSE)
  BY DEF ResetsIn, InOrder
<1>7. QueueInv(s.xfers, s.enabled, s.mode, s.listed)
  BY <1>4, <1>6, FieldTypes DEF Is, QueueInv
<1>8. FieldInv(s) /\ s.enabled = r.enabled /\ Gone(s)
  BY <1>4 DEF Is, FieldInv, Gone, PortInv
<1>9. PortStep(r, s)
  BY <1>7, <1>8 DEF PortStep, PortInv
<1>10. QED
  BY <1>4, <1>5, <1>8, <1>9

\* A hub is found.
LEMMA FreshPort ==
    /\ Is(ykush_port, TRUE, TRUE, "IDLE", 0, NoDev, NoDev, 0, 0, <<>>)
    /\ PortInv(ykush_port) /\ Gone(ykush_port)
<1>1. <<>> \in Seq(Xfer) /\ ResetsIn(<<>>) = {} /\ InOrder(<<>>, TRUE)
  BY DEF ResetsIn, InOrder
<1>2. Is(ykush_port, TRUE, TRUE, "IDLE", 0, NoDev, NoDev, 0, 0, <<>>)
  BY <1>1, Members, Zenon DEF Is, YkushPort, ykush_port
<1> DEFINE s == ykush_port
<1> HIDE DEF s
<1>3. QueueInv(s.xfers, s.enabled, s.mode, s.listed)
  BY <1>1, <1>2 DEF Is, QueueInv, s
<1>4. QED
  BY <1>2, <1>3 DEF Is, FieldInv, Gone, PortInv, s

LEMMA FoundInv ==
    ASSUME NEW r, NEW d \in Devs, NEW s \in ykush_device_added(ykush_port, d)
    PROVE  PortStep(r, s)
<1>1. ykush_port \in YkushPort /\ PortInv(ykush_port) /\ ykush_port.pwr
  BY FreshPort DEF Is
<1>2. PortInv(s)
  BY <1>1, DeviceAddedInv DEF PortStep
<1> DEFINE t == attached(ykush_port, d)
<1>3. t \in YkushPort /\ t.pwr = ykush_port.pwr /\ t.enabled = ykush_port.enabled
  BY <1>1, AttachedIs DEF Is
<1>4. \/ s = ykush_port
      \/ ykush_port.enabled /\ (s = t \/ \E o \in YkushRestart(t) : s = o.port)
  BY <1>1, DeviceAddedIs
<1> HIDE DEF t
<1>5. s.pwr
  <2>1. ASSUME t.enabled, NEW o \in YkushRestart(t) PROVE o.port.pwr = t.pwr
    BY <1>3, <2>1, RestartIs, Zenon DEF Is
  <2>2. QED
    BY <1>1, <1>3, <1>4, <2>1, Zenon
<1>6. QED
  BY <1>2, <1>5 DEF PortStep
-----------------------------------------------------------------------------
(* The invariant is inductive.                                             *)

LEMMA InitInv == Init => IInv
<1> SUFFICES ASSUME Init PROVE IInv
  OBVIOUS
<1>1. ykush_port \in YkushPort /\ PortInv(ykush_port) /\ Gone(ykush_port)
  BY FreshPort DEF Is
<1>2. \A p \in Ports : port[p] = ykush_port
  BY DEF Init
<1>3. TypeOK
  <2>1. <<>> \in Seq(Event) /\ <<>> \in Seq({"ARRIVED", "LEFT"})
    OBVIOUS
  <2>2. QED
    BY <1>1, <2>1, Members, Zenon DEF Init, TypeOK
<1>4. QED
  BY <1>1, <1>2, <1>3, Zenon DEF IInv

\* A look at the device list.
LEMMA ReportedInv ==
    ASSUME TypeOK, NEW f, \A p \in Ports : f[p] \in YkushPort /\ PortInv(f[p]),
           NEW g \in reported(f)
    PROVE  /\ g = [p \in Ports |-> g[p]]
           /\ \A p \in Ports : g[p] \in IF plug[p] = NoDev THEN {f[p]}
                                        ELSE ykush_device_added(f[p], plug[p])
           /\ \A p \in Ports : PortStep(f[p], g[p])
<1>1. /\ g = [p \in Ports |-> g[p]]
      /\ \A p \in Ports : g[p] \in IF plug[p] = NoDev THEN {f[p]}
                                   ELSE ykush_device_added(f[p], plug[p])
  BY DEF reported, ForEach
<1>2. ASSUME NEW p \in Ports PROVE PortStep(f[p], g[p])
  <2>1. CASE plug[p] = NoDev
    BY <1>1, <2>1 DEF PortStep, PortInv, FieldInv
  <2>2. CASE plug[p] # NoDev
    <3>1. plug[p] \in Devs
      BY <2>2 DEF TypeOK, DevOrNone
    <3>2. QED
      BY <1>1, <2>2, <3>1, DeviceAddedInv
  <2>3. QED
    BY <2>1, <2>2
<1>3. QED
  BY <1>1, <1>2

\* Every step keeps the invariant and takes each port through a PortStep.
StepOK == IInv' /\ \A p \in Ports : PortStep(port[p], port'[p])

\* ykush_release_memory.
LEMMA ReleaseInv ==
    ASSUME IInv, ~Hung, NEW handle \in {"NULL", "open", "dangling"}, ReleaseMemory(handle),
           UNCHANGED <<libusb, hid, hw>>, hidq' \in Seq({"ARRIVED", "LEFT"})
    PROVE  StepOK
<1>1. \A p \in Ports : port[p] \in YkushPort /\ PortInv(port[p]) /\ port[p].listed # 2
  BY DEF IInv, TypeOK, Hung
<1>2. /\ hub' = FALSE /\ port' = [p \in Ports |-> port'[p]]
      /\ \A p \in Ports : port'[p] = released(port[p])
  BY DEF ReleaseMemory, released
<1>3. ASSUME NEW p \in Ports PROVE PortStep(port[p], port'[p]) /\ Gone(port'[p])
  BY <1>1, <1>2, ReleasedIs
<1>4. comm' \in {"NULL", "open", "dangling", "double"}
  BY DEF ReleaseMemory
<1>5. port' \in [Ports -> YkushPort]
  BY <1>2, <1>3 DEF PortStep, PortInv, FieldInv
<1>6. TypeOK'
  BY <1>2, <1>4, <1>5 DEF IInv, TypeOK, libusb
<1>7. QED
  BY <1>2, <1>3, <1>6 DEF StepOK, IInv, PortStep

\* ykush_add_device.
LEMMA AddDeviceInv ==
    ASSUME IInv, ~Hung, AddDevice, UNCHANGED <<libusb, hid, hw>>,
           hidq' \in Seq({"ARRIVED", "LEFT"})
    PROVE  StepOK
<1>1. \A p \in Ports : port[p] \in YkushPort /\ PortInv(port[p]) /\ PortStep(port[p], port[p])
  BY DEF IInv, TypeOK, PortStep, PortInv, FieldInv
<1>2. CASE hub /\ UNCHANGED <<port, hub, comm>>
  BY <1>1, <1>2 DEF IInv, TypeOK, libusb, StepOK
<1>3. CASE comm' = "open" /\ hub' = TRUE /\ port' \in reported([p \in Ports |-> ykush_port])
  <2> DEFINE f == [p \in Ports |-> ykush_port]
  <2>1. \A p \in Ports : f[p] \in YkushPort /\ PortInv(f[p]) /\ f[p] = ykush_port
    BY FreshPort DEF Is
  <2>2. /\ port' = [p \in Ports |-> port'[p]]
        /\ \A p \in Ports : port'[p] \in IF plug[p] = NoDev THEN {f[p]}
                                         ELSE ykush_device_added(f[p], plug[p])
    BY <1>3, <2>1, ReportedInv DEF IInv
  <2>3. ASSUME NEW p \in Ports PROVE PortStep(port[p], port'[p])
    <3>1. CASE plug[p] = NoDev
      BY <2>1, <2>2, <3>1, FreshPort DEF PortStep, Is
    <3>2. CASE plug[p] # NoDev
      <4>1. plug[p] \in Devs
        BY <3>2 DEF IInv, TypeOK, DevOrNone
      <4>2. QED
        BY <2>1, <2>2, <3>2, <4>1, FoundInv
    <3>3. QED
      BY <3>1, <3>2
  <2>4. port' \in [Ports -> YkushPort]
    BY <2>2, <2>3 DEF PortStep, PortInv, FieldInv
  <2>5. TypeOK'
    BY <1>3, <2>4 DEF IInv, TypeOK, libusb
  <2>6. QED
    BY <1>3, <2>3, <2>5 DEF IInv, StepOK, PortStep
<1>4. CASE \E handle \in configure_hub_failures : ReleaseMemory(handle)
  <2>1. configure_hub_failures \subseteq {"NULL", "open", "dangling"}
    BY DEF configure_hub_failures
  <2>2. PICK handle \in {"NULL", "open", "dangling"} : ReleaseMemory(handle)
    BY <1>4, <2>1
  <2>3. QED
    BY <2>2, ReleaseInv
<1>5. QED
  BY <1>2, <1>3, <1>4 DEF AddDevice

LEMMA NextInv ==
    ASSUME IInv, [Next]_vars
    PROVE  StepOK
<1>1. \A p \in Ports : port[p] \in YkushPort /\ PortInv(port[p]) /\ PortStep(port[p], port[p])
  BY DEF IInv, TypeOK, PortStep, PortInv, FieldInv
<1>2. TypeOK
  BY DEF IInv
\* A callback that changes some ports, and nothing that is not a port's.
<1>3. ASSUME plug' = plug, evq' \in [Ports -> Seq(Event)], UNCHANGED hubstate,
             hw' \in [Ports -> BOOLEAN],
             port' = [p \in Ports |-> port'[p]],
             \A p \in Ports : PortStep(port[p], port'[p]),
             hub \/ port' = port
      PROVE  StepOK
  <2>1. port' \in [Ports -> YkushPort]
    BY <1>3 DEF PortStep, PortInv, FieldInv
  <2>2. TypeOK'
    BY <1>2, <1>3, <2>1 DEF TypeOK, hubstate
  <2>3. ~hub' => \A p \in Ports : Gone(port'[p])
    BY <1>3 DEF IInv, hubstate
  <2>4. QED
    BY <1>3, <2>2, <2>3 DEF StepOK, IInv, PortStep
<1>4. ASSUME plug' = plug, evq' \in [Ports -> Seq(Event)], UNCHANGED hubstate,
             hw' \in [Ports -> BOOLEAN],
             NEW p \in Ports, NEW s, PortStep(port[p], s), port' = [port EXCEPT ![p] = s],
             hub \/ s = port[p]
      PROVE  StepOK
  <2>1. /\ port' = [q \in Ports |-> port'[q]]
        /\ \A q \in Ports : PortStep(port[q], port'[q])
        /\ hub \/ port' = port
    BY <1>1, <1>2, <1>4 DEF TypeOK
  <2>2. QED
    BY <1>3, <1>4, <2>1
<1>5. ASSUME UNCHANGED <<port, hub, comm>>, plug' \in [Ports -> DevOrNone],
             evq' \in [Ports -> Seq(Event)], hid' \in BOOLEAN,
             hidq' \in Seq({"ARRIVED", "LEFT"}), hw' \in [Ports -> BOOLEAN]
      PROVE  StepOK
  <2>1. TypeOK'
    BY <1>2, <1>5 DEF TypeOK
  <2>2. QED
    BY <1>1, <1>5, <2>1 DEF StepOK, IInv
<1>6. ASSUME HubPlug PROVE StepOK
  <2>1. hidq' \in Seq({"ARRIVED", "LEFT"}) /\ hw' \in [Ports -> BOOLEAN]
    BY <1>2, <1>6 DEF HubPlug, TypeOK
  <2>2. QED
    BY <1>2, <1>5, <1>6, <2>1 DEF HubPlug, TypeOK, libusb
<1>7. ASSUME HubUnplug PROVE StepOK
  <2>1. hidq' \in Seq({"ARRIVED", "LEFT"}) /\ hid' \in BOOLEAN /\ hw' \in [Ports -> BOOLEAN]
    <3>1. hidq' = Append(hidq, "LEFT") /\ hid' = FALSE /\ hw' = hw
      BY <1>7 DEF HubUnplug
    <3>2. hidq \in Seq({"ARRIVED", "LEFT"}) /\ hw \in [Ports -> BOOLEAN]
      BY <1>2 DEF TypeOK
    <3>3. hidq' \in Seq({"ARRIVED", "LEFT"})
      BY <3>1, <3>2
    <3>4. QED
      BY <3>1, <3>2, <3>3, Zenon
  <2>2. plug' \in [Ports -> DevOrNone]
    BY <1>7, Members DEF HubUnplug
  <2>3. ASSUME NEW p \in Ports, plug[p] # NoDev
        PROVE  Append(evq[p], [what |-> "LEFT", dev |-> plug[p]]) \in Seq(Event)
    <3>1. [what |-> "LEFT", dev |-> plug[p]] \in Event
      BY <1>2, <2>3 DEF TypeOK, Event, DevOrNone
    <3>2. QED
      BY <1>2, <3>1 DEF TypeOK
  <2>4. evq' \in [Ports -> Seq(Event)]
    BY <1>2, <1>7, <2>3 DEF HubUnplug, TypeOK
  <2>5. QED
    BY <1>5, <1>7, <2>1, <2>2, <2>4 DEF HubUnplug
<1>8. ASSUME NEW p \in Ports, Connect(p) PROVE StepOK
  <2>1. PICK d \in Devs : /\ plug' = [plug EXCEPT ![p] = d]
                          /\ evq' = [evq EXCEPT ![p] = Append(@, [what |-> "ARRIVED", dev |-> d])]
    BY <1>8 DEF Connect, Arrive
  <2>2. [what |-> "ARRIVED", dev |-> d] \in Event
    BY DEF Event
  <2>3. evq' \in [Ports -> Seq(Event)] /\ plug' \in [Ports -> DevOrNone]
    BY <1>2, <2>1, <2>2, Members DEF TypeOK
  <2>4. QED
    BY <1>2, <1>5, <1>8, <2>3 DEF Connect, hubstate, TypeOK
<1>9. ASSUME NEW p \in Ports, Disconnect(p) PROVE StepOK
  <2>1. [what |-> "LEFT", dev |-> plug[p]] \in Event
    BY <1>2, <1>9 DEF Disconnect, Leave, Event, DevOrNone, TypeOK
  <2>2. evq' \in [Ports -> Seq(Event)] /\ plug' \in [Ports -> DevOrNone]
    BY <1>2, <1>9, <2>1, Members DEF Disconnect, Leave, TypeOK
  <2>3. QED
    BY <1>2, <1>5, <1>9, <2>2 DEF Disconnect, hubstate, TypeOK
<1>10. ASSUME NEW p \in Ports, HubSwitch(p) PROVE StepOK
  <2>1. PICK i \in NextXfer(p) : /\ port' = [port EXCEPT ![p].xfers[i].applied = TRUE]
                                 /\ hw' = [hw EXCEPT ![p] = port[p].xfers[i].on]
    BY <1>10 DEF HubSwitch
  <2> DEFINE s == [port[p] EXCEPT !.xfers[i].applied = TRUE]
  <2>2. i \in DOMAIN port[p].xfers
    BY DEF NextXfer
  <2>3. PortStep(port[p], s)
    BY <1>1, <2>2, AppliedIs
  <2>4. port' = [port EXCEPT ![p] = s]
    BY <2>1
  <2>5. port[p].xfers \in Seq(Xfer) /\ port[p].xfers[i] \in Xfer
    BY <1>1, <2>2, FieldTypes, ElementOfSeq, LenProperties
  <2>6. hw' \in [Ports -> BOOLEAN]
    BY <1>2, <2>1, <2>5 DEF TypeOK, Xfer
  <2>7. hub
    BY <2>2 DEF IInv, Gone
  <2> HIDE DEF s
  <2>8. QED
    BY <1>2, <1>4, <1>10, <2>3, <2>4, <2>6, <2>7 DEF HubSwitch, libusb, TypeOK
<1>11. ASSUME DispatchHub PROVE StepOK
  <2>1. /\ ~Hung /\ comm # "double" /\ hidq # <<>> /\ hidq' = Tail(hidq)
        /\ UNCHANGED <<libusb, hid, hw>>
    BY <1>11 DEF DispatchHub, Running
  <2>2. hidq' \in Seq({"ARRIVED", "LEFT"})
    BY <1>2, <2>1 DEF TypeOK
  <2>3. CASE AddDevice
    BY <2>1, <2>2, <2>3, AddDeviceInv
  <2>4. CASE hub /\ ReleaseMemory(comm)
    BY <1>2, <2>1, <2>2, <2>4, ReleaseInv DEF TypeOK
  <2>5. CASE UNCHANGED <<port, hub, comm>>
    BY <1>2, <1>5, <2>1, <2>2, <2>5 DEF TypeOK, libusb
  <2>6. QED
    BY <1>11, <2>3, <2>4, <2>5 DEF DispatchHub, DelDevice
<1>12. ASSUME NEW p \in Ports, DispatchHotplug(p) PROVE StepOK
  <2> DEFINE e == Head(evq[p])
  <2>1. e \in Event /\ evq' \in [Ports -> Seq(Event)] /\ UNCHANGED <<plug, hubstate, hw>>
    BY <1>2, <1>12 DEF DispatchHotplug, TypeOK
  <2>2. e.dev \in Devs
    BY <2>1 DEF Event
  <2>3. port[p].listed # 2
    BY <1>12 DEF DispatchHotplug, Running, Hung
  <2>4. PICK s \in IF ~hub THEN {port[p]}
                   ELSE IF e.what = "ARRIVED" THEN ykush_device_added(port[p], e.dev)
                   ELSE {reset_port(port[p])} : port' = [port EXCEPT ![p] = s]
    BY <1>12 DEF DispatchHotplug
  <2> HIDE DEF e
  <2>5. PortStep(port[p], s) /\ (hub \/ s = port[p])
    BY <1>1, <2>2, <2>3, <2>4, DeviceAddedInv, ResetPortInv
  <2>6. QED
    BY <1>2, <1>4, <2>1, <2>4, <2>5 DEF TypeOK
<1>13. ASSUME CheckDevices PROVE StepOK
  <2>1. UNCHANGED <<libusb, hid, hidq, hw>> /\ ~Hung
    BY <1>13 DEF CheckDevices, Running
  <2>2. CASE AddDevice
    BY <1>2, <2>1, <2>2, AddDeviceInv DEF TypeOK
  <2>3. CASE hub /\ port' \in reported(port) /\ UNCHANGED <<hub, comm>>
    <3>1. /\ port' = [p \in Ports |-> port'[p]]
          /\ \A p \in Ports : PortStep(port[p], port'[p])
      BY <1>1, <1>2, <2>3, ReportedInv
    <3>2. QED
      BY <1>2, <1>3, <2>1, <2>3, <3>1 DEF libusb, hubstate, TypeOK
  <2>4. CASE UNCHANGED <<port, hub, comm>>
    BY <1>2, <1>5, <2>1, <2>4 DEF TypeOK, libusb
  <2>5. QED
    BY <1>13, <2>2, <2>3, <2>4 DEF CheckDevices
<1>14. ASSUME NEW p \in Ports, NEW ok \in BOOLEAN, PingDone(p, ok) PROVE StepOK
  <2>1. PICK s \in ykush_ping_cb(port[p], ok) : port' = [port EXCEPT ![p] = s]
    BY <1>14 DEF PingDone
  <2>2. port[p].pings > 0 /\ UNCHANGED <<libusb, hubstate, hw>>
    BY <1>14 DEF PingDone
  <2>3. PortStep(port[p], s) /\ hub
    BY <1>1, <2>1, <2>2, PingCbInv DEF IInv, Gone
  <2>4. QED
    BY <1>2, <1>4, <2>1, <2>2, <2>3 DEF libusb, TypeOK
<1>15. ASSUME NEW p \in Ports, NEW ok \in BOOLEAN, TransferDone(p, ok) PROVE StepOK
  <2> DEFINE s == transfer_done(port[p], ok)
  <2>1. /\ port[p].xfers # <<>> /\ UNCHANGED <<libusb, hubstate, hw>>
        /\ port' = [port EXCEPT ![p] = s] /\ port[p].listed # 2
    BY <1>15 DEF TransferDone, Running, Hung
  <2>2. PortStep(port[p], s) /\ hub
    BY <1>1, <2>1, TransferDoneInv DEF IInv, Gone
  <2> HIDE DEF s
  <2>3. QED
    BY <1>2, <1>4, <2>1, <2>2 DEF libusb, TypeOK
<1>16. ASSUME NEW S \in SUBSET Ports, CheckTimeouts(S) PROVE StepOK
  <2>1. /\ UNCHANGED <<libusb, hubstate, hw>> /\ port' = [p \in Ports |-> port'[p]]
        /\ \A p \in Ports : port'[p] \in IF p \in S THEN expire(port[p]) ELSE {port[p]}
        /\ \A p \in S : timeout_active(port[p]) /\ port[p].listed # 2
    BY <1>16 DEF CheckTimeouts, ForEach, Running, Hung
  <2>2. ASSUME NEW p \in Ports PROVE PortStep(port[p], port'[p])
    <3>1. CASE p \in S
      <4>1. port[p].listed = 1
        BY <1>1, <2>1, <3>1, FieldTypes DEF timeout_active
      <4>2. QED
        BY <1>1, <2>1, <3>1, <4>1, ExpireInv
    <3>2. CASE p \notin S
      BY <1>1, <2>1, <3>2
    <3>3. QED
      BY <3>1, <3>2
  <2>3. hub \/ port' = port
    <3>1. ~hub => S = {}
      BY <2>1 DEF IInv, Gone, timeout_active
    <3>2. QED
      BY <1>2, <2>1, <3>1 DEF TypeOK
  <2>4. QED
    BY <1>2, <1>3, <2>1, <2>2, <2>3 DEF libusb, TypeOK
<1>17. ASSUME NEW forced \in BOOLEAN, ResetAllPorts(forced) PROVE StepOK
  <2>1. /\ UNCHANGED <<libusb, hubstate, hw>> /\ port' = [p \in Ports |-> port'[p]] /\ hub
        /\ \A p \in Ports : port'[p] \in ykush_reset_if_needed(port[p], forced)
    BY <1>17 DEF ResetAllPorts, ForEach
  <2>2. \A p \in Ports : PortStep(port[p], port'[p])
    BY <1>1, <2>1, ResetIfNeededInv
  <2>3. QED
    BY <1>2, <1>3, <2>1, <2>2 DEF libusb, TypeOK
<1>18. ASSUME NEW p \in Ports, NEW cmd \in UserCmds, ClientCommand(p, cmd) PROVE StepOK
  <2>1. PICK o \in ykush_update_port(port[p], cmd) : port' = [port EXCEPT ![p] = o.port]
    BY <1>18 DEF ClientCommand
  <2>2. ~skip_command(port[p], cmd) /\ hub /\ UNCHANGED <<libusb, hubstate, hw>>
    BY <1>18 DEF ClientCommand
  <2>3. PortStep(port[p], o.port)
    BY <1>1, <2>1, <2>2, UpdateInv, MonitorAssumption
  <2>4. QED
    BY <1>2, <1>4, <2>1, <2>2, <2>3 DEF libusb, TypeOK
<1>19. CASE UNCHANGED vars
  BY <1>2, <1>5, <1>19 DEF vars, TypeOK
<1>20. QED
  BY <1>6, <1>7, <1>8, <1>9, <1>10, <1>11, <1>12, <1>13, <1>14, <1>15, <1>16, <1>17, <1>18,
     <1>19 DEF Next, CheckReset, SignalHandler
-----------------------------------------------------------------------------
(* The theorems.                                                           *)

\* The ports, the transfers in flight and the hub agree in every reachable state.
THEOREM Invariance == Safe => []IInv
<1>1. IInv /\ [Next]_vars => IInv'
  BY NextInv DEF StepOK
<1>2. QED
  BY InitInv, <1>1, PTL DEF Safe

\* The variables of YkushMonitor always have their types, for any number of
\* ports, transfers in flight and queued events.
THEOREM TypeCorrect == Safe => []TypeOK
<1>1. IInv => TypeOK
  BY DEF IInv
<1>2. QED
  BY Invariance, <1>1, PTL

\* A port in RESET always waits for a timer or for the callback of a transfer:
\* no order of resets, commands, failures and removals leaves it stuck.
THEOREM ResetUnderWayAlways == Safe => []ResetUnderWay
<1>1. IInv => ResetUnderWay
  BY DEF IInv, PortInv, QueueInv, ResetUnderWay, timeout_active, Resets, ResetsIn
<1>2. QED
  BY Invariance, <1>1, PTL

\* Nothing points to a port of a hub that has been given up.
THEOREM FreedHubIsForgottenAlways == Safe => []FreedHubIsForgotten
<1>1. IInv => FreedHubIsForgotten
  BY DEF IInv, Gone, FreedHubIsForgotten, timeout_active
<1>2. QED
  BY Invariance, <1>1, PTL

\* Whatever is sent to the hub and fails, a port's resets take turns until the
\* timeout list is broken: a transfer never overlaps another or a sound timer.
THEOREM OneResetAtATime ==
    Safe => [](Running => ResetsTakeTurns)
<1>1. IInv => (Running => ResetsTakeTurns)
  <2> SUFFICES ASSUME IInv, ~Hung, NEW p \in Ports
               PROVE  /\ \A i, j \in Resets(port[p]) : i = j
                      /\ Resets(port[p]) # {} => ~timeout_active(port[p])
    BY DEF Running, ResetsTakeTurns
  <2>1. port[p].listed \in 0 .. 2 /\ port[p].listed # 2
    BY FieldTypes DEF IInv, PortInv, FieldInv, Hung
  <2>2. QED
    BY <2>1 DEF IInv, PortInv, QueueInv, timeout_active, Resets, ResetsIn
<1>2. QED
  BY Invariance, <1>1, PTL

\* The YKUSH handler refines the safety part of PowerCycle.
THEOREM RefinesPowerCycle == Safe => PowerMoves
<1>1. Init => PC!Init
  BY DEF Init, PC!Init, Power, ykush_port
<1>2. ASSUME IInv, [Next]_vars
      PROVE  [PC!Next]_Power
  <2>1. IInv' /\ \A p \in Ports : PortStep(port[p], port'[p])
    BY <1>2, NextInv DEF StepOK
  <2>2. \A p \in Ports : FieldInv(port[p]) /\ FieldInv(port'[p])
    BY <1>2, <2>1 DEF IInv, PortInv
  <2>3. \A p \in Ports : Power[p] \in PC!States /\ Power'[p] \in PC!States
    BY <2>2, FieldTypes DEF FieldInv, Power, PC!States
  <2>4. \A p \in Ports : Power'[p] = Power[p] \/ <<Power[p], Power'[p]>> \in PC!Moves
    BY <2>1, <2>2, FieldTypes DEF FieldInv, PortStep, Power, PC!Moves
  <2>5. Power' \in [Ports -> PC!States]
    BY <2>3 DEF Power
  <2>6. QED
    BY <2>4, <2>5 DEF PC!Next
<1>3. QED
  BY Invariance, <1>1, <1>2, PTL DEF PowerMoves, Safe
-----------------------------------------------------------------------------
(***************************************************************************)
(* What the order of the hotplug events gives, as in GpioEventProofs; and  *)
(* that the daemon knows the power of its ports.                           *)
(***************************************************************************)

\* Nobody disables a port: then all transfers are those of resets.
NeverDisabled == "DISABLE" \notin UserCmds

OnlyResets(x) == \A i \in DOMAIN x : x[i].cb = "reset"

\* While a ping is in flight the timer is not running.
Sound(r) == r.mode = "PING" /\ r.pings > 0 => r.listed = 0 /\ r.pings = 1

Once(r) ==
    NeverDisabled => /\ r.enabled /\ r.listed # 2
                     /\ r.mode = "IDLE" => r.listed = 0
                     /\ OnlyResets(r.xfers)

EventInv(r) == Sound(r) /\ Once(r)

EInv ==
    /\ IInv
    /\ \A p \in Ports : Told(evq[p], plug[p], port[p].dev) /\ EventInv(port[p])
    /\ ~hub => \A p \in Ports : port[p].dev = NoDev

\* The callbacks other than those of transfers leave the power alone, and
\* append one transfer at most, when no reset is in flight.
Touched(r, s) ==
    /\ s.pwr = r.pwr
    /\ \/ s.xfers = r.xfers
       \/ ResetsIn(r.xfers) = {} /\ s.xfers = Append(r.xfers, NewXfer("reset", ~r.pwr))

LEMMA ResetQueue ==
    ASSUME NEW x \in Seq(Xfer), OnlyResets(x), \A i, j \in ResetsIn(x) : i = j
    PROVE  /\ ResetsIn(x) = {} => x = <<>>
           /\ x # <<>> => /\ DOMAIN x = {1} /\ Head(x) = x[1] /\ x[1] \in Xfer
                          /\ x[1].cb = "reset" /\ Tail(x) = <<>>
<1>1. Len(x) \in Nat /\ DOMAIN x = 1 .. Len(x) /\ (x = <<>> <=> Len(x) = 0)
  BY EmptySeq, LenProperties
<1>2. ResetsIn(x) = 1 .. Len(x)
  BY <1>1 DEF ResetsIn, OnlyResets
<1>3. Len(x) <= 1
  <2>1. CASE Len(x) > 1
    <3>1. 1 \in 1 .. Len(x) /\ 2 \in 1 .. Len(x)
      BY <1>1, <2>1
    <3>2. QED
      BY <1>2, <3>1
  <2>2. QED
    BY <1>1, <2>1
<1>4. ResetsIn(x) = {} => x = <<>>
  <2>1. Len(x) = 1 => 1 \in ResetsIn(x)
    BY <1>2
  <2>2. QED
    BY <1>1, <1>3, <2>1
<1>5. ASSUME x # <<>>
      PROVE  /\ DOMAIN x = {1} /\ Head(x) = x[1] /\ x[1] \in Xfer
             /\ x[1].cb = "reset" /\ Tail(x) = <<>>
  <2>1. Len(x) = 1 /\ DOMAIN x = {1}
    BY <1>1, <1>3, <1>5
  <2>2. x[1] \in Xfer /\ x[1].cb = "reset" /\ Head(x) = x[1]
    BY <2>1, ElementOfSeq DEF OnlyResets
  <2>3. Tail(x) \in Seq(Xfer) /\ Len(Tail(x)) = 0
    BY <1>5, <2>1, HeadTailProperties
  <2>4. Tail(x) = <<>>
    BY <2>3, EmptySeq
  <2>5. QED
    BY <2>1, <2>2, <2>4
<1>6. QED
  BY <1>4, <1>5

LEMMA OnlyResetsAppend ==
    ASSUME NEW x \in Seq(Xfer), OnlyResets(x), NEW on \in BOOLEAN
    PROVE  OnlyResets(Append(x, NewXfer("reset", on)))
<1> DEFINE e == NewXfer("reset", on)
           y == Append(x, e)
<1>1. e \in Xfer /\ e.cb = "reset"
  BY DEF NewXfer, Xfer
<1> HIDE DEF e
<1>2. /\ Len(y) = Len(x) + 1 /\ y[Len(x) + 1] = e /\ y \in Seq(Xfer)
      /\ \A i \in 1 .. Len(x) : y[i] = x[i]
      /\ Len(x) \in Nat /\ DOMAIN x = 1 .. Len(x)
  BY <1>1, AppendProperties, LenProperties
<1> HIDE DEF y
<1>3. DOMAIN y = 1 .. Len(x) + 1
  BY <1>2, LenProperties
<1>4. OnlyResets(y)
  BY <1>1, <1>2, <1>3 DEF OnlyResets
<1>5. QED
  BY <1>4 DEF y, e
-----------------------------------------------------------------------------
(* The functions that change a port.                                       *)

LEMMA RestartEvent ==
    ASSUME NEW r \in YkushPort, r.enabled, ResetsIn(r.xfers) = {},
           NeverDisabled => r.listed # 2 /\ OnlyResets(r.xfers),
           NEW o \in YkushRestart(r)
    PROVE  EventInv(o.port) /\ o.port.dev = r.dev /\ Touched(r, o.port)
<1> DEFINE s == o.port
           x == Append(r.xfers, NewXfer("reset", ~r.pwr))
<1>1. /\ s.enabled = TRUE /\ s.mode = "RESET" /\ s.dev = r.dev /\ s.pwr = r.pwr
      /\ s.xfers = r.xfers \/ s.xfers = x
  BY RestartIs, Zenon DEF Is
<1>2. r.listed # 2 => s.listed \in {0, 1}
  BY RestartIs, Zenon DEF Is
<1>3. NeverDisabled => OnlyResets(x)
  <2>1. (~r.pwr) \in BOOLEAN /\ r.xfers \in Seq(Xfer)
    BY FieldTypes
  <2>2. QED
    BY <2>1, OnlyResetsAppend
<1>4. Touched(r, s)
  BY <1>1, Zenon DEF Touched
<1> HIDE DEF s, x
<1>5. EventInv(s)
  BY <1>1, <1>2, <1>3 DEF EventInv, Sound, Once
<1>6. QED
  BY <1>1, <1>4, <1>5 DEF s

\* The port has no device, or the one that is reported.
LEMMA DeviceAddedEvent ==
    ASSUME NEW r \in YkushPort, PortInv(r), EventInv(r), NEW d \in Devs, r.dev \in {NoDev, d},
           NEW s \in ykush_device_added(r, d)
    PROVE  EventInv(s) /\ s.dev \in {r.dev, d} /\ Touched(r, s)
<1> DEFINE t == attached(r, d)
<1>1. Is(t, r.enabled, r.pwr, "PING", r.retrans, d, r.handle, r.pings,
         IF r.listed = 0 THEN 1 ELSE 2, r.xfers)
  BY AttachedIs
<1>2. \/ s = r
      \/ /\ r.enabled /\ r.mode # "RESET" /\ r.dev # d
         /\ s = t \/ \E o \in YkushRestart(t) : s = o.port
  BY DeviceAddedIs
<1> HIDE DEF t
<1>3. CASE s = r
  BY <1>3, Zenon DEF Touched
<1>4. CASE r.enabled /\ r.mode # "RESET" /\ r.dev # d
  <2>1. r.dev = NoDev /\ r.handle = NoDev /\ r.pings = 0 /\ ResetsIn(r.xfers) = {}
    BY <1>4, FieldTypes DEF PortInv, FieldInv, QueueInv
  <2>2. t \in YkushPort /\ t.enabled = r.enabled /\ t.mode = "PING" /\ t.dev = d
        /\ t.pings = 0 /\ t.xfers = r.xfers /\ t.pwr = r.pwr
    BY <1>1, <2>1, Zenon DEF Is
  <2>3. NeverDisabled => t.listed # 2 /\ OnlyResets(r.xfers)
    BY <1>1, <1>4, <2>1, FieldTypes DEF Is, EventInv, Once, PortInv, FieldInv, Modes
  <2>4. EventInv(t) /\ Touched(r, t)
    <3>1. Touched(r, t)
      BY <2>2, Zenon DEF Touched
    <3>2. QED
      BY <1>4, <2>2, <2>3, <3>1 DEF EventInv, Sound, Once
  <2>5. ASSUME NEW o \in YkushRestart(t)
        PROVE  EventInv(o.port) /\ o.port.dev = d /\ Touched(r, o.port)
    <3>1. EventInv(o.port) /\ o.port.dev = d /\ Touched(t, o.port)
      BY <1>4, <2>1, <2>2, <2>3, RestartEvent
    <3>2. Touched(r, o.port)
      BY <2>2, <3>1, Zenon DEF Touched
    <3>3. QED
      BY <3>1, <3>2
  <2>6. QED
    BY <1>2, <1>3, <2>2, <2>4, <2>5
<1>5. QED
  BY <1>2, <1>3, <1>4

LEMMA ResetPortEvent ==
    ASSUME NEW r \in YkushPort, PortInv(r), EventInv(r), r.listed # 2
    PROVE  /\ EventInv(reset_port(r)) /\ reset_port(r).dev = NoDev
           /\ Touched(r, reset_port(r))
<1> DEFINE t == reset_port(r)
<1>1. Is(t, r.enabled, r.pwr, r.mode, 0, NoDev, NoDev, 0,
         IF r.mode = "RESET" THEN r.listed ELSE 0, r.xfers)
  BY ResetPortIs DEF PortInv, FieldInv
<1> HIDE DEF t
<1>2. EventInv(t)
  BY <1>1 DEF Is, EventInv, Sound, Once
<1>3. Touched(r, t)
  BY <1>1, Zenon DEF Is, Touched
<1>4. QED
  BY <1>1, <1>2, <1>3 DEF Is, t

LEMMA SendPingEvent ==
    ASSUME NEW r \in YkushPort, r.enabled, r.mode = "PING", r.pings = 0, r.listed = 0,
           NeverDisabled => OnlyResets(r.xfers), NEW s \in send_ping(r)
    PROVE  EventInv(s) /\ s.dev = r.dev /\ Touched(r, s)
<1>1. s.enabled = r.enabled /\ s.mode = "PING" /\ s.dev = r.dev /\ s.pwr = r.pwr
      /\ s.xfers = r.xfers
  BY SendPingIs, Zenon DEF Is
<1>2. (s.listed = 0 /\ s.pings = 1) \/ (s.listed = 1 /\ s.pings = 0)
  BY SendPingIs DEF Is
<1>3. Touched(r, s)
  BY <1>1, Zenon DEF Touched
<1>4. QED
  BY <1>1, <1>2, <1>3 DEF EventInv, Sound, Once

LEMMA ExpireEvent ==
    ASSUME NEW r \in YkushPort, PortInv(r), EventInv(r), r.listed = 1, NEW s \in expire(r)
    PROVE  EventInv(s) /\ s.dev = r.dev /\ Touched(r, s)
<1> DEFINE t == del_timeout(r)
<1>1. Is(t, r.enabled, r.pwr, r.mode, r.retrans, r.dev, r.handle, r.pings, 0, r.xfers)
  BY DelIs DEF Is
<1>2. \/ ~r.enabled /\ s = t
      \/ r.enabled /\ r.mode = "PING" /\ s \in send_ping(t)
      \/ r.enabled /\ r.mode # "PING" /\ \E o \in YkushRestart(t) : s = o.port
  BY ExpireIs
<1> HIDE DEF t
<1>3. /\ t \in YkushPort /\ t.enabled = r.enabled /\ t.mode = r.mode /\ t.dev = r.dev
      /\ t.pings = r.pings /\ t.listed = 0 /\ t.xfers = r.xfers /\ t.pwr = r.pwr
  BY <1>1, Zenon DEF Is
<1>4. ASSUME Touched(t, s) PROVE Touched(r, s)
  BY <1>3, <1>4, Zenon DEF Touched
<1>5. ResetsIn(r.xfers) = {} /\ (NeverDisabled => OnlyResets(r.xfers))
  BY DEF PortInv, QueueInv, EventInv, Once
<1>6. CASE ~r.enabled /\ s = t
  <2>1. Touched(t, t)
    BY Zenon DEF Touched
  <2>2. EventInv(t)
    BY <1>3, <1>6 DEF EventInv, Sound, Once, PortInv, FieldInv
  <2>3. QED
    BY <1>3, <1>4, <1>6, <2>1, <2>2
<1>7. CASE r.enabled /\ r.mode = "PING" /\ s \in send_ping(t)
  <2>1. t.pings = 0
    BY <1>3, <1>7, FieldTypes DEF EventInv, Sound
  <2>2. QED
    BY <1>3, <1>4, <1>5, <1>7, <2>1, SendPingEvent
<1>8. CASE r.enabled /\ r.mode # "PING" /\ \E o \in YkushRestart(t) : s = o.port
  <2>1. PICK o \in YkushRestart(t) : s = o.port
    BY <1>8
  <2>2. /\ t.enabled /\ ResetsIn(t.xfers) = {}
        /\ NeverDisabled => t.listed # 2 /\ OnlyResets(t.xfers)
    BY <1>3, <1>5, <1>8
  <2>3. EventInv(o.port) /\ o.port.dev = t.dev /\ Touched(t, o.port)
    BY <1>3, <2>2, RestartEvent
  <2>4. QED
    BY <1>3, <1>4, <2>1, <2>3
<1>9. QED
  BY <1>2, <1>6, <1>7, <1>8

LEMMA PingCbEvent ==
    ASSUME NEW r \in YkushPort, PortInv(r), EventInv(r), r.listed # 2, r.pings > 0,
           NEW ok \in BOOLEAN, NEW s \in ykush_ping_cb(r, ok)
    PROVE  EventInv(s) /\ s.dev = r.dev /\ Touched(r, s)
<1>1. CASE /\ ~r.enabled \/ r.mode # "PING"
           /\ Is(s, r.enabled, r.pwr, r.mode, r.retrans, r.dev, r.handle, r.pings - 1, r.listed,
                 r.xfers)
  <2>1. s.mode # "PING"
    BY <1>1 DEF Is, PortInv, FieldInv
  <2>2. Touched(r, s)
    BY <1>1, Zenon DEF Is, Touched
  <2>3. QED
    BY <1>1, <2>1, <2>2 DEF Is, EventInv, Sound, Once
<1>2. ASSUME r.enabled, r.mode = "PING", NEW n \in Failures,
             Is(s, r.enabled, r.pwr, r.mode, n, r.dev, r.handle, r.pings - 1,
                IF r.listed = 0 THEN 1 ELSE 2, r.xfers)
      PROVE  EventInv(s) /\ s.dev = r.dev /\ Touched(r, s)
  <2>1. s.pings = 0 /\ s.listed = 1
    BY <1>2 DEF Is, EventInv, Sound
  <2>2. Touched(r, s)
    BY <1>2, Zenon DEF Is, Touched
  <2>3. QED
    BY <1>2, <2>1, <2>2 DEF Is, EventInv, Sound, Once
<1>3. ASSUME r.enabled, r.mode = "PING", NEW o \in YkushRestart(at_limit(r)), s = o.port
      PROVE  EventInv(s) /\ s.dev = r.dev /\ Touched(r, s)
  <2> DEFINE t == at_limit(r)
  <2>1. Is(t, r.enabled, r.pwr, r.mode, 0, r.dev, r.handle, r.pings - 1, r.listed, r.xfers)
    BY AtLimitIs
  <2> HIDE DEF t
  <2>2. /\ t \in YkushPort /\ t.enabled = r.enabled /\ t.dev = r.dev /\ t.pwr = r.pwr
        /\ t.listed = r.listed /\ t.xfers = r.xfers
    BY <2>1, Zenon DEF Is
  <2>3. ResetsIn(r.xfers) = {} /\ (NeverDisabled => OnlyResets(r.xfers))
    BY <1>3 DEF PortInv, QueueInv, EventInv, Once
  <2>4. EventInv(s) /\ s.dev = t.dev /\ Touched(t, s)
    BY <1>3, <2>2, <2>3, RestartEvent DEF t
  <2>5. Touched(r, s)
    BY <2>2, <2>4, Zenon DEF Touched
  <2>6. QED
    BY <2>2, <2>4, <2>5
<1>4. QED
  BY <1>1, <1>2, <1>3, PingCbIs

LEMMA RestartStepEvent ==
    ASSUME NEW r \in YkushPort, PortInv(r), EventInv(r), r.listed # 2, r.mode # "RESET",
           NEW o \in YkushRestart(r)
    PROVE  EventInv(o.port) /\ o.port.dev = r.dev /\ Touched(r, o.port)
<1>1. CASE r.enabled
  <2>1. ResetsIn(r.xfers) = {} /\ (NeverDisabled => OnlyResets(r.xfers))
    BY <1>1 DEF PortInv, QueueInv, EventInv, Once
  <2>2. QED
    BY <1>1, <2>1, RestartEvent
<1>2. CASE ~r.enabled
  <2>1. o.port = r /\ Touched(r, r)
    BY <1>2, RestartDisabled, Zenon DEF Touched
  <2>2. QED
    BY <2>1
<1>3. QED
  BY <1>1, <1>2

LEMMA ResetIfNeededEvent ==
    ASSUME NEW r \in YkushPort, PortInv(r), EventInv(r), r.listed # 2, NEW forced \in BOOLEAN,
           NEW s \in ykush_reset_if_needed(r, forced)
    PROVE  EventInv(s) /\ s.dev = r.dev /\ Touched(r, s)
<1>1. Touched(r, r)
  BY Zenon DEF Touched
<1>2. s = r \/ (r.mode # "RESET" /\ \E o \in YkushRestart(r) : s = o.port)
  BY DEF ykush_reset_if_needed, reset_if_needed
<1>3. QED
  BY <1>1, <1>2, RestartStepEvent

LEMMA UpdateEvent ==
    ASSUME NEW r \in YkushPort, PortInv(r), EventInv(r), r.listed # 2, NEW cmd \in UserCmds,
           ~skip_command(r, cmd), NEW o \in ykush_update_port(r, cmd)
    PROVE  /\ EventInv(o.port) /\ o.port.dev = r.dev
           /\ NeverDisabled => Touched(r, o.port)
<1>1. CASE cmd = "RESTART"
  <2>1. o \in YkushRestart(r) /\ r.mode # "RESET"
    BY <1>1 DEF YkushRestart, skip_command
  <2>2. QED
    BY <2>1, RestartStepEvent
<1>2. ASSUME NEW cb \in {"enable", "disable"}, NEW on \in BOOLEAN, NEW sent \in BOOLEAN,
             o = ykush_switch(r, cb, on, sent), ~NeverDisabled
      PROVE  EventInv(o.port) /\ o.port.dev = r.dev
  <2> DEFINE s == submitted(r, cb, on)
  <2>1. Is(s, r.enabled, r.pwr, r.mode, r.retrans, r.dev, r.handle, r.pings, r.listed,
           Append(r.xfers, NewXfer(cb, on)))
    BY <1>2, SubmittedIs
  <2>2. o.port \in {s, r}
    BY <1>2 DEF ykush_switch
  <2> HIDE DEF s
  <2>3. EventInv(s) /\ s.dev = r.dev
    BY <1>2, <2>1 DEF Is, EventInv, Sound, Once
  <2>4. QED
    BY <2>2, <2>3
<1>3. CASE cmd = "ENABLE"
  <2>1. \E sent \in BOOLEAN : o = ykush_switch(r, "enable", TRUE, sent)
    BY <1>3 DEF ykush_update_port, perform_transfer
  <2>2. ~NeverDisabled
    BY <1>3 DEF skip_command, EventInv, Once
  <2>3. QED
    BY <1>2, <2>1, <2>2
<1>4. CASE cmd = "DISABLE"
  <2>1. \E sent \in BOOLEAN : o = ykush_switch(r, "disable", FALSE, sent)
    BY <1>4 DEF ykush_update_port, perform_transfer
  <2>2. ~NeverDisabled
    BY <1>4 DEF NeverDisabled
  <2>3. QED
    BY <1>2, <2>1, <2>2
<1>5. QED
  BY <1>1, <1>3, <1>4, MonitorAssumption DEF Cmds

LEMMA TransferDoneEvent ==
    ASSUME NEW r \in YkushPort, PortInv(r), EventInv(r), r.listed # 2, r.xfers # <<>>,
           NEW ok \in BOOLEAN
    PROVE  EventInv(transfer_done(r, ok)) /\ transfer_done(r, ok).dev = r.dev
<1> DEFINE s == transfer_done(r, ok)
           e == Head(r.xfers)
           y == Tail(r.xfers)
<1>1. SUFFICES EventInv(s) /\ s.dev = r.dev
  OBVIOUS
<1>2. r.xfers \in Seq(Xfer) /\ (\A i, j \in ResetsIn(r.xfers) : i = j)
  BY FieldTypes DEF PortInv, QueueInv
<1>3. OnlyResets(<<>>)
  BY DEF OnlyResets
<1>4. NeverDisabled => /\ e.cb = "reset" /\ OnlyResets(y) /\ r.enabled
                       /\ r.mode = "IDLE" => r.listed = 0
  BY <1>2, <1>3, ResetQueue DEF EventInv, Once
<1>5. e.cb = "reset" => r.listed = 0 /\ (r.enabled => r.mode = "RESET")
  <2>1. InOrder(r.xfers, r.enabled) /\ r.enabled \in BOOLEAN
    BY FieldTypes DEF PortInv, QueueInv
  <2>2. e.cb = "reset" => ResetsIn(r.xfers) # {}
    BY <1>2, <2>1, CompleteQueue
  <2>3. QED
    BY <2>2, FieldTypes DEF PortInv, QueueInv
<1>6. \/ /\ e.cb = "reset" => ~r.enabled
         /\ Is(s, r.enabled, r.pwr, r.mode, r.retrans, r.dev, r.handle, r.pings, r.listed, y)
      \/ /\ e.cb = "enable"
         /\ Is(s, TRUE, TRUE, r.mode, r.retrans, r.dev, r.handle, r.pings, r.listed, y)
      \/ /\ e.cb = "disable"
         /\ Is(s, FALSE, FALSE, "IDLE", r.retrans, r.dev, r.handle, r.pings, r.listed, y)
      \/ /\ e.cb = "reset"
         /\ Is(s, r.enabled, r.pwr, "IDLE", r.retrans, r.dev, r.handle, r.pings, r.listed, y)
      \/ /\ e.cb = "reset" /\ r.enabled
         /\ Is(s, r.enabled, FALSE, r.mode, r.retrans, r.dev, r.handle, r.pings,
               IF r.listed = 0 THEN 1 ELSE 2, y)
      \/ /\ e.cb = "reset" /\ r.enabled
         /\ Is(s, r.enabled, TRUE, "IDLE", r.retrans, r.dev, r.handle, r.pings, r.listed, y)
  BY TransferDoneIs, Zenon
<1> HIDE DEF s, e, y
<1>7. s.dev = r.dev /\ s.pings = r.pings /\ s.xfers = y
  BY <1>6, Zenon DEF Is
<1>8. \/ s.mode = r.mode /\ s.listed = r.listed
      \/ s.mode = "IDLE" /\ s.listed = r.listed
      \/ s.mode = "RESET" /\ s.listed = 1
  BY <1>5, <1>6 DEF Is
<1>9. NeverDisabled => s.enabled
  BY <1>4, <1>6, Zenon DEF Is
<1>10. Sound(s)
  BY <1>7, <1>8 DEF EventInv, Sound
<1>11. Once(s)
  BY <1>4, <1>5, <1>7, <1>8, <1>9 DEF Once
<1>12. QED
  BY <1>7, <1>10, <1>11 DEF EventInv

LEMMA ReleasedEvent ==
    ASSUME NEW r \in YkushPort, PortInv(r), EventInv(r), r.listed # 2
    PROVE  EventInv(released(r)) /\ released(r).dev = NoDev
<1> DEFINE s == released(r)
<1>1. Is(s, r.enabled, r.pwr, "IDLE", 0, NoDev, NoDev, 0, 0, <<>>)
  BY ReleasedIs
<1> HIDE DEF s
<1>2. OnlyResets(<<>>)
  BY DEF OnlyResets
<1>3. EventInv(s) /\ s.dev = NoDev
  BY <1>1, <1>2 DEF Is, EventInv, Sound, Once
<1>4. QED
  BY <1>3 DEF s

LEMMA FreshEvent == EventInv(ykush_port) /\ ykush_port.dev = NoDev
BY DEF ykush_port, EventInv, Sound, Once, OnlyResets
-----------------------------------------------------------------------------
(* The power of the ports.                                                 *)

\* The daemon knows the power real of the port r: it is pwr, or the transfer in
\* flight asks for the opposite and the hub may have acted on it.
Linked(r, real) ==
    /\ r.xfers = <<>> => r.pwr = real
    /\ r.xfers # <<>> => /\ r.xfers[1].on = ~r.pwr
                         /\ real = IF r.xfers[1].applied THEN r.xfers[1].on ELSE r.pwr

LEMMA TouchedLinked ==
    ASSUME NEW r \in YkushPort, PortInv(r), OnlyResets(r.xfers), NEW real, Linked(r, real),
           NEW s, Touched(r, s)
    PROVE  Linked(s, real)
<1>1. CASE s.xfers = r.xfers
  BY <1>1, Zenon DEF Touched, Linked
<1>2. CASE ResetsIn(r.xfers) = {} /\ s.xfers = Append(r.xfers, NewXfer("reset", ~r.pwr))
  <2> DEFINE e == NewXfer("reset", ~r.pwr)
  <2>1. r.xfers = <<>> /\ (~r.pwr) \in BOOLEAN
    BY <1>2, FieldTypes, ResetQueue DEF PortInv, QueueInv
  <2>2. e.on = ~r.pwr /\ e.applied = FALSE
    BY Zenon DEF NewXfer
  <2> HIDE DEF e
  <2>3. Append(<<>>, e) # <<>> /\ Append(<<>>, e)[1] = e
    OBVIOUS
  <2>4. s.xfers # <<>> /\ s.xfers[1] = e
    BY <1>2, <2>1, <2>3, Zenon DEF e
  <2>5. s.pwr = r.pwr /\ real = r.pwr
    BY <2>1, Zenon DEF Touched, Linked
  <2>6. QED
    BY <2>2, <2>4, <2>5, Zenon DEF Linked
<1>3. QED
  BY <1>1, <1>2 DEF Touched

\* The hub acts on a transfer.
LEMMA AppliedLinked ==
    ASSUME NEW r \in YkushPort, PortInv(r), OnlyResets(r.xfers), NEW real, Linked(r, real),
           NEW i \in DOMAIN r.xfers,
           \A j \in DOMAIN r.xfers : r.xfers[j].applied <=> j < i
    PROVE  Linked([r EXCEPT !.xfers[i].applied = TRUE], r.xfers[i].on)
<1> DEFINE x == [r.xfers EXCEPT ![i].applied = TRUE]
           s == [r EXCEPT !.xfers[i].applied = TRUE]
<1>1. /\ r.xfers \in Seq(Xfer) /\ r.xfers # <<>>
      /\ \A j, k \in ResetsIn(r.xfers) : j = k
  BY FieldTypes DEF PortInv, QueueInv
<1>2. i = 1 /\ DOMAIN r.xfers = {1} /\ r.xfers[1] \in Xfer
  BY <1>1, ResetQueue
<1>3. s.xfers = x /\ s.pwr = r.pwr
  BY AppliedIs, Zenon DEF Is
<1>4. /\ x \in Seq(Xfer) /\ DOMAIN x = DOMAIN r.xfers
      /\ x[1] = [r.xfers[1] EXCEPT !.applied = TRUE]
  BY <1>1, <1>2, ApplyQueue
<1>5. x[1].on = r.xfers[1].on /\ x[1].applied = TRUE
  BY <1>2, <1>4 DEF Xfer
<1> HIDE DEF x
<1>6. x # <<>>
  BY <1>2, <1>4
<1> HIDE DEF s
<1>7. r.xfers[1].on = ~r.pwr
  BY <1>1 DEF Linked
<1>8. Linked(s, r.xfers[1].on)
  BY <1>3, <1>5, <1>6, <1>7, Zenon DEF Linked
<1>9. QED
  BY <1>2, <1>8 DEF s

\* The transfer completes.
LEMMA DoneLinked ==
    ASSUME NEW r \in YkushPort, PortInv(r), EventInv(r), NeverDisabled, r.xfers # <<>>,
           NEW real, Linked(r, real), Head(r.xfers).applied
    PROVE  Linked(transfer_done(r, TRUE), real)
<1> DEFINE s == transfer_done(r, TRUE)
<1>1. /\ r.xfers \in Seq(Xfer) /\ OnlyResets(r.xfers) /\ r.enabled /\ r.pwr \in BOOLEAN
      /\ \A j, k \in ResetsIn(r.xfers) : j = k
  BY FieldTypes DEF PortInv, QueueInv, EventInv, Once
<1>2. /\ Head(r.xfers) = r.xfers[1] /\ r.xfers[1] \in Xfer /\ r.xfers[1].cb = "reset"
      /\ Tail(r.xfers) = <<>>
  BY <1>1, ResetQueue
<1>3. real = ~r.pwr
  BY <1>2 DEF Linked
<1>4. s.xfers = <<>> /\ s.pwr = ~r.pwr
  <2>1. \/ r.pwr /\ s.pwr = FALSE /\ s.xfers = Tail(r.xfers)
        \/ ~r.pwr /\ s.pwr = TRUE /\ s.xfers = Tail(r.xfers)
    BY <1>1, <1>2, TransferDoneIs DEF Is
  <2>2. QED
    BY <1>1, <1>2, <2>1
<1> HIDE DEF s
<1>5. Linked(s, real)
  BY <1>3, <1>4, Zenon DEF Linked
<1>6. QED
  BY <1>5 DEF s
-----------------------------------------------------------------------------
(* The invariant EInv is inductive where the device list is current.       *)

\* The callbacks that work on the ports of a hub, other than those of transfers.
Callback ==
    \/ \E q \in Ports : DispatchHotplug(q)
    \/ CheckDevices /\ hub
    \/ \E q \in Ports, ok \in BOOLEAN : PingDone(q, ok)
    \/ \E S \in SUBSET Ports : CheckTimeouts(S)
    \/ \E forced \in BOOLEAN : ResetAllPorts(forced)
    \/ \E q \in Ports, cmd \in UserCmds : ClientCommand(q, cmd)

\* What an event that concerns the port p leaves of EInv.
GoodPort(p) == Told(evq'[p], plug'[p], port'[p].dev) /\ EventInv(port'[p])

LEMMA EventFacts ==
    ASSUME EInv, NEW p \in Ports
    PROVE  /\ port \in [Ports -> YkushPort] /\ evq \in [Ports -> Seq(Event)]
           /\ plug \in [Ports -> DevOrNone]
           /\ port[p] \in YkushPort /\ PortInv(port[p]) /\ EventInv(port[p])
           /\ Told(evq[p], plug[p], port[p].dev)
           /\ evq[p] \in Seq(Event) /\ plug[p] \in DevOrNone
           /\ Running => ~Hung /\ port[p].listed # 2
           /\ ~hub => Gone(port[p]) /\ port[p].dev = NoDev
BY DEF EInv, IInv, TypeOK, Running, Hung

LEMMA ToldNoDev ==
    ASSUME NEW q, NEW plugged, NEW dev, Told(q, plugged, dev)
    PROVE  Told(q, plugged, NoDev)
BY DEF Told

\* A device list that is read while no removal is queued.
LEMMA ReportedEvent ==
    ASSUME EInv, ListIsCurrent, "stale" \notin Faults, NEW p \in Ports, NEW r \in YkushPort,
           PortInv(r), EventInv(r), Told(evq[p], plug[p], r.dev),
           NEW s \in IF plug[p] = NoDev THEN {r} ELSE ykush_device_added(r, plug[p])
    PROVE  Told(evq[p], plug[p], s.dev) /\ EventInv(s) /\ Touched(r, s)
<1>1. CASE plug[p] = NoDev
  <2>1. s = r /\ Touched(r, r)
    BY <1>1, Zenon DEF Touched
  <2>2. QED
    BY <2>1
<1>2. CASE plug[p] # NoDev
  <2>1. ~StaleList(p) /\ plug[p] \in DevOrNone /\ evq[p] \in Seq(Event)
    BY EventFacts DEF ListIsCurrent
  <2>2. plug[p] \in Devs /\ \A i \in DOMAIN evq[p] : evq[p][i].what # "LEFT"
    BY <1>2, <2>1 DEF DevOrNone, StaleList, Pending
  <2>3. r.dev \in {NoDev, plug[p]} /\ Told(evq[p], plug[p], plug[p])
    BY <2>1, <2>2, CurrentList
  <2>4. EventInv(s) /\ s.dev \in {r.dev, plug[p]} /\ Touched(r, s)
    BY <1>2, <2>2, <2>3, DeviceAddedEvent
  <2>5. QED
    BY <2>3, <2>4
<1>3. QED
  BY <1>1, <1>2

LEMMA CallbackEvent ==
    ASSUME EInv, Callback, "stale" \notin Faults, NEW p \in Ports
    PROVE  /\ GoodPort(p) /\ UNCHANGED <<hubstate, hw>>
           /\ ~hub => port'[p] = port[p]
           /\ NeverDisabled => Touched(port[p], port'[p])
<1> DEFINE Goal == /\ GoodPort(p) /\ UNCHANGED <<hubstate, hw>>
                   /\ ~hub => port'[p] = port[p]
                   /\ NeverDisabled => Touched(port[p], port'[p])
<1> DEFINE r == port[p]
<1>1. /\ port \in [Ports -> YkushPort] /\ r \in YkushPort /\ PortInv(r) /\ EventInv(r)
      /\ Told(evq[p], plug[p], r.dev) /\ evq[p] \in Seq(Event) /\ plug[p] \in DevOrNone
      /\ evq \in [Ports -> Seq(Event)]
      /\ Running => ~Hung /\ r.listed # 2
      /\ ~hub => Gone(r) /\ r.dev = NoDev
  BY EventFacts
<1>2. Touched(r, r)
  BY Zenon DEF Touched
<1>3. ASSUME UNCHANGED <<libusb, hubstate, hw>>, EventInv(port'[p]), port'[p].dev = r.dev,
             ~hub => port'[p] = r, NeverDisabled => Touched(r, port'[p])
      PROVE  Goal
  BY <1>1, <1>3 DEF libusb, GoodPort
<1>4. ASSUME UNCHANGED <<libusb, hubstate, hw>>, port'[p] = r PROVE Goal
  BY <1>1, <1>2, <1>3, <1>4
<1>5. ASSUME NEW q \in Ports, DispatchHotplug(q) PROVE Goal
  <2> DEFINE e == Head(evq[q])
  <2>1. /\ evq[q] # <<>> /\ evq' = [evq EXCEPT ![q] = Tail(@)] /\ plug' = plug /\ Running
        /\ UNCHANGED <<hubstate, hw>>
    BY <1>5 DEF DispatchHotplug
  <2>2. PICK s \in IF ~hub THEN {port[q]}
                   ELSE IF e.what = "ARRIVED" THEN ykush_device_added(port[q], e.dev)
                   ELSE {reset_port(port[q])} : port' = [port EXCEPT ![q] = s]
    BY <1>5 DEF DispatchHotplug
  <2>3. CASE p # q
    <3>1. port'[p] = r /\ evq'[p] = evq[p]
      BY <1>1, <2>1, <2>2, <2>3
    <3>2. QED
      BY <1>1, <1>2, <2>1, <3>1 DEF GoodPort
  <2>4. CASE p = q
    <3>1. e \in Event /\ e = evq[p][1] /\ r.dev \in {NoDev, e.dev}
      BY <1>1, <2>1, <2>4 DEF Told
    <3>2. e.dev \in Devs
      BY <3>1 DEF Event
    <3>3. port'[p] = s /\ evq'[p] = Tail(evq[p]) /\ plug'[p] = plug[p]
      BY <1>1, <2>1, <2>2, <2>4
    <3> HIDE DEF e
    <3>4. /\ EventInv(s) /\ s.dev \in {NoDev, IF e.what = "ARRIVED" THEN e.dev ELSE NoDev}
          /\ Touched(r, s) /\ (~hub => s = r)
      <4>1. CASE ~hub
        BY <1>1, <1>2, <2>2, <2>4, <4>1
      <4>2. CASE hub /\ e.what = "ARRIVED"
        BY <1>1, <2>2, <2>4, <3>1, <3>2, <4>2, DeviceAddedEvent
      <4>3. CASE hub /\ e.what # "ARRIVED"
        BY <1>1, <2>1, <2>2, <2>4, <4>3, ResetPortEvent
      <4>4. QED
        BY <4>1, <4>2, <4>3
    <3>5. Told(Tail(evq[p]), plug[p], s.dev)
      BY <1>1, <2>1, <2>4, <3>4, DispatchTold DEF e
    <3>6. QED
      BY <2>1, <3>3, <3>4, <3>5 DEF GoodPort
  <2>5. QED
    BY <2>3, <2>4
<1>6. ASSUME CheckDevices, hub PROVE Goal
  <2>1. /\ ListIsCurrent /\ port' \in reported(port)
        /\ UNCHANGED <<libusb, hubstate, hw>>
    BY <1>6 DEF CheckDevices, hubstate
  <2>2. port'[p] \in IF plug[p] = NoDev THEN {r} ELSE ykush_device_added(r, plug[p])
    BY <2>1 DEF reported, ForEach
  <2>3. Told(evq[p], plug[p], port'[p].dev) /\ EventInv(port'[p]) /\ Touched(r, port'[p])
    BY <1>1, <2>1, <2>2, ReportedEvent
  <2>4. QED
    BY <1>6, <2>1, <2>3 DEF GoodPort, libusb
<1>7. ASSUME NEW q \in Ports, NEW ok \in BOOLEAN, PingDone(q, ok) PROVE Goal
  <2>1. PICK s \in ykush_ping_cb(port[q], ok) : port' = [port EXCEPT ![q] = s]
    BY <1>7 DEF PingDone
  <2>2. Running /\ port[q].pings > 0 /\ UNCHANGED <<libusb, hubstate, hw>>
    BY <1>7 DEF PingDone
  <2>3. CASE p = q
    <3>1. EventInv(s) /\ s.dev = r.dev /\ Touched(r, s) /\ port'[p] = s /\ hub
      BY <1>1, <2>1, <2>2, <2>3, PingCbEvent DEF Gone
    <3>2. QED
      BY <1>3, <2>2, <3>1
  <2>4. CASE p # q
    BY <1>1, <1>4, <2>1, <2>2, <2>4
  <2>5. QED
    BY <2>3, <2>4
<1>8. ASSUME NEW S \in SUBSET Ports, CheckTimeouts(S) PROVE Goal
  <2>1. /\ UNCHANGED <<libusb, hubstate, hw>> /\ Running
        /\ port'[p] \in IF p \in S THEN expire(r) ELSE {r}
        /\ p \in S => timeout_active(r)
    BY <1>8 DEF CheckTimeouts, ForEach
  <2>2. CASE p \in S
    <3>1. r.listed = 1 /\ hub
      BY <1>1, <2>1, <2>2, FieldTypes DEF timeout_active, Gone
    <3>2. EventInv(port'[p]) /\ port'[p].dev = r.dev /\ Touched(r, port'[p])
      BY <1>1, <2>1, <2>2, <3>1, ExpireEvent
    <3>3. QED
      BY <1>3, <2>1, <3>1, <3>2
  <2>3. CASE p \notin S
    BY <1>4, <2>1, <2>3
  <2>4. QED
    BY <2>2, <2>3
<1>9. ASSUME NEW forced \in BOOLEAN, ResetAllPorts(forced) PROVE Goal
  <2>1. /\ UNCHANGED <<libusb, hubstate, hw>> /\ Running /\ hub
        /\ port'[p] \in ykush_reset_if_needed(r, forced)
    BY <1>9 DEF ResetAllPorts, ForEach
  <2>2. EventInv(port'[p]) /\ port'[p].dev = r.dev /\ Touched(r, port'[p])
    BY <1>1, <2>1, ResetIfNeededEvent
  <2>3. QED
    BY <1>3, <2>1, <2>2
<1>10. ASSUME NEW q \in Ports, NEW cmd \in UserCmds, ClientCommand(q, cmd) PROVE Goal
  <2>1. PICK o \in ykush_update_port(port[q], cmd) : port' = [port EXCEPT ![q] = o.port]
    BY <1>10 DEF ClientCommand
  <2>2. Running /\ hub /\ ~skip_command(port[q], cmd) /\ UNCHANGED <<libusb, hubstate, hw>>
    BY <1>10 DEF ClientCommand
  <2>3. CASE p = q
    <3>1. /\ EventInv(o.port) /\ o.port.dev = r.dev /\ (NeverDisabled => Touched(r, o.port))
          /\ port'[p] = o.port
      BY <1>1, <2>1, <2>2, <2>3, UpdateEvent
    <3>2. QED
      BY <1>3, <2>2, <3>1
  <2>4. CASE p # q
    BY <1>1, <1>4, <2>1, <2>2, <2>4
  <2>5. QED
    BY <2>3, <2>4
<1> HIDE DEF Goal
<1>11. Goal
  BY <1>5, <1>6, <1>7, <1>8, <1>9, <1>10 DEF Callback
<1>12. QED
  BY <1>11 DEF Goal

LEMMA ReleaseEvent ==
    ASSUME EInv, Running, NEW handle, ReleaseMemory(handle), UNCHANGED libusb, NEW p \in Ports
    PROVE  GoodPort(p) /\ hub' = FALSE /\ port'[p].dev = NoDev
<1>1. port'[p] = released(port[p]) /\ hub' = FALSE
  BY DEF ReleaseMemory, released
<1>2. EventInv(port'[p]) /\ port'[p].dev = NoDev
  BY <1>1, EventFacts, ReleasedEvent
<1>3. Told(evq[p], plug[p], NoDev)
  BY EventFacts, ToldNoDev
<1>4. QED
  BY <1>1, <1>2, <1>3 DEF GoodPort, libusb

\* ykush_add_device: the hub was known, is known now, or could not be configured.
LEMMA AddDeviceEvent ==
    ASSUME EInv, Running, AddDevice, UNCHANGED libusb, "stale" \notin Faults, NEW p \in Ports
    PROVE  /\ GoodPort(p)
           /\ \/ hub /\ hub' /\ port'[p] = port[p]
              \/ ~hub /\ hub' /\ Touched(ykush_port, port'[p])
              \/ ~hub /\ ~hub' /\ port'[p].dev = NoDev
<1>1. CASE hub /\ UNCHANGED <<port, hub, comm>>
  BY <1>1, EventFacts DEF GoodPort, libusb
<1>2. CASE /\ ~hub /\ ListIsCurrent /\ hub' = TRUE
           /\ port' \in reported([q \in Ports |-> ykush_port])
  <2>1. port'[p] \in IF plug[p] = NoDev THEN {ykush_port}
                     ELSE ykush_device_added(ykush_port, plug[p])
    BY <1>2 DEF reported, ForEach
  <2>2. ykush_port \in YkushPort /\ PortInv(ykush_port) /\ EventInv(ykush_port)
        /\ ykush_port.dev = NoDev
    BY FreshPort, FreshEvent DEF Is
  <2>3. Told(evq[p], plug[p], ykush_port.dev)
    BY <2>2, EventFacts, ToldNoDev
  <2>4. /\ Told(evq[p], plug[p], port'[p].dev) /\ EventInv(port'[p])
        /\ Touched(ykush_port, port'[p])
    BY <1>2, <2>1, <2>2, <2>3, ReportedEvent
  <2>5. QED
    BY <1>2, <2>4 DEF GoodPort, libusb
<1>3. CASE ~hub /\ \E handle \in configure_hub_failures : ReleaseMemory(handle)
  BY <1>3, ReleaseEvent
<1>4. QED
  BY <1>1, <1>2, <1>3 DEF AddDevice

\* The steps of Next, with the callbacks taken together.
LEMMA NextCases ==
    ASSUME [Next]_vars
    PROVE  \/ HubPlug \/ HubUnplug \/ DispatchHub
           \/ \E p \in Ports : Connect(p) \/ Disconnect(p) \/ HubSwitch(p)
           \/ CheckDevices /\ ~hub
           \/ \E p \in Ports, ok \in BOOLEAN : TransferDone(p, ok)
           \/ Callback
           \/ UNCHANGED vars
BY DEF Next, Callback, CheckReset, SignalHandler

LEMMA EventInit == Init => EInv
<1> SUFFICES ASSUME Init PROVE EInv
  OBVIOUS
<1>1. IInv
  BY InitInv
<1>2. Told(<<>>, NoDev, NoDev)
  BY DEF Told
<1>3. QED
  BY <1>1, <1>2, FreshEvent DEF Init, EInv

LEMMA EventNext ==
    ASSUME EInv, [Next]_vars, "stale" \notin Faults
    PROVE  EInv'
<1>1. IInv /\ IInv'
  BY NextInv DEF EInv, StepOK
<1> DEFINE Goal(p) == GoodPort(p) /\ (~hub' => port'[p].dev = NoDev)
<1>2. SUFFICES ASSUME NEW p \in Ports PROVE Goal(p)
  BY <1>1 DEF EInv, GoodPort
<1> DEFINE r == port[p]
<1>3. /\ port \in [Ports -> YkushPort] /\ r \in YkushPort /\ PortInv(r) /\ EventInv(r)
      /\ Told(evq[p], plug[p], r.dev) /\ evq[p] \in Seq(Event) /\ plug[p] \in DevOrNone
      /\ evq \in [Ports -> Seq(Event)] /\ plug \in [Ports -> DevOrNone]
      /\ Running => ~Hung /\ r.listed # 2
      /\ ~hub => Gone(r) /\ r.dev = NoDev
  BY EventFacts
<1>4. ASSUME port' = port, hub' = hub, Told(evq'[p], plug'[p], r.dev) PROVE Goal(p)
  BY <1>3, <1>4 DEF GoodPort
<1>5. CASE HubPlug
  BY <1>3, <1>4, <1>5 DEF HubPlug, libusb
<1>6. CASE HubUnplug
  <2>1. /\ plug'[p] = NoDev /\ port' = port /\ hub' = hub
        /\ evq'[p] = IF plug[p] = NoDev THEN evq[p]
                     ELSE Append(evq[p], [what |-> "LEFT", dev |-> plug[p]])
    BY <1>6 DEF HubUnplug
  <2>2. CASE plug[p] = NoDev
    BY <1>3, <1>4, <2>1, <2>2
  <2>3. CASE plug[p] \in Devs
    <3>1. Told(evq'[p], NoDev, r.dev)
      BY <1>3, <2>1, <2>3, LeaveTold, DevsAssumption
    <3>2. QED
      BY <1>4, <2>1, <3>1
  <2>4. QED
    BY <1>3, <2>2, <2>3 DEF DevOrNone
<1>7. CASE DispatchHub
  <2>1. Running /\ UNCHANGED libusb
    BY <1>7 DEF DispatchHub
  <2>2. CASE AddDevice
    <3>1. GoodPort(p) /\ (~hub' => port'[p].dev = NoDev)
      BY <2>1, <2>2, AddDeviceEvent
    <3>2. QED
      BY <3>1
  <2>3. CASE hub /\ ReleaseMemory(comm)
    BY <2>1, <2>3, ReleaseEvent
  <2>4. CASE UNCHANGED <<port, hub, comm>>
    BY <1>3, <1>4, <2>1, <2>4 DEF libusb
  <2>5. QED
    BY <1>7, <2>2, <2>3, <2>4 DEF DispatchHub, DelDevice
<1>8. ASSUME NEW q \in Ports, Connect(q) PROVE Goal(p)
  <2>1. PICK d \in Devs : /\ plug' = [plug EXCEPT ![q] = d]
                          /\ evq' = [evq EXCEPT ![q] = Append(@, [what |-> "ARRIVED", dev |-> d])]
    BY <1>8 DEF Connect, Arrive
  <2>2. port' = port /\ hub' = hub /\ plug[q] = NoDev
    BY <1>8 DEF Connect, Arrive, hubstate
  <2>3. CASE p = q
    <3>1. plug'[p] = d /\ evq'[p] = Append(evq[p], [what |-> "ARRIVED", dev |-> d])
      BY <1>3, <2>1, <2>3
    <3>2. QED
      BY <1>3, <1>4, <2>2, <2>3, <3>1, ArriveTold
  <2>4. CASE p # q
    <3>1. plug'[p] = plug[p] /\ evq'[p] = evq[p]
      BY <1>3, <2>1, <2>4
    <3>2. QED
      BY <1>3, <1>4, <2>2, <3>1
  <2>5. QED
    BY <2>3, <2>4
<1>9. ASSUME NEW q \in Ports, Disconnect(q) PROVE Goal(p)
  <2>1. /\ plug' = [plug EXCEPT ![q] = NoDev]
        /\ evq' = [evq EXCEPT ![q] = Append(@, [what |-> "LEFT", dev |-> plug[q]])]
        /\ port' = port /\ hub' = hub /\ plug[q] \in Devs
    BY <1>3, <1>9 DEF Disconnect, Leave, DevOrNone, hubstate
  <2>2. CASE p = q
    <3>1. plug'[p] = NoDev /\ evq'[p] = Append(evq[p], [what |-> "LEFT", dev |-> plug[p]])
      BY <1>3, <2>1, <2>2
    <3>2. QED
      BY <1>3, <1>4, <2>1, <2>2, <3>1, LeaveTold
  <2>3. CASE p # q
    <3>1. plug'[p] = plug[p] /\ evq'[p] = evq[p]
      BY <1>3, <2>1, <2>3
    <3>2. QED
      BY <1>3, <1>4, <2>1, <3>1
  <2>4. QED
    BY <2>2, <2>3
<1>10. ASSUME NEW q \in Ports, HubSwitch(q) PROVE Goal(p)
  <2>1. PICK i \in NextXfer(q) : port' = [port EXCEPT ![q].xfers[i].applied = TRUE]
    BY <1>10 DEF HubSwitch
  <2>2. UNCHANGED <<libusb, hub>>
    BY <1>10 DEF HubSwitch, hubstate
  <2>3. CASE p # q
    <3>1. port'[p] = r
      BY <1>3, <2>1, <2>3
    <3>2. QED
      BY <1>3, <2>2, <3>1 DEF GoodPort, libusb
  <2>4. CASE p = q
    <3> DEFINE x == [r.xfers EXCEPT ![i].applied = TRUE]
               s == [r EXCEPT !.xfers[i].applied = TRUE]
    <3>1. i \in DOMAIN r.xfers /\ r.xfers \in Seq(Xfer)
      BY <1>3, <2>4, FieldTypes DEF NextXfer
    <3>2. Is(s, r.enabled, r.pwr, r.mode, r.retrans, r.dev, r.handle, r.pings, r.listed, x)
      BY <1>3, <3>1, AppliedIs
    <3>3. DOMAIN x = DOMAIN r.xfers /\ \A j \in DOMAIN r.xfers : x[j].cb = r.xfers[j].cb
      BY <3>1, ApplyQueue
    <3>4. port'[p] = s
      BY <1>3, <2>1, <2>4
    <3> HIDE DEF x, s
    <3>5. EventInv(s) /\ s.dev = r.dev
      BY <1>3, <3>2, <3>3 DEF Is, EventInv, Sound, Once, OnlyResets
    <3>6. QED
      BY <1>3, <2>2, <3>4, <3>5 DEF GoodPort, libusb
  <2>5. QED
    BY <2>3, <2>4
<1>11. CASE CheckDevices /\ ~hub
  <2>1. Running /\ UNCHANGED libusb /\ (AddDevice \/ UNCHANGED <<port, hub, comm>>)
    BY <1>11 DEF CheckDevices
  <2>2. CASE AddDevice
    BY <1>11, <2>1, <2>2, AddDeviceEvent
  <2>3. CASE UNCHANGED <<port, hub, comm>>
    BY <1>3, <1>4, <2>1, <2>3 DEF libusb
  <2>4. QED
    BY <2>1, <2>2, <2>3
<1>12. ASSUME NEW q \in Ports, NEW ok \in BOOLEAN, TransferDone(q, ok) PROVE Goal(p)
  <2>1. /\ Running /\ port[q].xfers # <<>> /\ UNCHANGED <<libusb, hub>>
        /\ port' = [port EXCEPT ![q] = transfer_done(port[q], ok)]
    BY <1>12 DEF TransferDone, hubstate
  <2>2. CASE p = q
    <3>1. EventInv(port'[p]) /\ port'[p].dev = r.dev
      BY <1>3, <2>1, <2>2, TransferDoneEvent
    <3>2. QED
      BY <1>3, <2>1, <3>1 DEF GoodPort, libusb
  <2>3. CASE p # q
    <3>1. port'[p] = r
      BY <1>3, <2>1, <2>3
    <3>2. QED
      BY <1>3, <2>1, <3>1 DEF GoodPort, libusb
  <2>4. QED
    BY <2>2, <2>3
<1>13. CASE Callback
  BY <1>3, <1>13, CallbackEvent DEF hubstate
<1>14. CASE UNCHANGED vars
  BY <1>3, <1>4, <1>14 DEF vars
<1> HIDE DEF Goal
<1>15. QED
  BY <1>5, <1>6, <1>7, <1>8, <1>9, <1>10, <1>11, <1>12, <1>13, <1>14, NextCases
-----------------------------------------------------------------------------
(* The daemon knows the power of its ports, where no transfer fails that   *)
(* the hub has acted on, ports start with power, and nobody disables them. *)

NoLeft(q) == \A i \in DOMAIN q : q[i] # "LEFT"

\* The events of the HID device tell whether it is there.
HubTold ==
    /\ hidq = <<>> /\ hub => hid
    /\ hidq # <<>> => (hid <=> hidq[Len(hidq)] = "ARRIVED")

HInv ==
    /\ HubTold
    /\ \A p \in Ports : IF hub /\ HubThere THEN Linked(port[p], hw[p]) ELSE hid => hw[p]

LEMMA HubQueueAppend ==
    ASSUME NEW q \in Seq({"ARRIVED", "LEFT"}), NEW e \in {"ARRIVED", "LEFT"}
    PROVE  /\ Append(q, e) # <<>> /\ Append(q, e)[Len(Append(q, e))] = e
           /\ NoLeft(Append(q, e)) => NoLeft(q) /\ e # "LEFT"
           /\ q # <<>> /\ NoLeft(q) => q[Len(q)] = "ARRIVED"
<1> DEFINE w == Append(q, e)
<1>1. /\ w \in Seq({"ARRIVED", "LEFT"}) /\ w # <<>> /\ Len(w) = Len(q) + 1
      /\ w[Len(q) + 1] = e
      /\ \A i \in 1 .. Len(q) : w[i] = q[i]
      /\ Len(q) \in Nat /\ (q = <<>> <=> Len(q) = 0) /\ DOMAIN q = 1 .. Len(q)
  BY AppendProperties, EmptySeq, LenProperties
<1> HIDE DEF w
<1>2. DOMAIN w = 1 .. Len(q) + 1
  BY <1>1, LenProperties
<1>3. NoLeft(w) => NoLeft(q) /\ e # "LEFT"
  BY <1>1, <1>2 DEF NoLeft
<1>4. \A i \in 1 .. Len(q) : q[i] \in {"ARRIVED", "LEFT"}
  BY ElementOfSeq
<1>5. q # <<>> /\ NoLeft(q) => q[Len(q)] = "ARRIVED"
  BY <1>1, <1>4 DEF NoLeft
<1>6. QED
  BY <1>1, <1>3, <1>5 DEF w

LEMMA HubQueueTail ==
    ASSUME NEW q \in Seq({"ARRIVED", "LEFT"}), q # <<>>
    PROVE  /\ Tail(q) = <<>> => q[Len(q)] = Head(q)
           /\ Tail(q) # <<>> => Tail(q)[Len(Tail(q))] = q[Len(q)]
           /\ Head(q) # "LEFT" => (NoLeft(Tail(q)) <=> NoLeft(q))
           /\ Head(q) \in {"ARRIVED", "LEFT"} /\ (NoLeft(q) => Head(q) # "LEFT")
<1> DEFINE w == Tail(q)
<1>1. Len(q) \in Nat /\ Len(q) > 0 /\ DOMAIN q = 1 .. Len(q)
  BY EmptySeq, LenProperties
<1>2. /\ w \in Seq({"ARRIVED", "LEFT"}) /\ Len(w) = Len(q) - 1
      /\ \A i \in 1 .. Len(w) : w[i] = q[i + 1]
  BY HeadTailProperties
<1>3. (w = <<>> <=> Len(w) = 0) /\ DOMAIN w = 1 .. Len(w)
  BY <1>2, EmptySeq, LenProperties
<1>4. Head(q) = q[1] /\ q[1] \in {"ARRIVED", "LEFT"}
  BY <1>1, ElementOfSeq
<1> HIDE DEF w
<1>5. \A i \in DOMAIN q : i = 1 \/ (i - 1 \in DOMAIN w /\ w[i - 1] = q[i])
  BY <1>1, <1>2, <1>3
<1>6. 1 \in DOMAIN q /\ \A i \in DOMAIN w : i + 1 \in DOMAIN q /\ w[i] = q[i + 1]
  BY <1>1, <1>2, <1>3
<1>7. Head(q) # "LEFT" => (NoLeft(w) <=> NoLeft(q))
  BY <1>4, <1>5, <1>6 DEF NoLeft
<1>8. w = <<>> => q[Len(q)] = Head(q)
  <2>1. \A m, n \in Nat : m = n - 1 /\ m = 0 => n = 1
    OBVIOUS
  <2>2. Len(w) \in Nat /\ Len(q) \in Nat /\ Len(w) = Len(q) - 1
    BY <1>1, <1>2, LenProperties
  <2>3. Len(w) = 0 => Len(q) = 1
    BY <2>1, <2>2, Zenon
  <2>4. QED
    BY <1>3, <1>4, <2>3, Zenon
<1>9. w # <<>> => w[Len(w)] = q[Len(q)]
  BY <1>1, <1>2, <1>3
<1>10. QED
  BY <1>4, <1>6, <1>7, <1>8, <1>9 DEF w, NoLeft

\* Where the daemon knows the power of the port p, or may rely on its being on.
KnownPower(p) == IF hub /\ HubThere THEN Linked(port[p], hw[p]) ELSE hid => hw[p]

LEMMA PowerInit == Init => HInv
BY DEF Init, HInv, HubTold

\* A hub that is found has power on all its ports.
LEMMA FoundLinked ==
    ASSUME EInv, NEW p \in Ports, Running, AddDevice, UNCHANGED libusb, hid' = hid, hw' = hw,
           "stale" \notin Faults, KnownPower(p), HubThere' <=> HubThere
    PROVE  KnownPower(p)'
<1>1. \/ hub /\ hub' /\ port'[p] = port[p]
      \/ ~hub /\ hub' /\ Touched(ykush_port, port'[p])
      \/ ~hub /\ ~hub'
  BY AddDeviceEvent
<1>2. CASE hub /\ hub' /\ port'[p] = port[p]
  BY <1>2 DEF KnownPower
<1>3. CASE ~hub /\ ~hub'
  BY <1>3 DEF KnownPower
<1>4. CASE ~hub /\ hub' /\ Touched(ykush_port, port'[p])
  <2>1. hid => hw[p]
    BY <1>4 DEF KnownPower
  <2>2. CASE ~HubThere
    BY <2>1, <2>2 DEF KnownPower
  <2>3. CASE HubThere
    <3>1. hw[p] = TRUE
      BY <2>1, <2>3 DEF HubThere, EInv, IInv, TypeOK
    <3>2. /\ ykush_port \in YkushPort /\ PortInv(ykush_port)
          /\ ykush_port.xfers = <<>> /\ ykush_port.pwr = TRUE
      BY FreshPort, Zenon DEF Is
    <3>3. OnlyResets(ykush_port.xfers)
      BY <3>2 DEF OnlyResets
    <3>4. Linked(ykush_port, hw[p])
      BY <3>1, <3>2, Zenon DEF Linked
    <3>5. Linked(port'[p], hw[p])
      BY <1>4, <3>2, <3>3, <3>4, TouchedLinked
    <3>6. QED
      BY <1>4, <2>3, <3>5 DEF KnownPower
  <2>4. QED
    BY <2>2, <2>3
<1>5. QED
  BY <1>1, <1>2, <1>3, <1>4

LEMMA PowerNext ==
    ASSUME EInv, HInv, [Next]_vars, NeverDisabled,
           "stale" \notin Faults, "xfer" \notin Faults, "off" \notin Faults
    PROVE  HInv'
<1>1. TypeOK /\ hidq \in Seq({"ARRIVED", "LEFT"}) /\ hid \in BOOLEAN /\ hub \in BOOLEAN
  BY DEF EInv, IInv, TypeOK
<1>2. HubTold /\ \A p \in Ports : KnownPower(p)
  BY DEF HInv, KnownPower
<1>3. HubThere <=> hid /\ NoLeft(hidq)
  BY DEF HubThere, NoLeft
<1>4. HubThere' <=> hid' /\ NoLeft(hidq')
  BY DEF HubThere, NoLeft
<1>5. ASSUME UNCHANGED <<hid, hidq, hub>> PROVE HubTold' /\ (HubThere' <=> HubThere)
  BY <1>2, <1>5 DEF HubTold, HubThere
<1>6. CASE HubPlug
  <2>1. /\ ~hid /\ hid' = TRUE /\ hidq' = Append(hidq, "ARRIVED") /\ hub' = hub
        /\ \A p \in Ports : hw'[p]
    BY <1>6 DEF HubPlug
  <2>2. /\ hidq' # <<>> /\ hidq'[Len(hidq')] = "ARRIVED"
        /\ NoLeft(hidq') => NoLeft(hidq)
        /\ hidq # <<>> /\ NoLeft(hidq) => hidq[Len(hidq)] = "ARRIVED"
    BY <1>1, <2>1, HubQueueAppend
  <2>3. HubTold'
    BY <2>1, <2>2 DEF HubTold
  <2>4. ~(hub' /\ HubThere')
    BY <1>2, <1>4, <2>1, <2>2 DEF HubTold
  <2>5. QED
    BY <2>1, <2>3, <2>4 DEF HInv
<1>7. CASE HubUnplug
  <2>1. hid' = FALSE /\ hidq' = Append(hidq, "LEFT")
    BY <1>7 DEF HubUnplug
  <2>2. hidq' # <<>> /\ hidq'[Len(hidq')] = "LEFT"
    BY <1>1, <2>1, HubQueueAppend
  <2>3. HubTold'
    BY <2>1, <2>2 DEF HubTold
  <2>4. QED
    BY <1>4, <2>1, <2>3 DEF HInv
<1>8. CASE UNCHANGED <<port, hubstate, hw>>
  <2>1. UNCHANGED <<hid, hidq, hub>>
    BY <1>8 DEF hubstate
  <2>2. QED
    BY <1>2, <1>5, <1>8, <2>1 DEF HInv, KnownPower, hubstate
<1>9. ASSUME NEW q \in Ports, HubSwitch(q) PROVE HInv'
  <2>1. PICK i \in NextXfer(q) : /\ port' = [port EXCEPT ![q].xfers[i].applied = TRUE]
                                 /\ hw' = [hw EXCEPT ![q] = port[q].xfers[i].on]
    BY <1>9 DEF HubSwitch
  <2>2. UNCHANGED <<hid, hidq, hub>> /\ HubThere
    BY <1>9 DEF HubSwitch, hubstate
  <2>3. port[q].xfers # <<>> /\ hub
    <3>1. i \in DOMAIN port[q].xfers
      BY DEF NextXfer
    <3>2. port[q].xfers # <<>>
      BY <3>1
    <3>3. QED
      BY <3>2, EventFacts DEF Gone
  <2>4. ASSUME NEW p \in Ports PROVE Linked(port'[p], hw'[p])
    <3>1. CASE p # q
      <4>1. port'[p] = port[p] /\ hw'[p] = hw[p]
        BY <1>1, <2>1, <3>1 DEF TypeOK
      <4>2. QED
        BY <1>2, <2>2, <2>3, <4>1 DEF KnownPower
    <3>2. CASE p = q
      <4> DEFINE r == port[p]
      <4>1. /\ r \in YkushPort /\ PortInv(r) /\ OnlyResets(r.xfers) /\ Linked(r, hw[p])
        BY <1>2, <2>2, <2>3, <3>2, EventFacts DEF EventInv, Once, KnownPower
      <4>2. i \in DOMAIN r.xfers /\ \A j \in DOMAIN r.xfers : r.xfers[j].applied <=> j < i
        BY <3>2 DEF NextXfer
      <4>3. Linked([r EXCEPT !.xfers[i].applied = TRUE], r.xfers[i].on)
        BY <4>1, <4>2, AppliedLinked
      <4>4. port'[p] = [r EXCEPT !.xfers[i].applied = TRUE] /\ hw'[p] = r.xfers[i].on
        BY <1>1, <2>1, <3>2 DEF TypeOK
      <4>5. QED
        BY <4>3, <4>4
    <3>3. QED
      BY <3>1, <3>2
  <2>5. QED
    BY <1>5, <2>2, <2>3, <2>4 DEF HInv
<1>10. CASE DispatchHub
  <2>1. /\ Running /\ hidq # <<>> /\ hidq' = Tail(hidq) /\ UNCHANGED <<libusb, hid, hw>>
        /\ IF Head(hidq) = "ARRIVED" THEN AddDevice ELSE DelDevice
    BY <1>10 DEF DispatchHub
  <2>2. /\ Tail(hidq) = <<>> => hidq[Len(hidq)] = Head(hidq)
        /\ Tail(hidq) # <<>> => Tail(hidq)[Len(Tail(hidq))] = hidq[Len(hidq)]
        /\ Head(hidq) # "LEFT" => (NoLeft(Tail(hidq)) <=> NoLeft(hidq))
        /\ Head(hidq) \in {"ARRIVED", "LEFT"} /\ (NoLeft(hidq) => Head(hidq) # "LEFT")
    BY <1>1, <2>1, HubQueueTail
  <2>3. Head(hidq) = "LEFT" => ~hub'
    BY <2>1 DEF DelDevice, ReleaseMemory
  <2>4. HubTold'
    BY <1>2, <2>1, <2>2, <2>3 DEF HubTold
  <2>5. ASSUME NEW p \in Ports PROVE KnownPower(p)'
    <3>1. CASE Head(hidq) = "ARRIVED"
      <4>1. HubThere' <=> HubThere
        BY <1>3, <1>4, <2>1, <2>2, <3>1
      <4>2. QED
        BY <1>2, <2>1, <3>1, <4>1, FoundLinked
    <3>2. CASE Head(hidq) = "LEFT"
      <4>1. ~HubThere
        BY <1>3, <2>2, <3>2
      <4>2. hid => hw[p]
        BY <1>2, <4>1 DEF KnownPower
      <4>3. QED
        BY <2>1, <2>3, <3>2, <4>2 DEF KnownPower
    <3>3. QED
      BY <2>2, <3>1, <3>2
  <2>6. QED
    BY <2>4, <2>5 DEF HInv, KnownPower
<1>11. CASE CheckDevices /\ ~hub
  <2>1. /\ Running /\ UNCHANGED <<libusb, hid, hidq, hw>>
        /\ (hid /\ AddDevice) \/ UNCHANGED <<port, hub, comm>>
    BY <1>11 DEF CheckDevices
  <2>2. CASE hid /\ AddDevice
    <3>1. HubTold' /\ (HubThere' <=> HubThere)
      BY <1>2, <2>1, <2>2 DEF HubTold, HubThere
    <3>2. \A p \in Ports : KnownPower(p)'
      BY <1>2, <2>1, <2>2, <3>1, FoundLinked
    <3>3. QED
      BY <3>1, <3>2 DEF HInv, KnownPower
  <2>3. CASE UNCHANGED <<port, hub, comm>>
    BY <1>8, <2>1, <2>3 DEF hubstate
  <2>4. QED
    BY <2>1, <2>2, <2>3
<1>12. ASSUME NEW q \in Ports, NEW ok \in BOOLEAN, TransferDone(q, ok) PROVE HInv'
  <2>1. /\ port[q].xfers # <<>> /\ UNCHANGED <<hid, hidq, hub, hw>>
        /\ IF ok THEN Head(port[q].xfers).applied ELSE ~HubThere
        /\ port' = [port EXCEPT ![q] = transfer_done(port[q], ok)]
    BY <1>12 DEF TransferDone, hubstate
  <2>2. ASSUME NEW p \in Ports PROVE KnownPower(p)'
    <3>1. CASE p # q \/ ~HubThere
      <4>1. p # q => port'[p] = port[p]
        BY <1>1, <2>1 DEF TypeOK
      <4>2. QED
        BY <1>2, <1>5, <2>1, <3>1, <4>1 DEF KnownPower
    <3>2. CASE p = q /\ HubThere
      <4> DEFINE r == port[p]
      <4>1. /\ r \in YkushPort /\ PortInv(r) /\ EventInv(r) /\ r.xfers # <<>>
            /\ (hub => Linked(r, hw[p])) /\ (~hub => Gone(r)) /\ Head(r.xfers).applied
            /\ ok = TRUE
        BY <1>2, <2>1, <3>2, EventFacts DEF KnownPower
      <4>2. hub
        BY <4>1 DEF Gone
      <4>3. Linked(transfer_done(r, TRUE), hw[p])
        BY <4>1, <4>2, DoneLinked
      <4>4. port'[p] = transfer_done(r, TRUE)
        BY <1>1, <2>1, <3>2, <4>1 DEF TypeOK
      <4>5. QED
        BY <1>5, <2>1, <3>2, <4>2, <4>3, <4>4 DEF KnownPower
    <3>3. QED
      BY <3>1, <3>2
  <2>3. QED
    BY <1>5, <2>1, <2>2 DEF HInv, KnownPower
<1>13. CASE Callback
  <2>1. ASSUME NEW p \in Ports
        PROVE  UNCHANGED <<hid, hidq, hub, hw>> /\ HubTold' /\ KnownPower(p)'
    <3>1. UNCHANGED <<hid, hidq, hub, hw>> /\ Touched(port[p], port'[p])
      BY <1>13, CallbackEvent DEF hubstate
    <3>2. HubTold' /\ (HubThere' <=> HubThere)
      BY <1>5, <3>1
    <3>3. port[p] \in YkushPort /\ PortInv(port[p]) /\ OnlyResets(port[p].xfers)
      BY EventFacts DEF EventInv, Once
    <3>4. Linked(port[p], hw[p]) => Linked(port'[p], hw[p])
      BY <3>1, <3>3, TouchedLinked
    <3>5. QED
      BY <1>2, <3>1, <3>2, <3>4 DEF KnownPower
  <2>2. HubTold'
    <3>1. UNCHANGED <<hid, hidq, hub>>
      BY <1>13 DEF Callback, DispatchHotplug, CheckDevices, PingDone, CheckTimeouts,
                   ResetAllPorts, ClientCommand, hubstate
    <3>2. QED
      BY <1>5, <3>1
  <2>3. QED
    BY <2>1, <2>2 DEF HInv, KnownPower
<1>14. ASSUME NEW q \in Ports, Connect(q) \/ Disconnect(q) PROVE HInv'
  BY <1>8, <1>14 DEF Connect, Disconnect
<1>15. CASE UNCHANGED vars
  BY <1>8, <1>15 DEF vars, hubstate
<1>16. QED
  BY <1>6, <1>7, <1>9, <1>10, <1>11, <1>12, <1>13, <1>14, <1>15, NextCases
-----------------------------------------------------------------------------
(* The theorems that rest on the order of the events.                      *)

\* The hub and its ports follow the events of their paths, if no stale list is read.
THEOREM EventInvariance ==
    ASSUME "stale" \notin Faults
    PROVE  Safe => []EInv
<1>1. EInv /\ [Next]_vars => EInv'
  BY EventNext
<1>2. QED
  BY EventInit, <1>1, PTL DEF Safe

\* No port of a hub gets onto the timeout list twice, unless a client disables
\* ports (ykush_disable_cb leaves the timer running) or a stale list is read:
\* whatever transfers, pings and hubs fail.
THEOREM TimersListedOnceAlways ==
    ASSUME "stale" \notin Faults, "DISABLE" \notin UserCmds
    PROVE  Safe => []TimersListedOnce
<1>1. EInv => TimersListedOnce
  <2> SUFFICES ASSUME EInv, NEW p \in Ports PROVE port[p].listed < 2
    BY DEF TimersListedOnce
  <2>1. port[p].listed \in 0 .. 2 /\ port[p].listed # 2
    BY EventFacts, FieldTypes DEF EventInv, Once, NeverDisabled
  <2>2. QED
    BY <2>1
<1>2. QED
  BY EventInvariance, <1>1, PTL

\* A port's power is switched one transfer at a time and the daemon knows the
\* outcome, where a transfer fails only because the hub has left, hubs come with
\* their ports on, and no client disables ports.
THEOREM SwitchingIsSoundAlways ==
    ASSUME "stale" \notin Faults, "xfer" \notin Faults, "off" \notin Faults,
           "DISABLE" \notin UserCmds
    PROVE  Safe => []SwitchingIsSound
<1>1. EInv /\ HInv /\ [Next]_vars => HInv'
  BY PowerNext DEF NeverDisabled
<1>2. EInv /\ HInv => SwitchingIsSound
  <2> SUFFICES ASSUME EInv, HInv PROVE SwitchingIsSound
    OBVIOUS
  <2>1. TypeOK
    BY DEF EInv, IInv
  <2>2. ASSUME NEW p \in Ports
        PROVE  /\ \A i, j \in Resets(port[p]) : i = j
               /\ Resets(port[p]) # {} => ~timeout_active(port[p])
    <3>1. port[p].listed \in 0 .. 2 /\ port[p].listed # 2 /\ PortInv(port[p])
      BY EventFacts, FieldTypes DEF EventInv, Once, NeverDisabled
    <3>2. QED
      BY <3>1 DEF PortInv, QueueInv, timeout_active, Resets, ResetsIn
  <2>3. PowerStateIsReal
    BY DEF HInv, PowerStateIsReal, Linked
  <2>4. QED
    BY <2>1, <2>2, <2>3 DEF SwitchingIsSound, ResetsTakeTurns
<1>3. QED
  BY EventInvariance, PowerInit, <1>1, <1>2, PTL DEF Safe
=============================================================================
