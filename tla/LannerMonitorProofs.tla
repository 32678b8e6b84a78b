------------------------ MODULE LannerMonitorProofs ------------------------
(***************************************************************************)
(* Safety of LannerMonitor for every set of ports, devices and foreign     *)
(* bits and every length of a command.  The invariant has two parts: where *)
(* the exchange with the MCU stands, which is about the shared structure   *)
(* and the line only, and what the masks in it say about the ports.        *)
(***************************************************************************)
EXTENDS LannerMonitor, UsbMonitorProofs

\* Where the exchange with the MCU stands: nothing is on the line; a command is
\* being written; it is written; its answer a is there, or all but the newline
\* is read.
Quiet(m) == m.tx = <<>> /\ m.rx = <<>> /\ m.buf = <<>> /\ m.progress = 0 /\ ~m.out
Sending(m) == m.tx = <<>> /\ m.rx = <<>> /\ m.buf = <<>> /\ m.out
Sent(m) == m.tx = <<m.cmd>> /\ m.rx = <<>> /\ m.buf = <<>> /\ m.progress = 0 /\ ~m.out
Answered(m, a) ==
    /\ m.tx = <<>> /\ m.progress = 0 /\ ~m.out
    /\ \/ m.rx = <<a, NL>> /\ m.buf = <<>>
       \/ m.rx = <<NL>> /\ m.buf = <<a>>

Talking == {"GET_VERSION", "GET_DIGITAL_OUT", "SET_DIGITAL_OUT"}

\* The command of each state, and the answer to it of an MCU that applies dout.
Asked(m) ==
    IF m.state = "SET_DIGITAL_OUT" THEN [what |-> "SET", mask |-> m.to_write]
    ELSE Plain(IF m.state = "GET_VERSION" THEN "VERSION" ELSE "GET")

Reply(m, dout) ==
    IF m.state = "GET_DIGITAL_OUT" THEN [what |-> "GET", mask |-> dout]
    ELSE Plain(IF m.state = "GET_VERSION" THEN "VERSION" ELSE "OK")

\* One command is under way, and it is the one of the state.
Exchange(m, dout) ==
    /\ m.timer = 0 /\ m.cmd = Asked(m)
    /\ \/ Sending(m) \/ Sent(m)
       \/ Answered(m, Reply(m, dout)) \/ Answered(m, Plain("ERROR"))

\* The first half of a restart is done, and the timer is running for the other.
HalfWay(m) == m.state = "SET_DIGITAL_OUT" /\ m.timer = 1 /\ Quiet(m)

McuInv(m, dout) ==
    /\ m \in Mcu
    /\ m.locked <=> m.state \notin {"IDLE", "PENDING"}
    /\ m.pending # {} <=> m.state \notin {"IDLE", "UPDATE_DONE"}
    /\ m.state = "IDLE" => Quiet(m) /\ ~m.itr /\ m.timer = 0
    /\ m.state = "PENDING" => /\ Quiet(m) /\ (IF m.itr THEN m.timer = 0 ELSE m.timer \in {0, 1})
                              /\ "interrupt" \notin Faults => m.itr \/ m.timer = 1
    /\ m.state = "UPDATE_DONE" => Quiet(m) /\ m.itr /\ m.timer = 0
    /\ m.state \in Talking => ~m.itr /\ (HalfWay(m) \/ Exchange(m, dout))

\* The mask is what the ports P and the other program believe.
Real(P, mask, theirs) ==
    mask \cap Foreign = theirs /\ \A p \in Ports : P[p].pwr <=> p \notin mask

\* The MCU has applied the mask and the ports do not know yet.
Applied(m) == m.timer = 0 /\ Answered(m, Plain("OK"))

\* What was read, what is written and what the MCU does; the ports learn of a new
\* mask with the answer.
MaskInv(P, m, b) ==
    IF m.state = "SET_DIGITAL_OUT"
    THEN /\ Real(P, m.bitmask, b.theirs)
         /\ m.timer = 0 => m.to_write = create_mcu_bitmask([port |-> P, mcu |-> m])
         /\ b.dout = IF Applied(m) THEN m.to_write ELSE m.bitmask
    ELSE Real(P, b.dout, b.theirs)

\* A command that is registered can be carried out; a port that is off, or in
\* RESET, is registered or was disabled by a client.
CommandInv(r, registered) ==
    /\ registered /\ r.cur = "RESTART" => r.rcmd \in {"ENABLE", "DISABLE"}
    /\ r.pwr \/ r.cur = "DISABLE" \/ registered
    /\ r.mode = "RESET" => r.cur = "DISABLE" \/ registered

StateInv(P, m, b) ==
    /\ P \in [Ports -> LannerPort]
    /\ McuInv(m, b.dout)
    /\ MaskInv(P, m, b)
    /\ \A p \in Ports : CommandInv(P[p], p \in m.pending)

BoardInv ==
    /\ board \in [dout : SUBSET Bits, theirs : SUBSET Foreign, busy : BOOLEAN]
    /\ mcu.locked => ~board.busy

IInv ==
    /\ plug \in [Ports -> DevOrNone] /\ evq \in [Ports -> Seq(Event)]
    /\ BoardInv
    /\ StateInv(port, mcu, board)
-----------------------------------------------------------------------------
(* What each function leaves in each field of a port.                      *)

Is(s, enabled, pwr, mode, retrans, dev, handle, pings, listed, cur, rcmd) ==
    /\ s \in LannerPort
    /\ s.enabled = enabled /\ s.pwr = pwr /\ s.mode = mode /\ s.retrans = retrans
    /\ s.dev = dev /\ s.handle = handle /\ s.pings = pings /\ s.listed = listed
    /\ s.cur = cur /\ s.rcmd = rcmd

LEMMA Members ==
    /\ NoDev \in DevOrNone /\ Devs \subseteq DevOrNone /\ NoDev \notin Devs
    /\ 0 \in Failures /\ USB_RETRANS_LIMIT \in Failures
    /\ \A n \in Failures : (n + 1) % RETRANS_MOD \in Failures
    /\ 0 \in Few /\ 1 \in Few /\ 2 \in Few
    /\ {"IDLE", "PING", "RESET"} \subseteq Modes
    /\ {"RESTART", "ENABLE", "DISABLE"} \subseteq Cmds
BY DevsAssumption, RetransAssumption DEF DevOrNone, Failures, Few, Modes, Cmds

LEMMA FieldTypes ==
    ASSUME NEW r \in LannerPort
    PROVE  /\ r.enabled \in BOOLEAN /\ r.pwr \in BOOLEAN /\ r.mode \in Modes
           /\ r.retrans \in Failures /\ r.dev \in DevOrNone /\ r.handle \in DevOrNone
           /\ r.pings \in 0 .. 2 /\ r.listed \in 0 .. 2 /\ r.cur \in Cmds /\ r.rcmd \in Cmds
BY DEF LannerPort, Few

LEMMA StartIs ==
    ASSUME NEW r \in LannerPort
    PROVE  Is(start_timeout(r), r.enabled, r.pwr, r.mode, r.retrans, r.dev, r.handle,
              r.pings, IF r.listed = 0 THEN 1 ELSE 2, r.cur, r.rcmd)
BY Members, Zenon DEF start_timeout, Is, LannerPort

LEMMA DelIs ==
    ASSUME NEW r \in LannerPort
    PROVE  Is(del_timeout(r), r.enabled, r.pwr, r.mode, r.retrans, r.dev, r.handle,
              r.pings, IF r.listed = 2 THEN 2 ELSE 0, r.cur, r.rcmd)
BY Members, Zenon DEF del_timeout, Is, LannerPort

LEMMA FailureIs ==
    ASSUME NEW r \in LannerPort
    PROVE  Is(count_failure(r), r.enabled, r.pwr, r.mode, (r.retrans + 1) % RETRANS_MOD,
              r.dev, r.handle, r.pings, r.listed, r.cur, r.rcmd)
BY Members, Zenon DEF count_failure, Is, LannerPort

LEMMA ResetPortIs ==
    ASSUME NEW r \in LannerPort
    PROVE  \E n \in Few :
              /\ Is(reset_port(r), r.enabled, r.pwr, r.mode, 0, NoDev, NoDev,
                    IF Connected(r) /\ r.handle # NoDev THEN 0 ELSE r.pings, n, r.cur, r.rcmd)
              /\ n = IF r.mode \in {"RESET", "PROBE"} \/ r.listed = 2 THEN r.listed ELSE 0
<1> DEFINE s == IF r.mode \notin {"RESET", "PROBE"} /\ timeout_active(r)
                THEN del_timeout(r) ELSE r
           n == IF Connected(r) /\ r.handle # NoDev THEN 0 ELSE s.pings
           t == [s EXCEPT !.dev = NoDev, !.handle = NoDev, !.retrans = 0, !.pings = n]
<1>1. /\ s \in LannerPort /\ s.enabled = r.enabled /\ s.pwr = r.pwr /\ s.mode = r.mode
      /\ s.pings = r.pings /\ s.cur = r.cur /\ s.rcmd = r.rcmd
      /\ s.listed = IF r.mode \in {"RESET", "PROBE"} \/ r.listed = 2 THEN r.listed ELSE 0
      /\ s.listed \in Few
  BY DelIs, FieldTypes DEF Is, timeout_active, Few
<1>2. n \in Few /\ n = IF Connected(r) /\ r.handle # NoDev THEN 0 ELSE r.pings
  BY <1>1, FieldTypes, Members DEF Few
<1> HIDE DEF s, n
<1>3. Is(t, s.enabled, s.pwr, s.mode, 0, NoDev, NoDev, n, s.listed, s.cur, s.rcmd)
  BY <1>1, <1>2, Members, Zenon DEF Is, LannerPort
<1>4. reset_port(r) = t
  BY Zenon DEF reset_port, s, n
<1> HIDE DEF t
<1>5. Is(reset_port(r), r.enabled, r.pwr, r.mode, 0, NoDev, NoDev, n, s.listed, r.cur, r.rcmd)
  BY <1>1, <1>3, <1>4, Zenon DEF Is
<1>6. QED
  BY <1>1, <1>2, <1>5

LEMMA AttachedIs ==
    ASSUME NEW r \in LannerPort, NEW d \in Devs
    PROVE  Is(attached(r, d), r.enabled, r.pwr, "PING", r.retrans, d, r.handle, r.pings,
              IF r.listed = 0 THEN 1 ELSE 2, r.cur, r.rcmd)
<1> DEFINE u == [r EXCEPT !.dev = d, !.mode = "PING"]
<1>1. Is(u, r.enabled, r.pwr, "PING", r.retrans, d, r.handle, r.pings, r.listed, r.cur, r.rcmd)
  BY Members, Zenon DEF Is, LannerPort
<1>2. QED
  BY <1>1, StartIs, Zenon DEF Is, attached

OpenHandle(r) == IF r.handle = NoDev THEN r.dev ELSE r.handle

LEMMA SendPingIs ==
    ASSUME NEW r \in LannerPort, NEW s \in send_ping(r)
    PROVE  \/ Is(s, r.enabled, r.pwr, r.mode, r.retrans, r.dev, OpenHandle(r),
                 IF r.pings = 0 THEN 1 ELSE 2, r.listed, r.cur, r.rcmd)
           \/ Is(s, r.enabled, r.pwr, r.mode, (r.retrans + 1) % RETRANS_MOD, r.dev, r.handle,
                 r.pings, IF r.listed = 0 THEN 1 ELSE 2, r.cur, r.rcmd)
           \/ Is(s, r.enabled, r.pwr, r.mode, r.retrans, r.dev, OpenHandle(r),
                 r.pings, IF r.listed = 0 THEN 1 ELSE 2, r.cur, r.rcmd)
           \/ Is(s, r.enabled, r.pwr, r.mode, r.retrans, r.dev, NoDev,
                 0, IF r.listed = 0 THEN 1 ELSE 2, r.cur, r.rcmd)
<1> DEFINE h == IF r.handle = NoDev THEN r.dev ELSE r.handle
           open == [r EXCEPT !.handle = h]
           sent == [open EXCEPT !.pings = IF open.pings = 0 THEN 1 ELSE 2]
           closed == [open EXCEPT !.handle = NoDev, !.pings = 0]
           failed == count_failure(r)
<1>1. s \in {sent, start_timeout(failed), start_timeout(open), start_timeout(closed)}
  BY DEF send_ping
<1>2. h \in DevOrNone /\ h = OpenHandle(r)
  BY FieldTypes DEF OpenHandle
<1> HIDE DEF h
<1>3. Is(open, r.enabled, r.pwr, r.mode, r.retrans, r.dev, h, r.pings, r.listed, r.cur, r.rcmd)
  BY <1>2, Zenon DEF Is, LannerPort
<1>4. Is(sent, r.enabled, r.pwr, r.mode, r.retrans, r.dev, h,
         IF r.pings = 0 THEN 1 ELSE 2, r.listed, r.cur, r.rcmd)
  BY <1>3, Members, Zenon DEF Is, LannerPort
<1>5. Is(closed, r.enabled, r.pwr, r.mode, r.retrans, r.dev, NoDev, 0, r.listed, r.cur, r.rcmd)
  BY <1>3, Members, Zenon DEF Is, LannerPort
<1>6. Is(failed, r.enabled, r.pwr, r.mode, (r.retrans + 1) % RETRANS_MOD, r.dev, r.handle,
         r.pings, r.listed, r.cur, r.rcmd)
  BY FailureIs
<1> HIDE DEF open, sent, closed, failed
<1>7. Is(start_timeout(open), r.enabled, r.pwr, r.mode, r.retrans, r.dev, h, r.pings,
         IF r.listed = 0 THEN 1 ELSE 2, r.cur, r.rcmd)
  BY <1>3, StartIs, Zenon DEF Is
<1>8. Is(start_timeout(closed), r.enabled, r.pwr, r.mode, r.retrans, r.dev, NoDev, 0,
         IF r.listed = 0 THEN 1 ELSE 2, r.cur, r.rcmd)
  <2>1. Is(start_timeout(closed), closed.enabled, closed.pwr, closed.mode, closed.retrans,
           closed.dev, closed.handle, closed.pings, IF closed.listed = 0 THEN 1 ELSE 2,
           closed.cur, closed.rcmd)
    BY <1>5, StartIs, Zenon DEF Is
  <2>2. QED
    BY <1>5, <2>1 DEF Is
<1>9. Is(start_timeout(failed), r.enabled, r.pwr, r.mode, (r.retrans + 1) % RETRANS_MOD, r.dev,
         r.handle, r.pings, IF r.listed = 0 THEN 1 ELSE 2, r.cur, r.rcmd)
  BY <1>6, StartIs, Zenon DEF Is
<1>10. QED
  BY <1>1, <1>2, <1>4, <1>7, <1>8, <1>9, Zenon

LEMMA AtLimitIs ==
    ASSUME NEW r \in LannerPort, r.pings > 0
    PROVE  Is(at_limit(r), r.enabled, r.pwr, r.mode, 0, r.dev, r.handle, r.pings - 1, r.listed,
              r.cur, r.rcmd)
<1>1. r.pings - 1 \in Few
  BY Members, FieldTypes DEF Few
<1>2. QED
  BY <1>1, Members, Zenon DEF Is, LannerPort, at_limit

\* CMD_RESTART: a busy MCU refuses it, and the port stays as it is.
LEMMA RestartIs ==
    ASSUME NEW m, NEW r \in LannerPort, NEW o \in lanner_update_port(m, r, "RESTART")
    PROVE  \/ /\ accepts(m) /\ o.ret = 0
              /\ Is(o.port, r.enabled, r.pwr, "RESET", r.retrans, r.dev, r.handle, r.pings,
                    r.listed, "RESTART", "DISABLE")
           \/ ~accepts(m) /\ o.ret = 503 /\ o.port = r
<1> DEFINE s == [r EXCEPT !.cur = "RESTART", !.rcmd = "DISABLE", !.mode = "RESET"]
<1>1. Is(s, r.enabled, r.pwr, "RESET", r.retrans, r.dev, r.handle, r.pings, r.listed,
         "RESTART", "DISABLE")
  BY Members, Zenon DEF Is, LannerPort
<1>2. IF accepts(m) THEN o = [port |-> s, ret |-> 0] ELSE o = [port |-> r, ret |-> 503]
  BY DEF lanner_update_port
<1> HIDE DEF s
<1>3. QED
  BY <1>1, <1>2
-----------------------------------------------------------------------------
(* The line.                                                               *)

LEMMA Messages ==
    /\ \A w \in {"NONE", "VERSION", "GET", "SET", "OK", "ERROR"} :
            Plain(w) \in Msg /\ Plain(w).what = w
    /\ \A w \in {"GET", "SET"}, S \in SUBSET Bits : [what |-> w, mask |-> S] \in Msg
    /\ NL \notin Msg /\ NL \in Unit /\ Msg \subseteq Unit
<1>1. \A a \in Msg : a.what \in {"NONE", "VERSION", "GET", "SET", "OK", "ERROR"}
  BY DEF Msg
<1>2. NL.what = "NL"
  BY DEF NL, Plain
<1>3. NL \notin Msg
  BY <1>1, <1>2
<1>4. QED
  BY <1>3 DEF Plain, Msg, Unit

LEMMA McuTypes ==
    ASSUME NEW m \in Mcu
    PROVE  /\ m.state \in McuStates /\ m.pending \in SUBSET Ports
           /\ m.bitmask \in SUBSET Bits /\ m.to_write \in SUBSET Bits /\ m.cmd \in Msg
           /\ m.progress \in 0 .. CmdLen - 1 /\ m.buf \in Seq(Unit) /\ m.itr \in BOOLEAN
           /\ m.timer \in 0 .. 2 /\ m.out \in BOOLEAN /\ m.locked \in BOOLEAN
           /\ m.tx \in Seq(Msg) /\ m.rx \in Seq(Unit)
BY DEF Mcu, Few

\* Nothing but the line and the command buffer differs.
Alike(n, m) ==
    /\ n.state = m.state /\ n.pending = m.pending /\ n.bitmask = m.bitmask
    /\ n.to_write = m.to_write /\ n.itr = m.itr /\ n.timer = m.timer /\ n.locked = m.locked

LEMMA WriteIs ==
    ASSUME NEW m \in Mcu, NEW n \in write_cmd_buf(m)
    PROVE  /\ n \in Mcu /\ Alike(n, m) /\ n.cmd = m.cmd /\ n.buf = m.buf /\ n.rx = m.rx
           /\ \/ n.out /\ n.tx = m.tx
              \/ ~n.out /\ n.progress = 0 /\ n.tx = Append(m.tx, m.cmd)
<1> DEFINE f(k) == [m EXCEPT !.progress = IF k = CmdLen THEN 0 ELSE k, !.out = k # CmdLen,
                             !.tx = IF k = CmdLen THEN Append(m.tx, m.cmd) ELSE m.tx]
           N == {CmdLen} \cup {k \in m.progress .. CmdLen : "short" \in Faults}
<1>0. N \subseteq 0 .. CmdLen
  BY McuTypes, LannerAssumption
<1>1. PICK k \in 0 .. CmdLen : n = f(k)
  <2>1. PICK k \in N : n = f(k)
    BY Zenon DEF write_cmd_buf
  <2>2. QED
    BY <1>0, <2>1
<1>2. (IF k = CmdLen THEN 0 ELSE k) \in 0 .. CmdLen - 1
  BY LannerAssumption
<1>3. (IF k = CmdLen THEN Append(m.tx, m.cmd) ELSE m.tx) \in Seq(Msg)
  BY McuTypes
<1>4. n \in Mcu /\ Alike(n, m) /\ n.cmd = m.cmd /\ n.buf = m.buf /\ n.rx = m.rx
  BY <1>1, <1>2, <1>3, Zenon DEF Mcu, Alike
<1>5. \/ n.out /\ n.tx = m.tx
      \/ ~n.out /\ n.progress = 0 /\ n.tx = Append(m.tx, m.cmd)
  BY <1>1, McuTypes DEF Mcu
<1>6. QED
  BY <1>4, <1>5

\* The MCU and the ports of a state of the handler.
LEMMA Pairs ==
    ASSUME NEW P, NEW m, NEW n
    PROVE  LET s == [port |-> P, mcu |-> m]
           IN  s.port = P /\ s.mcu = m /\ [s EXCEPT !.mcu = n] = [port |-> P, mcu |-> n]
OBVIOUS

\* A command is sent over a quiet line.
LEMMA SendIs ==
    ASSUME NEW P, NEW m \in Mcu, m.tx = <<>>, m.rx = <<>>, m.buf = <<>>, NEW c \in Msg,
           NEW s \in send_cmd([port |-> P, mcu |-> m], c)
    PROVE  /\ s = [port |-> P, mcu |-> s.mcu]
           /\ s.mcu \in Mcu /\ Alike(s.mcu, m) /\ s.mcu.cmd = c
           /\ Sending(s.mcu) \/ Sent(s.mcu)
<1> DEFINE w == [m EXCEPT !.cmd = c]
<1>1. w \in Mcu /\ Alike(w, m) /\ w.cmd = c /\ w.buf = m.buf /\ w.rx = m.rx /\ w.tx = m.tx
  BY Zenon DEF Mcu, Alike
<1>2. PICK n \in write_cmd_buf(w) : s = [port |-> P, mcu |-> n]
  BY Pairs DEF send_cmd
<1> HIDE DEF w
<1>3. /\ n \in Mcu /\ Alike(n, w) /\ n.cmd = c /\ n.buf = <<>> /\ n.rx = <<>>
      /\ \/ n.out /\ n.tx = <<>>
         \/ ~n.out /\ n.progress = 0 /\ n.tx = Append(<<>>, c)
  BY <1>1, WriteIs
<1>4. Append(<<>>, c) = <<c>>
  OBVIOUS
<1>5. Sending(n) \/ Sent(n)
  BY <1>3, <1>4 DEF Sending, Sent
<1>6. Alike(n, m)
  BY <1>1, <1>3 DEF Alike
<1>7. QED
  BY <1>2, <1>3, <1>5, <1>6
-----------------------------------------------------------------------------
(* The steps of the exchange.                                              *)

\* An update is under way and nothing is on the line.
Idle(P, m) ==
    /\ P \in [Ports -> LannerPort] /\ m \in Mcu
    /\ m.tx = <<>> /\ m.rx = <<>> /\ m.buf = <<>>
    /\ m.state \in Talking /\ m.locked /\ ~m.itr /\ m.timer = 0 /\ m.pending # {}
    /\ \A p \in Ports : CommandInv(P[p], p \in m.pending)

\* The command of the state may be sent.
Ready(P, m, b) ==
    /\ Idle(P, m)
    /\ m.state # "SET_DIGITAL_OUT" => Real(P, b.dout, b.theirs)
    /\ m.state = "SET_DIGITAL_OUT" =>
        /\ Real(P, m.bitmask, b.theirs) /\ b.dout = m.bitmask
        /\ m.to_write = create_mcu_bitmask([port |-> P, mcu |-> m])

\* The ports that are switched on by the next mask.
On(P, m) == {p \in m.pending : cmd_to_check(P[p]) = "ENABLE"}

LEMMA MaskIs ==
    ASSUME NEW P, NEW m
    PROVE  /\ Enabling([port |-> P, mcu |-> m]) = On(P, m)
           /\ create_mcu_bitmask([port |-> P, mcu |-> m]) =
                (m.bitmask \ On(P, m)) \cup (m.pending \ On(P, m))
<1>1. Enabling([port |-> P, mcu |-> m]) = On(P, m)
  BY DEF Enabling, On
<1>2. QED
  BY <1>1 DEF create_mcu_bitmask

LEMMA SameMask ==
    ASSUME NEW P, NEW m, NEW n, n.pending = m.pending, n.bitmask = m.bitmask
    PROVE  create_mcu_bitmask([port |-> P, mcu |-> n]) =
           create_mcu_bitmask([port |-> P, mcu |-> m])
BY MaskIs DEF On

LEMMA UnderWayInv ==
    ASSUME NEW P, NEW m, NEW b, Ready(P, m, b),
           NEW n \in Mcu, Alike(n, m), n.cmd = Asked(m), Sending(n) \/ Sent(n)
    PROVE  StateInv(P, n, b) /\ n.locked
<1>1. n.cmd = Asked(n)
  BY DEF Asked, Alike
<1>2. Exchange(n, b.dout)
  BY <1>1 DEF Exchange, Ready, Idle, Alike
<1>3. McuInv(n, b.dout) /\ n.locked
  BY <1>2 DEF McuInv, Ready, Idle, Alike, Talking
<1>4. ~Applied(n)
  <2>1. <<n.cmd>> # <<>>
    OBVIOUS
  <2>2. QED
    BY <2>1, Zenon DEF Applied, Answered, Sending, Sent
<1>5. MaskInv(P, n, b)
  BY <1>4, SameMask DEF MaskInv, Ready, Alike
<1>6. \A p \in Ports : CommandInv(P[p], p \in n.pending)
  BY DEF Ready, Idle, Alike
<1>7. QED
  BY <1>3, <1>5, <1>6 DEF StateInv, Ready, Idle

LEMMA SendInv ==
    ASSUME NEW P, NEW m, NEW b, Ready(P, m, b),
           NEW s \in send_cmd([port |-> P, mcu |-> m], Asked(m))
    PROVE  StateInv(s.port, s.mcu, b) /\ s.mcu.locked
<1>1. m \in Mcu /\ m.tx = <<>> /\ m.rx = <<>> /\ m.buf = <<>>
  BY DEF Ready, Idle
<1>2. Asked(m) \in Msg
  BY <1>1, McuTypes, Messages DEF Asked
<1>3. /\ s = [port |-> P, mcu |-> s.mcu]
      /\ s.mcu \in Mcu /\ Alike(s.mcu, m) /\ s.mcu.cmd = Asked(m)
      /\ Sending(s.mcu) \/ Sent(s.mcu)
  BY <1>1, <1>2, SendIs
<1>4. s.port = P
  BY <1>3
<1>5. QED
  BY <1>3, <1>4, UnderWayInv

\* lanner_handler_write_cmd_buf goes on with the command, or starts it again.
LEMMA WriteInv ==
    ASSUME NEW P, NEW m, NEW b, Ready(P, m, b), m.cmd = Asked(m), NEW n \in write_cmd_buf(m)
    PROVE  StateInv(P, n, b) /\ n.locked
<1>1. m \in Mcu /\ m.tx = <<>> /\ m.rx = <<>> /\ m.buf = <<>>
  BY DEF Ready, Idle
<1>2. /\ n \in Mcu /\ Alike(n, m) /\ n.cmd = m.cmd /\ n.buf = <<>> /\ n.rx = <<>>
      /\ \/ n.out /\ n.tx = <<>>
         \/ ~n.out /\ n.progress = 0 /\ n.tx = Append(<<>>, m.cmd)
  BY <1>1, WriteIs
<1>3. Append(<<>>, m.cmd) = <<n.cmd>>
  BY <1>2
<1>4. Sending(n) \/ Sent(n)
  BY <1>2, <1>3 DEF Sending, Sent
<1>5. QED
  BY <1>2, <1>4, UnderWayInv

\* The mask that all registered ports want is written.
LEMMA SetInv ==
    ASSUME NEW P, NEW m, NEW b, Idle(P, m), m.state = "SET_DIGITAL_OUT",
           Real(P, m.bitmask, b.theirs), b.dout = m.bitmask,
           NEW s \in set_digital_out([port |-> P, mcu |-> m])
    PROVE  StateInv(s.port, s.mcu, b) /\ s.mcu.locked
<1> DEFINE mask == create_mcu_bitmask([port |-> P, mcu |-> m])
           n == [m EXCEPT !.to_write = mask]
<1>1. m \in Mcu /\ mask \in SUBSET Bits
  BY MaskIs, McuTypes DEF Idle, Bits
<1> HIDE DEF mask
<1>2. /\ n \in Mcu /\ n.to_write = mask /\ n.state = m.state /\ n.pending = m.pending
      /\ n.bitmask = m.bitmask /\ n.itr = m.itr /\ n.timer = m.timer /\ n.locked = m.locked
      /\ n.tx = m.tx /\ n.rx = m.rx /\ n.buf = m.buf
  BY <1>1, Zenon DEF Mcu
<1>3. s \in send_cmd([port |-> P, mcu |-> n], [what |-> "SET", mask |-> mask])
  BY DEF set_digital_out, mask
<1> HIDE DEF n
<1>4. Idle(P, n)
  BY <1>2 DEF Idle
<1>5. mask = create_mcu_bitmask([port |-> P, mcu |-> n])
  BY <1>2, SameMask DEF mask
<1>6. Ready(P, n, b)
  BY <1>2, <1>4, <1>5 DEF Ready
<1>7. Asked(n) = [what |-> "SET", mask |-> mask]
  BY <1>2 DEF Asked
<1>8. QED
  BY <1>3, <1>6, <1>7, SendInv

\* A registered port when its mask was written.
LEMMA OkPortIs ==
    ASSUME NEW r \in LannerPort, CommandInv(r, TRUE)
    PROVE  /\ cmd_to_check(r) \in {"ENABLE", "DISABLE"}
           /\ cmd_to_check(r) = "ENABLE" =>
                /\ r.cur # "DISABLE"
                /\ Is(ok_port(r), TRUE, TRUE, "IDLE", r.retrans, r.dev, r.handle, r.pings,
                      r.listed, r.cur, r.rcmd)
           /\ cmd_to_check(r) = "DISABLE" =>
                /\ r.cur \in {"DISABLE", "RESTART"}
                /\ Is(ok_port(r), FALSE, FALSE, r.mode, r.retrans, r.dev, r.handle, r.pings,
                      r.listed, r.cur, IF r.cur = "RESTART" THEN "ENABLE" ELSE r.rcmd)
<1> DEFINE on == [r EXCEPT !.enabled = TRUE, !.pwr = TRUE, !.mode = "IDLE"]
           c == IF r.cur = "RESTART" THEN "ENABLE" ELSE r.rcmd
           off == [r EXCEPT !.enabled = FALSE, !.pwr = FALSE, !.rcmd = c]
<1>1. cmd_to_check(r) \in {"ENABLE", "DISABLE"}
  BY FieldTypes DEF cmd_to_check, CommandInv, Cmds
<1>2. c \in Cmds
  BY FieldTypes, Members
<1> HIDE DEF c
<1>3. Is(on, TRUE, TRUE, "IDLE", r.retrans, r.dev, r.handle, r.pings, r.listed, r.cur, r.rcmd)
  BY Members, Zenon DEF Is, LannerPort
<1>4. Is(off, FALSE, FALSE, r.mode, r.retrans, r.dev, r.handle, r.pings, r.listed, r.cur, c)
  BY <1>2, Zenon DEF Is, LannerPort
<1>5. cmd_to_check(r) = "ENABLE" => ok_port(r) = on
  BY Zenon DEF ok_port
<1>6. cmd_to_check(r) = "DISABLE" => ok_port(r) = off
  <2>1. "DISABLE" # "ENABLE"
    OBVIOUS
  <2>2. QED
    BY <2>1, Zenon DEF ok_port, c
<1>7. /\ cmd_to_check(r) = "ENABLE" => r.cur # "DISABLE"
      /\ cmd_to_check(r) = "DISABLE" => r.cur \in {"DISABLE", "RESTART"}
  BY DEF cmd_to_check
<1> HIDE DEF on, off
<1>8. QED
  BY <1>1, <1>3, <1>4, <1>5, <1>6, <1>7, Zenon DEF c

LEMMA OkReplyInv ==
    ASSUME NEW P, NEW m, NEW b, Idle(P, m), m.state = "SET_DIGITAL_OUT", Quiet(m),
           Real(P, m.bitmask, b.theirs), b.dout = m.to_write,
           m.to_write = create_mcu_bitmask([port |-> P, mcu |-> m])
    PROVE  LET s == ok_reply([port |-> P, mcu |-> m])
           IN  StateInv(s.port, s.mcu, b) /\ s.mcu.locked
<1> DEFINE s == ok_reply([port |-> P, mcu |-> m])
           served == On(P, m) \cup {p \in m.pending : P[p].cur = "DISABLE"}
           left == m.pending \ served
           Q == [p \in Ports |-> IF p \in m.pending THEN ok_port(P[p]) ELSE P[p]]
           w == [m EXCEPT !.bitmask = m.to_write, !.to_write = {}, !.pending = left]
           n == IF left = {} THEN [w EXCEPT !.state = "UPDATE_DONE", !.itr = TRUE]
                ELSE [w EXCEPT !.timer = IF w.timer = 0 THEN 1 ELSE 2]
<1>1. /\ m \in Mcu /\ m.pending \subseteq Ports /\ m.timer = 0 /\ m.locked /\ ~m.itr
      /\ P \in [Ports -> LannerPort]
      /\ m.to_write = (m.bitmask \ On(P, m)) \cup (m.pending \ On(P, m))
      /\ m.to_write \in SUBSET Bits
  BY MaskIs, McuTypes DEF Idle
<1>2. \A p \in m.pending : P[p] \in LannerPort /\ CommandInv(P[p], TRUE)
  BY <1>1 DEF Idle
<1>3. ok_served([port |-> P, mcu |-> m]) = served
  BY MaskIs DEF ok_served
<1>4. s = [port |-> Q, mcu |-> n]
  BY <1>3, Zenon DEF ok_reply, start_private_timer
<1>5. left \in SUBSET Ports
  BY <1>1
<1>6. Q \in [Ports -> LannerPort] /\ \A p \in Ports : CommandInv(Q[p], p \in left)
  <2> SUFFICES ASSUME NEW p \in Ports PROVE Q[p] \in LannerPort /\ CommandInv(Q[p], p \in left)
    OBVIOUS
  <2>1. CASE p \notin m.pending
    <3>1. Q[p] = P[p] /\ p \notin left
      BY <2>1
    <3>2. QED
      BY <1>1, <2>1, <3>1 DEF Idle, CommandInv
  <2>2. CASE p \in m.pending /\ cmd_to_check(P[p]) = "ENABLE"
    <3>1. Q[p] \in LannerPort /\ Q[p].pwr /\ Q[p].mode = "IDLE"
      BY <1>2, <2>2, OkPortIs DEF Is
    <3>2. p \notin left
      BY <2>2 DEF On
    <3>3. QED
      BY <3>1, <3>2 DEF CommandInv
  <2>3. CASE p \in m.pending /\ cmd_to_check(P[p]) = "DISABLE"
    <3>1. /\ Q[p] \in LannerPort /\ Q[p].cur = P[p].cur
          /\ Q[p].cur \in {"DISABLE", "RESTART"}
          /\ Q[p].cur = "RESTART" => Q[p].rcmd = "ENABLE"
      BY <1>2, <2>3, OkPortIs DEF Is
    <3>2. Q[p].cur = "RESTART" => p \in left
      BY <2>3, <3>1 DEF On
    <3>3. QED
      BY <3>1, <3>2 DEF CommandInv
  <2>4. QED
    BY <1>2, <2>1, <2>2, <2>3, OkPortIs
<1>7. Real(Q, m.to_write, b.theirs)
  <2>1. m.to_write \cap Foreign = b.theirs
    BY <1>1, LannerAssumption DEF Real, On
  <2>2. ASSUME NEW p \in Ports PROVE Q[p].pwr <=> p \notin m.to_write
    <3>1. CASE p \notin m.pending
      BY <1>1, <3>1 DEF Real, On
    <3>2. CASE p \in m.pending /\ cmd_to_check(P[p]) = "ENABLE"
      <4>1. Q[p].pwr = TRUE
        BY <1>2, <3>2, OkPortIs DEF Is
      <4>2. QED
        BY <1>1, <3>2, <4>1 DEF On
    <3>3. CASE p \in m.pending /\ cmd_to_check(P[p]) = "DISABLE"
      <4>1. Q[p].pwr = FALSE
        BY <1>2, <3>3, OkPortIs DEF Is
      <4>2. QED
        BY <1>1, <3>3, <4>1 DEF On
    <3>4. QED
      BY <1>2, <3>1, <3>2, <3>3, OkPortIs
  <2>3. QED
    BY <2>1, <2>2 DEF Real
<1> HIDE DEF Q, left
<1>8. /\ w \in Mcu /\ w.bitmask = m.to_write /\ w.pending = left /\ w.state = m.state
      /\ w.timer = 0 /\ w.locked = m.locked /\ w.itr = m.itr
      /\ w.tx = m.tx /\ w.rx = m.rx /\ w.buf = m.buf /\ w.progress = m.progress /\ w.out = m.out
  BY <1>1, <1>5 DEF Mcu
<1> HIDE DEF w
<1>9. /\ n \in Mcu /\ n.bitmask = m.to_write /\ n.pending = left /\ n.locked /\ Quiet(n)
      /\ left = {} => n.state = "UPDATE_DONE" /\ n.itr /\ n.timer = 0
      /\ left # {} => n.state = "SET_DIGITAL_OUT" /\ ~n.itr /\ n.timer = 1
  <2>1. CASE left = {}
    <3>1. n = [w EXCEPT !.state = "UPDATE_DONE", !.itr = TRUE] /\ "UPDATE_DONE" \in McuStates
      BY <2>1 DEF McuStates
    <3>2. QED
      BY <1>1, <1>8, <2>1, <3>1 DEF Mcu, Quiet
  <2>2. CASE left # {}
    <3>1. n = [w EXCEPT !.timer = 1]
      BY <1>8, <2>2
    <3> HIDE DEF n
    <3>2. n \in Mcu
      BY <1>8, <3>1, Members, Zenon DEF Mcu
    <3>3. QED
      BY <1>1, <1>8, <2>2, <3>1, <3>2 DEF Mcu, Quiet
  <2>3. QED
    BY <2>1, <2>2
<1> HIDE DEF n
<1>10. McuInv(n, b.dout)
  BY <1>9 DEF McuInv, HalfWay, Talking
<1>11. MaskInv(Q, n, b)
  BY <1>7, <1>9 DEF MaskInv, Applied
<1>12. StateInv(Q, n, b)
  BY <1>6, <1>9, <1>10, <1>11 DEF StateInv
<1>13. QED
  BY <1>4, <1>9, <1>12

LEMMA HandleMsgInv ==
    ASSUME NEW P, NEW m, NEW b, Idle(P, m), Quiet(m), m.cmd = Asked(m),
           NEW a \in {Reply(m, b.dout), Plain("ERROR")}, b.dout \in SUBSET Bits,
           m.state # "SET_DIGITAL_OUT" => Real(P, b.dout, b.theirs),
           m.state = "SET_DIGITAL_OUT" =>
               /\ Real(P, m.bitmask, b.theirs)
               /\ m.to_write = create_mcu_bitmask([port |-> P, mcu |-> m])
               /\ b.dout = IF a = Plain("OK") THEN m.to_write ELSE m.bitmask,
           NEW s \in handle_msg([port |-> P, mcu |-> m], a)
    PROVE  StateInv(s.port, s.mcu, b) /\ s.mcu.locked
<1> DEFINE x == [port |-> P, mcu |-> m]
<1>1. x.port = P /\ x.mcu = m /\ \A n : [x EXCEPT !.mcu = n] = [port |-> P, mcu |-> n]
  OBVIOUS
<1>2. m \in Mcu /\ m.progress = 0 /\ m.state \in Talking
  BY DEF Idle, Quiet
<1>3. CASE a = Plain("ERROR")
  <2>1. a.what = "ERROR" /\ a # Plain("OK")
    BY <1>3, Messages DEF Plain
  <2>2. PICK n \in write_cmd_buf(m) : s = [port |-> P, mcu |-> n]
    BY <1>1, <1>2, <2>1 DEF handle_msg
  <2>3. Ready(P, m, b)
    BY <2>1 DEF Ready
  <2>4. StateInv(P, n, b) /\ n.locked
    BY <2>3, WriteInv
  <2>5. QED
    BY <2>2, <2>4
<1>4. CASE a = Reply(m, b.dout) /\ m.state = "GET_VERSION"
  <2> DEFINE n == [m EXCEPT !.state = "GET_DIGITAL_OUT"]
  <2>1. a.what = "VERSION"
    BY <1>4 DEF Reply, Plain
  <2>2. s \in send_cmd([port |-> P, mcu |-> n], Plain("GET"))
    BY <1>1, <1>4, <2>1 DEF handle_msg
  <2>3. /\ n \in Mcu /\ n.state = "GET_DIGITAL_OUT" /\ n.pending = m.pending
        /\ n.itr = m.itr /\ n.timer = m.timer /\ n.locked = m.locked
        /\ n.tx = m.tx /\ n.rx = m.rx /\ n.buf = m.buf
    BY <1>2 DEF Mcu, McuStates
  <2> HIDE DEF n
  <2>4. Ready(P, n, b) /\ Asked(n) = Plain("GET")
    BY <1>4, <2>3 DEF Ready, Idle, Talking, Asked
  <2>5. QED
    BY <2>2, <2>4, SendInv
<1>5. CASE a = Reply(m, b.dout) /\ m.state = "GET_DIGITAL_OUT"
  <2> DEFINE n == [m EXCEPT !.bitmask = b.dout, !.state = "SET_DIGITAL_OUT"]
  <2>1. a.what = "GET" /\ a.mask = b.dout
    BY <1>5 DEF Reply
  <2>2. s \in digital_out_reply(x, b.dout)
    BY <1>1, <1>5, <2>1 DEF handle_msg
  <2>3. s \in set_digital_out([port |-> P, mcu |-> n])
    BY <1>1, <2>2 DEF digital_out_reply
  <2>4. /\ n \in Mcu /\ n.state = "SET_DIGITAL_OUT" /\ n.pending = m.pending
        /\ n.bitmask = b.dout /\ n.itr = m.itr /\ n.timer = m.timer /\ n.locked = m.locked
        /\ n.tx = m.tx /\ n.rx = m.rx /\ n.buf = m.buf
    BY <1>2 DEF Mcu, McuStates
  <2> HIDE DEF n
  <2>5. Idle(P, n) /\ Real(P, n.bitmask, b.theirs)
    BY <1>5, <2>4 DEF Idle, Talking
  <2>6. QED
    BY <2>3, <2>4, <2>5, SetInv
<1>6. CASE a = Reply(m, b.dout) /\ m.state = "SET_DIGITAL_OUT"
  <2>1. a = Plain("OK") /\ a.what = "OK"
    BY <1>6 DEF Reply, Plain
  <2>2. s = ok_reply(x)
    BY <1>1, <1>6, <2>1 DEF handle_msg
  <2>3. QED
    BY <1>6, <2>1, <2>2, OkReplyInv
<1>7. QED
  BY <1>2, <1>3, <1>4, <1>5, <1>6 DEF Talking

LEMMA OneOf ==
    ASSUME NEW S, NEW q \in Seq(S), NEW i \in 1 .. Len(q)
    PROVE  SubSeq(q, i, i) = <<q[i]>>
<1> DEFINE w == SubSeq(q, i, i)
<1>0. i \in Int /\ \A j \in i .. i : q[j] \in S
  BY ElementOfSeq
<1>1. w \in Seq(S) /\ Len(w) = IF i <= i THEN i - i + 1 ELSE 0
  BY <1>0, SubSeqProperties
<1>2. \A j \in 1 .. i - i + 1 : w[j] = q[i + j - 1]
  BY <1>0, SubSeqProperties
<1> HIDE DEF w
<1>3. Len(w) = 1 /\ w[1] = q[i]
  BY <1>0, <1>1, <1>2
<1>4. <<q[i]>> \in Seq(S) /\ Len(<<q[i]>>) = 1 /\ <<q[i]>>[1] = q[i]
  BY ElementOfSeq
<1>5. \A j \in 1 .. Len(w) : w[j] = <<q[i]>>[j]
  BY <1>3, <1>4
<1>6. QED
  BY <1>1, <1>3, <1>4, <1>5, SeqEqual DEF w

\* lanner_handler_handle_input reads the answer up to the newline, or all of it.
LEMMA InputIs ==
    ASSUME NEW P, NEW m \in Mcu, NEW a \in Msg, Answered(m, a),
           NEW s \in handle_input([port |-> P, mcu |-> m])
    PROVE  \/ s = [port |-> P, mcu |-> [m EXCEPT !.rx = <<NL>>, !.buf = <<a>>]]
           \/ s \in handle_msg([port |-> P, mcu |-> [m EXCEPT !.rx = <<>>, !.buf = <<>>]], a)
<1> DEFINE x == [port |-> P, mcu |-> m]
           ends == {n \in 1 .. Len(m.rx) : \A i \in 1 .. n - 1 : m.rx[i] # NL}
           read(n) == SubSeq(m.rx, 1, n)
           rest(n) == SubSeq(m.rx, n + 1, Len(m.rx))
           after(r, v) == [port |-> P, mcu |-> [m EXCEPT !.rx = r, !.buf = v]]
<1>1. a # NL
  BY Messages
<1>2. x.mcu = m /\ \A n : [x EXCEPT !.mcu = n] = [port |-> P, mcu |-> n]
  OBVIOUS
<1>3. PICK n \in ends :
        s \in IF m.rx[n] # NL THEN {after(rest(n), m.buf \o read(n))}
              ELSE handle_msg(after(rest(n), <<>>), Head(m.buf \o read(n)))
  <2> DEFINE y == x.mcu
             left(n, buf) == [x EXCEPT !.mcu =
                                [y EXCEPT !.rx = SubSeq(y.rx, n + 1, Len(y.rx)), !.buf = buf]]
             G(n) == IF y.rx[n] # NL THEN {left(n, y.buf \o SubSeq(y.rx, 1, n))}
                     ELSE handle_msg(left(n, <<>>), Head(y.buf \o SubSeq(y.rx, 1, n)))
             E == {n \in 1 .. Len(y.rx) : \A i \in 1 .. n - 1 : y.rx[i] # NL}
  <2>1. s \in UNION {G(n) : n \in E}
    BY Zenon DEF handle_input
  <2>2. E = ends /\ \A n, v : left(n, v) = after(rest(n), v)
    BY <1>2, Zenon
  <2>3. \A n : G(n) = IF m.rx[n] # NL THEN {after(rest(n), m.buf \o read(n))}
                     ELSE handle_msg(after(rest(n), <<>>), Head(m.buf \o read(n)))
    BY <1>2, <2>2, Zenon
  <2> HIDE DEF G, E, ends, after, read, rest
  <2>4. PICK n \in E : s \in G(n)
    BY <2>1
  <2>5. QED
    BY <2>2, <2>3, <2>4
<1> HIDE DEF after
<1>4. CASE m.rx = <<a, NL>> /\ m.buf = <<>>
  <2>1. n \in {1, 2} /\ m.rx[1] = a /\ m.rx[2] = NL
    BY <1>4
  <2>2. CASE n = 1
    <3>1. rest(n) = <<NL>> /\ read(n) = <<a>>
      <4>0. m.rx \in Seq(Unit)
        BY McuTypes
      <4>1. Len(m.rx) = 2 /\ 1 \in 1 .. Len(m.rx) /\ 2 \in 1 .. Len(m.rx)
        BY <1>4
      <4>2. SubSeq(m.rx, 1, 1) = <<m.rx[1]>> /\ SubSeq(m.rx, 2, 2) = <<m.rx[2]>>
        BY <4>0, <4>1, OneOf
      <4>3. QED
        BY <2>1, <2>2, <4>1, <4>2
    <3>2. <<>> \o <<a>> = <<a>>
      OBVIOUS
    <3>3. QED
      BY <1>1, <1>3, <1>4, <2>1, <2>2, <3>1, <3>2 DEF after
  <2>3. CASE n = 2
    <3>1. rest(n) = <<>> /\ Head(m.buf \o read(n)) = a
      BY <1>4, <2>3
    <3>2. QED
      BY <1>3, <2>1, <2>3, <3>1 DEF after
  <2>4. QED
    BY <2>1, <2>2, <2>3
<1>5. CASE m.rx = <<NL>> /\ m.buf = <<a>>
  <2>1. n = 1 /\ m.rx[1] = NL
    BY <1>5
  <2>2. rest(n) = <<>> /\ Head(m.buf \o read(n)) = a
    BY <1>5, <2>1
  <2>3. QED
    BY <1>3, <2>1, <2>2 DEF after
<1>6. QED
  BY <1>4, <1>5 DEF Answered

LEMMA AnswerIsOne ==
    ASSUME NEW m, NEW a, NEW c, Answered(m, a), Answered(m, c)
    PROVE  a = c
<1>1. /\ \A x, y : <<x, NL>> = <<y, NL>> => x = y
      /\ \A x, y : <<x>> = <<y>> => x = y
      /\ \A x : <<x>> # <<>> /\ <<x, NL>> # <<NL>>
  OBVIOUS
<1>2. QED
  BY <1>1, Zenon DEF Answered

\* The updates that are under way, by what is on the line.
LEMMA ExchangeIdle ==
    ASSUME NEW P, NEW m, NEW b, StateInv(P, m, b), m.state \in Talking, m.timer = 0
    PROVE  /\ Exchange(m, b.dout)
           /\ Sending(m) => Ready(P, m, b)
           /\ \A n \in Mcu : Alike(n, m) /\ n.tx = <<>> /\ n.rx = <<>> /\ n.buf = <<>> => Idle(P, n)
<1>1. /\ Exchange(m, b.dout) /\ P \in [Ports -> LannerPort] /\ m \in Mcu
      /\ m.locked /\ ~m.itr /\ m.pending # {}
      /\ \A p \in Ports : CommandInv(P[p], p \in m.pending)
  BY DEF StateInv, McuInv, HalfWay, Talking
<1>2. ASSUME NEW n \in Mcu, Alike(n, m), n.tx = <<>>, n.rx = <<>>, n.buf = <<>>
      PROVE  Idle(P, n)
  BY <1>1, <1>2 DEF Alike, Idle
<1>3. ASSUME Sending(m) PROVE Ready(P, m, b)
  <2>1. Idle(P, m)
    BY <1>1, <1>2, <1>3 DEF Alike, Sending
  <2>2. ~Applied(m)
    BY <1>3 DEF Applied, Answered, Sending
  <2>3. QED
    BY <2>1, <2>2 DEF StateInv, MaskInv, Ready
<1>4. QED
  BY <1>1, <1>2, <1>3

\* The answer is read.
LEMMA ReadInv ==
    ASSUME NEW P, NEW m, NEW b, StateInv(P, m, b), b.dout \in SUBSET Bits,
           m.state \in Talking, m.timer = 0,
           NEW a \in {Reply(m, b.dout), Plain("ERROR")}, Answered(m, a),
           NEW s \in handle_input([port |-> P, mcu |-> m])
    PROVE  StateInv(s.port, s.mcu, b) /\ s.mcu.locked
<1> DEFINE u == [m EXCEPT !.rx = <<NL>>, !.buf = <<a>>]
           v == [m EXCEPT !.rx = <<>>, !.buf = <<>>]
<1>1. /\ Exchange(m, b.dout) /\ P \in [Ports -> LannerPort] /\ m \in Mcu /\ m.locked
      /\ McuInv(m, b.dout) /\ MaskInv(P, m, b)
      /\ \A p \in Ports : CommandInv(P[p], p \in m.pending)
  BY ExchangeIdle DEF StateInv, McuInv, Talking
<1>2. a \in Msg
  BY Messages DEF Reply
<1>3. Applied(m) <=> a = Plain("OK")
  BY AnswerIsOne DEF Applied
<1>4. /\ u \in Mcu /\ Alike(u, m) /\ u.cmd = m.cmd /\ u.tx = m.tx /\ u.progress = m.progress
      /\ u.out = m.out /\ u.rx = <<NL>> /\ u.buf = <<a>>
  <2>1. <<NL>> \in Seq(Unit) /\ <<a>> \in Seq(Unit)
    BY <1>2, Messages
  <2>2. QED
    BY <1>1, <2>1, Zenon DEF Mcu, Alike
<1>5. /\ v \in Mcu /\ Alike(v, m) /\ v.cmd = m.cmd /\ v.tx = m.tx /\ v.progress = m.progress
      /\ v.out = m.out /\ v.rx = <<>> /\ v.buf = <<>>
  <2>1. <<>> \in Seq(Unit)
    OBVIOUS
  <2>2. QED
    BY <1>1, <2>1, Zenon DEF Mcu, Alike
<1>6. \/ s = [port |-> P, mcu |-> u]
      \/ s \in handle_msg([port |-> P, mcu |-> v], a)
  BY <1>1, <1>2, InputIs
<1> HIDE DEF u, v
<1>7. CASE s = [port |-> P, mcu |-> u]
  <2>1. Answered(u, a)
    BY <1>4 DEF Answered
  <2>2. Asked(u) = Asked(m) /\ Reply(u, b.dout) = Reply(m, b.dout)
    BY <1>4 DEF Asked, Reply, Alike
  <2>3. Exchange(u, b.dout)
    BY <1>1, <1>4, <2>1, <2>2 DEF Exchange, Alike
  <2>4. McuInv(u, b.dout)
    BY <1>1, <1>4, <2>3 DEF McuInv, Alike, Talking
  <2>5. Applied(u) <=> Applied(m)
    BY <1>3, <1>4, <2>1, AnswerIsOne DEF Applied, Alike
  <2>6. MaskInv(P, u, b)
    BY <1>1, <1>4, <2>5, SameMask DEF MaskInv, Alike
  <2>7. StateInv(P, u, b) /\ u.locked
    BY <1>1, <1>4, <2>4, <2>6 DEF StateInv, Alike
  <2>8. QED
    BY <1>7, <2>7
<1>8. CASE s \in handle_msg([port |-> P, mcu |-> v], a)
  <2>1. Idle(P, v) /\ Quiet(v)
    BY <1>5, ExchangeIdle DEF Quiet, Answered
  <2>2. v.cmd = Asked(v) /\ a \in {Reply(v, b.dout), Plain("ERROR")}
    BY <1>1, <1>5 DEF Asked, Reply, Alike, Exchange
  <2>3. /\ v.state # "SET_DIGITAL_OUT" => Real(P, b.dout, b.theirs)
        /\ v.state = "SET_DIGITAL_OUT" =>
               /\ Real(P, v.bitmask, b.theirs)
               /\ v.to_write = create_mcu_bitmask([port |-> P, mcu |-> v])
               /\ b.dout = IF a = Plain("OK") THEN v.to_write ELSE v.bitmask
    BY <1>1, <1>3, <1>5, SameMask DEF MaskInv, Alike
  <2>4. QED
    BY <1>8, <2>1, <2>2, <2>3, HandleMsgInv
<1>9. QED
  BY <1>6, <1>7, <1>8
-----------------------------------------------------------------------------
(* The callbacks of the MCU and the board.                                 *)

LEMMA McuEventInv ==
    ASSUME IInv, NEW in \in BOOLEAN, NEW out \in BOOLEAN, McuEvent(in, out)
    PROVE  StateInv(port', mcu', board) /\ mcu'.locked
<1>1. PICK s \in event_cb(Here, in, out) : port' = s.port /\ mcu' = s.mcu
  BY DEF McuEvent
<1>2. /\ StateInv(port, mcu, board) /\ McuInv(mcu, board.dout) /\ board.dout \in SUBSET Bits
      /\ mcu.locked /\ (in \/ out) /\ (in => mcu.rx # <<>>) /\ (out => mcu.out)
  BY DEF McuEvent, IInv, BoardInv, StateInv
<1>3. mcu.state \in Talking /\ mcu.timer = 0
  BY <1>2, McuTypes DEF McuInv, McuStates, Talking, Quiet, HalfWay, Exchange
<1>4. Exchange(mcu, board.dout) /\ (Sending(mcu) => Ready(port, mcu, board))
  BY <1>2, <1>3, ExchangeIdle
<1>5. CASE out
  <2>1. Sending(mcu) /\ mcu.cmd = Asked(mcu)
    BY <1>2, <1>4, <1>5 DEF Exchange, Sent, Answered
  <2>2. ~in
    BY <1>2, <2>1 DEF Sending
  <2>3. PICK n \in write_cmd_buf(mcu) : s = [port |-> port, mcu |-> n]
    BY <1>1, <1>5, <2>2 DEF event_cb, Here
  <2>4. StateInv(port, n, board) /\ n.locked
    BY <1>4, <2>1, WriteInv
  <2>5. QED
    BY <1>1, <2>3, <2>4
<1>6. CASE ~out
  <2>1. s \in handle_input(Here)
    BY <1>1, <1>2, <1>6 DEF event_cb
  <2>2. PICK a \in {Reply(mcu, board.dout), Plain("ERROR")} : Answered(mcu, a)
    BY <1>2, <1>4, <1>6 DEF Exchange, Sending, Sent
  <2>3. QED
    BY <1>1, <1>2, <1>3, <2>1, <2>2, ReadInv DEF Here
<1>7. QED
  BY <1>5, <1>6

\* lanner_handler_start_mcu_update for an update that waits: the lock is busy, or
\* the update starts.  The iteration callback is removed at the end.
LEMMA StartInv ==
    ASSUME NEW P, NEW m, NEW b, StateInv(P, m, b), m.state = "PENDING",
           NEW n \in Mcu, n.timer = 0, n.state = m.state, n.pending = m.pending,
           n.locked = m.locked, Quiet(n), NEW free \in BOOLEAN,
           NEW s \in start_mcu_update([port |-> P, mcu |-> n], free)
    PROVE  LET z == [s.mcu EXCEPT !.itr = FALSE]
           IN  /\ s.port = P /\ StateInv(P, z, b) /\ z.locked = free
               /\ s.mcu \in Mcu /\ (~n.itr => s.mcu = z)
<1> DEFINE x == [port |-> P, mcu |-> n]
           z == [s.mcu EXCEPT !.itr = FALSE]
<1>1. x.port = P /\ x.mcu = n /\ \A y : [x EXCEPT !.mcu = y] = [port |-> P, mcu |-> y]
  OBVIOUS
<1>2. /\ P \in [Ports -> LannerPort] /\ Real(P, b.dout, b.theirs)
      /\ n.pending # {} /\ n.locked = FALSE /\ n.state = "PENDING"
      /\ \A p \in Ports : CommandInv(P[p], p \in n.pending)
  BY McuTypes DEF StateInv, McuInv, MaskInv
<1>3. \A y \in Mcu : y.itr = FALSE => [y EXCEPT !.itr = FALSE] = y
  BY DEF Mcu
<1>4. CASE ~free
  <2> DEFINE w == [n EXCEPT !.timer = 1]
  <2>1. s = [port |-> P, mcu |-> w]
    BY <1>1, <1>2, <1>4 DEF start_mcu_update, start_private_timer
  <2>2. w \in Mcu /\ w.itr = n.itr
    BY Members, Zenon DEF Mcu
  <2>3. /\ z \in Mcu /\ z.state = "PENDING" /\ z.pending = n.pending /\ z.locked = FALSE
        /\ z.itr = FALSE /\ z.timer = 1 /\ Quiet(z)
    <3>1. z = [w EXCEPT !.itr = FALSE]
      BY <2>1
    <3> HIDE DEF z
    <3>2. z \in Mcu
      BY <2>2, <3>1, Zenon DEF Mcu
    <3>3. QED
      BY <1>2, <3>1, <3>2 DEF Mcu, Quiet
  <2>4. ~n.itr => s.mcu = z
    BY <1>3, <2>1, <2>2, McuTypes
  <2>5. s.port = P /\ s.mcu \in Mcu
    BY <2>1, <2>2
  <2> HIDE DEF z
  <2>6. McuInv(z, b.dout)
    BY <1>2, <2>3 DEF McuInv, Talking
  <2>7. MaskInv(P, z, b)
    BY <1>2, <2>3 DEF MaskInv
  <2>8. StateInv(P, z, b)
    BY <1>2, <2>3, <2>6, <2>7 DEF StateInv
  <2>9. QED
    BY <1>4, <2>3, <2>4, <2>5, <2>8 DEF z
<1>5. CASE free
  <2> DEFINE w == open_mcu(n)
             y == [w EXCEPT !.itr = FALSE]
  <2>1. s \in send_cmd([port |-> P, mcu |-> w], Plain("VERSION"))
    BY <1>1, <1>2, <1>5 DEF start_mcu_update
  <2>2. /\ w \in Mcu /\ w.state = "GET_VERSION" /\ w.pending = n.pending /\ w.locked = TRUE
        /\ w.timer = 0 /\ w.itr = n.itr
        /\ w.tx = <<>> /\ w.rx = <<>> /\ w.buf = <<>>
    <3>1. <<>> \in Seq(Unit) /\ "GET_VERSION" \in McuStates
      BY DEF McuStates
    <3>2. w \in Mcu
      BY <3>1, Zenon DEF open_mcu, Mcu
    <3>3. QED
      BY <3>2 DEF open_mcu, Mcu, Quiet
  <2> HIDE DEF w
  <2>3. /\ y \in Mcu /\ y.state = "GET_VERSION" /\ y.pending = n.pending /\ y.locked = TRUE
        /\ y.timer = 0 /\ y.itr = FALSE /\ y.bitmask = w.bitmask /\ y.to_write = w.to_write
        /\ y.tx = <<>> /\ y.rx = <<>> /\ y.buf = <<>>
    BY <2>2 DEF Mcu
  <2> HIDE DEF y
  <2>4. Ready(P, y, b)
    BY <1>2, <2>3 DEF Ready, Idle, Talking
  <2>5. /\ s = [port |-> P, mcu |-> s.mcu]
        /\ s.mcu \in Mcu /\ Alike(s.mcu, w) /\ s.mcu.cmd = Plain("VERSION")
        /\ Sending(s.mcu) \/ Sent(s.mcu)
    BY <2>1, <2>2, Messages, SendIs
  <2>6. /\ z \in Mcu /\ z.cmd = s.mcu.cmd /\ z.itr = FALSE
        /\ z.state = s.mcu.state /\ z.pending = s.mcu.pending /\ z.bitmask = s.mcu.bitmask
        /\ z.to_write = s.mcu.to_write /\ z.timer = s.mcu.timer /\ z.locked = s.mcu.locked
        /\ z.tx = s.mcu.tx /\ z.rx = s.mcu.rx /\ z.buf = s.mcu.buf
        /\ z.progress = s.mcu.progress /\ z.out = s.mcu.out
    BY <2>5 DEF Mcu
  <2>7. ~n.itr => s.mcu = z
    BY <1>3, <2>2, <2>5, McuTypes DEF Alike
  <2>8. s.port = P
    BY <2>5
  <2> HIDE DEF z
  <2>9. Alike(z, y) /\ (Sending(z) \/ Sent(z)) /\ z.cmd = Asked(y)
    BY <2>2, <2>3, <2>5, <2>6 DEF Alike, Sending, Sent, Asked
  <2>10. StateInv(P, z, b) /\ z.locked
    BY <2>4, <2>6, <2>9, UnderWayInv
  <2>11. z.locked = TRUE
    BY <2>6, <2>10, McuTypes
  <2>12. QED
    BY <1>5, <2>5, <2>7, <2>8, <2>10, <2>11 DEF z
<1>6. QED
  BY <1>4, <1>5

LEMMA PrivateTimeoutInv ==
    ASSUME IInv, PrivateTimeout
    PROVE  StateInv(port', mcu', board) /\ (mcu'.locked => ~board.busy)
<1> DEFINE n == [mcu EXCEPT !.timer = 0]
<1>1. [Here EXCEPT !.mcu.timer = 0] = [port |-> port, mcu |-> n]
  BY DEF Here
<1>2. PICK s \in start_mcu_update([port |-> port, mcu |-> n], ~board.busy) :
        port' = s.port /\ mcu' = s.mcu
  BY <1>1 DEF PrivateTimeout
<1>3. /\ StateInv(port, mcu, board) /\ McuInv(mcu, board.dout) /\ mcu \in Mcu /\ mcu.timer = 1
      /\ (~board.busy) \in BOOLEAN /\ (mcu.locked => ~board.busy)
  BY DEF PrivateTimeout, IInv, BoardInv, StateInv, McuInv
<1>4. /\ n \in Mcu /\ n.timer = 0 /\ Alike(n, [mcu EXCEPT !.timer = 0])
      /\ n.state = mcu.state /\ n.pending = mcu.pending /\ n.locked = mcu.locked
      /\ n.itr = mcu.itr /\ n.bitmask = mcu.bitmask
      /\ n.tx = mcu.tx /\ n.rx = mcu.rx /\ n.buf = mcu.buf /\ n.progress = mcu.progress
      /\ n.out = mcu.out
  <2>1. n \in Mcu
    BY <1>3, Members, Zenon DEF Mcu
  <2>2. QED
    BY <1>3, <2>1 DEF Mcu, Alike
<1> HIDE DEF n
<1>5. CASE mcu.state = "PENDING"
  <2>1. Quiet(n) /\ ~n.itr
    BY <1>3, <1>4, <1>5 DEF McuInv, Quiet
  <2> DEFINE z == [s.mcu EXCEPT !.itr = FALSE]
             free == ~board.busy
  <2>2. free \in BOOLEAN /\ s \in start_mcu_update([port |-> port, mcu |-> n], free)
    BY <1>2, <1>3
  <2> HIDE DEF free
  <2>3. s.port = port /\ StateInv(port, z, board) /\ z.locked = free /\ (~n.itr => s.mcu = z)
    BY <1>3, <1>4, <1>5, <2>1, <2>2, StartInv
  <2> HIDE DEF z
  <2>4. QED
    BY <1>2, <2>1, <2>3 DEF free
<1>6. CASE mcu.state # "PENDING"
  <2>1. mcu.state = "SET_DIGITAL_OUT" /\ Quiet(mcu)
    BY <1>3, <1>6, McuTypes DEF McuInv, McuStates, Talking, HalfWay, Exchange
  <2>2. s \in set_digital_out([port |-> port, mcu |-> n])
    BY <1>2, <1>4, <2>1 DEF start_mcu_update
  <2>3. mcu.locked /\ ~mcu.itr /\ mcu.pending # {} /\ n.state \in Talking
    BY <1>3, <1>4, <2>1 DEF McuInv, Talking
  <2>4. Idle(port, n)
    BY <1>3, <1>4, <2>1, <2>3 DEF Idle, StateInv, Quiet
  <2>5. Real(port, n.bitmask, board.theirs) /\ board.dout = n.bitmask
    BY <1>3, <1>4, <2>1 DEF StateInv, MaskInv, Applied
  <2>6. StateInv(s.port, s.mcu, board) /\ s.mcu.locked
    BY <1>4, <2>1, <2>2, <2>4, <2>5, SetInv
  <2>7. QED
    BY <1>2, <1>3, <2>3, <2>6
<1>7. QED
  BY <1>5, <1>6

\* The iteration callback without what usb_monitor_stop_itr_cb does after it.
LEMMA ItrRuns ==
    ASSUME IInv, mcu.itr, NEW s \in itr_cb(Here, ~board.busy)
    PROVE  /\ s.port = port /\ s.mcu \in Mcu /\ (s.mcu.locked => ~board.busy)
           /\ StateInv(port, [s.mcu EXCEPT !.itr = FALSE], board)
<1>1. /\ StateInv(port, mcu, board) /\ McuInv(mcu, board.dout) /\ mcu \in Mcu /\ mcu.itr
      /\ (~board.busy) \in BOOLEAN /\ (mcu.locked => ~board.busy)
      /\ port \in [Ports -> LannerPort]
  BY DEF IInv, BoardInv, StateInv, McuInv
<1>2. mcu.state \in {"PENDING", "UPDATE_DONE"} /\ Quiet(mcu) /\ mcu.timer = 0
  BY <1>1, McuTypes DEF McuInv, McuStates, Talking
<1>3. CASE mcu.state = "PENDING"
  <2> DEFINE z == [s.mcu EXCEPT !.itr = FALSE]
             free == ~board.busy
  <2>1. free \in BOOLEAN /\ s \in start_mcu_update([port |-> port, mcu |-> mcu], free)
    BY <1>1, <1>3 DEF itr_cb, Here
  <2> HIDE DEF free
  <2>2. s.port = port /\ StateInv(port, z, board) /\ z.locked = free /\ s.mcu \in Mcu
    BY <1>1, <1>2, <1>3, <2>1, StartInv
  <2>3. z.locked = s.mcu.locked
    BY <2>2 DEF Mcu
  <2> HIDE DEF z
  <2>4. QED
    BY <2>2, <2>3 DEF free, z
<1>4. CASE mcu.state = "UPDATE_DONE"
  <2> DEFINE n == [mcu EXCEPT !.locked = FALSE, !.state = "IDLE", !.out = FALSE]
             z == [n EXCEPT !.itr = FALSE]
  <2>1. s = [port |-> port, mcu |-> n]
    BY <1>4 DEF itr_cb, Here
  <2>2. n \in Mcu /\ n.locked = FALSE
    BY <1>1 DEF Mcu, McuStates
  <2>3. /\ z \in Mcu /\ z.state = "IDLE" /\ z.pending = mcu.pending /\ z.locked = FALSE
        /\ z.itr = FALSE /\ z.timer = 0 /\ Quiet(z)
    BY <1>1, <1>2, <2>2 DEF Mcu, Quiet
  <2>4. s.port = port /\ s.mcu = n /\ z = [s.mcu EXCEPT !.itr = FALSE]
    BY <2>1
  <2> HIDE DEF z, n
  <2>5. z.pending = {}
    BY <1>1, <1>4, <2>3 DEF McuInv
  <2>6. McuInv(z, board.dout) /\ MaskInv(port, z, board)
    BY <1>1, <1>4, <2>3, <2>5 DEF StateInv, McuInv, MaskInv, Talking
  <2>7. StateInv(port, z, board)
    BY <1>1, <2>3, <2>6 DEF StateInv
  <2>8. QED
    BY <2>2, <2>4, <2>7
<1>5. QED
  BY <1>2, <1>3, <1>4

LEMMA AnswersInv ==
    ASSUME IInv, NEW refuse \in BOOLEAN, McuAnswers(refuse, FALSE)
    PROVE  StateInv(port, mcu', board') /\ BoardInv'
<1> DEFINE c == Head(mcu.tx)
           a == IF refuse THEN Plain("ERROR") ELSE answer(c)
           n == [mcu EXCEPT !.tx = <<>>, !.rx = <<a, NL>>]
<1>1. /\ StateInv(port, mcu, board) /\ McuInv(mcu, board.dout) /\ mcu \in Mcu
      /\ BoardInv /\ mcu.tx # <<>> /\ mcu.cmd \in Msg
  BY McuTypes DEF McuAnswers, IInv, StateInv, McuInv
<1>2. mcu.state \in Talking /\ mcu.timer = 0
  BY <1>1, McuTypes DEF McuInv, McuStates, Talking, Quiet, HalfWay, Exchange
<1>3. Exchange(mcu, board.dout)
  BY <1>1, <1>2, ExchangeIdle
<1>4. Sent(mcu) /\ mcu.cmd = Asked(mcu)
  BY <1>1, <1>3 DEF Exchange, Sending, Answered
<1>5. c = Asked(mcu) /\ Tail(mcu.tx) = <<>>
  <2>1. \A x : Head(<<x>>) = x /\ Tail(<<x>>) = <<>>
    OBVIOUS
  <2>2. QED
    BY <1>4, <2>1 DEF Sent
<1>6. answer(c) = Reply(mcu, board.dout)
  <2>1. CASE mcu.state = "GET_VERSION"
    BY <1>5, <2>1 DEF answer, Asked, Reply, Plain
  <2>2. CASE mcu.state = "GET_DIGITAL_OUT"
    BY <1>5, <2>2 DEF answer, Asked, Reply, Plain
  <2>3. CASE mcu.state = "SET_DIGITAL_OUT"
    BY <1>5, <2>3 DEF answer, Asked, Reply, Plain
  <2>4. QED
    BY <1>2, <2>1, <2>2, <2>3 DEF Talking
<1>7. a \in {Reply(mcu, board.dout), Plain("ERROR")} /\ a \in Msg
  BY <1>1, <1>6, Messages DEF Reply, BoardInv
<1>8. mcu' = n
  <2>1. mcu' = [mcu EXCEPT !.tx = Tail(mcu.tx), !.rx = mcu.rx \o <<a, NL>> \o <<>>]
    BY DEF McuAnswers
  <2>2. <<>> \o <<a, NL>> \o <<>> = <<a, NL>>
    OBVIOUS
  <2>3. QED
    BY <1>4, <1>5, <2>1, <2>2 DEF Sent
<1>9. board' = IF mcu.state = "SET_DIGITAL_OUT" /\ ~refuse
               THEN [board EXCEPT !.dout = mcu.to_write] ELSE board
  <2>1. board' = IF c.what = "SET" /\ ~refuse THEN [board EXCEPT !.dout = c.mask] ELSE board
    BY DEF McuAnswers
  <2>2. /\ c.what = "SET" <=> mcu.state = "SET_DIGITAL_OUT"
        /\ mcu.state = "SET_DIGITAL_OUT" => c.mask = mcu.to_write
    BY <1>5 DEF Asked, Plain
  <2>3. QED
    BY <2>1, <2>2
<1>10. /\ n \in Mcu /\ Alike(n, mcu) /\ n.cmd = mcu.cmd /\ Answered(n, a)
  <2>1. <<a, NL>> \in Seq(Unit) /\ <<>> \in Seq(Msg)
    BY <1>7, Messages
  <2>2. n \in Mcu
    BY <1>1, <2>1, Zenon DEF Mcu
  <2>3. QED
    BY <1>1, <1>4, <2>2 DEF Mcu, Alike, Answered, Sent
<1> HIDE DEF n
<1>11. /\ board' \in [dout : SUBSET Bits, theirs : SUBSET Foreign, busy : BOOLEAN]
       /\ board'.busy = board.busy /\ board'.theirs = board.theirs
       /\ board'.dout = IF mcu.state = "SET_DIGITAL_OUT" /\ ~refuse THEN mcu.to_write
                        ELSE board.dout
  BY <1>1, <1>9, McuTypes DEF BoardInv
<1>12. BoardInv'
  BY <1>1, <1>8, <1>10, <1>11 DEF BoardInv, Alike
<1>13. Applied(n) <=> a = Plain("OK")
  BY <1>2, <1>10, AnswerIsOne DEF Applied, Alike
<1>14. a = Plain("OK") <=> mcu.state = "SET_DIGITAL_OUT" /\ ~refuse
  <2>1. Plain("OK") # Plain("ERROR") /\ Plain("OK") # Plain("VERSION")
        /\ \A S : Plain("OK") # [what |-> "GET", mask |-> S]
    BY DEF Plain
  <2>2. QED
    BY <1>2, <1>6, <2>1 DEF Reply, Talking
<1>15. ~Applied(mcu)
  <2>1. <<mcu.cmd>> # <<>>
    OBVIOUS
  <2>2. QED
    BY <1>4, <2>1, Zenon DEF Applied, Answered, Sent
<1>16. Asked(n) = Asked(mcu) /\ Reply(n, board'.dout) = Reply(mcu, board.dout)
  BY <1>10, <1>11 DEF Asked, Reply, Alike
<1>17. Exchange(n, board'.dout)
  BY <1>2, <1>4, <1>7, <1>10, <1>16 DEF Exchange, Alike
<1>18. McuInv(n, board'.dout)
  BY <1>1, <1>2, <1>10, <1>17 DEF McuInv, Alike, Talking
<1>19. MaskInv(port, n, board')
  <2>1. CASE mcu.state = "SET_DIGITAL_OUT"
    BY <1>1, <1>10, <1>11, <1>13, <1>14, <1>15, <2>1, SameMask DEF StateInv, MaskInv, Alike
  <2>2. CASE mcu.state # "SET_DIGITAL_OUT"
    BY <1>1, <1>10, <1>11, <2>2 DEF StateInv, MaskInv, Alike
  <2>3. QED
    BY <2>1, <2>2
<1>20. StateInv(port, n, board')
  BY <1>1, <1>10, <1>18, <1>19 DEF StateInv, Alike
<1>21. QED
  BY <1>8, <1>12, <1>20

\* The other program has the lock, so that no update of the MCU is under way.
LEMMA OtherInv ==
    ASSUME IInv, board.busy, NEW b \in Foreign, OtherSwitches(b)
    PROVE  StateInv(port, mcu, board') /\ BoardInv'
<1> DEFINE flip(S) == IF b \in S THEN S \ {b} ELSE S \cup {b}
<1>1. StateInv(port, mcu, board) /\ BoardInv /\ mcu' = mcu
  BY DEF IInv, OtherSwitches
<1>2. mcu.state \in {"IDLE", "PENDING"}
  BY <1>1 DEF BoardInv, StateInv, McuInv
<1>3. board' = [board EXCEPT !.dout = flip(board.dout), !.theirs = flip(board.theirs)]
  BY DEF OtherSwitches
<1>4. flip(board.dout) \in SUBSET Bits /\ flip(board.theirs) \in SUBSET Foreign
  BY <1>1 DEF BoardInv, Bits
<1>5. /\ board' \in [dout : SUBSET Bits, theirs : SUBSET Foreign, busy : BOOLEAN]
      /\ board'.busy = board.busy
      /\ board'.dout = flip(board.dout) /\ board'.theirs = flip(board.theirs)
  BY <1>1, <1>3, <1>4 DEF BoardInv
<1>6. Real(port, board.dout, board.theirs)
  BY <1>1, <1>2 DEF StateInv, MaskInv
<1>7. Real(port, flip(board.dout), flip(board.theirs))
  BY <1>6, LannerAssumption DEF Real
<1> HIDE DEF flip
<1>8. McuInv(mcu, board'.dout)
  BY <1>1, <1>2 DEF StateInv, McuInv, Talking
<1>9. MaskInv(port, mcu, board')
  BY <1>2, <1>5, <1>7 DEF MaskInv
<1>10. QED
  BY <1>1, <1>5, <1>8, <1>9 DEF StateInv, BoardInv
-----------------------------------------------------------------------------
(* The ports that one callback of the common code has restarted, or a      *)
(* client's command, are registered.                                       *)

\* The ports P have become Q, and those in R have new commands.
Commanded(P, Q, R) ==
    /\ \A p \in Ports : Q[p].pwr = P[p].pwr
    /\ \A p \in Ports \ R : /\ Q[p].cur = P[p].cur /\ Q[p].rcmd = P[p].rcmd
                            /\ Q[p].mode = "RESET" => P[p].mode = "RESET"
    /\ \A p \in R : Q[p].cur = "RESTART" => Q[p].rcmd = "DISABLE"

LEMMA RegisterInv ==
    ASSUME NEW P, NEW m, NEW b, StateInv(P, m, b),
           NEW Q \in [Ports -> LannerPort], NEW R \in SUBSET Ports, R # {} => accepts(m),
           Commanded(P, Q, R)
    PROVE  StateInv(Q, register(m, R), b) /\ register(m, R).locked = m.locked
<1>1. /\ McuInv(m, b.dout) /\ m \in Mcu /\ MaskInv(P, m, b) /\ m.pending \in SUBSET Ports
      /\ \A p \in Ports : CommandInv(P[p], p \in m.pending)
  BY McuTypes DEF StateInv, McuInv
<1>2. \A mask, theirs : Real(P, mask, theirs) => Real(Q, mask, theirs)
  BY DEF Real, Commanded
<1>3. CASE R = {}
  <2>1. register(m, R) = m
    BY <1>3 DEF register
  <2>2. On(Q, m) = On(P, m)
    BY <1>1, <1>3 DEF On, cmd_to_check, Commanded
  <2>3. MaskInv(Q, m, b)
    <3>1. create_mcu_bitmask([port |-> Q, mcu |-> m]) = create_mcu_bitmask([port |-> P, mcu |-> m])
      BY <2>2, MaskIs
    <3>2. QED
      BY <1>1, <1>2, <3>1 DEF MaskInv
  <2>4. \A p \in Ports : CommandInv(Q[p], p \in m.pending)
    BY <1>1, <1>3 DEF CommandInv, Commanded
  <2>5. QED
    BY <1>1, <2>1, <2>3, <2>4 DEF StateInv
<1>4. CASE R # {}
  <2> DEFINE i == IF m.timer = 0 THEN TRUE ELSE m.itr
             n == [m EXCEPT !.pending = m.pending \cup R, !.state = "PENDING", !.itr = i]
  <2>1. register(m, R) = n
    BY <1>4 DEF register
  <2>2. m.state \in {"IDLE", "PENDING"}
    BY <1>4 DEF accepts
  <2>3. i \in BOOLEAN /\ (IF i THEN m.timer = 0 ELSE m.timer = 1) /\ Quiet(m) /\ ~m.locked
    BY <1>1, <2>2, McuTypes DEF McuInv
  <2> HIDE DEF i
  <2>4. /\ n \in Mcu /\ n.pending = m.pending \cup R /\ n.state = "PENDING" /\ n.itr = i
        /\ n.timer = m.timer /\ n.locked = m.locked /\ Quiet(n)
    <3>1. m.pending \cup R \in SUBSET Ports /\ "PENDING" \in McuStates
      BY <1>1 DEF McuStates
    <3>2. n \in Mcu
      BY <1>1, <2>3, <3>1, Zenon DEF Mcu
    <3>3. QED
      BY <1>1, <2>3, <3>2 DEF Mcu, Quiet
  <2> HIDE DEF n
  <2>5. McuInv(n, b.dout)
    BY <1>4, <2>3, <2>4 DEF McuInv, Talking
  <2>6. MaskInv(Q, n, b)
    BY <1>1, <1>2, <2>2, <2>4 DEF MaskInv
  <2>7. \A p \in Ports : CommandInv(Q[p], p \in n.pending)
    BY <1>1, <2>4 DEF CommandInv, Commanded
  <2>8. QED
    BY <2>1, <2>4, <2>5, <2>6, <2>7 DEF StateInv
<1>5. QED
  BY <1>3, <1>4

\* The signal's registration is undone by usb_monitor_stop_itr_cb: the ports wait
\* for the next one.
LEMMA ItrInv ==
    ASSUME IInv, NEW interrupted \in BOOLEAN, ItrCallback(interrupted)
    PROVE  /\ StateInv(port', mcu', board) /\ (mcu'.locked => ~board.busy)
           /\ \A p \in Ports : \/ port'[p] = port[p]
                               \/ port'[p] = [port[p] EXCEPT !.cur = "RESTART", !.rcmd = "DISABLE",
                                                             !.mode = "RESET"]
<1> DEFINE R(s) == {p \in Ports : /\ interrupted /\ accepts(s.mcu)
                                  /\ s.port[p].enabled /\ s.port[p].mode # "RESET"}
<1>1. PICK s \in itr_cb(Here, ~board.busy) :
        /\ port' = [p \in Ports |-> IF p \notin R(s) THEN s.port[p]
                        ELSE [s.port[p] EXCEPT !.cur = "RESTART", !.rcmd = "DISABLE",
                                               !.mode = "RESET"]]
        /\ mcu' = [register(s.mcu, R(s)) EXCEPT !.itr = FALSE]
  BY DEF ItrCallback
<1> DEFINE z == [s.mcu EXCEPT !.itr = FALSE]
           S == R(s)
<1>2. /\ s.port = port /\ s.mcu \in Mcu /\ (s.mcu.locked => ~board.busy)
      /\ StateInv(port, z, board)
  BY ItrRuns DEF ItrCallback
<1>3. S \in SUBSET Ports /\ (S # {} => accepts(s.mcu) /\ "interrupt" \in Faults)
  BY DEF ItrCallback
<1>4. /\ port' = [p \in Ports |-> IF p \notin S THEN port[p]
                        ELSE [port[p] EXCEPT !.cur = "RESTART", !.rcmd = "DISABLE", !.mode = "RESET"]]
      /\ mcu' = [register(s.mcu, S) EXCEPT !.itr = FALSE]
  BY <1>1, <1>2
<1> HIDE DEF S, R
<1>5. /\ z \in Mcu /\ z.itr = FALSE /\ z.state = s.mcu.state /\ z.timer = s.mcu.timer
      /\ z.pending = s.mcu.pending /\ z.locked = s.mcu.locked
  BY <1>2 DEF Mcu
<1>6. port \in [Ports -> LannerPort]
  BY DEF IInv, StateInv
<1>7. port' \in [Ports -> LannerPort] /\ Commanded(port, port', S)
  <2>1. ASSUME NEW r \in LannerPort
        PROVE  LET t == [r EXCEPT !.cur = "RESTART", !.rcmd = "DISABLE", !.mode = "RESET"]
               IN  t \in LannerPort /\ t.pwr = r.pwr /\ t.rcmd = "DISABLE"
    <3> DEFINE t == [r EXCEPT !.cur = "RESTART", !.rcmd = "DISABLE", !.mode = "RESET"]
    <3>1. t \in LannerPort
      BY Members, Zenon DEF LannerPort
    <3>2. t.pwr = r.pwr /\ t.rcmd = "DISABLE"
      BY DEF LannerPort
    <3>3. QED
      BY <3>1, <3>2
  <2>2. port' \in [Ports -> LannerPort]
    BY <1>4, <1>6, <2>1
  <2>3. Commanded(port, port', S)
    BY <1>3, <1>4, <1>6, <2>1 DEF Commanded
  <2>4. QED
    BY <2>2, <2>3
<1>8. StateInv(port', register(z, S), board) /\ register(z, S).locked = z.locked
  <2>1. S # {} => accepts(z)
    BY <1>3, <1>5 DEF accepts
  <2> HIDE DEF z
  <2>2. QED
    BY <1>2, <1>3, <1>7, <2>1, RegisterInv
<1>9. CASE S = {}
  <2>1. register(z, S) = z /\ mcu' = z
    BY <1>4, <1>9 DEF register
  <2>2. QED
    BY <1>2, <1>4, <1>5, <1>8, <1>9, <2>1
<1>10. CASE S # {}
  <2> DEFINE n == register(z, S)
             y == [n EXCEPT !.itr = FALSE]
  <2>1. n = [z EXCEPT !.pending = z.pending \cup S, !.state = "PENDING",
                      !.itr = IF z.timer = 0 THEN TRUE ELSE z.itr]
    BY <1>10 DEF register
  <2>2. mcu' = y
    <3>1. register(s.mcu, S) = [s.mcu EXCEPT !.pending = s.mcu.pending \cup S, !.state = "PENDING",
                                    !.itr = IF s.mcu.timer = 0 THEN TRUE ELSE s.mcu.itr]
      BY <1>10 DEF register
    <3>2. QED
      BY <1>2, <1>4, <2>1, <3>1 DEF Mcu
  <2>3. n.state = "PENDING"
    BY <1>5, <2>1 DEF Mcu
  <2> HIDE DEF n, z
  <2>4. McuInv(n, board.dout) /\ n \in Mcu /\ StateInv(port', n, board)
    BY <1>8 DEF StateInv, McuInv, n
  <2>5. /\ y \in Mcu /\ y.state = n.state /\ y.timer = n.timer /\ y.pending = n.pending
        /\ y.locked = n.locked /\ y.itr = FALSE /\ (Quiet(n) => Quiet(y))
    BY <2>4 DEF Mcu, Quiet
  <2> HIDE DEF y
  <2>6. McuInv(y, board.dout)
    <3>1. Quiet(n) /\ n.timer \in {0, 1}
      BY <2>3, <2>4 DEF McuInv
    <3>2. QED
      BY <1>3, <1>10, <2>3, <2>4, <2>5, <3>1 DEF McuInv, Talking
  <2>7. MaskInv(port', y, board)
    BY <2>3, <2>4, <2>5 DEF StateInv, MaskInv
  <2>8. StateInv(port', y, board)
    BY <2>4, <2>5, <2>6, <2>7 DEF StateInv
  <2>9. QED
    BY <1>2, <1>4, <1>5, <1>8, <2>2, <2>5, <2>8 DEF n
<1>11. QED
  BY <1>9, <1>10

\* What the common code does to one port.
PortStep(m, r, s) ==
    /\ s \in LannerPort /\ s.pwr = r.pwr
    /\ \/ s.cur = r.cur /\ s.rcmd = r.rcmd /\ (s.mode = "RESET" => r.mode = "RESET")
       \/ /\ accepts(m) /\ r.mode # "RESET" /\ s.mode = "RESET"
          /\ s.cur = "RESTART" /\ s.rcmd = "DISABLE"

LEMMA CallbackInv ==
    ASSUME IInv, NEW Q, Q = [p \in Ports |-> Q[p]],
           \A p \in Ports : PortStep(mcu, port[p], Q[p])
    PROVE  LET n == register(mcu, Restarted(Q))
           IN  StateInv(Q, n, board) /\ n.locked = mcu.locked
<1> DEFINE R == Restarted(Q)
<1>1. StateInv(port, mcu, board)
  BY DEF IInv
<1>2. Q \in [Ports -> LannerPort] /\ R \in SUBSET Ports
  BY DEF PortStep, Restarted
<1>3. R # {} => accepts(mcu)
  BY DEF PortStep, Restarted
<1>4. Commanded(port, Q, R)
  BY DEF PortStep, Restarted, Commanded
<1> HIDE DEF R
<1>5. StateInv(Q, register(mcu, R), board) /\ register(mcu, R).locked = mcu.locked
  BY <1>1, <1>2, <1>3, <1>4, RegisterInv
<1>6. QED
  BY <1>5 DEF R
-----------------------------------------------------------------------------
(* One lemma for each function of the common code.  Besides PortStep they  *)
(* keep what makes it safe to start a timer: a port with a ping in flight  *)
(* is not on the timeout list, and a port on it in PING has a device.      *)

TimerInv(r) ==
    /\ r.listed # 2 /\ r.mode # "PROBE"
    /\ r.handle \in {NoDev, r.dev}
    /\ r.pings > 0 => r.handle # NoDev
    /\ r.mode = "PING" /\ r.pings > 0 => r.listed = 0 /\ r.pings = 1
    /\ r.mode = "PING" /\ r.listed # 0 => r.dev # NoDev

\* Only the command, the mode and the power differ, and the mode is not PING.
LEMMA OtherMode ==
    ASSUME NEW r, NEW s, TimerInv(r), s.mode \in {r.mode, "IDLE", "RESET"}, s.listed = r.listed,
           s.dev = r.dev, s.handle = r.handle, s.pings = r.pings
    PROVE  TimerInv(s)
BY DEF TimerInv

LEMMA RestartStep ==
    ASSUME NEW m, NEW r \in LannerPort, r.mode # "RESET",
           NEW o \in lanner_update_port(m, r, "RESTART")
    PROVE  /\ PortStep(m, r, o.port) /\ o.port.dev = r.dev /\ o.port.listed = r.listed
           /\ o.ret # 0 => o.port = r
           /\ TimerInv(r) => TimerInv(o.port)
<1>1. CASE ~accepts(m)
  BY <1>1, RestartIs DEF PortStep
<1>2. CASE accepts(m)
  <2>1. /\ o.ret = 0
        /\ Is(o.port, r.enabled, r.pwr, "RESET", r.retrans, r.dev, r.handle, r.pings, r.listed,
              "RESTART", "DISABLE")
    BY <1>2, RestartIs
  <2>2. QED
    BY <1>2, <2>1, OtherMode DEF PortStep, Is
<1>3. QED
  BY <1>1, <1>2

LEMMA DeviceAddedStep ==
    ASSUME NEW m, NEW r \in LannerPort, NEW d \in Devs,
           NEW s \in device_added(r, d, lanner_update_port(m, attached(r, d), "RESTART"))
    PROVE  /\ PortStep(m, r, s)
           /\ TimerInv(r) /\ r.dev \in {NoDev, d} /\ (r.dev = NoDev => r.listed = 0)
                => TimerInv(s) /\ (s = r \/ s.dev = d)
<1> DEFINE t == attached(r, d)
<1>1. Is(t, r.enabled, r.pwr, "PING", r.retrans, d, r.handle, r.pings,
         IF r.listed = 0 THEN 1 ELSE 2, r.cur, r.rcmd)
  BY AttachedIs
<1>2. \/ s = r
      \/ /\ r.mode # "RESET" /\ r.dev # d
         /\ s = t \/ \E o \in lanner_update_port(m, t, "RESTART") : s = o.port
  BY DEF device_added, added_ignored
<1> HIDE DEF t
<1>3. t \in LannerPort /\ t.dev = d /\ t.mode = "PING" /\ PortStep(m, r, t)
  BY <1>1 DEF Is, PortStep
<1>4. ASSUME TimerInv(r), r.dev = NoDev, r.listed = 0 PROVE TimerInv(t)
  <2>1. r.handle = NoDev /\ ~(r.pings > 0) /\ r.pings \in 0 .. 2 /\ d # NoDev
    BY <1>4, FieldTypes, DevsAssumption DEF TimerInv
  <2>2. t.listed = 1 /\ t.pings = 0 /\ t.handle = NoDev
    BY <1>1, <1>4, <2>1 DEF Is
  <2>3. QED
    BY <1>3, <2>1, <2>2 DEF TimerInv
<1>5. ASSUME r.mode # "RESET", NEW o \in lanner_update_port(m, t, "RESTART"), s = o.port
      PROVE  PortStep(m, r, s) /\ s.dev = d /\ (TimerInv(t) => TimerInv(s))
  <2>1. PortStep(m, t, s) /\ s.dev = t.dev /\ (TimerInv(t) => TimerInv(s))
    BY <1>3, <1>5, RestartStep
  <2>2. QED
    BY <1>3, <1>5, <2>1 DEF PortStep
<1>6. s = r => PortStep(m, r, s)
  BY DEF PortStep
<1>7. QED
  BY <1>2, <1>3, <1>4, <1>5, <1>6

LEMMA ResetPortStep ==
    ASSUME NEW m, NEW r \in LannerPort
    PROVE  LET s == reset_port(r)
           IN  /\ PortStep(m, r, s) /\ s.dev = NoDev
               /\ TimerInv(r) => TimerInv(s)
<1> DEFINE s == reset_port(r)
<1>1. PICK n \in Few :
        /\ Is(s, r.enabled, r.pwr, r.mode, 0, NoDev, NoDev,
              IF Connected(r) /\ r.handle # NoDev THEN 0 ELSE r.pings, n, r.cur, r.rcmd)
        /\ n = IF r.mode \in {"RESET", "PROBE"} \/ r.listed = 2 THEN r.listed ELSE 0
  BY ResetPortIs
<1> HIDE DEF s
<1>2. PortStep(m, r, s) /\ s.dev = NoDev
  BY <1>1 DEF Is, PortStep
<1>3. ASSUME TimerInv(r) PROVE TimerInv(s)
  <2>1. s.pings = 0 /\ s.listed # 2
    BY <1>1, <1>3, FieldTypes DEF Is, TimerInv, Connected
  <2>2. s.mode = "PING" => s.listed = 0
    BY <1>1, <1>3 DEF Is, TimerInv
  <2>3. QED
    BY <1>1, <1>3, <2>1, <2>2 DEF Is, TimerInv
<1>4. QED
  BY <1>2, <1>3 DEF s

LEMMA SendPingStep ==
    ASSUME NEW m, NEW r \in LannerPort, NEW s \in send_ping(r)
    PROVE  /\ PortStep(m, r, s) /\ s.dev = r.dev
           /\ TimerInv(r) /\ r.mode = "PING" /\ r.listed = 0 /\ r.pings = 0 /\ r.dev # NoDev
                => TimerInv(s)
<1>1. PortStep(m, r, s) /\ s.dev = r.dev
  BY SendPingIs DEF Is, PortStep
<1>2. ASSUME TimerInv(r), r.mode = "PING", r.listed = 0, r.pings = 0, r.dev # NoDev
      PROVE  TimerInv(s)
  <2>1. OpenHandle(r) = r.dev
    BY <1>2 DEF OpenHandle, TimerInv
  <2>2. /\ s.mode = "PING" /\ s.dev = r.dev /\ s.handle \in {NoDev, s.dev}
        /\ \/ s.listed = 0 /\ s.pings = 1 /\ s.handle = r.dev
           \/ s.listed = 1 /\ s.pings = 0
    BY <1>2, <2>1, SendPingIs DEF Is, TimerInv
  <2>3. QED
    BY <1>2, <2>2 DEF TimerInv
<1>3. QED
  BY <1>1, <1>2

\* usb_monitor_check_timeouts for one port.
LEMMA ExpireStep ==
    ASSUME NEW m, NEW r \in LannerPort, r.listed = 1,
           NEW s \in LET t == del_timeout(r)
                     IN  IF t.enabled THEN lanner_handle_timeout(t) ELSE {t}
    PROVE  PortStep(m, r, s) /\ s.dev = r.dev /\ (TimerInv(r) => TimerInv(s))
<1> DEFINE t == del_timeout(r)
<1>1. Is(t, r.enabled, r.pwr, r.mode, r.retrans, r.dev, r.handle, r.pings, 0, r.cur, r.rcmd)
  BY DelIs DEF Is
<1>2. s = t \/ (t.mode = "PING" /\ s \in send_ping(t))
  BY DEF lanner_handle_timeout
<1> HIDE DEF t
<1>3. t \in LannerPort /\ PortStep(m, r, t) /\ t.dev = r.dev
  BY <1>1 DEF Is, PortStep
<1>4. TimerInv(r) => TimerInv(t)
  BY <1>1 DEF Is, TimerInv
<1>5. ASSUME t.mode = "PING", s \in send_ping(t)
      PROVE  PortStep(m, r, s) /\ s.dev = r.dev /\ (TimerInv(r) => TimerInv(s))
  <2>1. TimerInv(r) => t.listed = 0 /\ t.pings = 0 /\ t.dev # NoDev
    BY <1>1, <1>5, FieldTypes DEF Is, TimerInv
  <2>2. /\ PortStep(m, t, s) /\ s.dev = t.dev
        /\ TimerInv(t) /\ t.mode = "PING" /\ t.listed = 0 /\ t.pings = 0 /\ t.dev # NoDev
             => TimerInv(s)
    BY <1>3, <1>5, SendPingStep
  <2>3. QED
    BY <1>1, <1>3, <1>4, <1>5, <2>1, <2>2 DEF PortStep, Is
<1>6. QED
  BY <1>2, <1>3, <1>4, <1>5

LEMMA ResetIfNeededStep ==
    ASSUME NEW m, NEW r \in LannerPort, NEW forced \in BOOLEAN,
           NEW s \in reset_if_needed(r, forced, lanner_update_port(m, r, "RESTART"))
    PROVE  /\ PortStep(m, r, s) /\ s.dev = r.dev /\ s.listed = r.listed
           /\ TimerInv(r) => TimerInv(s)
<1>1. \/ s = r
      \/ r.mode # "RESET" /\ \E o \in lanner_update_port(m, r, "RESTART") : s = o.port
  BY DEF reset_if_needed
<1>2. s = r => PortStep(m, r, s)
  BY DEF PortStep
<1>3. QED
  BY <1>1, <1>2, RestartStep

LEMMA PingCbStep ==
    ASSUME NEW m, NEW r \in LannerPort, r.pings > 0, NEW ok \in BOOLEAN,
           NEW s \in ping_cb(r, ok, lanner_update_port(m, at_limit(r), "RESTART"))
    PROVE  PortStep(m, r, s) /\ s.dev = r.dev /\ (TimerInv(r) => TimerInv(s))
<1> DEFINE t == [r EXCEPT !.pings = r.pings - 1]
           q == [t EXCEPT !.retrans = 0]
           f == count_failure(t)
           l == at_limit(r)
           u(o) == [o.port EXCEPT !.retrans = USB_RETRANS_LIMIT]
<1>0. r.pings - 1 \in Few
  BY FieldTypes DEF Few
<1>1. Is(t, r.enabled, r.pwr, r.mode, r.retrans, r.dev, r.handle, r.pings - 1, r.listed,
         r.cur, r.rcmd)
  BY <1>0, Zenon DEF Is, LannerPort
<1>2. Is(q, r.enabled, r.pwr, r.mode, 0, r.dev, r.handle, r.pings - 1, r.listed, r.cur, r.rcmd)
  BY <1>1, Members, Zenon DEF Is, LannerPort
<1>3. Is(f, r.enabled, r.pwr, r.mode, (r.retrans + 1) % RETRANS_MOD, r.dev, r.handle,
         r.pings - 1, r.listed, r.cur, r.rcmd)
  <2> HIDE DEF t
  <2>1. Is(f, t.enabled, t.pwr, t.mode, (t.retrans + 1) % RETRANS_MOD, t.dev, t.handle,
           t.pings, t.listed, t.cur, t.rcmd)
    BY <1>1, FailureIs, Zenon DEF Is
  <2>2. QED
    BY <1>1, <2>1, Zenon DEF Is
<1>4. Is(l, r.enabled, r.pwr, r.mode, 0, r.dev, r.handle, r.pings - 1, r.listed, r.cur, r.rcmd)
  BY AtLimitIs
<1>5. \/ (~r.enabled \/ r.mode # "PING") /\ s = t
      \/ r.mode = "PING" /\ (s = start_timeout(q) \/ s = start_timeout(f))
      \/ /\ r.mode = "PING"
         /\ \E o \in lanner_update_port(m, l, "RESTART") :
                IF o.ret = 0 THEN s = o.port ELSE s = start_timeout(u(o))
  BY <1>1 DEF ping_cb, Is
<1> HIDE DEF t, q, f, l
<1>6. ASSUME s = t PROVE PortStep(m, r, s) /\ s.dev = r.dev /\ (TimerInv(r) => TimerInv(s))
  <2>1. PortStep(m, r, s) /\ s.dev = r.dev
    BY <1>1, <1>6 DEF Is, PortStep
  <2>2. TimerInv(r) => TimerInv(s)
    BY <1>1, <1>6, FieldTypes DEF Is, TimerInv
  <2>3. QED
    BY <2>1, <2>2
\* The timer is started for a port whose ping is no longer in flight.
<1>7. ASSUME r.mode = "PING", NEW v \in LannerPort, NEW n \in Failures,
             Is(v, r.enabled, r.pwr, r.mode, n, r.dev, r.handle, r.pings - 1, r.listed,
                r.cur, r.rcmd),
             s = start_timeout(v)
      PROVE  PortStep(m, r, s) /\ s.dev = r.dev /\ (TimerInv(r) => TimerInv(s))
  <2>1. Is(s, v.enabled, v.pwr, v.mode, v.retrans, v.dev, v.handle, v.pings,
           IF v.listed = 0 THEN 1 ELSE 2, v.cur, v.rcmd)
    BY <1>7, StartIs
  <2>2. PortStep(m, r, s) /\ s.dev = r.dev
    BY <1>7, <2>1 DEF Is, PortStep
  <2>3. ASSUME TimerInv(r) PROVE TimerInv(s)
    <3>1. r.listed = 0 /\ r.pings = 1 /\ r.handle # NoDev /\ r.handle = r.dev
      BY <1>7, <2>3 DEF TimerInv
    <3>2. /\ s.listed = 1 /\ s.pings = 0 /\ s.mode = "PING" /\ s.dev = r.dev
          /\ s.handle = r.handle
      BY <1>7, <2>1, <3>1 DEF Is
    <3>3. QED
      BY <3>1, <3>2 DEF TimerInv
  <2>4. QED
    BY <2>2, <2>3
<1>8. ASSUME r.mode = "PING", NEW o \in lanner_update_port(m, l, "RESTART"), o.ret = 0, s = o.port
      PROVE  PortStep(m, r, s) /\ s.dev = r.dev /\ (TimerInv(r) => TimerInv(s))
  <2>1. l \in LannerPort /\ l.mode # "RESET"
    BY <1>4, <1>8 DEF Is
  <2>2. PortStep(m, l, s) /\ s.dev = l.dev /\ (TimerInv(l) => TimerInv(s))
    BY <1>8, <2>1, RestartStep
  <2>3. TimerInv(r) => TimerInv(l)
    BY <1>4, FieldTypes DEF Is, TimerInv
  <2>4. QED
    BY <1>4, <2>2, <2>3 DEF Is, PortStep
<1>9. ASSUME r.mode = "PING", NEW o \in lanner_update_port(m, l, "RESTART"), o.ret # 0,
             s = start_timeout(u(o))
      PROVE  PortStep(m, r, s) /\ s.dev = r.dev /\ (TimerInv(r) => TimerInv(s))
  <2>1. l \in LannerPort /\ o.port = l
    BY <1>4, <1>9, RestartStep DEF Is
  <2> DEFINE v == [l EXCEPT !.retrans = USB_RETRANS_LIMIT]
  <2>2. Is(v, r.enabled, r.pwr, r.mode, USB_RETRANS_LIMIT, r.dev, r.handle, r.pings - 1, r.listed,
           r.cur, r.rcmd)
    BY <1>4, Members, Zenon DEF Is, LannerPort
  <2>3. s = start_timeout(v)
    BY <1>9, <2>1
  <2> HIDE DEF v
  <2>4. v \in LannerPort /\ USB_RETRANS_LIMIT \in Failures
    BY <2>2, Members DEF Is
  <2>5. QED
    BY <1>7, <1>9, <2>2, <2>3, <2>4
<1>10. CASE r.mode = "PING" /\ (s = start_timeout(q) \/ s = start_timeout(f))
  <2>1. /\ q \in LannerPort /\ f \in LannerPort
        /\ 0 \in Failures /\ (r.retrans + 1) % RETRANS_MOD \in Failures
    BY <1>2, <1>3, Members, FieldTypes DEF Is
  <2>2. QED
    BY <1>2, <1>3, <1>7, <1>10, <2>1
<1> HIDE DEF u
<1>11. QED
  BY <1>5, <1>6, <1>8, <1>9, <1>10
-----------------------------------------------------------------------------
(* The invariant is inductive.                                             *)

LEMMA Facts ==
    ASSUME IInv
    PROVE  /\ port \in [Ports -> LannerPort] /\ mcu \in Mcu /\ StateInv(port, mcu, board)
           /\ McuInv(mcu, board.dout) /\ BoardInv
           /\ plug \in [Ports -> DevOrNone] /\ evq \in [Ports -> Seq(Event)]
           /\ \A p \in Ports : PortStep(mcu, port[p], port[p])
BY DEF IInv, StateInv, McuInv, PortStep

\* A client's command that was not dropped.
LEMMA CommandStep ==
    ASSUME IInv, NEW p \in Ports, NEW cmd \in UserCmds, ClientCommand(p, cmd)
    PROVE  /\ StateInv(port', mcu', board) /\ mcu'.locked = mcu.locked
           /\ \A q \in Ports : /\ port'[q].dev = port[q].dev /\ port'[q].listed = port[q].listed
                               /\ TimerInv(port[q]) => TimerInv(port'[q])
<1> DEFINE r == port[p]
<1>1. PICK o \in lanner_update_port(mcu, r, cmd) :
        /\ port' = [port EXCEPT ![p] = o.port]
        /\ mcu' = register(mcu, IF o.ret = 0 THEN {p} ELSE {})
  BY DEF ClientCommand
<1>2. r \in LannerPort /\ cmd \in Cmds
  BY Facts, MonitorAssumption
<1>3. CASE ~accepts(mcu)
  <2>1. o.port = r /\ o.ret = 503
    BY <1>3 DEF lanner_update_port
  <2>2. port' = port /\ mcu' = mcu
    BY <1>1, <2>1, Facts DEF register
  <2>3. QED
    BY <2>2, Facts
<1>4. CASE accepts(mcu)
  <2> DEFINE s == [r EXCEPT !.cur = cmd]
  <2>1. /\ o.ret = 0 /\ o.port \in LannerPort /\ o.port.pwr = r.pwr
        /\ o.port.cur = "RESTART" => o.port.rcmd = "DISABLE"
        /\ o.port.mode \in {r.mode, "IDLE", "RESET"} /\ o.port.listed = r.listed
        /\ o.port.dev = r.dev /\ o.port.handle = r.handle /\ o.port.pings = r.pings
    <3>1. CASE cmd = "RESTART"
      BY <1>1, <1>2, <1>4, <3>1, RestartIs DEF Is
    <3>2. CASE cmd # "RESTART"
      <4>1. o = [port |-> s, ret |-> 0]
        BY <1>4, <3>2 DEF lanner_update_port
      <4>2. Is(s, r.enabled, r.pwr, r.mode, r.retrans, r.dev, r.handle, r.pings, r.listed,
               cmd, r.rcmd)
        BY <1>2, Zenon DEF Is, LannerPort
      <4> HIDE DEF s
      <4>3. QED
        BY <3>2, <4>1, <4>2 DEF Is
    <3>3. QED
      BY <3>1, <3>2
  <2>2. /\ port' \in [Ports -> LannerPort] /\ port'[p] = o.port
        /\ \A q \in Ports \ {p} : port'[q] = port[q]
    BY <1>1, <2>1, Facts
  <2>3. Commanded(port, port', {p})
    BY <2>1, <2>2 DEF Commanded
  <2>4. mcu' = register(mcu, {p}) /\ {p} \in SUBSET Ports
    BY <1>1, <2>1
  <2>5. StateInv(port', mcu', board) /\ mcu'.locked = mcu.locked
    BY <1>4, <2>2, <2>3, <2>4, Facts, RegisterInv
  <2>6. TimerInv(r) => TimerInv(o.port)
    BY <2>1, OtherMode
  <2>7. QED
    BY <2>1, <2>2, <2>5, <2>6
<1>5. QED
  BY <1>3, <1>4

LEMMA InitInv == Init => IInv
<1> SUFFICES ASSUME Init PROVE IInv
  OBVIOUS
<1>1. /\ port \in [Ports -> LannerPort]
      /\ \A p \in Ports : port[p].pwr /\ port[p].mode = "IDLE"
  BY Members DEF Init, LannerPort
<1>2. /\ mcu \in Mcu /\ mcu.state = "IDLE" /\ mcu.pending = {} /\ mcu.locked = FALSE /\ Quiet(mcu)
      /\ mcu.itr = FALSE /\ mcu.timer = 0
  BY Messages, LannerAssumption DEF Init, Mcu, McuStates, Few, Quiet
<1>3. plug \in [Ports -> DevOrNone] /\ evq \in [Ports -> Seq(Event)]
  BY Members DEF Init
<1>4. /\ board \in [dout : SUBSET Bits, theirs : SUBSET Foreign, busy : BOOLEAN]
      /\ board.dout = {} /\ board.theirs = {} /\ board.busy = FALSE
  BY DEF Init
<1>5. McuInv(mcu, board.dout)
  BY <1>2 DEF McuInv, Talking
<1>6. MaskInv(port, mcu, board)
  BY <1>1, <1>2, <1>4 DEF MaskInv, Real
<1>7. \A p \in Ports : CommandInv(port[p], p \in mcu.pending)
  BY <1>1, <1>2 DEF CommandInv
<1>8. QED
  BY <1>1, <1>2, <1>3, <1>4, <1>5, <1>6, <1>7 DEF IInv, BoardInv, StateInv

\* The callbacks of the common code, port by port.
LEMMA CommonStep ==
    ASSUME IInv, NEW Q, Q \in [Ports -> LannerPort],
           \A p \in Ports : PortStep(mcu, port[p], Q[p]),
           port' = Q, mcu' = register(mcu, Restarted(Q)), board' = board
    PROVE  StateInv(port', mcu', board') /\ BoardInv'
<1>1. Q = [p \in Ports |-> Q[p]]
  OBVIOUS
<1>2. LET n == register(mcu, Restarted(Q)) IN StateInv(Q, n, board) /\ n.locked = mcu.locked
  BY <1>1, CallbackInv
<1>3. QED
  BY <1>2, Facts DEF BoardInv

\* The ports as the callbacks of the common code leave them.
LEMMA DispatchStep ==
    ASSUME IInv, NEW p \in Ports, DispatchHotplug(p)
    PROVE  LET e == Head(evq[p])
           IN  /\ e \in Event /\ port' = [port EXCEPT ![p] = port'[p]]
               /\ port'[p] \in IF e.what = "ARRIVED" THEN added(port[p], e.dev)
                               ELSE {reset_port(port[p])}
               /\ port' \in [Ports -> LannerPort]
               /\ \A q \in Ports : PortStep(mcu, port[q], port'[q])
<1> DEFINE e == Head(evq[p])
<1>1. PICK s \in IF e.what = "ARRIVED" THEN added(port[p], e.dev)
                 ELSE {reset_port(port[p])} : port' = [port EXCEPT ![p] = s]
  BY DEF DispatchHotplug
<1>2. port'[p] = s /\ \A q \in Ports \ {p} : port'[q] = port[q]
  BY <1>1, Facts
<1>3. e \in Event
  BY Facts DEF DispatchHotplug
<1> HIDE DEF e
<1>4. e.dev \in Devs
  BY <1>3 DEF Event
<1>5. PortStep(mcu, port[p], s)
  <2>1. CASE e.what = "ARRIVED"
    BY <1>1, <1>4, <2>1, Facts, DeviceAddedStep DEF added, restart
  <2>2. CASE e.what # "ARRIVED"
    BY <1>1, <2>2, Facts, ResetPortStep
  <2>3. QED
    BY <2>1, <2>2
<1>6. s \in LannerPort
  BY <1>5 DEF PortStep
<1>7. port' \in [Ports -> LannerPort] /\ port' = [port EXCEPT ![p] = port'[p]]
  BY <1>1, <1>2, <1>6, Facts
<1>8. \A q \in Ports : PortStep(mcu, port[q], port'[q])
  BY <1>2, <1>5, Facts
<1>9. QED
  BY <1>1, <1>2, <1>3, <1>7, <1>8 DEF e

LEMMA CheckDevicesStep ==
    ASSUME IInv, CheckDevices
    PROVE  /\ port' \in [Ports -> LannerPort]
           /\ \A p \in Ports :
                /\ port'[p] \in IF plug[p] = NoDev THEN {port[p]} ELSE added(port[p], plug[p])
                /\ PortStep(mcu, port[p], port'[p])
<1>1. /\ port' = [p \in Ports |-> port'[p]]
      /\ \A p \in Ports :
            port'[p] \in IF plug[p] = NoDev THEN {port[p]} ELSE added(port[p], plug[p])
  BY DEF CheckDevices, ForEach
<1>2. ASSUME NEW p \in Ports PROVE PortStep(mcu, port[p], port'[p])
  <2>1. CASE plug[p] = NoDev
    BY <1>1, <2>1, Facts
  <2>2. CASE plug[p] # NoDev
    <3>1. plug[p] \in Devs
      BY <2>2, Facts DEF DevOrNone
    <3>2. QED
      BY <1>1, <2>2, <3>1, Facts, DeviceAddedStep DEF added, restart
  <2>3. QED
    BY <2>1, <2>2
<1>3. QED
  BY <1>1, <1>2 DEF PortStep

LEMMA PingDoneStep ==
    ASSUME IInv, NEW p \in Ports, NEW ok \in BOOLEAN, PingDone(p, ok)
    PROVE  /\ port' \in [Ports -> LannerPort]
           /\ \A q \in Ports : /\ PortStep(mcu, port[q], port'[q])
                               /\ port'[q].dev = port[q].dev
                               /\ TimerInv(port[q]) => TimerInv(port'[q])
           /\ \A q \in Ports \ {p} : port'[q] = port[q]
<1>1. PICK s \in ping_cb(port[p], ok, restart(at_limit(port[p]))) : port' = [port EXCEPT ![p] = s]
  BY DEF PingDone
<1>2. port'[p] = s /\ \A q \in Ports \ {p} : port'[q] = port[q]
  BY <1>1, Facts
<1>3. PortStep(mcu, port[p], s) /\ s.dev = port[p].dev /\ (TimerInv(port[p]) => TimerInv(s))
  BY <1>1, Facts, PingCbStep DEF restart, PingDone
<1>4. s \in LannerPort
  BY <1>3 DEF PortStep
<1>5. port' \in [Ports -> LannerPort]
  BY <1>1, <1>4, Facts
<1>6. QED
  BY <1>2, <1>3, <1>5, Facts

LEMMA ResetAllStep ==
    ASSUME IInv, NEW forced \in BOOLEAN, port' \in reset_all(forced)
    PROVE  /\ port' \in [Ports -> LannerPort]
           /\ \A p \in Ports : /\ PortStep(mcu, port[p], port'[p])
                               /\ port'[p].dev = port[p].dev /\ port'[p].listed = port[p].listed
                               /\ TimerInv(port[p]) => TimerInv(port'[p])
<1>1. /\ port' = [p \in Ports |-> port'[p]]
      /\ \A p \in Ports : port'[p] \in reset_if_needed(port[p], forced, restart(port[p]))
  BY DEF reset_all, ForEach
<1>2. ASSUME NEW p \in Ports
      PROVE  /\ PortStep(mcu, port[p], port'[p])
             /\ port'[p].dev = port[p].dev /\ port'[p].listed = port[p].listed
             /\ TimerInv(port[p]) => TimerInv(port'[p])
  BY <1>1, Facts, ResetIfNeededStep DEF restart
<1>3. QED
  BY <1>1, <1>2 DEF PortStep

LEMMA CheckTimeoutsStep ==
    ASSUME IInv, NEW p \in Ports, CheckTimeouts(p)
    PROVE  /\ port' \in [Ports -> LannerPort] /\ port[p].listed = 1
           /\ \A q \in Ports : /\ PortStep(mcu, port[q], port'[q])
                               /\ port'[q].dev = port[q].dev
                               /\ TimerInv(port[q]) => TimerInv(port'[q])
           /\ \A q \in Ports \ {p} : port'[q] = port[q]
<1>1. port[p].listed = 1
  BY Facts, FieldTypes DEF CheckTimeouts, Hung, timeout_active
<1>2. PICK s \in LET t == del_timeout(port[p])
                 IN  IF t.enabled THEN lanner_handle_timeout(t) ELSE {t} :
        port' = [port EXCEPT ![p] = s]
  BY DEF CheckTimeouts
<1>3. port'[p] = s /\ \A q \in Ports \ {p} : port'[q] = port[q]
  BY <1>2, Facts
<1>4. PortStep(mcu, port[p], s) /\ s.dev = port[p].dev /\ (TimerInv(port[p]) => TimerInv(s))
  BY <1>1, <1>2, Facts, ExpireStep
<1>5. s \in LannerPort
  BY <1>4 DEF PortStep
<1>6. port' \in [Ports -> LannerPort]
  BY <1>2, <1>5, Facts
<1>7. QED
  BY <1>1, <1>3, <1>4, <1>6, Facts

LEMMA NextInv ==
    ASSUME IInv, [Next]_vars, "repeat" \notin Faults
    PROVE  IInv'
<1>1. ASSUME UNCHANGED libusb, StateInv(port', mcu', board'), BoardInv' PROVE IInv'
  BY <1>1, Facts DEF IInv, libusb
<1>2. ASSUME NEW p \in Ports, Connect(p) PROVE IInv'
  <2>1. PICK d \in Devs : /\ plug' = [plug EXCEPT ![p] = d]
                          /\ evq' = [evq EXCEPT ![p] = Append(@, [what |-> "ARRIVED", dev |-> d])]
    BY <1>2 DEF Connect, Arrive
  <2>2. [what |-> "ARRIVED", dev |-> d] \in Event
    BY DEF Event
  <2>3. evq' \in [Ports -> Seq(Event)] /\ plug' \in [Ports -> DevOrNone]
    BY <2>1, <2>2, Members, Facts
  <2>4. QED
    BY <1>2, <2>3, Facts DEF Connect, IInv, BoardInv
<1>3. ASSUME NEW p \in Ports, Disconnect(p) PROVE IInv'
  <2>1. [what |-> "LEFT", dev |-> plug[p]] \in Event
    BY <1>3, Facts DEF Disconnect, Leave, Event, DevOrNone
  <2>2. evq' \in [Ports -> Seq(Event)] /\ plug' \in [Ports -> DevOrNone]
    BY <1>3, <2>1, Members, Facts DEF Disconnect, Leave
  <2>3. QED
    BY <1>3, <2>2, Facts DEF Disconnect, IInv, BoardInv
<1>4. ASSUME NEW p \in Ports, DispatchHotplug(p) PROVE IInv'
  <2>1. /\ evq' \in [Ports -> Seq(Event)] /\ plug' = plug /\ board' = board
        /\ mcu' = register(mcu, Restarted(port'))
    BY <1>4, Facts DEF DispatchHotplug
  <2>2. port' \in [Ports -> LannerPort] /\ \A q \in Ports : PortStep(mcu, port[q], port'[q])
    BY <1>4, DispatchStep
  <2>3. StateInv(port', mcu', board') /\ BoardInv'
    BY <2>1, <2>2, CommonStep
  <2>4. QED
    BY <2>1, <2>3, Facts DEF IInv
<1>5. ASSUME CheckDevices PROVE IInv'
  <2>1. UNCHANGED libusb /\ board' = board /\ mcu' = register(mcu, Restarted(port'))
    BY <1>5 DEF CheckDevices, libusb
  <2>2. port' \in [Ports -> LannerPort] /\ \A q \in Ports : PortStep(mcu, port[q], port'[q])
    BY <1>5, CheckDevicesStep
  <2>3. QED
    BY <1>1, <2>1, <2>2, CommonStep
<1>6. ASSUME NEW p \in Ports, NEW ok \in BOOLEAN, PingDone(p, ok) PROVE IInv'
  <2>1. UNCHANGED libusb /\ board' = board /\ mcu' = register(mcu, Restarted(port'))
    BY <1>6 DEF PingDone, libusb
  <2>2. port' \in [Ports -> LannerPort] /\ \A q \in Ports : PortStep(mcu, port[q], port'[q])
    BY <1>6, PingDoneStep
  <2>3. QED
    BY <1>1, <2>1, <2>2, CommonStep
<1>7. ASSUME CheckReset \/ SignalHandler PROVE IInv'
  <2>1. /\ UNCHANGED libusb /\ board' = board /\ mcu' = register(mcu, Restarted(port'))
        /\ \E forced \in BOOLEAN : port' \in reset_all(forced)
    BY <1>7 DEF CheckReset, SignalHandler, libusb
  <2>2. port' \in [Ports -> LannerPort] /\ \A q \in Ports : PortStep(mcu, port[q], port'[q])
    BY <2>1, ResetAllStep
  <2>3. QED
    BY <1>1, <2>1, <2>2, CommonStep
<1>8. ASSUME NEW p \in Ports, CheckTimeouts(p) PROVE IInv'
  <2>1. UNCHANGED libusb /\ board' = board /\ mcu' = mcu
    BY <1>8 DEF CheckTimeouts, libusb
  <2>2. port' \in [Ports -> LannerPort] /\ \A q \in Ports : PortStep(mcu, port[q], port'[q])
    BY <1>8, CheckTimeoutsStep
  <2>3. Restarted(port') = {}
    <3>1. PICK s \in LET t == del_timeout(port[p])
                     IN  IF t.enabled THEN lanner_handle_timeout(t) ELSE {t} :
            port' = [port EXCEPT ![p] = s]
      BY <1>8 DEF CheckTimeouts
    <3> DEFINE t == del_timeout(port[p])
    <3>2. port[p] \in LannerPort
      BY Facts
    <3>3. t \in LannerPort /\ t.mode = port[p].mode
      BY <3>2, DelIs DEF Is
    <3> HIDE DEF t
    <3>4. s = t \/ s \in send_ping(t)
      BY <3>1 DEF lanner_handle_timeout, t
    <3>5. s.mode = port[p].mode
      BY <3>3, <3>4, SendPingIs DEF Is
    <3>6. QED
      BY <3>1, <3>5, Facts DEF Restarted
  <2>4. register(mcu, Restarted(port')) = mcu
    BY <2>3 DEF register
  <2>5. QED
    BY <1>1, <2>1, <2>2, <2>4, CommonStep
<1>9. ASSUME NEW p \in Ports, NEW cmd \in UserCmds, ClientCommand(p, cmd) PROVE IInv'
  <2>1. UNCHANGED libusb /\ board' = board
    BY <1>9 DEF ClientCommand, libusb
  <2>2. StateInv(port', mcu', board) /\ mcu'.locked = mcu.locked
    BY <1>9, CommandStep
  <2>3. QED
    BY <1>1, <2>1, <2>2, Facts DEF BoardInv
<1>10. ASSUME NEW refuse \in BOOLEAN, NEW again \in BOOLEAN, McuAnswers(refuse, again) PROVE IInv'
  <2>1. UNCHANGED libusb /\ port' = port /\ ~again
    BY <1>10 DEF McuAnswers, libusb
  <2>2. McuAnswers(refuse, FALSE)
    BY <1>10, <2>1
  <2>3. QED
    BY <1>1, <2>1, <2>2, AnswersInv
<1>11. ASSUME OtherLocks \/ OtherUnlocks PROVE IInv'
  <2>1. /\ UNCHANGED libusb /\ port' = port /\ mcu' = mcu
        /\ \E x \in BOOLEAN : board' = [board EXCEPT !.busy = x] /\ (x => ~mcu.locked)
    BY <1>11 DEF OtherLocks, OtherUnlocks, libusb
  <2>2. /\ board' \in [dout : SUBSET Bits, theirs : SUBSET Foreign, busy : BOOLEAN]
        /\ board'.dout = board.dout /\ board'.theirs = board.theirs
        /\ mcu.locked => ~board'.busy
    BY <2>1, Facts DEF BoardInv
  <2>3. StateInv(port', mcu', board') /\ BoardInv'
    BY <2>1, <2>2, Facts DEF StateInv, MaskInv, BoardInv
  <2>4. QED
    BY <1>1, <2>1, <2>3
<1>12. ASSUME NEW b \in Foreign, OtherSwitches(b) PROVE IInv'
  <2>1. UNCHANGED libusb /\ port' = port /\ mcu' = mcu /\ board.busy
    BY <1>12 DEF OtherSwitches, libusb
  <2>2. QED
    BY <1>1, <1>12, <2>1, OtherInv
<1>13. ASSUME NEW in \in BOOLEAN, NEW out \in BOOLEAN, McuEvent(in, out) PROVE IInv'
  <2>1. UNCHANGED libusb /\ board' = board /\ mcu.locked
    BY <1>13 DEF McuEvent, libusb
  <2>2. QED
    BY <1>1, <1>13, <2>1, McuEventInv, Facts DEF BoardInv
<1>14. ASSUME PrivateTimeout PROVE IInv'
  <2>1. UNCHANGED libusb /\ board' = board
    BY <1>14 DEF PrivateTimeout, libusb
  <2>2. QED
    BY <1>1, <1>14, <2>1, PrivateTimeoutInv, Facts DEF BoardInv
<1>15. ASSUME NEW interrupted \in BOOLEAN, ItrCallback(interrupted) PROVE IInv'
  <2>1. UNCHANGED libusb /\ board' = board
    BY <1>15 DEF ItrCallback, libusb
  <2>2. QED
    BY <1>1, <1>15, <2>1, ItrInv, Facts DEF BoardInv
<1>16. CASE UNCHANGED vars
  BY <1>1, <1>16, Facts DEF vars, libusb, BoardInv
<1>17. QED
  BY <1>2, <1>3, <1>4, <1>5, <1>6, <1>7, <1>8, <1>9, <1>10, <1>11, <1>12, <1>13, <1>14, <1>15,
     <1>16 DEF Next
-----------------------------------------------------------------------------
(* The theorems, where the MCU answers a command once.                     *)

\* The exchange with the MCU, the masks and the registered commands agree in every
\* reachable state.
THEOREM Invariance ==
    ASSUME "repeat" \notin Faults
    PROVE  Safe => []IInv
<1>1. IInv /\ [Next]_vars => IInv'
  BY NextInv
<1>2. QED
  BY InitInv, <1>1, PTL DEF Safe

\* When no update is under way, pwr_state is what the MCU does, whatever it
\* refuses, however the writes are cut and whoever else uses the MCU.
THEOREM PowerStateIsRealAlways ==
    ASSUME "repeat" \notin Faults
    PROVE  Safe => []PowerStateIsReal
<1>1. IInv => PowerStateIsReal
  BY DEF IInv, StateInv, MaskInv, Real, PowerStateIsReal
<1>2. QED
  BY Invariance, <1>1, PTL

\* The daemon never changes a bit that another program uses, though it writes
\* the whole mask.
THEOREM TheirsUntouchedAlways ==
    ASSUME "repeat" \notin Faults
    PROVE  Safe => []TheirsUntouched
<1>1. IInv => TheirsUntouched
  <2> SUFFICES ASSUME IInv PROVE board.dout \cap Foreign = board.theirs
    BY DEF TheirsUntouched
  <2>1. MaskInv(port, mcu, board) /\ mcu.pending \in SUBSET Ports
    BY Facts, McuTypes DEF StateInv
  <2>2. CASE mcu.state # "SET_DIGITAL_OUT" \/ ~Applied(mcu)
    BY <2>1, <2>2 DEF MaskInv, Real
  <2>3. CASE mcu.state = "SET_DIGITAL_OUT" /\ Applied(mcu)
    <3>1. board.dout = (mcu.bitmask \ On(port, mcu)) \cup (mcu.pending \ On(port, mcu))
      BY <2>1, <2>3, MaskIs DEF MaskInv, Applied
    <3>2. mcu.bitmask \cap Foreign = board.theirs
      BY <2>1, <2>3 DEF MaskInv, Real
    <3>3. QED
      BY <2>1, <3>1, <3>2, LannerAssumption DEF On
  <2>4. QED
    BY <2>2, <2>3
<1>2. QED
  BY Invariance, <1>1, PTL

\* A registered port has exactly one thing under way that will serve it: the
\* iteration callback, the private timer, or a command on the line; unless the
\* signal arrives inside usb_monitor_itr_cb.
THEOREM PendingHasWayAlways ==
    ASSUME "repeat" \notin Faults, "interrupt" \notin Faults
    PROVE  Safe => []PendingHasWay
<1>1. IInv => PendingHasWay
  <2> SUFFICES ASSUME IInv PROVE PendingHasWay
    OBVIOUS
  <2>1. McuInv(mcu, board.dout) /\ mcu \in Mcu
    BY Facts
  <2>2. (mcu.pending # {}) <=> mcu.state \notin {"IDLE", "UPDATE_DONE"}
    BY <2>1 DEF McuInv
  <2>3. Exchange(mcu, board.dout) => mcu.timer = 0 /\ (mcu.out \/ mcu.tx # <<>> \/ mcu.rx # <<>>)
    <3>1. <<mcu.cmd>> # <<>> /\ <<NL>> # <<>> /\ \A a : <<a, NL>> # <<>>
      OBVIOUS
    <3>2. QED
      BY <3>1, Zenon DEF Exchange, Sending, Sent, Answered
  <2>4. QED
    BY <2>1, <2>2, <2>3, McuTypes DEF PendingHasWay, McuInv, McuStates, Talking, HalfWay
<1>2. QED
  BY Invariance, <1>1, PTL

\* The device is open and locked exactly while the daemon talks to it, and
\* nothing is on the line, or half read, outside of an update.
THEOREM LockedWhileTalkingAlways ==
    ASSUME "repeat" \notin Faults
    PROVE  Safe => []LockedWhileTalking
<1>1. IInv => LockedWhileTalking
  BY Facts, McuTypes DEF LockedWhileTalking, McuInv, BoardInv, Quiet
<1>2. QED
  BY Invariance, <1>1, PTL
-----------------------------------------------------------------------------
(* The timeout list.  While libusb reports a device's arrival only after   *)
(* the removal of the last one is handled and its ping timer has run out,  *)
(* no port is inserted twice.                                              *)

\* The ports after lanner_handler_ok_reply.
OkPorts(P, R) == [p \in Ports |-> IF p \in R THEN ok_port(P[p]) ELSE P[p]]

\* x is a state of the handler.
Paired(x) == x = [port |-> x.port, mcu |-> x.mcu]

LEMMA PairedIs ==
    ASSUME NEW x, Paired(x), NEW n
    PROVE  Paired([x EXCEPT !.mcu = n]) /\ [x EXCEPT !.mcu = n].port = x.port
<1>1. x = [port |-> x.port, mcu |-> x.mcu]
  BY DEF Paired
<1>2. [x EXCEPT !.mcu = n] = [port |-> x.port, mcu |-> n]
  BY <1>1
<1>3. QED
  BY <1>2 DEF Paired

LEMMA SendPorts ==
    ASSUME NEW x, Paired(x), NEW c, NEW s \in send_cmd(x, c)
    PROVE  s.port = x.port
<1>1. PICK n \in write_cmd_buf([x.mcu EXCEPT !.cmd = c]) : s = [x EXCEPT !.mcu = n]
  BY DEF send_cmd
<1>2. QED
  BY <1>1, PairedIs

LEMMA SetPorts ==
    ASSUME NEW x, Paired(x), NEW s \in set_digital_out(x)
    PROVE  s.port = x.port
<1> DEFINE mask == create_mcu_bitmask(x)
           n == [x.mcu EXCEPT !.to_write = mask]
           y == [x EXCEPT !.mcu = n]
<1>1. s \in send_cmd(y, [what |-> "SET", mask |-> mask])
  BY DEF set_digital_out
<1> HIDE DEF n, mask
<1>2. Paired(y) /\ y.port = x.port
  BY PairedIs
<1> HIDE DEF y
<1>3. QED
  BY <1>1, <1>2, SendPorts

LEMMA HandlePorts ==
    ASSUME NEW x, Paired(x), NEW a, NEW s \in handle_msg(x, a)
    PROVE  s.port \in {x.port, OkPorts(x.port, x.mcu.pending)}
<1> DEFINE m == [x.mcu EXCEPT !.state = "GET_DIGITAL_OUT"]
           y == [x EXCEPT !.mcu = m]
           n == [x.mcu EXCEPT !.bitmask = a.mask]
           w == [x EXCEPT !.mcu = n]
           k == [w.mcu EXCEPT !.state = "SET_DIGITAL_OUT"]
           z == [w EXCEPT !.mcu = k]
<1>1. \/ \E v \in write_cmd_buf(x.mcu) : s = [x EXCEPT !.mcu = v]
      \/ s \in send_cmd(y, Plain("GET"))
      \/ s \in set_digital_out(z)
      \/ s = ok_reply(x) \/ s = x
  BY DEF handle_msg, digital_out_reply
<1> HIDE DEF m, n, k
<1>2. Paired(y) /\ y.port = x.port /\ Paired(w) /\ w.port = x.port
  BY PairedIs
<1> HIDE DEF w
<1>3. Paired(z) /\ z.port = x.port
  BY <1>2, PairedIs
<1> HIDE DEF y, z
<1>4. ok_reply(x).port = OkPorts(x.port, x.mcu.pending)
  BY DEF ok_reply, OkPorts
<1>5. ASSUME NEW v, s = [x EXCEPT !.mcu = v] PROVE s.port = x.port
  BY <1>5, PairedIs
<1>6. s \in send_cmd(y, Plain("GET")) => s.port = x.port
  BY <1>2, SendPorts
<1>7. s \in set_digital_out(z) => s.port = x.port
  BY <1>3, SetPorts
<1>8. QED
  BY <1>1, <1>4, <1>5, <1>6, <1>7

LEMMA McuEventPorts ==
    ASSUME IInv, NEW in \in BOOLEAN, NEW out \in BOOLEAN, McuEvent(in, out)
    PROVE  port' \in {port, OkPorts(port, mcu.pending)}
<1>1. PICK s \in event_cb(Here, in, out) : port' = s.port
  BY DEF McuEvent
<1>2. /\ StateInv(port, mcu, board) /\ McuInv(mcu, board.dout) /\ board.dout \in SUBSET Bits
      /\ mcu.locked /\ (in \/ out) /\ (in => mcu.rx # <<>>) /\ (out => mcu.out)
      /\ mcu \in Mcu
  BY DEF McuEvent, IInv, BoardInv, StateInv, McuInv
<1>3. mcu.state \in Talking /\ mcu.timer = 0
  BY <1>2, McuTypes DEF McuInv, McuStates, Talking, Quiet, HalfWay, Exchange
<1>4. Exchange(mcu, board.dout)
  BY <1>2, <1>3, ExchangeIdle
<1>5. CASE out
  <2>1. ~in
    BY <1>2, <1>4, <1>5 DEF Exchange, Sending, Sent, Answered
  <2>2. PICK n \in write_cmd_buf(mcu) : s = [port |-> port, mcu |-> n]
    BY <1>1, <1>5, <2>1 DEF event_cb, Here
  <2>3. QED
    BY <1>1, <2>2
<1>6. CASE ~out
  <2> DEFINE n == [mcu EXCEPT !.rx = <<>>, !.buf = <<>>]
  <2>1. s \in handle_input([port |-> port, mcu |-> mcu])
    BY <1>1, <1>2, <1>6 DEF event_cb, Here
  <2>2. PICK a \in {Reply(mcu, board.dout), Plain("ERROR")} : Answered(mcu, a)
    BY <1>2, <1>4, <1>6 DEF Exchange, Sending, Sent
  <2>3. a \in Msg
    BY <1>2, <2>2, Messages DEF Reply
  <2>4. \/ s = [port |-> port, mcu |-> [mcu EXCEPT !.rx = <<NL>>, !.buf = <<a>>]]
        \/ s \in handle_msg([port |-> port, mcu |-> n], a)
    BY <1>2, <2>1, <2>2, <2>3, InputIs, Zenon
  <2> DEFINE x == [port |-> port, mcu |-> n]
  <2>5. n.pending = mcu.pending
    BY <1>2 DEF Mcu
  <2> HIDE DEF n
  <2>6. Paired(x) /\ x.port = port /\ x.mcu = n
    BY DEF Paired
  <2> HIDE DEF x
  <2>7. QED
    BY <1>1, <2>4, <2>5, <2>6, HandlePorts DEF x
<1>7. QED
  BY <1>5, <1>6

LEMMA StartPorts ==
    ASSUME NEW x, Paired(x), NEW free, NEW s \in start_mcu_update(x, free)
    PROVE  s.port = x.port
<1> DEFINE y == [x EXCEPT !.mcu = open_mcu(x.mcu)]
<1>1. \/ s = [x EXCEPT !.mcu = start_private_timer(x.mcu)] \/ s = x
      \/ \E c : s \in send_cmd(y, c) \/ s \in send_cmd(x, c)
      \/ s \in set_digital_out(x)
  BY DEF start_mcu_update
<1>2. Paired(y) /\ y.port = x.port
  BY PairedIs
<1> HIDE DEF y
<1>3. ASSUME NEW v, s = [x EXCEPT !.mcu = v] PROVE s.port = x.port
  BY <1>3, PairedIs
<1>4. ASSUME NEW c, s \in send_cmd(y, c) \/ s \in send_cmd(x, c) PROVE s.port = x.port
  BY <1>2, <1>4, SendPorts
<1>5. s \in set_digital_out(x) => s.port = x.port
  BY SetPorts
<1>6. QED
  BY <1>1, <1>3, <1>4, <1>5

\* The callbacks of the MCU change a port only when its mask was written.
LEMMA McuPorts ==
    ASSUME IInv, \/ \E in, out \in BOOLEAN : McuEvent(in, out)
                 \/ PrivateTimeout
    PROVE  port' \in {port, OkPorts(port, mcu.pending)}
<1>1. CASE PrivateTimeout
  <2> DEFINE x == [Here EXCEPT !.mcu.timer = 0]
             free == ~board.busy
  <2>1. PICK s \in start_mcu_update(x, free) : port' = s.port
    BY <1>1 DEF PrivateTimeout
  <2>2. Paired(x) /\ x.port = port
    BY PairedIs DEF Here, Paired
  <2> HIDE DEF x, free
  <2>3. QED
    BY <2>1, <2>2, StartPorts
<1>2. QED
  BY <1>1, McuEventPorts

LEMMA OkTimer ==
    ASSUME IInv, port' \in {port, OkPorts(port, mcu.pending)}, NEW p \in Ports
    PROVE  /\ port'[p].dev = port[p].dev /\ port'[p].listed = port[p].listed
           /\ TimerInv(port[p]) => TimerInv(port'[p])
<1>1. port[p] \in LannerPort /\ CommandInv(port[p], p \in mcu.pending)
  BY DEF IInv, StateInv
<1>2. CASE port'[p] = port[p]
  BY <1>2
<1>3. CASE p \in mcu.pending /\ port'[p] = ok_port(port[p])
  <2>1. CommandInv(port[p], TRUE)
    BY <1>1, <1>3 DEF CommandInv
  <2> DEFINE r == port[p]
  <2>2. /\ port'[p].mode \in {r.mode, "IDLE"} /\ port'[p].listed = r.listed
        /\ port'[p].dev = r.dev /\ port'[p].handle = r.handle /\ port'[p].pings = r.pings
    <3> HIDE DEF r
    <3>1. r \in LannerPort /\ CommandInv(r, TRUE) /\ port'[p] = ok_port(r)
      BY <1>1, <1>3, <2>1, Zenon DEF r
    <3>2. \/ Is(ok_port(r), TRUE, TRUE, "IDLE", r.retrans, r.dev, r.handle, r.pings,
                r.listed, r.cur, r.rcmd)
          \/ Is(ok_port(r), FALSE, FALSE, r.mode, r.retrans, r.dev, r.handle, r.pings,
                r.listed, r.cur, IF r.cur = "RESTART" THEN "ENABLE" ELSE r.rcmd)
      BY <3>1, OkPortIs, Zenon
    <3>3. QED
      BY <3>1, <3>2 DEF Is
  <2>3. QED
    BY <2>2, OtherMode
<1>4. QED
  BY <1>2, <1>3 DEF OkPorts

\* A removal is the last event of a queue: the next device waits for it.
LastLeft(q) == \A i \in 1 .. Len(q) : q[i].what = "LEFT" => i = Len(q)

\* The port with its device and its timer follows the events of its path.  Only a
\* port whose device is gone can have a timer left without a device, when the
\* device left in RESET, which usb_helpers_reset_port respects.
PathInv(q, plugged, r) ==
    /\ Told(q, plugged, r.dev)
    /\ LastLeft(q)
    /\ TimerInv(r)
    /\ r.dev = NoDev /\ r.listed # 0 =>
            plugged = NoDev /\ \A i \in 1 .. Len(q) : q[i].what = "LEFT"

TInv == \A p \in Ports : PathInv(evq[p], plug[p], port[p])

LEMMA KeepsPath ==
    ASSUME NEW q, NEW plugged, NEW r, NEW s, PathInv(q, plugged, r), TimerInv(s),
           s.dev = r.dev, s.listed = r.listed \/ r.listed # 0 \/ r.dev # NoDev
    PROVE  PathInv(q, plugged, s)
BY DEF PathInv

LEMMA ConnectPath ==
    ASSUME IInv, TInv, "quick" \notin Faults, NEW p \in Ports, Connect(p)
    PROVE  TInv'
<1>1. /\ evq[p] = <<>> /\ port[p].listed = 0 /\ port' = port /\ plug[p] = NoDev
      /\ PathInv(evq[p], plug[p], port[p])
  BY Facts, FieldTypes DEF Connect, Arrive, TInv, timeout_active
<1>2. PICK d \in Devs : /\ plug' = [plug EXCEPT ![p] = d]
                        /\ evq' = [evq EXCEPT ![p] = Append(@, [what |-> "ARRIVED", dev |-> d])]
  BY DEF Connect, Arrive
<1> DEFINE w == Append(<<>>, [what |-> "ARRIVED", dev |-> d])
<1>3. /\ evq'[p] = w /\ plug'[p] = d
      /\ \A k \in Ports \ {p} : evq'[k] = evq[k] /\ plug'[k] = plug[k]
  BY <1>1, <1>2, Facts
<1>4. <<>> \in Seq(Event) /\ Told(<<>>, NoDev, port[p].dev)
  BY <1>1 DEF PathInv
<1>5. Told(w, d, port[p].dev)
  BY <1>4, ArriveTold
<1>6. LastLeft(w)
  <2>1. w = <<[what |-> "ARRIVED", dev |-> d]>>
    OBVIOUS
  <2>2. QED
    BY <2>1 DEF LastLeft
<1> HIDE DEF w
<1>7. PathInv(evq'[p], plug'[p], port'[p])
  BY <1>1, <1>3, <1>5, <1>6 DEF PathInv
<1>8. QED
  BY <1>1, <1>3, <1>7 DEF TInv

\* A list that shows a device has no removal queued.
LEMMA NoLeft ==
    ASSUME NEW q \in Seq(Event), NEW d \in Devs, NEW r, PathInv(q, d, r)
    PROVE  /\ \A i \in 1 .. Len(q) : q[i].what # "LEFT"
           /\ Len(q) \in Nat /\ DOMAIN q = 1 .. Len(q)
<1>1. Len(q) \in Nat /\ DOMAIN q = 1 .. Len(q) /\ (q = <<>> <=> Len(q) = 0) /\ d # NoDev
  BY EmptySeq, LenProperties, DevsAssumption
<1>2. ASSUME NEW i \in 1 .. Len(q), q[i].what = "LEFT" PROVE FALSE
  <2>0. LastLeft(q) /\ Told(q, d, r.dev)
    BY DEF PathInv
  <2>1. i = Len(q)
    BY <1>2, <2>0 DEF LastLeft
  <2>2. q # <<>>
    <3>1. Len(q) # 0
      BY <1>1
    <3>2. QED
      BY <1>1, <3>1
  <2>3. d = NoDev
    BY <1>2, <2>0, <2>1, <2>2 DEF Told
  <2>4. QED
    BY <1>1, <2>3
<1>3. QED
  BY <1>1, <1>2

LEMMA DisconnectPath ==
    ASSUME IInv, TInv, NEW p \in Ports, Disconnect(p)
    PROVE  TInv'
<1> DEFINE d == plug[p]
           e == [what |-> "LEFT", dev |-> d]
           q == evq[p]
           w == Append(q, e)
<1>1. d \in Devs /\ q \in Seq(Event) /\ PathInv(q, d, port[p]) /\ e \in Event /\ d # NoDev
  BY Facts DEF Disconnect, Leave, TInv, DevOrNone, Event
<1>2. /\ evq'[p] = w /\ plug'[p] = NoDev /\ port' = port
      /\ \A k \in Ports \ {p} : evq'[k] = evq[k] /\ plug'[k] = plug[k]
  BY Facts DEF Disconnect, Leave
<1>3. Told(w, NoDev, port[p].dev)
  BY <1>1, LeaveTold DEF PathInv
<1>4. Len(w) = Len(q) + 1 /\ \A i \in 1 .. Len(q) : w[i] = q[i]
  BY <1>1, AppendProperties
<1> HIDE DEF d, q, e, w
<1>5. (\A i \in 1 .. Len(q) : q[i].what # "LEFT") /\ Len(q) \in Nat
  BY <1>1, NoLeft
<1>6. LastLeft(w)
  BY <1>4, <1>5 DEF LastLeft
<1>7. PathInv(evq'[p], plug'[p], port'[p])
  BY <1>1, <1>2, <1>3, <1>6 DEF PathInv
<1>8. QED
  BY <1>2, <1>7 DEF TInv

LEMMA DispatchPath ==
    ASSUME IInv, TInv, NEW p \in Ports, DispatchHotplug(p)
    PROVE  TInv'
<1> DEFINE q == evq[p]
           e == Head(evq[p])
           w == Tail(evq[p])
           r == port[p]
           s == port'[p]
<1>1. /\ q \in Seq(Event) /\ q # <<>> /\ PathInv(q, plug[p], r) /\ r \in LannerPort
  BY Facts DEF DispatchHotplug, TInv
<1>2. /\ e \in Event /\ port' = [port EXCEPT ![p] = s]
      /\ s \in IF e.what = "ARRIVED" THEN added(r, e.dev) ELSE {reset_port(r)}
  BY DispatchStep
<1>3. /\ evq'[p] = w /\ plug' = plug
      /\ \A k \in Ports \ {p} : evq'[k] = evq[k] /\ port'[k] = port[k]
  <2>1. evq' = [evq EXCEPT ![p] = Tail(@)] /\ plug' = plug
    BY DEF DispatchHotplug
  <2> HIDE DEF s
  <2>2. QED
    BY <1>2, <2>1, Facts
<1>4. /\ Len(q) \in Nat /\ Len(q) > 0 /\ w \in Seq(Event) /\ Len(w) = Len(q) - 1 /\ e = q[1]
      /\ \A i \in 1 .. Len(w) : w[i] = q[i + 1]
  <2>1. Len(q) \in Nat /\ Len(q) > 0
    BY <1>1, EmptySeq, LenProperties
  <2>2. w \in Seq(Event) /\ Len(w) = Len(q) - 1 /\ \A i \in 1 .. Len(w) : w[i] = q[i + 1]
    BY <1>1, HeadTailProperties
  <2>3. e = q[1]
    BY <1>1
  <2>4. QED
    BY <2>1, <2>2, <2>3
<1>5. \A v \in {NoDev, IF e.what = "ARRIVED" THEN e.dev ELSE NoDev} : Told(w, plug[p], v)
  BY <1>1, DispatchTold DEF PathInv
<1>6. e.what \in {"ARRIVED", "LEFT"} /\ e.dev \in Devs /\ e.dev # NoDev
  BY <1>2, DevsAssumption DEF Event
<1> HIDE DEF q, e, w, s
<1>7. LastLeft(w)
  <2> SUFFICES ASSUME NEW i \in 1 .. Len(w), w[i].what = "LEFT" PROVE i = Len(w)
    BY DEF LastLeft
  <2>1. i + 1 \in 1 .. Len(q) /\ q[i + 1].what = "LEFT"
    BY <1>4
  <2>2. LastLeft(q)
    BY <1>1 DEF PathInv
  <2>3. i + 1 = Len(q)
    BY <2>1, <2>2 DEF LastLeft
  <2>4. QED
    BY <1>4, <2>3
<1>8. CASE e.what = "ARRIVED"
  <2>1. r.dev \in {NoDev, e.dev} /\ (r.dev = NoDev => r.listed = 0) /\ TimerInv(r)
    BY <1>1, <1>4, <1>8 DEF PathInv, Told
  <2>2. TimerInv(s) /\ (s = r \/ s.dev = e.dev)
    BY <1>1, <1>2, <1>6, <1>8, <2>1, DeviceAddedStep DEF added, restart
  <2>3. Told(w, plug[p], s.dev)
    BY <1>5, <1>8, <2>1, <2>2
  <2>4. PathInv(w, plug[p], s)
    BY <1>6, <1>7, <2>1, <2>2, <2>3 DEF PathInv
  <2>5. QED
    BY <1>3, <2>4 DEF TInv, s
<1>9. CASE e.what = "LEFT"
  <2>1. s = reset_port(r)
    BY <1>2, <1>9
  <2>2. TimerInv(s) /\ s.dev = NoDev
    BY <1>1, <2>1, ResetPortStep DEF PathInv
  <2>3. Len(q) = 1
    BY <1>1, <1>4, <1>9 DEF PathInv, LastLeft
  <2>4. plug[p] = NoDev /\ Len(w) = 0
    BY <1>1, <1>4, <1>9, <2>3 DEF PathInv, Told
  <2>5. PathInv(w, plug[p], s)
    BY <1>5, <1>7, <2>2, <2>4 DEF PathInv
  <2>6. QED
    BY <1>3, <2>5 DEF TInv, s
<1>10. QED
  BY <1>6, <1>8, <1>9

LEMMA CheckDevicesPath ==
    ASSUME IInv, TInv, CheckDevices
    PROVE  TInv'
<1> SUFFICES ASSUME NEW p \in Ports PROVE PathInv(evq[p], plug[p], port'[p])
  BY DEF TInv, CheckDevices
<1> DEFINE q == evq[p]
           d == plug[p]
           r == port[p]
           s == port'[p]
<1>1. q \in Seq(Event) /\ PathInv(q, d, r) /\ d \in DevOrNone /\ r \in LannerPort
  BY Facts DEF TInv
<1>2. s \in IF d = NoDev THEN {r} ELSE added(r, d)
  BY CheckDevicesStep
<1> HIDE DEF q, s
<1>3. CASE d = NoDev
  BY <1>1, <1>2, <1>3 DEF q, s
<1>4. CASE d # NoDev
  <2>1. d \in Devs
    BY <1>1, <1>4 DEF DevOrNone
  <2>2. \A i \in DOMAIN q : q[i].what # "LEFT"
    BY <1>1, <2>1, NoLeft
  <2>3. Told(q, d, r.dev)
    BY <1>1 DEF PathInv
  <2>4. r.dev \in {NoDev, d} /\ Told(q, d, d)
    BY <1>1, <2>1, <2>2, <2>3, CurrentList
  <2>5. TimerInv(r) /\ (r.dev = NoDev => r.listed = 0)
    BY <1>1, <1>4 DEF PathInv
  <2>6. TimerInv(s) /\ (s = r \/ s.dev = d)
    BY <1>1, <1>2, <1>4, <2>1, <2>4, <2>5, DeviceAddedStep DEF added, restart
  <2>7. PathInv(q, d, s)
    BY <1>1, <1>4, <2>4, <2>6 DEF PathInv
  <2>8. QED
    BY <2>7 DEF q, s
<1>5. QED
  BY <1>3, <1>4

LEMMA NextPath ==
    ASSUME IInv, TInv, [Next]_vars, "quick" \notin Faults
    PROVE  TInv'
<1>1. ASSUME UNCHANGED libusb,
             \A p \in Ports :
                /\ port'[p].dev = port[p].dev
                /\ port'[p].listed = port[p].listed \/ port[p].listed # 0 \/ port[p].dev # NoDev
                /\ TimerInv(port[p]) => TimerInv(port'[p])
      PROVE  TInv'
  <2> SUFFICES ASSUME NEW p \in Ports PROVE PathInv(evq[p], plug[p], port'[p])
    BY <1>1 DEF TInv, libusb
  <2>1. PathInv(evq[p], plug[p], port[p]) /\ TimerInv(port'[p])
    BY <1>1 DEF TInv, PathInv
  <2>2. QED
    BY <1>1, <2>1, KeepsPath
<1>2. ASSUME UNCHANGED libusb, port' = port PROVE TInv'
  BY <1>1, <1>2
<1>3. ASSUME NEW p \in Ports, NEW ok \in BOOLEAN, PingDone(p, ok) PROVE TInv'
  <2>1. UNCHANGED libusb /\ port[p].pings > 0
    BY <1>3 DEF PingDone, libusb
  <2>2. TimerInv(port[p]) /\ port[p] \in LannerPort
    BY Facts DEF TInv, PathInv
  <2>3. port[p].dev # NoDev
    BY <2>1, <2>2 DEF TimerInv
  <2>4. /\ \A q \in Ports : /\ port'[q].dev = port[q].dev
                            /\ TimerInv(port[q]) => TimerInv(port'[q])
        /\ \A q \in Ports \ {p} : port'[q] = port[q]
    BY <1>3, PingDoneStep
  <2>5. QED
    BY <1>1, <2>1, <2>3, <2>4
<1>4. ASSUME CheckReset \/ SignalHandler PROVE TInv'
  <2>1. UNCHANGED libusb /\ \E forced \in BOOLEAN : port' \in reset_all(forced)
    BY <1>4 DEF CheckReset, SignalHandler, libusb
  <2>2. QED
    BY <1>1, <2>1, ResetAllStep
<1>5. ASSUME NEW p \in Ports, CheckTimeouts(p) PROVE TInv'
  <2>1. UNCHANGED libusb
    BY <1>5 DEF CheckTimeouts, libusb
  <2>2. /\ port[p].listed = 1
        /\ \A q \in Ports : /\ port'[q].dev = port[q].dev
                            /\ TimerInv(port[q]) => TimerInv(port'[q])
        /\ \A q \in Ports \ {p} : port'[q] = port[q]
    BY <1>5, CheckTimeoutsStep
  <2>3. QED
    BY <1>1, <2>1, <2>2
<1>6. ASSUME NEW p \in Ports, NEW cmd \in UserCmds, ClientCommand(p, cmd) PROVE TInv'
  <2>1. UNCHANGED libusb
    BY <1>6 DEF ClientCommand, libusb
  <2>2. QED
    BY <1>1, <1>6, <2>1, CommandStep
<1>7. ASSUME \/ \E refuse, again \in BOOLEAN : McuAnswers(refuse, again)
             \/ OtherLocks \/ OtherUnlocks \/ \E b \in Foreign : OtherSwitches(b)
             \/ UNCHANGED vars
      PROVE  TInv'
  BY <1>2, <1>7 DEF McuAnswers, OtherLocks, OtherUnlocks, OtherSwitches, vars, libusb
<1>8. ASSUME PrivateTimeout \/ \E in, out \in BOOLEAN : McuEvent(in, out) PROVE TInv'
  <2>1. UNCHANGED libusb
    BY <1>8 DEF McuEvent, PrivateTimeout, libusb
  <2>2. port' \in {port, OkPorts(port, mcu.pending)}
    BY <1>8, McuPorts
  <2>3. QED
    BY <1>1, <2>1, <2>2, OkTimer
<1>9. ASSUME NEW interrupted \in BOOLEAN, ItrCallback(interrupted) PROVE TInv'
  <2>1. UNCHANGED libusb
    BY <1>9 DEF ItrCallback, libusb
  <2>2. ASSUME NEW p \in Ports
        PROVE  /\ port'[p].dev = port[p].dev /\ port'[p].listed = port[p].listed
               /\ TimerInv(port[p]) => TimerInv(port'[p])
    <3> DEFINE r == port[p]
               t == port'[p]
    <3>1. t = r \/ t = [r EXCEPT !.cur = "RESTART", !.rcmd = "DISABLE", !.mode = "RESET"]
      BY <1>9, ItrInv
    <3>2. r \in LannerPort
      BY Facts
    <3> HIDE DEF r, t
    <3>3. /\ t.mode \in {r.mode, "RESET"} /\ t.listed = r.listed /\ t.dev = r.dev
          /\ t.handle = r.handle /\ t.pings = r.pings
      BY <3>1, <3>2 DEF LannerPort
    <3>4. TimerInv(r) => TimerInv(t)
      BY <3>3, OtherMode
    <3>5. QED
      BY <3>3, <3>4 DEF r, t
  <2>3. QED
    BY <1>1, <2>1, <2>2
<1>10. QED
  BY <1>3, <1>4, <1>5, <1>6, <1>7, <1>8, <1>9, ConnectPath, DisconnectPath, DispatchPath,
     CheckDevicesPath DEF Next

LEMMA InitPath == Init => TInv
<1> SUFFICES ASSUME Init, NEW p \in Ports PROVE PathInv(evq[p], plug[p], port[p])
  BY DEF TInv
<1>1. evq[p] = <<>> /\ plug[p] = NoDev
  BY DEF Init
<1>2. /\ port[p].dev = NoDev /\ port[p].handle = NoDev /\ port[p].pings = 0
      /\ port[p].listed = 0 /\ port[p].mode = "IDLE"
  BY DEF Init
<1>3. Told(<<>>, NoDev, NoDev) /\ LastLeft(<<>>)
  BY DEF Told, LastLeft
<1>4. QED
  BY <1>1, <1>2, <1>3 DEF PathInv, TimerInv

\* No port is lost: one that is off or in RESET is registered with the MCU or was
\* disabled by a client, and the timeout list never becomes circular.
THEOREM NoPortIsLostAlways ==
    ASSUME "repeat" \notin Faults, "quick" \notin Faults
    PROVE  Safe => []NoPortIsLost
<1>1. Init => IInv /\ TInv
  BY InitInv, InitPath
<1>2. IInv /\ TInv /\ [Next]_vars => (IInv /\ TInv)'
  BY NextInv, NextPath
<1>3. IInv /\ TInv => NoPortIsLost
  <2> SUFFICES ASSUME IInv, TInv PROVE NoPortIsLost
    OBVIOUS
  <2>1. TypeOK
    BY Facts DEF TypeOK, BoardInv
  <2>2. PowerBack /\ ResetIsServed
    BY Facts DEF PowerBack, ResetIsServed, StateInv, CommandInv
  <2>3. TimersListedOnce
    <3> SUFFICES ASSUME NEW p \in Ports PROVE port[p].listed < 2
      BY DEF TimersListedOnce
    <3>1. port[p].listed # 2 /\ port[p] \in LannerPort
      BY Facts DEF TInv, PathInv, TimerInv
    <3>2. QED
      BY <3>1, FieldTypes
  <2>4. QED
    BY <2>1, <2>2, <2>3 DEF NoPortIsLost
<1>4. QED
  BY <1>1, <1>2, <1>3, PTL DEF Safe
=============================================================================
