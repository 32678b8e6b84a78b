-------------------------- MODULE HttpClientProofs --------------------------
(***************************************************************************)
(* The slots of the HTTP interface are accounted for, for every number of  *)
(* slots and clients, every set of requests, well formed or not, and every *)
(* way of cutting them up.  The invariant itself is short; most of the     *)
(* proof shows that parsing, with all that the parser's callbacks do,      *)
(* leaves the descriptor and recv_progress of the client alone.            *)
(*                                                                         *)
(* The two loops of the code are recursive functions in the model.  That   *)
(* they are defined, and what they keep, is shown with the least turn that *)
(* would go wrong.                                                         *)
(***************************************************************************)
EXTENDS HttpClient, SequenceTheorems, FiniteSetTheorems, WellFoundedInduction, TLAPS

\* A set of numbers that is not empty has a least one, which Min finds.
LEMMA Least ==
    ASSUME NEW S \in SUBSET Nat, S # {}
    PROVE  /\ Min(S) \in S /\ \A k \in S : Min(S) <= k
           /\ Min(S) # 0 => Min(S) - 1 \in Nat /\ Min(S) - 1 \notin S
<1>1. PICK n \in S : \A k \in S : ~(<<k, n>> \in OpToRel(<, Nat))
  BY NatLessThanWellFounded, WFMin
<1>2. \A k \in S : ~(k < n)
  BY <1>1 DEF OpToRel
<1>3. \A k \in S : n <= k
  BY <1>2
<1>4. Min(S) \in S /\ \A k \in S : Min(S) <= k
  BY <1>3 DEF Min
<1>5. Min(S) \in Nat
  BY <1>4
<1>6. QED
  BY <1>4, <1>5
-----------------------------------------------------------------------------
(* The parser.                                                             *)

\* A body is being read only while some of it is to come.
Counting(ps) == ps.state = "body_identity" => ps.content_length \in 1 .. MaxBody

LEMMA UnitTypes ==
    ASSUME NEW u \in Units \cup {None}
    PROVE  /\ u.kind = "l1" => u.method \in Methods
           /\ u.kind = "len" => u.n \in 0 .. NoLength
           /\ u.kind \in {"b1", "b2"} => u.items \in Seq(JsonItem) /\ Len(u.items) <= 1
<1>1. None.kind = "none"
  BY DEF None
<1>2. \A n \in 0 .. MaxBody : n \in 0 .. NoLength
  BY HttpAssumption DEF NoLength
<1>3. QED
  BY <1>1, <1>2, RequestsAssumption

LEMMA ParserTypes ==
    /\ NoLength \in 0 .. NoLength /\ 0 \in 0 .. NoLength
    /\ \A n \in 0 .. NoLength : n \notin {0, NoLength} => n \in 1 .. MaxBody
    /\ \A n \in 1 .. MaxBody : n # 1 => n - 1 \in 1 .. MaxBody
    /\ \A n \in 1 .. MaxBody : n \in 0 .. NoLength
BY HttpAssumption DEF NoLength

LEMMA GoesIs ==
    ASSUME NEW ps \in Parser, NEW s \in ParserStates
    PROVE  /\ goes(ps, s) \in Parser /\ goes(ps, s).state = s /\ goes(ps, s).calls = ps.calls
           /\ goes(ps, s).content_length = ps.content_length
BY DEF goes, Parser

\* Parsing one unit.  Where no request line starts, nothing can complete a request.
LEMMA ParserStep ==
    ASSUME NEW ps \in Parser, Counting(ps), NEW u \in Units \cup {None}
    PROVE  LET n == parse_unit(ps, u)
           IN  /\ n \in Parser /\ Counting(n)
               /\ ps.state \in {"start_req", "error"} /\ u.kind # "l1" =>
                    n.state \in {"start_req", "error"} /\ n.calls = "none"
               /\ n.calls \in {"complete", "both"} => n.state = "start_req"
<1> DEFINE qs == [ps EXCEPT !.calls = "none"]
           Fine(x) == /\ x \in Parser /\ Counting(x)
                      /\ x.calls \in {"complete", "both"} => x.state = "start_req"
<1>1. /\ qs \in Parser /\ qs.state = ps.state /\ qs.content_length = ps.content_length
      /\ qs.calls = "none"
  BY DEF Parser
<1>2. Fine(qs)
  BY <1>1 DEF Counting
<1>3. parse_unit(ps, u) =
        CASE qs.state = "start_req" -> start_req(qs, u)
          [] qs.state = "req_line" -> req_line(qs, u)
          [] qs.state = "header_field" -> header_field(qs, u)
          [] qs.state = "header_value" -> header_value(qs, u)
          [] qs.state = "body_identity" -> body_identity(qs)
          [] qs.state = "error" -> qs
  BY DEF parse_unit
<1> HIDE DEF qs
<1>4. /\ \A s \in ParserStates \ {"body_identity"} : Fine(goes(qs, s))
      /\ qs.content_length \in 0 .. NoLength
  BY <1>1, GoesIs DEF Counting, Parser
<1>5. CASE ps.state = "start_req"
  <2> DEFINE x == [goes(qs, "req_line") EXCEPT !.method = u.method, !.content_length = NoLength]
  <2>1. parse_unit(ps, u) = start_req(qs, u)
    BY <1>1, <1>3, <1>5
  <2>2. ASSUME u.kind = "l1" PROVE Fine(x)
    <3>1. u.method \in Methods /\ goes(qs, "req_line") \in Parser
          /\ goes(qs, "req_line").state = "req_line" /\ goes(qs, "req_line").calls = "none"
      BY <1>1, <2>2, UnitTypes, GoesIs DEF ParserStates
    <3>2. x \in Parser /\ x.state = "req_line" /\ x.calls = "none"
      BY <3>1, ParserTypes DEF Parser
    <3> HIDE DEF x
    <3>3. QED
      BY <3>2 DEF Counting
  <2> HIDE DEF x
  <2>3. start_req(qs, u) = CASE u.kind = "end" -> qs [] u.kind = "l1" -> x
                             [] OTHER -> goes(qs, "error")
    BY DEF start_req, x
  <2>4. Fine(start_req(qs, u))
    BY <1>2, <1>4, <2>2, <2>3 DEF ParserStates
  <2>5. u.kind # "l1" => /\ start_req(qs, u).state \in {"start_req", "error"}
                         /\ start_req(qs, u).calls = "none"
    BY <1>1, <1>5, <2>3, GoesIs DEF ParserStates
  <2>6. QED
    BY <2>1, <2>4, <2>5
<1>6. CASE ps.state = "req_line"
  <2>1. parse_unit(ps, u) \in {goes(qs, "header_field"), goes(qs, "error")}
    BY <1>1, <1>3, <1>6 DEF req_line
  <2>2. QED
    BY <1>4, <1>6, <2>1 DEF ParserStates
<1>7. CASE ps.state = "header_field"
  <2> DEFINE x == [qs EXCEPT !.content_length = u.n]
             y == [goes(qs, "start_req") EXCEPT !.calls = "complete"]
             z == goes(qs, "body_identity")
  <2>1. ASSUME u.kind = "len" PROVE Fine(x)
    <3>1. u.n \in 0 .. NoLength
      BY <2>1, UnitTypes
    <3>2. x \in Parser /\ x.state = "header_field" /\ x.calls = "none"
      BY <1>1, <1>7, <3>1 DEF Parser
    <3> HIDE DEF x
    <3>3. QED
      BY <3>2 DEF Counting
  <2>2. Fine(headers_done(qs))
    <3>1. goes(qs, "start_req") \in Parser /\ goes(qs, "start_req").state = "start_req"
      BY <1>1, GoesIs DEF ParserStates
    <3>2. y \in Parser /\ y.state = "start_req"
      BY <3>1 DEF Parser
    <3>3. /\ z \in Parser /\ z.state = "body_identity" /\ z.calls = "none"
          /\ z.content_length = qs.content_length
      BY <1>1, GoesIs DEF ParserStates
    <3>4. headers_done(qs) = IF qs.content_length \in {0, NoLength} THEN y ELSE z
      BY DEF headers_done
    <3> HIDE DEF y, z
    <3>5. QED
      BY <1>4, <3>2, <3>3, <3>4, ParserTypes DEF Counting
  <2>3. parse_unit(ps, u) = header_field(qs, u)
    BY <1>1, <1>3, <1>7
  <2>4. header_field(qs, u) = CASE u.kind = "end" -> headers_done(qs) [] u.kind = "len" -> x
          [] u.kind = "h1" -> goes(qs, "header_value") [] u.kind = "h2" -> qs
          [] OTHER -> goes(qs, "error")
    BY DEF header_field
  <2> HIDE DEF x, y, z
  <2>5. Fine(header_field(qs, u))
    BY <1>2, <1>4, <2>1, <2>2, <2>4 DEF ParserStates
  <2>6. QED
    BY <1>7, <2>3, <2>5
<1>8. CASE ps.state = "header_value"
  <2>1. parse_unit(ps, u) \in {goes(qs, "header_field"), qs}
    BY <1>1, <1>3, <1>8 DEF header_value
  <2>2. QED
    BY <1>2, <1>4, <1>8, <2>1 DEF ParserStates
<1>9. CASE ps.state = "body_identity"
  <2> DEFINE x == [goes(qs, "start_req") EXCEPT !.content_length = 0, !.calls = "both"]
             y == [qs EXCEPT !.content_length = qs.content_length - 1, !.calls = "body"]
  <2>1. parse_unit(ps, u) = IF qs.content_length = 1 THEN x ELSE y
    BY <1>1, <1>3, <1>9 DEF body_identity
  <2>2. qs.content_length \in 1 .. MaxBody
    BY <1>1, <1>9 DEF Counting
  <2>3. x \in Parser /\ x.state = "start_req"
    <3>1. goes(qs, "start_req") \in Parser /\ goes(qs, "start_req").state = "start_req"
      BY <1>1, GoesIs DEF ParserStates
    <3>2. QED
      BY <3>1, ParserTypes DEF Parser
  <2>4. ASSUME qs.content_length # 1
        PROVE  /\ y \in Parser /\ y.state = "body_identity" /\ y.calls = "body"
               /\ y.content_length \in 1 .. MaxBody
    <3>1. qs.content_length - 1 \in 1 .. MaxBody /\ qs.content_length - 1 \in 0 .. NoLength
      BY <2>2, <2>4, ParserTypes
    <3>2. QED
      BY <1>1, <1>9, <3>1 DEF Parser
  <2> HIDE DEF x, y
  <2>5. QED
    BY <1>9, <2>1, <2>3, <2>4 DEF Counting
<1>10. CASE ps.state = "error"
  <2>1. parse_unit(ps, u) = qs
    BY <1>1, <1>3, <1>10
  <2>2. QED
    BY <1>1, <1>2, <1>10, <2>1
<1>11. QED
  BY <1>5, <1>6, <1>7, <1>8, <1>9, <1>10 DEF Parser, ParserStates
-----------------------------------------------------------------------------
(* The callbacks.                                                          *)

\* What a callback works on; what is in given does not matter here.
Handling(h) ==
    /\ DOMAIN h = {"cl", "port", "given", "replies", "failure", "broken"}
    /\ h = [x \in DOMAIN h |-> h[x]]
    /\ h.cl \in Client
    /\ h.port \in [Ports -> ClientPort]
    /\ h.replies \in Seq(Codes)
    /\ h.failure \in Rets \cup {0, 1}

\* The update callbacks reach neither the client nor the replies.
Beside(h, g) == Handling(h) /\ h.cl = g.cl /\ h.replies = g.replies

LEMMA ItemBeside ==
    ASSUME NEW h, Handling(h), NEW it \in JsonItem, NEW ret \in Rets \cup {0}
    PROVE  Beside(update_item(h, it, ret), h)
<1> DEFINE cmd == it.cmd % 256
           found == find_port_path(convert_char_to_path(item_path(it)))
           p == CHOOSE q \in found : TRUE
<1>1. Beside(h, h)
  BY DEF Beside
<1>2. Beside(fail(h), h)
  BY DEF Beside, Handling, fail
<1>3. ASSUME found # {}, cmd <= CMD_DISABLE PROVE Beside(given(h, p, cmd, ret), h)
  <2>1. p \in found
    BY <1>3
  <2>2. p \in Ports
    BY <2>1 DEF find_port_path
  <2>3. cmd \in {CMD_RESTART, CMD_ENABLE, CMD_DISABLE}
    <3>1. it.cmd \in Nat
      BY DEF JsonItem
    <3>2. cmd \in 0 .. 255
      BY <3>1
    <3>3. QED
      BY <1>3, <3>2 DEF CMD_RESTART, CMD_ENABLE, CMD_DISABLE
  <2> HIDE DEF p, cmd, found
  <2>4. h.port[p] \in ClientPort
    BY <2>2 DEF Handling
  <2>5. update(h.port[p], cmd, ret) \in ClientPort
    BY <2>3, <2>4 DEF update, ClientPort, CMD_RESTART, CMD_ENABLE, CMD_DISABLE
  <2>6. /\ given(h, p, cmd, ret).port = [h.port EXCEPT ![p] = update(h.port[p], cmd, ret)]
        /\ given(h, p, cmd, ret).cl = h.cl /\ given(h, p, cmd, ret).replies = h.replies
        /\ given(h, p, cmd, ret).failure = ret
        /\ DOMAIN given(h, p, cmd, ret) = DOMAIN h
        /\ given(h, p, cmd, ret) = [x \in DOMAIN h |-> given(h, p, cmd, ret)[x]]
    BY DEF given, Handling
  <2>7. [h.port EXCEPT ![p] = update(h.port[p], cmd, ret)] \in [Ports -> ClientPort]
    BY <2>2, <2>5 DEF Handling
  <2>8. QED
    BY <2>6, <2>7 DEF Beside, Handling
<1>4. update_item(h, it, ret) \in {h, fail(h)}
        \/ (found # {} /\ cmd <= CMD_DISABLE /\ update_item(h, it, ret) = given(h, p, cmd, ret))
  <2>1. update_item(h, it, ret) =
         CASE h.broken -> h
           [] it.port = "nopath" \/ cmd > CMD_DISABLE -> fail(h)
           [] ~path_fits(item_path(it)) -> fail(h)
           [] found = {} -> h
           [] h.port[p].mode = "PROBE" -> fail(h)
           [] needless(h.port[p], cmd) -> h
           [] OTHER -> given(h, p, cmd, ret)
    BY DEF update_item
  <2>2. cmd \in Nat /\ CMD_DISABLE \in Nat
    BY DEF JsonItem, CMD_DISABLE
  <2> HIDE DEF p, cmd, found
  <2>3. QED
    BY <2>1, <2>2
<1> HIDE DEF p, cmd, found
<1>5. QED
  BY <1>1, <1>2, <1>3, <1>4

\* The loop over the items, turn by turn.
LEMMA ItemsBeside ==
    ASSUME NEW h, Handling(h), NEW items \in Seq(JsonItem), Len(items) <= 2,
           NEW rets \in [1 .. 2 -> Rets \cup {0}]
    PROVE  Beside(update_ports(h, items, rets), h)
<1> DEFINE n == Len(items)
           Rec(k, f) == f = [i \in 0 .. k |->
                                IF i = 0 THEN h ELSE update_item(f[i - 1], items[i], rets[i])]
           done == CHOOSE f : Rec(n, f)
<1>1. update_ports(h, items, rets) = done[n]
  BY DEF update_ports
<1>2. ASSUME NEW k \in Nat PROVE \E f : Rec(k, f)
  <2> DEFINE bad == {j \in Nat : ~\E f : Rec(j, f)}
  <2>1. ASSUME bad # {} PROVE FALSE
    <3> DEFINE m == Min(bad)
    <3>0. bad \in SUBSET Nat
      OBVIOUS
    <3> HIDE DEF bad
    <3>1. m \in bad /\ m \in Nat /\ (m # 0 => m - 1 \in Nat /\ m - 1 \notin bad)
      BY <2>1, <3>0, Least
    <3> USE DEF bad
    <3> HIDE DEF m
    <3>2. CASE m = 0
      <4> DEFINE f == [i \in 0 .. 0 |-> h]
      <4>1. Rec(0, f)
        OBVIOUS
      <4>2. QED
        BY <3>1, <3>2, <4>1
    <3>3. CASE m # 0
      <4>1. m - 1 \in Nat /\ m - 1 \notin bad
        BY <3>1, <3>3
      <4>2. PICK g : Rec(m - 1, g)
        BY <4>1
      <4> DEFINE f == [i \in 0 .. m |->
                        IF i = m THEN update_item(g[m - 1], items[m], rets[m]) ELSE g[i]]
      <4>3. \A i \in 0 .. m :
                f[i] = IF i = 0 THEN h ELSE update_item(f[i - 1], items[i], rets[i])
        <5>1. \A i \in 0 .. m - 1 :
                g[i] = IF i = 0 THEN h ELSE update_item(g[i - 1], items[i], rets[i])
          BY <4>2
        <5>2. QED
          BY <3>1, <3>3, <5>1
      <4>4. Rec(m, f)
        BY <4>3
      <4>5. QED
        BY <3>1, <4>4
    <3>4. QED
      BY <3>2, <3>3
  <2>2. QED
    BY <2>1
<1>3. Rec(n, done)
  <2>1. \E f : Rec(n, f)
    BY <1>2
  <2> HIDE DEF Rec
  <2>2. QED
    BY <2>1
<1> HIDE DEF done
<1>4. /\ done[0] = h
      /\ \A i \in 1 .. n : done[i] = update_item(done[i - 1], items[i], rets[i])
  BY <1>3
<1> HIDE DEF Rec
<1>5. ASSUME NEW k \in 0 .. n PROVE Beside(done[k], h)
  <2> DEFINE bad == {j \in 0 .. n : ~Beside(done[j], h)}
  <2>1. ASSUME bad # {} PROVE FALSE
    <3> DEFINE m == Min(bad)
    <3>0. bad \in SUBSET Nat
      OBVIOUS
    <3> HIDE DEF bad
    <3>1. m \in bad /\ m \in Nat /\ (m # 0 => m - 1 \in Nat /\ m - 1 \notin bad)
      BY <2>1, <3>0, Least
    <3> USE DEF bad
    <3> HIDE DEF m
    <3>2. m # 0
      BY <1>4, <3>1 DEF Beside
    <3>3. m \in 1 .. n /\ Beside(done[m - 1], h)
      BY <3>1, <3>2
    <3>4. Beside(done[m], done[m - 1])
      <4>1. items[m] \in JsonItem /\ rets[m] \in Rets \cup {0}
        BY <3>3
      <4>2. Handling(done[m - 1])
        BY <3>3 DEF Beside
      <4>3. QED
        BY <1>4, <3>3, <4>1, <4>2, ItemBeside
    <3>5. QED
      BY <3>1, <3>3, <3>4 DEF Beside
  <2>2. QED
    BY <2>1
<1>6. QED
  BY <1>1, <1>5

\* A body that is an array of ports has at most two items.
LEMMA BodyItems ==
    ASSUME NEW cl \in Client, \A i \in DOMAIN json_items(cl) : json_items(cl)[i].port # "noports"
    PROVE  json_items(cl) \in Seq(JsonItem) /\ Len(json_items(cl)) <= 2
<1> DEFINE b == cl.body_offset
           text == [i \in 1 .. MAX_REQUEST_SIZE + 1 |->
                        IF i <= MAX_REQUEST_SIZE THEN cl.recv_buf[i] ELSE None]
           none == <<[port |-> "noports", cmd |-> 0]>>
           body == b > 0 /\ text[b].kind = "b1" /\ text[b + 1].kind = "b2"
<1>1. json_items(cl) = IF body THEN text[b].items \o text[b + 1].items ELSE none
  BY DEF json_items
<1>2. 1 \in DOMAIN none /\ none[1].port = "noports"
  OBVIOUS
<1>3. body
  <2> HIDE DEF body, none
  <2>1. QED
    BY <1>1, <1>2
<1>4. b \in 1 .. MAX_REQUEST_SIZE /\ MAX_REQUEST_SIZE \in Nat
  <2>1. b \in 0 .. MAX_REQUEST_SIZE
    BY DEF Client
  <2>2. QED
    BY <1>3, <2>1, HttpAssumption
<1>5. \A i \in 1 .. MAX_REQUEST_SIZE + 1 : text[i] \in Units \cup {None}
  BY <1>4 DEF Client
<1>6. text[b] \in Units \cup {None} /\ text[b + 1] \in Units \cup {None}
  BY <1>4, <1>5
<1>7. text[b].kind = "b1" /\ text[b + 1].kind = "b2"
  BY <1>3
<1> HIDE DEF text, b
<1>8. /\ text[b].items \in Seq(JsonItem) /\ Len(text[b].items) <= 1
      /\ text[b + 1].items \in Seq(JsonItem) /\ Len(text[b + 1].items) <= 1
  BY <1>6, <1>7, UnitTypes
<1> DEFINE front == text[b].items
           back == text[b + 1].items
<1>9. front \in Seq(JsonItem) /\ back \in Seq(JsonItem) /\ Len(front) <= 1 /\ Len(back) <= 1
  BY <1>8
<1>10. json_items(cl) = front \o back
  BY <1>1, <1>3
<1> HIDE DEF front, back
<1>11. front \o back \in Seq(JsonItem) /\ Len(front \o back) <= 2
  BY <1>9
<1>12. QED
  BY <1>10, <1>11

\* An environment for the callbacks.
Environment(env) == env.rets \in [1 .. 2 -> Rets \cup {0}] /\ env.memory \in BOOLEAN

\* A request that is complete is answered once, and the client is not touched but
\* for req_done.
Answered(r, h) ==
    /\ Handling(r)
    /\ r.cl = [h.cl EXCEPT !.req_done = TRUE]
    /\ \E k \in Codes : r.replies = Append(h.replies, k)

LEMMA SendIs ==
    ASSUME NEW h, Handling(h), NEW k \in Codes
    PROVE  Handling(send(h, k)) /\ send(h, k).cl = h.cl /\ send(h, k).replies = Append(h.replies, k)
<1>1. /\ DOMAIN send(h, k) = DOMAIN h
      /\ send(h, k) = [x \in DOMAIN h |-> send(h, k)[x]]
      /\ send(h, k).cl = h.cl /\ send(h, k).port = h.port /\ send(h, k).failure = h.failure
      /\ send(h, k).replies = Append(h.replies, k)
  BY DEF Handling, send
<1>2. Append(h.replies, k) \in Seq(Codes)
  BY DEF Handling
<1>3. QED
  BY <1>1, <1>2 DEF Handling

LEMMA PostAnswers ==
    ASSUME NEW h, Handling(h), NEW rets \in [1 .. 2 -> Rets \cup {0}]
    PROVE  /\ Handling(handle_post(h, rets)) /\ handle_post(h, rets).cl = h.cl
           /\ \E k \in Codes : handle_post(h, rets).replies = Append(h.replies, k)
<1> DEFINE items == json_items(h.cl)
           done == update_ports(h, items, rets)
           code == CASE done.failure = 0 -> 200
                     [] done.failure > 100 -> done.failure
                     [] OTHER -> 400
<1>1. handle_post(h, rets) = IF \E i \in DOMAIN items : items[i].port = "noports"
                             THEN send(h, 400) ELSE send(done, code)
  BY DEF handle_post
<1>2. 400 \in Codes /\ 200 \in Codes
  BY DEF Codes
<1>3. CASE \E i \in DOMAIN items : items[i].port = "noports"
  <2>1. handle_post(h, rets) = send(h, 400)
    BY <1>1, <1>3
  <2>2. Handling(send(h, 400)) /\ send(h, 400).cl = h.cl /\ send(h, 400).replies = Append(h.replies, 400)
    BY <1>2, SendIs
  <2>3. QED
    BY <1>2, <2>1, <2>2
<1>4. CASE ~\E i \in DOMAIN items : items[i].port = "noports"
  <2>1. h.cl \in Client
    BY DEF Handling
  <2>2. items \in Seq(JsonItem) /\ Len(items) <= 2
    BY <1>4, <2>1, BodyItems
  <2> HIDE DEF items
  <2>3. Beside(done, h)
    BY <2>2, ItemsBeside
  <2>4. done.failure \in Rets \cup {0, 1}
    BY <2>3 DEF Beside, Handling
  <2> HIDE DEF done
  <2>5. code \in Codes
    BY <2>4 DEF Codes
  <2> HIDE DEF code
  <2>6. handle_post(h, rets) = send(done, code)
    BY <1>1, <1>4
  <2>7. Handling(done) /\ done.cl = h.cl /\ done.replies = h.replies
    BY <2>3 DEF Beside
  <2>8. Handling(send(done, code)) /\ send(done, code).cl = done.cl
        /\ send(done, code).replies = Append(done.replies, code)
    BY <2>5, <2>7, SendIs
  <2>9. QED
    BY <2>5, <2>6, <2>7, <2>8
<1>5. QED
  BY <1>3, <1>4

LEMMA CompleteAnswers ==
    ASSUME NEW h, Handling(h), NEW env, Environment(env)
    PROVE  Answered(on_complete(h, env), h)
<1> DEFINE answered == CASE h.cl.parser.method = "GET" -> handle_get(h, env.memory)
                         [] h.cl.parser.method = "POST" -> handle_post(h, env.rets)
                         [] OTHER -> send(h, 405)
<1>1. on_complete(h, env) = [answered EXCEPT !.cl.req_done = TRUE]
  BY DEF on_complete
<1>2. 200 \in Codes /\ 500 \in Codes /\ 405 \in Codes
  BY DEF Codes
<1>3. handle_get(h, env.memory) \in {send(h, 200), send(h, 500)}
  BY DEF handle_get
<1>4. answered \in {send(h, 200), send(h, 500), send(h, 405), handle_post(h, env.rets)}
  BY <1>3
<1> HIDE DEF answered
<1>5. /\ Handling(answered) /\ answered.cl = h.cl
      /\ \E k \in Codes : answered.replies = Append(h.replies, k)
  <2>1. CASE answered = handle_post(h, env.rets)
    BY <2>1, PostAnswers DEF Environment
  <2>2. CASE answered \in {send(h, 200), send(h, 500), send(h, 405)}
    <3>1. PICK k \in Codes : answered = send(h, k)
      BY <1>2, <2>2
    <3>2. Handling(send(h, k)) /\ send(h, k).cl = h.cl /\ send(h, k).replies = Append(h.replies, k)
      BY SendIs
    <3>3. QED
      BY <3>1, <3>2
  <2>3. QED
    BY <1>4, <2>1, <2>2
<1>6. [answered.cl EXCEPT !.req_done = TRUE] \in Client
  BY <1>5 DEF Client, Handling
<1>7. /\ on_complete(h, env).cl = [answered.cl EXCEPT !.req_done = TRUE]
      /\ on_complete(h, env).replies = answered.replies
      /\ Handling(on_complete(h, env))
  BY <1>1, <1>5, <1>6 DEF Handling
<1>8. QED
  BY <1>5, <1>7 DEF Answered
-----------------------------------------------------------------------------
(* http_parser_execute.                                                    *)

\* Only the first unit of a request starts a request line.
OneLine(buf) == \A i \in 2 .. MAX_REQUEST_SIZE : buf[i].kind # "l1"

\* The connection that r is about, and what has been read of it, is that of h.
SameConn(r, h) ==
    /\ Handling(r) /\ Counting(r.cl.parser)
    /\ r.cl.fd = h.cl.fd /\ r.cl.recv_progress = h.cl.recv_progress
    /\ r.cl.recv_buf = h.cl.recv_buf

\* Nothing has been completed.
Unanswered(r) == r.replies = <<>> /\ ~r.cl.req_done

\* A request has been completed and answered; the parser waits for another, or
\* has given up.
Over(r) ==
    /\ r.cl.req_done /\ \E k \in Codes : r.replies = <<k>>
    /\ r.cl.parser.state \in {"start_req", "error"}

LEMMA UnitExecuted ==
    ASSUME NEW g, Handling(g), Counting(g.cl.parser), OneLine(g.cl.recv_buf),
           NEW i \in 1 .. MAX_REQUEST_SIZE, NEW env, Environment(env),
           Unanswered(g) \/ (Over(g) /\ i # 1)
    PROVE  LET r == execute_unit(g, i, env)
           IN  SameConn(r, g) /\ (Unanswered(r) \/ Over(r))
<1> DEFINE u == g.cl.recv_buf[i]
           ps == parse_unit(g.cl.parser, u)
           h == [g EXCEPT !.cl.parser = ps]
           Fine(r) == SameConn(r, g) /\ (Unanswered(r) \/ Over(r))
<1>1. execute_unit(g, i, env) =
        CASE h.cl.parser.calls = "none" -> h
          [] h.cl.parser.calls = "body" -> on_body(h, i)
          [] h.cl.parser.calls = "complete" -> on_complete(h, env)
          [] h.cl.parser.calls = "both" -> on_complete(on_body(h, i), env)
  BY DEF execute_unit
<1>2. g.cl \in Client /\ u \in Units \cup {None} /\ g.cl.parser \in Parser
  BY DEF Handling, Client
<1> HIDE DEF u
<1>3. /\ ps \in Parser /\ Counting(ps)
      /\ g.cl.parser.state \in {"start_req", "error"} /\ u.kind # "l1" =>
            ps.state \in {"start_req", "error"} /\ ps.calls = "none"
      /\ ps.calls \in {"complete", "both"} => ps.state = "start_req"
  BY <1>2, ParserStep
<1>4. Over(g) => ps.state \in {"start_req", "error"} /\ ps.calls = "none"
  <2>1. i # 1 => u.kind # "l1"
    BY HttpAssumption DEF OneLine, u
  <2>2. QED
    BY <1>3, <2>1 DEF Over, Unanswered
<1> HIDE DEF ps
<1>5. /\ h.cl = [g.cl EXCEPT !.parser = ps] /\ h.replies = g.replies /\ h.port = g.port
      /\ h.failure = g.failure /\ DOMAIN h = DOMAIN g /\ h = [x \in DOMAIN h |-> h[x]]
  BY DEF Handling
<1> HIDE DEF h
<1>6. /\ h.cl \in Client /\ h.cl.parser = ps /\ h.cl.fd = g.cl.fd
      /\ h.cl.recv_progress = g.cl.recv_progress /\ h.cl.recv_buf = g.cl.recv_buf
      /\ h.cl.req_done = g.cl.req_done
  BY <1>2, <1>3, <1>5 DEF Client
<1>7. Handling(h)
  BY <1>5, <1>6 DEF Handling
<1>8. SameConn(h, g)
  BY <1>3, <1>6, <1>7 DEF SameConn
<1>9. Fine(h)
  <2>1. Unanswered(g) => Unanswered(h)
    BY <1>5, <1>6 DEF Unanswered
  <2>2. Over(g) => Over(h)
    BY <1>4, <1>5, <1>6 DEF Over
  <2>3. QED
    BY <1>8, <2>1, <2>2
<1>10. /\ SameConn(on_body(h, i), g) /\ on_body(h, i).cl.parser = ps
       /\ on_body(h, i).replies = h.replies /\ on_body(h, i).cl.req_done = h.cl.req_done
  <2> DEFINE b == [h EXCEPT !.cl.body_offset = i]
  <2>1. on_body(h, i) \in {h, b}
    BY DEF on_body
  <2>2. /\ b.cl = [h.cl EXCEPT !.body_offset = i] /\ b.replies = h.replies /\ b.port = h.port
        /\ b.failure = h.failure /\ DOMAIN b = DOMAIN h /\ b = [x \in DOMAIN b |-> b[x]]
    BY <1>7 DEF Handling
  <2> HIDE DEF b
  <2>3. i \in 0 .. MAX_REQUEST_SIZE
    BY HttpAssumption
  <2>4. /\ b.cl \in Client /\ b.cl.parser = ps /\ b.cl.fd = g.cl.fd
        /\ b.cl.recv_progress = g.cl.recv_progress /\ b.cl.recv_buf = g.cl.recv_buf
        /\ b.cl.req_done = h.cl.req_done
    BY <1>6, <2>2, <2>3 DEF Client
  <2>5. Handling(b)
    BY <1>7, <2>2, <2>4 DEF Handling
  <2>6. SameConn(b, g)
    BY <1>3, <2>4, <2>5 DEF SameConn
  <2>7. QED
    BY <1>6, <1>8, <2>1, <2>2, <2>4, <2>6
<1>11. ASSUME ps.calls # "none" PROVE Unanswered(g)
  BY <1>4, <1>11
<1>12. ASSUME ps.calls = "body" PROVE Fine(on_body(h, i))
  BY <1>5, <1>6, <1>10, <1>11, <1>12 DEF Unanswered
<1>13. ASSUME ps.calls \in {"complete", "both"},
              NEW m, SameConn(m, g), m.cl.parser = ps, m.replies = h.replies
       PROVE  Fine(on_complete(m, env))
  <2> DEFINE r == on_complete(m, env)
  <2>1. Handling(m) /\ m.cl \in Client
    BY <1>13 DEF SameConn, Handling
  <2>2. Answered(r, m)
    BY <2>1, CompleteAnswers
  <2> HIDE DEF r
  <2>3. Handling(r) /\ r.cl = [m.cl EXCEPT !.req_done = TRUE]
    BY <2>2 DEF Answered
  <2>4. PICK k \in Codes : r.replies = Append(m.replies, k)
    BY <2>2 DEF Answered
  <2>5. /\ r.cl.parser = ps /\ r.cl.fd = m.cl.fd /\ r.cl.recv_progress = m.cl.recv_progress
        /\ r.cl.recv_buf = m.cl.recv_buf /\ r.cl.req_done
    BY <1>13, <2>1, <2>3 DEF Client
  <2>6. SameConn(r, g)
    BY <1>3, <1>13, <2>3, <2>5 DEF SameConn
  <2>7. m.replies = <<>>
    BY <1>5, <1>11, <1>13 DEF Unanswered
  <2>8. Append(<<>>, k) = <<k>>
    OBVIOUS
  <2>9. r.replies = <<k>>
    BY <2>4, <2>7, <2>8
  <2>10. ps.state = "start_req"
    BY <1>3, <1>13
  <2>11. Over(r)
    BY <2>5, <2>9, <2>10 DEF Over
  <2>12. QED
    BY <2>6, <2>11 DEF r
<1>14. CASE ps.calls = "none"
  BY <1>1, <1>6, <1>9, <1>14
<1>15. CASE ps.calls = "body"
  BY <1>1, <1>6, <1>12, <1>15
<1>16. CASE ps.calls = "complete"
  <2>1. execute_unit(g, i, env) = on_complete(h, env)
    BY <1>1, <1>6, <1>16
  <2>2. QED
    BY <1>6, <1>8, <1>13, <1>16, <2>1
<1>17. CASE ps.calls = "both"
  <2>1. execute_unit(g, i, env) = on_complete(on_body(h, i), env)
    BY <1>1, <1>6, <1>17
  <2>2. QED
    BY <1>10, <1>13, <1>17, <2>1
<1>18. QED
  BY <1>3, <1>14, <1>15, <1>16, <1>17 DEF Parser

\* The loop over n units, turn by turn.
LEMMA Executed ==
    ASSUME NEW h, Handling(h), Counting(h.cl.parser), OneLine(h.cl.recv_buf), Unanswered(h),
           NEW n \in 0 .. MAX_REQUEST_SIZE, NEW env, Environment(env)
    PROVE  /\ SameConn(http_parser_execute(h, n, env), h)
           /\ \/ Unanswered(http_parser_execute(h, n, env))
              \/ Over(http_parser_execute(h, n, env))
<1> DEFINE Rec(k, f) == f = [i \in 0 .. k |->
                                IF i = 0 THEN h ELSE execute_unit(f[i - 1], i, env)]
           parsed == CHOOSE f : Rec(n, f)
           Good(i) == /\ SameConn(parsed[i], h)
                      /\ Unanswered(parsed[i]) \/ (Over(parsed[i]) /\ i # 0)
<1>0. n \in Nat
  BY HttpAssumption
<1>1. http_parser_execute(h, n, env) = parsed[n]
  BY DEF http_parser_execute
<1>2. ASSUME NEW k \in Nat PROVE \E f : Rec(k, f)
  <2> DEFINE bad == {j \in Nat : ~\E f : Rec(j, f)}
  <2>1. ASSUME bad # {} PROVE FALSE
    <3> DEFINE m == Min(bad)
    <3>0. bad \in SUBSET Nat
      OBVIOUS
    <3> HIDE DEF bad
    <3>1. m \in bad /\ m \in Nat /\ (m # 0 => m - 1 \in Nat /\ m - 1 \notin bad)
      BY <2>1, <3>0, Least
    <3> USE DEF bad
    <3> HIDE DEF m
    <3>2. CASE m = 0
      <4> DEFINE f == [i \in 0 .. 0 |-> h]
      <4>1. Rec(0, f)
        OBVIOUS
      <4>2. QED
        BY <3>1, <3>2, <4>1
    <3>3. CASE m # 0
      <4>1. m - 1 \in Nat /\ m - 1 \notin bad
        BY <3>1, <3>3
      <4>2. PICK g : Rec(m - 1, g)
        BY <4>1
      <4> DEFINE f == [i \in 0 .. m |->
                        IF i = m THEN execute_unit(g[m - 1], m, env) ELSE g[i]]
      <4>3. \A i \in 0 .. m :
                f[i] = IF i = 0 THEN h ELSE execute_unit(f[i - 1], i, env)
        <5>1. \A i \in 0 .. m - 1 :
                g[i] = IF i = 0 THEN h ELSE execute_unit(g[i - 1], i, env)
          BY <4>2
        <5>2. QED
          BY <3>1, <3>3, <5>1
      <4>4. Rec(m, f)
        BY <4>3
      <4>5. QED
        BY <3>1, <4>4
    <3>4. QED
      BY <3>2, <3>3
  <2>2. QED
    BY <2>1
<1>3. Rec(n, parsed)
  <2>1. \E f : Rec(n, f)
    BY <1>0, <1>2
  <2> HIDE DEF Rec
  <2>2. QED
    BY <2>1
<1> HIDE DEF parsed
<1>4. /\ parsed[0] = h
      /\ \A i \in 1 .. n : parsed[i] = execute_unit(parsed[i - 1], i, env)
  BY <1>3
<1> HIDE DEF Rec
<1>5. ASSUME NEW k \in 0 .. n PROVE Good(k)
  <2> DEFINE bad == {j \in 0 .. n : ~Good(j)}
  <2>1. ASSUME bad # {} PROVE FALSE
    <3> DEFINE m == Min(bad)
    <3>0. bad \in SUBSET Nat
      OBVIOUS
    <3> HIDE DEF bad
    <3>1. m \in bad /\ m \in Nat /\ (m # 0 => m - 1 \in Nat /\ m - 1 \notin bad)
      BY <2>1, <3>0, Least
    <3> USE DEF bad
    <3> HIDE DEF m
    <3>2. m # 0
      <4>1. Good(0)
        BY <1>4 DEF SameConn
      <4> HIDE DEF Good
      <4>2. QED
        BY <3>1, <4>1
    <3>3. m \in 1 .. n /\ Good(m - 1) /\ ~Good(m)
      <4> HIDE DEF Good
      <4>1. QED
        BY <1>0, <3>1, <3>2
    <3> DEFINE g == parsed[m - 1]
    <3>4. /\ Handling(g) /\ Counting(g.cl.parser) /\ g.cl.recv_buf = h.cl.recv_buf
          /\ g.cl.fd = h.cl.fd /\ g.cl.recv_progress = h.cl.recv_progress
      BY <3>3 DEF SameConn
    <3>5. Unanswered(g) \/ (Over(g) /\ m # 1)
      BY <3>3
    <3>6. parsed[m] = execute_unit(g, m, env)
      BY <1>4, <3>3
    <3>7. m \in 1 .. MAX_REQUEST_SIZE
      BY <3>3, HttpAssumption
    <3> HIDE DEF g
    <3>8. OneLine(g.cl.recv_buf)
      BY <3>4
    <3>9. /\ SameConn(execute_unit(g, m, env), g)
          /\ Unanswered(execute_unit(g, m, env)) \/ Over(execute_unit(g, m, env))
      BY <3>4, <3>5, <3>7, <3>8, UnitExecuted
    <3>10. SameConn(parsed[m], h) /\ (Unanswered(parsed[m]) \/ Over(parsed[m]))
      BY <3>4, <3>6, <3>9 DEF SameConn
    <3>11. QED
      BY <3>2, <3>3, <3>10
  <2>2. QED
    BY <2>1
<1>6. Good(n)
  BY <1>0, <1>5
<1>7. QED
  BY <1>1, <1>6

LEMMA OutcomeIs ==
    ASSUME NEW h, Handling(h), Counting(h.cl.parser), OneLine(h.cl.recv_buf), Unanswered(h),
           NEW n \in 0 .. MAX_REQUEST_SIZE, NEW r \in outcomes(h, n)
    PROVE  SameConn(r, h) /\ (Unanswered(r) \/ Over(r))
<1> DEFINE calm == [rets |-> <<0, 0>>, memory |-> TRUE]
<1>1. PICK env \in Environments \cup {calm} : r = http_parser_execute(h, n, env)
  BY DEF outcomes
<1>2. Environment(env)
  <2>1. Environment(calm)
    BY DEF Environment
  <2>2. \A e \in Environments : Environment(e)
    BY DEF Environment, Environments
  <2>3. QED
    BY <2>1, <2>2
<1>3. QED
  BY <1>1, <1>2, Executed
-----------------------------------------------------------------------------
(* The inductive invariant.                                                *)

\* The units of q come after o others.
Follows(o, q) == q \in Seq(Units) /\ \A i \in 1 .. Len(q) : o + i # 1 => q[i].kind # "l1"

\* A connection has at most one reply, and until it has one what the client has
\* sent and will send goes on where the daemon stopped reading.
ConnOK(r) ==
    /\ DOMAIN r = {"state", "rest", "wire", "open", "pieces", "recvs", "got", "sent", "given", "replies"}
    /\ r = [x \in DOMAIN r |-> r[x]]
    /\ r.state \in {"closed", "queued", "served", "stranded"}
    /\ r.replies \in {<<>>} \cup {<<k>> : k \in Codes}
    /\ r.state = "queued" => r.got = 0
    /\ r.state \in {"queued", "served"} =>
        r.replies = <<>> /\ r.got \in Nat /\ Follows(r.got, r.wire) /\ Follows(r.got + Len(r.wire), r.rest)

\* Slot s is taken by a connection that is served and has read as much as the
\* daemon knows of; or it waits for a descriptor of -1.
Taking(s) ==
    /\ clients[s] \in Client
    /\ "accept" \notin HttpFaults => clients[s].fd \in Conns
    /\ clients[s].fd \in Conns =>
        /\ conn[clients[s].fd].state = "served"
        /\ conn[clients[s].fd].got = clients[s].recv_progress
        /\ ~clients[s].req_done /\ Counting(clients[s].parser) /\ OneLine(clients[s].recv_buf)

Taken == Slots \ clients_map

Types == /\ clients_map \in SUBSET Slots
         /\ clients \in [Slots -> {None} \cup Client]
         /\ port \in [Ports -> ClientPort]
         /\ conn = [c \in Conns |-> conn[c]] /\ \A c \in Conns : ConnOK(conn[c])
HasConn == \A s \in Taken : Taking(s)
HasSlot == \A c \in Conns : conn[c].state = "served" => \E s \in Taken : clients[s].fd = c
OneSlot == \A s, t \in Taken : clients[s].fd \in Conns /\ clients[s].fd = clients[t].fd => s = t

HInv == Types /\ HasConn /\ HasSlot /\ OneSlot

LEMMA NewClient ==
    ASSUME NEW fd \in Conns \cup {NoConn}
    PROVE  /\ new_client(fd) \in Client /\ new_client(fd).fd = fd
           /\ new_client(fd).recv_progress = 0 /\ ~new_client(fd).req_done
           /\ Counting(new_client(fd).parser) /\ OneLine(new_client(fd).recv_buf)
<1>1. http_parser_init \in Parser
  BY ParserTypes DEF http_parser_init, Parser, ParserStates, Methods
<1>2. 0 \in 0 .. MAX_REQUEST_SIZE
  BY HttpAssumption
<1>3. [i \in 1 .. MAX_REQUEST_SIZE |-> None] \in [1 .. MAX_REQUEST_SIZE -> Units \cup {None}]
  OBVIOUS
<1>4. new_client(fd) \in Client
  BY <1>1, <1>2, <1>3 DEF new_client, Client
<1>5. Counting(new_client(fd).parser)
  BY DEF Counting, new_client, http_parser_init
<1>6. OneLine(new_client(fd).recv_buf)
  BY HttpAssumption DEF OneLine, new_client, None
<1>7. QED
  BY <1>4, <1>5, <1>6 DEF new_client

\* Parts of a request, and a request put together again.
LEMMA Parts ==
    ASSUME NEW o \in Nat, NEW q, Follows(o, q), NEW n \in 0 .. Len(q)
    PROVE  /\ Follows(o, SubSeq(q, 1, n)) /\ Len(SubSeq(q, 1, n)) = n
           /\ Follows(o + n, SubSeq(q, n + 1, Len(q)))
           /\ Len(SubSeq(q, n + 1, Len(q))) = Len(q) - n
<1>1. q \in Seq(Units) /\ Len(q) \in Nat
  BY DEF Follows
<1>2. /\ SubSeq(q, 1, n) \in Seq(Units) /\ Len(SubSeq(q, 1, n)) = n
      /\ \A i \in 1 .. n : SubSeq(q, 1, n)[i] = q[i]
  BY <1>1
<1>3. /\ SubSeq(q, n + 1, Len(q)) \in Seq(Units) /\ Len(SubSeq(q, n + 1, Len(q))) = Len(q) - n
      /\ \A i \in 1 .. Len(q) - n : SubSeq(q, n + 1, Len(q))[i] = q[n + i]
  BY <1>1
<1>4. Follows(o, SubSeq(q, 1, n))
  BY <1>1, <1>2 DEF Follows
<1>5. ASSUME NEW i \in 1 .. Len(q) - n, (o + n) + i # 1
      PROVE  SubSeq(q, n + 1, Len(q))[i].kind # "l1"
  <2>1. n + i \in 1 .. Len(q) /\ o + (n + i) # 1
    BY <1>1, <1>5
  <2>2. QED
    BY <1>3, <2>1 DEF Follows
<1>6. QED
  BY <1>2, <1>3, <1>4, <1>5 DEF Follows

LEMMA Joined ==
    ASSUME NEW o \in Nat, NEW p, NEW q, Follows(o, p), Follows(o + Len(p), q)
    PROVE  Follows(o, p \o q) /\ Len(p \o q) = Len(p) + Len(q)
<1>1. p \in Seq(Units) /\ q \in Seq(Units) /\ Len(p) \in Nat /\ Len(q) \in Nat
  BY DEF Follows
<1>2. /\ p \o q \in Seq(Units) /\ Len(p \o q) = Len(p) + Len(q)
      /\ \A i \in 1 .. Len(p) : (p \o q)[i] = p[i]
      /\ \A i \in Len(p) + 1 .. Len(p) + Len(q) : (p \o q)[i] = q[i - Len(p)]
  BY <1>1
<1>3. ASSUME NEW i \in 1 .. Len(p) + Len(q), o + i # 1 PROVE (p \o q)[i].kind # "l1"
  <2>1. CASE i <= Len(p)
    BY <1>1, <1>2, <1>3, <2>1 DEF Follows
  <2>2. CASE i > Len(p)
    <3>1. i - Len(p) \in 1 .. Len(q) /\ (o + Len(p)) + (i - Len(p)) # 1
          /\ i \in Len(p) + 1 .. Len(p) + Len(q)
      BY <1>1, <1>3, <2>2
    <3>2. QED
      BY <1>2, <3>1 DEF Follows
  <2>3. QED
    BY <1>1, <2>1, <2>2
<1>4. QED
  BY <1>2, <1>3 DEF Follows

LEMMA ClosedIs ==
    ASSUME NEW r, ConnOK(r)
    PROVE  ConnOK(closed(r)) /\ closed(r).state = "closed"
BY DEF ConnOK, closed
-----------------------------------------------------------------------------
(* One lemma for each way in which a step changes who has which slot.      *)

\* A connection moves on and keeps its slot, or has none.
LEMMA Moved ==
    ASSUME HInv, NEW c \in Conns, NEW r, ConnOK(r),
           conn' = [conn EXCEPT ![c] = r], UNCHANGED <<clients_map, clients, port>>,
           r.state = "served" <=> conn[c].state = "served",
           r.state = "served" => r.got = conn[c].got
    PROVE  HInv'
<1>1. Types'
  BY DEF HInv, Types
<1>2. Taken' = Taken
  BY DEF Taken
<1>3. ASSUME NEW s \in Taken PROVE Taking(s)'
  <2>1. Taking(s)
    BY <1>3 DEF HInv, HasConn
  <2>2. CASE clients[s].fd = c
    BY <2>1, <2>2 DEF Taking, HInv, Types
  <2>3. CASE clients[s].fd # c
    <3>1. clients[s].fd \in Conns => conn'[clients[s].fd] = conn[clients[s].fd]
      BY <2>3 DEF HInv, Types
    <3>2. QED
      BY <2>1, <3>1 DEF Taking
  <2>4. QED
    BY <2>2, <2>3
<1>4. HasSlot'
  BY <1>2 DEF HInv, Types, HasSlot
<1>5. OneSlot'
  BY <1>2 DEF HInv, OneSlot
<1>6. QED
  BY <1>1, <1>2, <1>3, <1>4, <1>5 DEF HInv, HasConn

\* A connection gets the slot s; or, with a descriptor of -1, is gone.
LEMMA Gets ==
    ASSUME HInv, NEW c \in Conns, NEW s \in clients_map, NEW fd \in {c, NoConn}, NEW r, ConnOK(r),
           conn[c].state = "queued",
           fd = c => r.state = "served" /\ r.got = 0,
           fd = NoConn => r.state = "closed" /\ "accept" \in HttpFaults,
           conn' = [conn EXCEPT ![c] = r], clients' = [clients EXCEPT ![s] = new_client(fd)],
           clients_map' = clients_map \ {s}, UNCHANGED port
    PROVE  HInv'
<1>1. s \in Slots /\ Taken' = Taken \cup {s} /\ s \notin Taken
  BY DEF HInv, Types, Taken
<1>2. /\ new_client(fd) \in Client /\ new_client(fd).fd = fd
      /\ new_client(fd).recv_progress = 0 /\ ~new_client(fd).req_done
      /\ Counting(new_client(fd).parser) /\ OneLine(new_client(fd).recv_buf)
  BY NewClient
<1>3. /\ clients'[s] = new_client(fd) /\ \A t \in Slots : t # s => clients'[t] = clients[t]
      /\ conn'[c] = r /\ \A d \in Conns : d # c => conn'[d] = conn[d]
  BY <1>1 DEF HInv, Types
<1>4. Types'
  BY <1>2 DEF HInv, Types
<1>5. \A t \in Taken : t \in Slots /\ t # s /\ clients[t].fd # c
  BY <1>1 DEF HInv, HasConn, Taking, Taken
<1>6. ASSUME NEW t \in Taken' PROVE Taking(t)'
  <2>1. CASE t = s
    BY <1>2, <1>3, <2>1, RequestsAssumption DEF Taking
  <2>2. CASE t # s
    <3>1. t \in Taken /\ clients'[t] = clients[t] /\ Taking(t)
      BY <1>1, <1>3, <1>5, <2>2 DEF HInv, HasConn
    <3>2. clients[t].fd \in Conns => conn'[clients[t].fd] = conn[clients[t].fd]
      BY <1>3, <1>5, <3>1
    <3>3. QED
      BY <3>1, <3>2 DEF Taking
  <2>3. QED
    BY <2>1, <2>2
<1>7. ASSUME NEW d \in Conns, conn'[d].state = "served" PROVE \E t \in Taken' : clients'[t].fd = d
  <2>1. CASE d = c
    <3>1. fd = c
      BY <1>3, <1>7, <2>1
    <3>2. QED
      BY <1>1, <1>2, <1>3, <2>1, <3>1
  <2>2. CASE d # c
    BY <1>1, <1>3, <1>5, <1>7, <2>2 DEF HInv, HasSlot
  <2>3. QED
    BY <2>1, <2>2
<1>8. ASSUME NEW t \in Taken', NEW u \in Taken', clients'[t].fd \in Conns, clients'[t].fd = clients'[u].fd
      PROVE  t = u
  <2>1. \A x \in Taken : clients'[x] = clients[x] /\ clients'[x].fd # c
    BY <1>3, <1>5
  <2>2. clients'[s].fd \in {c, NoConn} /\ NoConn \notin Conns
    BY <1>2, <1>3, RequestsAssumption
  <2>3. QED
    BY <1>1, <1>8, <2>1, <2>2 DEF HInv, OneSlot
<1>9. QED
  BY <1>4, <1>6, <1>7, <1>8 DEF HInv, HasConn, HasSlot, OneSlot

\* A connection is closed and its slot given back.
LEMMA Ends ==
    ASSUME HInv, NEW s \in Taken, NEW c \in Conns, clients[s].fd = c, NEW r, ConnOK(r),
           r.state = "closed", conn' = [conn EXCEPT ![c] = r],
           clients' = [clients EXCEPT ![s] = left_behind], clients_map' = toggled(s),
           port' \in [Ports -> ClientPort]
    PROVE  HInv'
<1>1. clients_map' = clients_map \cup {s} /\ s \in Slots /\ Taken' = Taken \ {s}
  BY DEF toggled, SymDiff, Taken, HInv, Types
<1>2. left_behind \in Client
  BY NewClient DEF left_behind
<1>3. /\ \A t \in Slots : t # s => clients'[t] = clients[t]
      /\ conn'[c] = r /\ \A d \in Conns : d # c => conn'[d] = conn[d]
  BY DEF HInv, Types
<1>4. Types'
  BY <1>1, <1>2 DEF HInv, Types
<1>5. \A t \in Taken' : t \in Taken /\ clients'[t] = clients[t] /\ clients[t].fd # c
  BY <1>1, <1>3 DEF HInv, OneSlot, Taken
<1>6. ASSUME NEW t \in Taken' PROVE Taking(t)'
  <2>1. Taking(t) /\ clients'[t] = clients[t] /\ clients[t].fd # c
    BY <1>5 DEF HInv, HasConn
  <2>2. clients[t].fd \in Conns => conn'[clients[t].fd] = conn[clients[t].fd]
    BY <1>3, <2>1
  <2>3. QED
    BY <2>1, <2>2 DEF Taking
<1>7. ASSUME NEW d \in Conns, conn'[d].state = "served" PROVE \E t \in Taken' : clients'[t].fd = d
  <2>1. d # c
    BY <1>3, <1>7
  <2>2. PICK t \in Taken : clients[t].fd = d
    BY <1>3, <1>7, <2>1 DEF HInv, HasSlot
  <2>3. QED
    BY <1>1, <1>5, <2>1, <2>2
<1>8. OneSlot'
  BY <1>5 DEF HInv, OneSlot
<1>9. QED
  BY <1>4, <1>6, <1>7, <1>8 DEF HInv, HasConn, HasSlot

\* A connection goes on, having read more.
LEMMA Stays ==
    ASSUME HInv, NEW s \in Taken, NEW c \in Conns, clients[s].fd = c, NEW r, ConnOK(r),
           r.state = "served", conn' = [conn EXCEPT ![c] = r],
           NEW cl \in Client, cl.fd = c, cl.recv_progress = r.got, ~cl.req_done,
           Counting(cl.parser), OneLine(cl.recv_buf),
           clients' = [clients EXCEPT ![s] = cl], UNCHANGED clients_map,
           port' \in [Ports -> ClientPort]
    PROVE  HInv'
<1>1. s \in Slots /\ Taken' = Taken
  BY DEF Taken
<1>2. /\ clients'[s] = cl /\ \A t \in Slots : t # s => clients'[t] = clients[t]
      /\ conn'[c] = r /\ \A d \in Conns : d # c => conn'[d] = conn[d]
  BY <1>1 DEF HInv, Types
<1>3. Types'
  BY DEF HInv, Types
<1>4. \A t \in Taken : t \in Slots /\ (t # s => clients[t].fd # c)
  BY DEF HInv, OneSlot, Taken
<1>5. \A t \in Taken : clients'[t].fd = clients[t].fd
  BY <1>2, <1>4
<1>6. ASSUME NEW t \in Taken PROVE Taking(t)'
  <2>1. CASE t = s
    BY <1>2, <2>1 DEF Taking
  <2>2. CASE t # s
    <3>1. clients'[t] = clients[t] /\ Taking(t) /\ clients[t].fd # c
      BY <1>2, <1>4, <2>2 DEF HInv, HasConn
    <3>2. clients[t].fd \in Conns => conn'[clients[t].fd] = conn[clients[t].fd]
      BY <1>2, <3>1
    <3>3. QED
      BY <3>1, <3>2 DEF Taking
  <2>3. QED
    BY <2>1, <2>2
<1>7. HasSlot'
  BY <1>1, <1>2, <1>5 DEF HInv, HasSlot
<1>8. OneSlot'
  BY <1>1, <1>5 DEF HInv, OneSlot
<1>9. QED
  BY <1>1, <1>3, <1>6, <1>7, <1>8 DEF HInv, HasConn
-----------------------------------------------------------------------------
(* The steps.                                                              *)

LEMMA ConnectKeeps ==
    ASSUME HInv, NEW c \in Conns, Connect(c) PROVE HInv'
<1>1. PICK q \in Requests : conn' = [conn EXCEPT ![c] =
            [state |-> "queued", rest |-> q, wire |-> <<>>, open |-> TRUE, pieces |-> 0, recvs |-> 0, got |-> 0,
             sent |-> q, given |-> <<>>, replies |-> <<>>]]
  BY DEF Connect
<1> DEFINE r == [state |-> "queued", rest |-> q, wire |-> <<>>, open |-> TRUE, pieces |-> 0, recvs |-> 0, got |-> 0,
                 sent |-> q, given |-> <<>>, replies |-> <<>>]
<1>2. q \in Seq(Units) /\ \A i \in 2 .. Len(q) : q[i].kind # "l1"
  BY RequestsAssumption
<1>3. Follows(0, q)
  BY <1>2 DEF Follows
<1>4. <<>> \in Seq(Units) /\ Len(<<>>) = 0
  OBVIOUS
<1>5. Follows(0, <<>>) /\ Follows(0 + Len(<<>>), q)
  BY <1>3, <1>4 DEF Follows
<1>6. ConnOK(r)
  BY <1>5 DEF ConnOK
<1>7. r.state = "queued"
  OBVIOUS
<1> HIDE DEF r
<1>8. conn' = [conn EXCEPT ![c] = r]
  BY <1>1 DEF r
<1>9. conn[c].state # "served" /\ UNCHANGED <<clients_map, clients, port>>
  BY DEF Connect
<1>10. QED
  BY <1>6, <1>7, <1>8, <1>9, Moved

LEMMA AcceptKeeps ==
    ASSUME HInv, NEW c \in Conns, Accept(c) PROVE HInv'
<1>1. PICK fd \in accept(c) :
        /\ conn' = [conn EXCEPT ![c] =
                        IF clients_map = {} \/ fd = NoConn THEN closed(@) ELSE [@ EXCEPT !.state = "served"]]
        /\ IF clients_map = {}
           THEN UNCHANGED <<clients_map, clients>>
           ELSE /\ clients' = [clients EXCEPT ![Min(clients_map)] = configure_client(fd)]
                /\ clients_map' = clients_map \ {Min(clients_map)}
  BY DEF Accept
<1>2. conn[c].state = "queued" /\ UNCHANGED port /\ ConnOK(conn[c])
  BY DEF Accept, HInv, Types
<1>3. fd \in {c, NoConn} /\ (fd = NoConn => "accept" \in HttpFaults)
  BY RequestsAssumption DEF accept
<1>4. ConnOK(closed(conn[c])) /\ closed(conn[c]).state = "closed"
  BY <1>2, ClosedIs
<1>5. CASE clients_map = {}
  <2> DEFINE r == closed(conn[c])
  <2>1. conn' = [conn EXCEPT ![c] = r] /\ UNCHANGED <<clients_map, clients, port>>
    BY <1>1, <1>2, <1>5
  <2>2. ConnOK(r) /\ r.state = "closed"
    BY <1>4
  <2> HIDE DEF r
  <2>3. QED
    BY <1>2, <2>1, <2>2, Moved
<1>6. CASE clients_map # {}
  <2> DEFINE s == Min(clients_map)
             r == IF fd = NoConn THEN closed(conn[c]) ELSE [conn[c] EXCEPT !.state = "served"]
  <2>1. clients_map \in SUBSET Nat
    BY HttpAssumption DEF HInv, Types, Slots
  <2>2. s \in clients_map
    BY <1>6, <2>1, Least
  <2>3. ASSUME fd = c PROVE ConnOK(r) /\ r.state = "served" /\ r.got = 0
    <3>1. fd # NoConn
      BY <2>3, RequestsAssumption
    <3>2. QED
      BY <1>2, <3>1 DEF ConnOK
  <2>4. ASSUME fd = NoConn PROVE ConnOK(r) /\ r.state = "closed"
    BY <1>4, <2>4
  <2>5. /\ conn' = [conn EXCEPT ![c] = r] /\ clients' = [clients EXCEPT ![s] = new_client(fd)]
        /\ clients_map' = clients_map \ {s}
    BY <1>1, <1>6 DEF configure_client
  <2> HIDE DEF s, r
  <2>6. QED
    BY <1>2, <1>3, <2>2, <2>3, <2>4, <2>5, Gets
<1>7. QED
  BY <1>5, <1>6

LEMMA AcceptNoMemoryKeeps ==
    ASSUME HInv, NEW c \in Conns, AcceptNoMemory(c) PROVE HInv'
<1> DEFINE r == [conn[c] EXCEPT !.state = "stranded"]
<1>1. ConnOK(conn[c]) /\ conn[c].state = "queued"
  BY DEF HInv, Types, AcceptNoMemory
<1>2. conn' = [conn EXCEPT ![c] = r] /\ UNCHANGED <<clients_map, clients, port>>
  BY DEF AcceptNoMemory
<1>3. ConnOK(r)
  BY <1>1 DEF ConnOK
<1>4. r.state = "stranded"
  BY <1>1 DEF ConnOK
<1> HIDE DEF r
<1>5. QED
  BY <1>1, <1>2, <1>3, <1>4, Moved

LEMMA HangUpKeeps ==
    ASSUME HInv, NEW c \in Conns, HangUp(c) PROVE HInv'
<1> DEFINE r == [conn[c] EXCEPT !.open = FALSE]
<1>1. ConnOK(conn[c])
  BY DEF HInv, Types
<1>2. conn' = [conn EXCEPT ![c] = r] /\ UNCHANGED <<clients_map, clients, port>>
  BY DEF HangUp
<1>3. ConnOK(r)
  BY <1>1 DEF ConnOK
<1>4. r.state = conn[c].state /\ r.got = conn[c].got
  BY <1>1 DEF ConnOK
<1> HIDE DEF r
<1>5. QED
  BY <1>2, <1>3, <1>4, Moved

LEMMA SendKeeps ==
    ASSUME HInv, NEW c \in Conns, Send(c) PROVE HInv'
<1>1. PICK n \in 1 .. Len(conn[c].rest) :
        conn' = [conn EXCEPT ![c].wire = @ \o SubSeq(conn[c].rest, 1, n),
                             ![c].rest = SubSeq(@, n + 1, Len(@)),
                             ![c].pieces = IF n = Len(conn[c].rest) THEN 0 ELSE @ + 1]
  BY DEF Send
<1> DEFINE w == conn[c].wire \o SubSeq(conn[c].rest, 1, n)
           q == SubSeq(conn[c].rest, n + 1, Len(conn[c].rest))
           k == IF n = Len(conn[c].rest) THEN 0 ELSE conn[c].pieces + 1
           r == [conn[c] EXCEPT !.wire = w, !.rest = q, !.pieces = k]
           g == conn[c].got
<1>2. conn[c].state = "served" /\ UNCHANGED <<clients_map, clients, port>>
  BY DEF Send
<1>3. /\ ConnOK(conn[c]) /\ conn = [d \in Conns |-> conn[d]] /\ g \in Nat
      /\ Follows(g, conn[c].wire) /\ Follows(g + Len(conn[c].wire), conn[c].rest)
      /\ Len(conn[c].wire) \in Nat /\ Len(conn[c].rest) \in Nat
  BY <1>2 DEF HInv, Types, ConnOK, Follows
<1>4. conn' = [conn EXCEPT ![c] = r]
  BY <1>1, <1>3 DEF ConnOK
<1> DEFINE o == g + Len(conn[c].wire)
<1>5. o \in Nat /\ n \in 0 .. Len(conn[c].rest)
  BY <1>3
<1>6. /\ Follows(o, SubSeq(conn[c].rest, 1, n)) /\ Len(SubSeq(conn[c].rest, 1, n)) = n
      /\ Follows(o + n, q)
  <2> HIDE DEF o, g
  <2>1. Follows(o, conn[c].rest)
    BY <1>3 DEF o
  <2>2. QED
    BY <1>5, <2>1, Parts
<1>7. Follows(g, w) /\ Len(w) = Len(conn[c].wire) + n
  <2> DEFINE p == SubSeq(conn[c].rest, 1, n)
  <2>1. Follows(g + Len(conn[c].wire), p) /\ Len(p) = n
    BY <1>6
  <2> HIDE DEF g, p
  <2>2. QED
    BY <1>3, <2>1, Joined DEF p
<1>8. g + Len(w) = o + n
  BY <1>3, <1>7
<1>9. r.state = "served" /\ r.got = g
  BY <1>2, <1>3 DEF ConnOK
<1>10. ConnOK(r)
  <2>1. Follows(g + Len(w), q)
    BY <1>6, <1>8
  <2>2. /\ DOMAIN r = DOMAIN conn[c] /\ r = [x \in DOMAIN r |-> r[x]] /\ r.wire = w /\ r.rest = q
        /\ r.state = conn[c].state /\ r.got = conn[c].got /\ r.replies = conn[c].replies
    BY <1>3 DEF ConnOK
  <2> HIDE DEF r, w, q
  <2>3. QED
    BY <1>2, <1>3, <1>7, <2>1, <2>2 DEF ConnOK
<1> HIDE DEF r
<1>11. QED
  BY <1>2, <1>4, <1>9, <1>10, Moved

LEMMA ClientGoneKeeps ==
    ASSUME HInv, NEW s \in Slots, ClientGone(s) PROVE HInv'
<1> DEFINE c == clients[s].fd
           r == closed(conn[c])
<1>1. s \in Taken /\ c \in Conns
  BY DEF ClientGone, Taken
<1>2. /\ clients_map' = toggled(s) /\ clients' = [clients EXCEPT ![s] = left_behind]
      /\ conn' = [conn EXCEPT ![c] = r]
  BY DEF ClientGone
<1>3. port' \in [Ports -> ClientPort] /\ ConnOK(conn[c])
  BY <1>1 DEF ClientGone, HInv, Types
<1>4. ConnOK(r) /\ r.state = "closed"
  BY <1>3, ClosedIs
<1> HIDE DEF r, c
<1>5. clients[s].fd = c
  BY DEF c
<1>6. QED
  BY <1>1, <1>2, <1>3, <1>4, <1>5, Ends

\* The client after n units of w have been read into its buffer.
Read(cl, w, n) ==
    [cl EXCEPT !.recv_progress = @ + n,
               !.recv_buf = [i \in DOMAIN @ |->
                    IF i - cl.recv_progress \in 1 .. n THEN w[i - cl.recv_progress] ELSE @[i]]]

\* Reading on fills the buffer from where reading stopped.
LEMMA ReadOn ==
    ASSUME NEW cl \in Client, OneLine(cl.recv_buf), NEW w, Follows(cl.recv_progress, w),
           NEW n \in 0 .. Len(w), cl.recv_progress + n <= MAX_REQUEST_SIZE
    PROVE  /\ Read(cl, w, n) \in Client /\ OneLine(Read(cl, w, n).recv_buf)
           /\ Read(cl, w, n).recv_progress = cl.recv_progress + n /\ Read(cl, w, n).fd = cl.fd
           /\ Read(cl, w, n).parser = cl.parser /\ Read(cl, w, n).req_done = cl.req_done
<1> DEFINE read == Read(cl, w, n)
           buf == [i \in 1 .. MAX_REQUEST_SIZE |->
                        IF i - cl.recv_progress \in 1 .. n
                        THEN w[i - cl.recv_progress] ELSE cl.recv_buf[i]]
<1>1. /\ cl.recv_progress \in 0 .. MAX_REQUEST_SIZE /\ MAX_REQUEST_SIZE \in Nat
      /\ w \in Seq(Units) /\ Len(w) \in Nat
      /\ cl.recv_buf \in [1 .. MAX_REQUEST_SIZE -> Units \cup {None}]
  BY HttpAssumption DEF Client, Follows
<1>2. /\ read.recv_buf = buf /\ read.recv_progress = cl.recv_progress + n /\ read.fd = cl.fd
      /\ read.parser = cl.parser /\ read.req_done = cl.req_done
      /\ read.body_offset = cl.body_offset
  BY <1>1 DEF Client, Read
<1>3. \A j \in 1 .. n : w[j] \in Units
  BY <1>1
<1>4. buf \in [1 .. MAX_REQUEST_SIZE -> Units \cup {None}]
  BY <1>1, <1>3
<1>5. cl.recv_progress + n \in 0 .. MAX_REQUEST_SIZE
  BY <1>1
<1>6. read \in Client
  <2>1. read = [cl EXCEPT !.recv_progress = cl.recv_progress + n, !.recv_buf = buf]
    BY <1>1 DEF Client, Read
  <2> HIDE DEF buf, read
  <2>2. QED
    BY <1>4, <1>5, <2>1 DEF Client
<1>7. ASSUME NEW i \in 2 .. MAX_REQUEST_SIZE PROVE buf[i].kind # "l1"
  <2>1. i \in 1 .. MAX_REQUEST_SIZE
    BY <1>1
  <2>2. CASE i - cl.recv_progress \in 1 .. n
    <3>1. i - cl.recv_progress \in 1 .. Len(w) /\ cl.recv_progress + (i - cl.recv_progress) # 1
      BY <1>1, <2>2
    <3>2. QED
      BY <2>1, <2>2, <3>1 DEF Follows
  <2>3. CASE i - cl.recv_progress \notin 1 .. n
    BY <2>1, <2>3 DEF OneLine
  <2>4. QED
    BY <2>2, <2>3
<1>8. OneLine(read.recv_buf)
  BY <1>2, <1>7 DEF OneLine
<1> HIDE DEF buf
<1>9. QED
  BY <1>2, <1>6, <1>8

LEMMA ClientDataKeeps ==
    ASSUME HInv, NEW s \in Slots, ClientData(s) PROVE HInv'
<1> DEFINE c == clients[s].fd
           cl == clients[s]
           n == Min({Len(conn[c].wire), room(cl)})
           read == [cl EXCEPT !.recv_progress = @ + n,
                              !.recv_buf = [i \in DOMAIN @ |->
                                    IF i - cl.recv_progress \in 1 .. n
                                    THEN conn[c].wire[i - cl.recv_progress] ELSE @[i]]]
           h0 == [cl |-> read, port |-> port, given |-> conn[c].given,
                  replies |-> conn[c].replies, failure |-> 0, broken |-> FALSE]
           now(h) == [conn[c] EXCEPT !.wire = SubSeq(@, n + 1, Len(@)), !.recvs = @ + 1,
                                     !.got = @ + n, !.given = h.given, !.replies = h.replies]
<1>1. s \in Taken /\ c \in Conns
  BY DEF ClientData, Taken
<1>2. PICK h \in outcomes(h0, n) :
        /\ clients' = [clients EXCEPT ![s] = IF closes(h.cl) > 0 THEN left_behind ELSE h.cl]
        /\ port' = h.port
        /\ clients_map' = IF closes(h.cl) % 2 = 1 THEN toggled(s) ELSE clients_map
        /\ conn' = [conn EXCEPT ![c] = IF closes(h.cl) > 0 THEN closed(now(h)) ELSE now(h)]
  BY DEF ClientData
<1>3. Taking(s) /\ ConnOK(conn[c])
  BY <1>1 DEF HInv, HasConn, Types
<1>4. /\ cl \in Client /\ conn[c].state = "served" /\ conn[c].got = cl.recv_progress
      /\ ~cl.req_done /\ Counting(cl.parser) /\ OneLine(cl.recv_buf)
  BY <1>1, <1>3 DEF Taking
<1>5. /\ conn[c].replies = <<>> /\ conn[c].got \in Nat /\ Follows(conn[c].got, conn[c].wire)
      /\ Follows(conn[c].got + Len(conn[c].wire), conn[c].rest)
  BY <1>3, <1>4 DEF ConnOK
<1>6. Len(conn[c].wire) \in Nat /\ cl.recv_progress \in 0 .. MAX_REQUEST_SIZE /\ MAX_REQUEST_SIZE \in Nat
  BY <1>4, <1>5, HttpAssumption DEF Follows, Client
<1>7. /\ n \in 0 .. Len(conn[c].wire) /\ n \in 0 .. MAX_REQUEST_SIZE
      /\ cl.recv_progress + n <= MAX_REQUEST_SIZE
  <2>1. room(cl) \in 0 .. MAX_REQUEST_SIZE /\ cl.recv_progress + room(cl) = MAX_REQUEST_SIZE
    BY <1>6 DEF room
  <2> DEFINE S == {Len(conn[c].wire), room(cl)}
  <2>2. S \in SUBSET Nat /\ S # {}
    BY <1>6, <2>1
  <2>3. n \in S /\ \A k \in S : n <= k
    <3> HIDE DEF S
    <3>1. Min(S) \in S /\ \A k \in S : Min(S) <= k
      BY <2>2, Least
    <3>2. QED
      BY <3>1 DEF S
  <2> HIDE DEF n
  <2>4. n <= Len(conn[c].wire) /\ n <= room(cl) /\ n \in Nat
    BY <2>2, <2>3
  <2>5. QED
    BY <1>6, <2>1, <2>4
<1> HIDE DEF n
<1>8. /\ read \in Client /\ OneLine(read.recv_buf)
      /\ read.recv_progress = cl.recv_progress + n /\ read.fd = cl.fd
      /\ read.parser = cl.parser /\ read.req_done = cl.req_done
  <2> DEFINE w == conn[c].wire
  <2>1. Follows(cl.recv_progress, w) /\ n \in 0 .. Len(w)
    BY <1>4, <1>5, <1>7
  <2>2. read = Read(cl, w, n)
    BY DEF Read
  <2> HIDE DEF w, cl, read
  <2>3. QED
    BY <1>4, <1>7, <2>1, <2>2, ReadOn
<1> HIDE DEF read
<1>9. Handling(h0) /\ h0.cl = read /\ h0.replies = <<>> /\ Unanswered(h0)
  <2>1. h0.cl = read /\ h0.replies = <<>>
    BY <1>5
  <2>2. <<>> \in Seq(Codes) /\ port \in [Ports -> ClientPort]
    BY DEF HInv, Types
  <2>3. Handling(h0)
    BY <1>5, <1>8, <2>2 DEF Handling
  <2>4. Unanswered(h0)
    BY <1>4, <1>8, <2>1 DEF Unanswered
  <2>5. QED
    BY <2>1, <2>3, <2>4
<1> HIDE DEF h0
<1>10. SameConn(h, h0) /\ (Unanswered(h) \/ Over(h))
  <2>1. Counting(h0.cl.parser) /\ OneLine(h0.cl.recv_buf)
    BY <1>4, <1>8, <1>9
  <2>2. QED
    BY <1>2, <1>7, <1>9, <2>1, OutcomeIs
<1>11. /\ h.cl \in Client /\ h.port \in [Ports -> ClientPort] /\ Counting(h.cl.parser)
       /\ h.cl.fd = c /\ h.cl.recv_progress = conn[c].got + n /\ OneLine(h.cl.recv_buf)
  BY <1>4, <1>8, <1>9, <1>10 DEF SameConn, Handling
<1>12. h.replies \in {<<>>} \cup {<<k>> : k \in Codes} /\ (~h.cl.req_done => h.replies = <<>>)
  BY <1>10 DEF Unanswered, Over
<1>13. closes(h.cl) \in {0, 1} /\ (closes(h.cl) = 0 => ~h.cl.req_done)
  BY DEF closes
<1> DEFINE r == now(h)
<1>14. /\ DOMAIN r = DOMAIN conn[c] /\ r = [x \in DOMAIN r |-> r[x]]
       /\ r.state = "served" /\ r.got = conn[c].got + n /\ r.replies = h.replies
       /\ r.wire = SubSeq(conn[c].wire, n + 1, Len(conn[c].wire)) /\ r.rest = conn[c].rest
  BY <1>3, <1>4 DEF ConnOK
<1>15. r.got \in Nat /\ Follows(r.got, r.wire) /\ Follows(r.got + Len(r.wire), r.rest)
  <2> DEFINE w == conn[c].wire
             g == conn[c].got
  <2>1. /\ Follows(g + n, SubSeq(w, n + 1, Len(w)))
        /\ Len(SubSeq(w, n + 1, Len(w))) = Len(w) - n
    <3>1. g \in Nat /\ Follows(g, w) /\ n \in 0 .. Len(w)
      BY <1>5, <1>7
    <3> HIDE DEF g, w
    <3>2. QED
      BY <3>1, Parts
  <2>2. (g + n) + (Len(w) - n) = g + Len(w)
    BY <1>5, <1>6, <1>7
  <2> HIDE DEF r
  <2>3. r.got + Len(r.wire) = g + Len(w)
    BY <1>14, <2>1, <2>2
  <2>4. r.got \in Nat
    BY <1>5, <1>7, <1>14
  <2>5. QED
    BY <1>5, <1>14, <2>1, <2>3, <2>4
<1> HIDE DEF r, c, cl
<1>16. CASE closes(h.cl) = 1
  <2>1. ConnOK(closed(r)) /\ closed(r).state = "closed"
    <3>1. ConnOK([r EXCEPT !.state = "closed"])
      BY <1>3, <1>12, <1>14 DEF ConnOK
    <3>2. QED
      BY <1>3, <1>12, <1>14 DEF ConnOK, closed
  <2>2. /\ clients_map' = toggled(s) /\ clients' = [clients EXCEPT ![s] = left_behind]
        /\ conn' = [conn EXCEPT ![c] = closed(r)] /\ port' \in [Ports -> ClientPort]
    BY <1>2, <1>11, <1>16 DEF r, c
  <2> DEFINE q == closed(r)
  <2>3. ConnOK(q) /\ q.state = "closed" /\ conn' = [conn EXCEPT ![c] = q] /\ clients[s].fd = c
    BY <2>1, <2>2 DEF c
  <2> HIDE DEF q
  <2>4. QED
    BY <1>1, <2>2, <2>3, Ends
<1>17. CASE closes(h.cl) = 0
  <2>1. ConnOK(r)
    BY <1>3, <1>12, <1>13, <1>14, <1>15, <1>17 DEF ConnOK
  <2>2. /\ clients_map' = clients_map /\ clients' = [clients EXCEPT ![s] = h.cl]
        /\ conn' = [conn EXCEPT ![c] = r] /\ port' \in [Ports -> ClientPort]
    BY <1>2, <1>11, <1>17 DEF r, c
  <2> DEFINE k == h.cl
  <2>3. /\ k \in Client /\ k.fd = c /\ k.recv_progress = r.got /\ ~k.req_done
        /\ Counting(k.parser) /\ OneLine(k.recv_buf) /\ clients' = [clients EXCEPT ![s] = k]
        /\ clients[s].fd = c /\ r.state = "served"
    BY <1>11, <1>13, <1>14, <1>17, <2>2 DEF c
  <2> HIDE DEF k
  <2>4. QED
    BY <1>1, <2>1, <2>2, <2>3, Stays
<1>18. QED
  BY <1>13, <1>16, <1>17
-----------------------------------------------------------------------------
(* The theorems.                                                           *)

LEMMA InitHolds == Init => HInv
<1> SUFFICES ASSUME Init PROVE HInv
  OBVIOUS
<1>1. Types
  <2>1. ASSUME NEW c \in Conns PROVE ConnOK(conn[c])
    BY DEF Init, ConnOK
  <2>2. port \in [Ports -> ClientPort]
    BY DEF Init, ClientPort
  <2>3. QED
    BY <2>1, <2>2 DEF Init, Types
<1>2. Taken = {} /\ \A c \in Conns : conn[c].state = "closed"
  BY DEF Init, Taken
<1>3. QED
  BY <1>1, <1>2 DEF HInv, HasConn, HasSlot, OneSlot

LEMMA StepKeeps == HInv /\ [Next]_vars => HInv'
<1> SUFFICES ASSUME HInv, [Next]_vars PROVE HInv'
  OBVIOUS
<1>1. ASSUME NEW c \in Conns, Connect(c) \/ Accept(c) \/ AcceptNoMemory(c) \/ Send(c) \/ HangUp(c)
      PROVE  HInv'
  BY <1>1, ConnectKeeps, AcceptKeeps, AcceptNoMemoryKeeps, SendKeeps, HangUpKeeps
<1>2. ASSUME NEW s \in Slots, ClientGone(s) \/ ClientData(s) PROVE HInv'
  BY <1>2, ClientGoneKeeps, ClientDataKeeps
<1>3. ASSUME NEW p \in Ports, PortMoves(p) PROVE HInv'
  <2>1. UNCHANGED <<clients_map, clients, conn>>
    BY <1>3 DEF PortMoves
  <2>2. port' \in [Ports -> ClientPort]
    BY <1>3 DEF PortMoves, HInv, Types, ClientPort
  <2>3. QED
    BY <2>1, <2>2 DEF HInv, Types, HasConn, HasSlot, OneSlot, Taking, Taken
<1>4. CASE UNCHANGED vars
  BY <1>4 DEF vars, HInv, Types, HasConn, HasSlot, OneSlot, Taking, Taken
<1>5. QED
  BY <1>1, <1>2, <1>3, <1>4 DEF Next

\* The inductive invariant: a taken slot and a connection that is served belong to
\* each other, the slot knows how much of the request was read, and nothing has
\* been answered yet.
THEOREM Invariance == Safe => []HInv
BY InitHolds, StepKeeps, PTL DEF Safe

\* Every structure has its type, and however its request is cut up
\* usb_monitor_client_on_complete runs at most once for a connection: it is given
\* at most one reply.
THEOREM TypeCorrect == Safe => []TypeOK
<1>1. HInv => TypeOK
  BY DEF HInv, Types, TypeOK, ConnOK
<1>2. QED
  BY <1>1, Invariance, PTL

\* The bit that usb_monitor_client_close toggles is that of a slot which is taken,
\* and is toggled once: as long as accept returns descriptors, each slot whose bit
\* is clear serves one connection and each such connection has one slot.
THEOREM SlotsAccountedAlways ==
    ASSUME "accept" \notin HttpFaults
    PROVE  Safe => []SlotsAccounted
<1>1. HInv => SlotsAccounted
  <2> SUFFICES ASSUME HInv PROVE SlotsAccounted
    OBVIOUS
  <2>1. \A s \in Taken : clients[s].fd \in {c \in Conns : conn[c].state = "served"}
    BY DEF HInv, HasConn, Taking
  <2>2. ASSUME NEW c \in Conns, conn[c].state = "served"
        PROVE  Cardinality({s \in Taken : clients[s].fd = c}) = 1
    <3>1. PICK t \in Taken : clients[t].fd = c
      BY <2>2 DEF HInv, HasSlot
    <3>2. {s \in Taken : clients[s].fd = c} = {t}
      BY <3>1 DEF HInv, OneSlot
    <3>3. QED
      BY <3>2, FS_Singleton
  <2>3. QED
    BY <2>1, <2>2 DEF SlotsAccounted, Taken
<1>2. QED
  BY <1>1, Invariance, PTL
=============================================================================
