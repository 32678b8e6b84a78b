----------------------------- MODULE HttpClient -----------------------------
(***************************************************************************)
(* The HTTP interface: the daemon accepts connections into the slots of    *)
(* clients_map, reads a request into the slot's buffer, parses it as it    *)
(* arrives, carries out what it asks and closes the connection.            *)
(*                                                                         *)
(* The clients and the kernel's sockets are external: conn[c].wire is what *)
(* client c has sent and the daemon not received, conn[c].rest what c has  *)
(* yet to send.  A port is reduced to what the client code looks at; what  *)
(* its update callback does is in the modules of the handlers.             *)
(***************************************************************************)
EXTENDS HttpParser, UsbPath, TLC

CONSTANTS
    Conns,              \* the connections that are made
    Requests,           \* the requests that clients send
    Ports,
    Probed,             \* the ports that are being probed at the start
    PathOf,             \* the path of each port
    MAX_HTTP_CLIENTS,
    MAX_REQUEST_SIZE,
    MaxPieces,          \* bound on the pieces a client sends a request in
    Rets,               \* what the update callbacks return besides 0
    HttpFaults          \* what can go wrong: "alloc", "accept"

ASSUME HttpAssumption ==
    /\ MAX_HTTP_CLIENTS \in 1 .. 8          \* clients_map is a byte
    /\ MAX_REQUEST_SIZE \in Nat \ {0}
    /\ MaxBody \in Nat
    /\ Probed \subseteq Ports
    /\ MaxPieces \in Nat \ {0}
    /\ \A p \in Ports : Len(PathOf[p]) \in 1 .. USB_PATH_MAX
    /\ \A p, q \in Ports : PathOf[p] = PathOf[q] => p = q
    /\ HttpFaults \subseteq {"alloc", "accept"}

VARIABLES clients_map, clients, conn, port

vars == <<clients_map, clients, conn, port>>

Slots == 0 .. MAX_HTTP_CLIENTS - 1

CMD_RESTART == 0
CMD_ENABLE == 1
CMD_DISABLE == 2

None == [kind |-> "none"]               \* a byte of the buffer that is 0
NoConn == [kind |-> "none"]             \* a descriptor of -1

\* The fields of struct http_client; body_offset is an index into recv_buf,
\* and 0 is NULL.
new_client(c) ==
    [recv_buf |-> [i \in 1 .. MAX_REQUEST_SIZE |-> None], body_offset |-> 0,
     parser |-> http_parser_init, fd |-> c, recv_progress |-> 0, req_done |-> FALSE]
-----------------------------------------------------------------------------
(* Requests.  A request is a sequence of units; the body that its b1 and   *)
(* b2 make up is an array of at most two items.  An item names a port by   *)
(* the path that the daemon reported for it, or in one of the ways that    *)
(* reach no port.                                                          *)

Units == UNION {Range(r) : r \in Requests}

JsonItem == [port : Ports \cup {"unknown", "long", "nopath"}, cmd : Nat]

ASSUME RequestsAssumption ==
    /\ NoConn \notin Conns
    /\ Requests \subseteq Seq(Units)
    /\ \A r \in Requests : \A i \in 2 .. Len(r) : r[i].kind # "l1"
    /\ \A u \in Units :
        /\ u.kind = "l1" => u.method \in Methods
        /\ u.kind = "len" => u.n \in 0 .. MaxBody
        /\ u.kind \in {"b1", "b2"} => u.items \in Seq(JsonItem) /\ Len(u.items) <= 1

\* usb_monitor_client_add_paths_json: how the daemon writes the path of a port.
\* (The mode, the ids and whether it is enabled are written too.)
reported_path(p) == convert_path_char(PathOf[p])

item_path(it) ==
    CASE it.port \in Ports -> reported_path(it.port)
      [] it.port = "unknown" -> <<99, 99>>
      [] it.port = "long" -> [i \in 1 .. USB_PATH_MAX + 1 |-> 1]
      [] it.port = "nopath" -> <<>>

\* json_tokener_parse at body_offset: text after the first JSON value is not
\* looked at, and text that stops inside it is an error.  A body without an
\* array of ports has the one item "noports".
json_items(cl) ==
    LET b == cl.body_offset
        text == [i \in 1 .. MAX_REQUEST_SIZE + 1 |->
                    IF i <= MAX_REQUEST_SIZE THEN cl.recv_buf[i] ELSE None]
    IN IF b > 0 /\ text[b].kind = "b1" /\ text[b + 1].kind = "b2"
       THEN text[b].items \o text[b + 1].items
       ELSE <<[port |-> "noports", cmd |-> 0]>>
-----------------------------------------------------------------------------
(* usb_monitor_client_update_ports, over a record h of what the callback   *)
(* reads and changes: the client, the ports, and of its connection the     *)
(* commands given to ports and the replies.                                *)

\* usb_monitor_lists_find_port_path.
find_port_path(path) == {p \in Ports : PathOf[p] = path}

\* port->update: 0 and the command is begun, or an error and it is not.
update(r, cmd, ret) ==
    CASE ret # 0 -> r
      [] cmd = CMD_RESTART -> [r EXCEPT !.mode = "RESET"]
      [] cmd = CMD_ENABLE -> [r EXCEPT !.enabled = TRUE]
      [] cmd = CMD_DISABLE -> [r EXCEPT !.enabled = FALSE]

given(h, p, cmd, ret) ==
    [h EXCEPT !.port[p] = update(@, cmd, ret),
              !.given = Append(@, [port |-> p, cmd |-> cmd, ret |-> ret]),
              !.failure = ret]

fail(h) == [h EXCEPT !.failure = 1, !.broken = TRUE]

\* Nothing to do for the port: the command is passed over without an error.
needless(r, cmd) ==
    \/ cmd = CMD_ENABLE /\ r.enabled
    \/ cmd = CMD_DISABLE /\ ~r.enabled
    \/ cmd = CMD_RESTART /\ r.mode = "RESET"

\* One turn of the loop; it is left at the first item that is not in order.
update_item(h, it, ret) ==
    LET cmd == it.cmd % 256
        found == find_port_path(convert_char_to_path(item_path(it)))
        p == CHOOSE q \in found : TRUE
    IN CASE h.broken -> h
         [] it.port = "nopath" \/ cmd > CMD_DISABLE -> fail(h)
         [] ~path_fits(item_path(it)) -> fail(h)
         [] found = {} -> h
         [] h.port[p].mode = "PROBE" -> fail(h)
         [] needless(h.port[p], cmd) -> h
         [] OTHER -> given(h, p, cmd, ret)

\* Mutant of update_ports: what the update callback returns is dropped.
update_ports_void(h, items, rets) ==
    LET done[i \in 0 .. Len(items)] ==
            IF i = 0 THEN h ELSE update_item(done[i - 1], items[i], rets[i])
    IN [done[Len(items)] EXCEPT !.failure = IF done[Len(items)].broken THEN 1 ELSE 0]

update_ports(h, items, rets) ==
    LET done[i \in 0 .. Len(items)] ==
            IF i = 0 THEN h ELSE update_item(done[i - 1], items[i], rets[i])
    IN done[Len(items)]
-----------------------------------------------------------------------------
(* The parser's callbacks.                                                 *)

send(h, code) == [h EXCEPT !.replies = Append(@, code)]

\* usb_monitor_client_handle_get: code 200 and then the list of the ports, if
\* there is memory to make it.
handle_get(h, memory) == send(h, IF memory THEN 200 ELSE 500)

\* usb_monitor_client_handle_post.
handle_post(h, rets) ==
    LET items == json_items(h.cl)
        done == update_ports(h, items, rets)
    IN IF \E i \in DOMAIN items : items[i].port = "noports" THEN send(h, 400)
       ELSE send(done, CASE done.failure = 0 -> 200
                         [] done.failure > 100 -> done.failure
                         [] OTHER -> 400)

on_body(h, i) == IF h.cl.body_offset = 0 THEN [h EXCEPT !.cl.body_offset = i] ELSE h

\* usb_monitor_client_on_complete.
on_complete(h, env) ==
    LET answered == CASE h.cl.parser.method = "GET" -> handle_get(h, env.memory)
                      [] h.cl.parser.method = "POST" -> handle_post(h, env.rets)
                      [] OTHER -> send(h, 405)
    IN [answered EXCEPT !.cl.req_done = TRUE]

\* The parser reads unit i of the buffer.
execute_unit(g, i, env) ==
    LET h == [g EXCEPT !.cl.parser = parse_unit(@, g.cl.recv_buf[i])]
    IN CASE h.cl.parser.calls = "none" -> h
         [] h.cl.parser.calls = "body" -> on_body(h, i)
         [] h.cl.parser.calls = "complete" -> on_complete(h, env)
         [] h.cl.parser.calls = "both" -> on_complete(on_body(h, i), env)

\* http_parser_execute over the first n units of the buffer.
http_parser_execute(h, n, env) ==
    LET parsed[i \in 0 .. n] == IF i = 0 THEN h ELSE execute_unit(parsed[i - 1], i, env)
    IN parsed[n]
-----------------------------------------------------------------------------
(* The event loop's callbacks.                                             *)

Init ==
    /\ clients_map = Slots              \* the bits that are set
    /\ clients = [s \in Slots |-> None] \* NULL
    /\ conn = [c \in Conns |->
                [state |-> "closed", rest |-> <<>>, wire |-> <<>>, open |-> FALSE, pieces |-> 0, recvs |-> 0, got |-> 0,
                 sent |-> <<>>, given |-> <<>>, replies |-> <<>>]]
    /\ port = [p \in Ports |-> [enabled |-> TRUE, mode |-> IF p \in Probed THEN "PROBE" ELSE "IDLE"]]

\* The connection is over.  Of how the request came is kept what the properties
\* tell apart: not all of it was read, or all in one piece, or in several.
closed(r) ==
    [r EXCEPT !.state = "closed", !.rest = <<>>, !.wire = <<>>, !.open = FALSE, !.pieces = 0,
              !.recvs = IF r.got < Len(r.sent) THEN 0 ELSE Min({@, 2}),
              !.got = IF @ < Len(r.sent) THEN 0 ELSE @]

\* The structure of a connection that is over stays in its slot.  The next one
\* clears it before use: what it holds until then is left out.
left_behind == new_client(NoConn)

\* A client connects, with the request it is going to send.
Connect(c) ==
    /\ conn[c].state \in {"closed", "stranded"} /\ ~conn[c].open
    /\ \E r \in Requests :
        conn' = [conn EXCEPT ![c] =
            [state |-> "queued", rest |-> r, wire |-> <<>>, open |-> TRUE, pieces |-> 0, recvs |-> 0, got |-> 0,
             sent |-> r, given |-> <<>>, replies |-> <<>>]]
    /\ UNCHANGED <<clients_map, clients, port>>

\* usb_monitor_configure_client.
configure_client(c) == new_client(c)

\* What accept returns: the connection, or -1 when it was gone before.
accept(c) == {c} \cup (IF "accept" \in HttpFaults THEN {NoConn} ELSE {})

\* usb_monitor_accept_cb takes the first free slot, or closes the connection.
\* It does not look at what accept returned: after a failure the slot waits for
\* a descriptor of -1.
Accept(c) ==
    /\ conn[c].state = "queued"
    /\ \E fd \in accept(c) :
        /\ conn' = [conn EXCEPT ![c] =
                        IF clients_map = {} \/ fd = NoConn THEN closed(@) ELSE [@ EXCEPT !.state = "served"]]
        /\ IF clients_map = {}
           THEN UNCHANGED <<clients_map, clients>>
           ELSE /\ clients' = [clients EXCEPT ![Min(clients_map)] = configure_client(fd)]
                /\ clients_map' = clients_map \ {Min(clients_map)}
    /\ UNCHANGED port

\* malloc fails in usb_monitor_accept_cb: the connection is left as it is.
AcceptNoMemory(c) ==
    /\ "alloc" \in HttpFaults
    /\ conn[c].state = "queued"
    /\ clients_map # {} /\ clients[Min(clients_map)] = None
    /\ conn' = [conn EXCEPT ![c].state = "stranded"]
    /\ UNCHANGED <<clients_map, clients, port>>

\* A client sends some of what is left of its request.  What it sends before
\* it is accepted waits in the socket, as what it sends right after that.  A
\* cut after a whole header line finds the parser where a cut after the request
\* line does.
Send(c) ==
    /\ conn[c].state = "served" /\ conn[c].open
    /\ \E n \in 1 .. Len(conn[c].rest) :
        /\ n < Len(conn[c].rest) =>
            conn[c].pieces + 1 < MaxPieces /\ conn[c].rest[n].kind \notin {"len", "h2"}
        /\ conn' = [conn EXCEPT ![c].wire = @ \o SubSeq(conn[c].rest, 1, n),
                                ![c].rest = SubSeq(@, n + 1, Len(@)),
                                ![c].pieces = IF n = Len(conn[c].rest) THEN 0 ELSE @ + 1]
    /\ UNCHANGED <<clients_map, clients, port>>

\* A client gives up, or has what it wanted: no more comes after what is on
\* its way.
HangUp(c) ==
    /\ conn[c].state \in {"served", "stranded"} /\ conn[c].open
    /\ conn' = [conn EXCEPT ![c].open = FALSE]
    /\ UNCHANGED <<clients_map, clients, port>>

\* Mutant of toggled: the slot is not given back.
toggled_not(s) == clients_map

\* usb_monitor_client_close toggles the bit of the slot.
toggled(s) == SymDiff(clients_map, {s})

\* Mutant of closes: a full buffer is as good a reason as a request that is
\* done, and the connection is then closed twice.
closes_twice(cl) ==
    (IF cl.parser.state = "error" THEN 1 ELSE 0) + (IF cl.req_done THEN 1 ELSE 0)
    + (IF cl.recv_progress = MAX_REQUEST_SIZE /\ ~cl.req_done THEN 1 ELSE 0)

\* How many times usb_monitor_client_cb closes the connection after parsing.
closes(cl) ==
    IF \/ cl.parser.state = "error"
       \/ cl.recv_progress = MAX_REQUEST_SIZE /\ ~cl.req_done
       \/ cl.req_done
    THEN 1 ELSE 0

\* usb_monitor_client_cb: recv returns nothing when the client has hung up.
ClientGone(s) ==
    LET c == clients[s].fd
    IN /\ s \notin clients_map
       /\ clients[s].fd \in Conns
       /\ conn[c].wire = <<>> /\ ~conn[c].open
       /\ clients_map' = toggled(s)
       /\ clients' = [clients EXCEPT ![s] = left_behind]
       /\ conn' = [conn EXCEPT ![c] = closed(@)]
       /\ UNCHANGED port

\* Mutant of room: the whole buffer is offered every time.
room_all(cl) == MAX_REQUEST_SIZE

\* What is left of the buffer.
room(cl) == MAX_REQUEST_SIZE - cl.recv_progress

\* What the update callbacks return for the items of a request, and whether
\* usb_monitor_client_get_json finds memory.
Environments == [rets : [1 .. 2 -> Rets \cup {0}],
                 memory : IF "alloc" \in HttpFaults THEN BOOLEAN ELSE {TRUE}]

\* What parsing n units can lead to.  Every request that is completed is answered;
\* without an answer the environment was not asked for anything.
outcomes(h, n) ==
    LET parsed(env) == http_parser_execute(h, n, env)
        calm == parsed([rets |-> <<0, 0>>, memory |-> TRUE])
    IN IF calm.replies = h.replies THEN {calm} ELSE {parsed(env) : env \in Environments}

\* usb_monitor_client_cb: what recv returns is put behind what is there, and as
\* many bytes are parsed, from the start of the buffer.
ClientData(s) ==
    LET c == clients[s].fd
        cl == clients[s]
        n == Min({Len(conn[c].wire), room(cl)})
        read == [cl EXCEPT !.recv_progress = @ + n,
                           !.recv_buf = [i \in DOMAIN @ |->
                                IF i - cl.recv_progress \in 1 .. n
                                THEN conn[c].wire[i - cl.recv_progress] ELSE @[i]]]
    IN /\ s \notin clients_map
       /\ clients[s].fd \in Conns
       /\ conn[c].wire # <<>>
       /\ \E h \in outcomes(
                    [cl |-> read, port |-> port, given |-> conn[c].given,
                     replies |-> conn[c].replies, failure |-> 0, broken |-> FALSE], n) :
            LET now == [conn[c] EXCEPT !.wire = SubSeq(@, n + 1, Len(@)), !.recvs = @ + 1,
                                       !.got = @ + n, !.given = h.given, !.replies = h.replies]
            IN /\ clients' = [clients EXCEPT ![s] =
                                IF closes(h.cl) > 0 THEN left_behind ELSE h.cl]
               /\ port' = h.port
               /\ clients_map' = IF closes(h.cl) % 2 = 1 THEN toggled(s) ELSE clients_map
               /\ conn' = [conn EXCEPT ![c] = IF closes(h.cl) > 0 THEN closed(now) ELSE now]

\* The handlers: a reset ends, and probing ends with a reset of the port.
PortMoves(p) ==
    /\ port[p].mode # "IDLE"
    /\ port' = [port EXCEPT ![p].mode = IF @ = "PROBE" THEN "RESET" ELSE "IDLE"]
    /\ UNCHANGED <<clients_map, clients, conn>>

Next ==
    \/ \E c \in Conns :
        Connect(c) \/ Accept(c) \/ AcceptNoMemory(c) \/ Send(c) \/ HangUp(c)
    \/ \E s \in Slots : ClientGone(s) \/ ClientData(s)
    \/ \E p \in Ports : PortMoves(p)

\* The descriptor of slot s is ready: recv will not block.
Readable(s) ==
    s \notin clients_map /\ clients[s].fd \in Conns
    /\ (conn[clients[s].fd].wire # <<>> \/ ~conn[clients[s].fd].open)

\* The event loop serves every descriptor that is ready.  Clients send their
\* requests to the end, and give up on a daemon that does not answer.  (The
\* second conjunct is weak fairness of ClientGone(s) \/ ClientData(s): Readable
\* says when it is enabled, and since requests are finite a descriptor that is
\* served again and again is not ready in between or is closed.)
Fairness ==
    /\ \A c \in Conns : WF_vars(Accept(c)) /\ WF_vars(Send(c)) /\ WF_vars(HangUp(c))
    /\ \A s \in Slots : []<>~Readable(s)

Safe == Init /\ [][Next]_vars
Spec == Safe /\ Fairness
-----------------------------------------------------------------------------
(* Properties.                                                             *)

Codes == {200, 400, 405, 500} \cup {r \in Rets : r > 100}

Client == [recv_buf : [1 .. MAX_REQUEST_SIZE -> Units \cup {None}],
           body_offset : 0 .. MAX_REQUEST_SIZE, parser : Parser, fd : Conns \cup {NoConn},
           recv_progress : 0 .. MAX_REQUEST_SIZE, req_done : BOOLEAN]

ClientPort == [enabled : BOOLEAN, mode : {"IDLE", "RESET", "PROBE"}]

\* Every structure and connection has its type, and a connection is given at
\* most one reply.
TypeOK ==
    /\ clients_map \subseteq Slots
    /\ clients \in [Slots -> {None} \cup Client]
    /\ \A c \in Conns : conn[c].replies \in {<<>>} \cup {<<k>> : k \in Codes}
    /\ port \in [Ports -> ClientPort]

\* A slot whose bit is clear belongs to a connection that is being served, and
\* each such connection has one slot: usb_monitor_client_close toggles the bit,
\* so closing a connection twice, or the wrong one, takes a slot away for ever
\* or gives it to two clients.
SlotsAccounted ==
    LET taken == Slots \ clients_map
    IN /\ \A s \in taken : clients[s].fd \in {c \in Conns : conn[c].state = "served"}
       /\ \A c \in Conns : conn[c].state = "served" =>
            Cardinality({s \in taken : clients[s].fd = c}) = 1

\* The items of the request that client c sent.
Items(c) ==
    FlattenSeq([i \in DOMAIN conn[c].sent |->
        IF conn[c].sent[i].kind \in {"b1", "b2"} THEN conn[c].sent[i].items ELSE <<>>])

Asked(c) == {[port |-> i.port, cmd |-> i.cmd] : i \in Range(Items(c))}

IsPost(c) == conn[c].sent # <<>> /\ conn[c].sent[1].method = "POST"

\* However a request is cut up on its way, and whoever used the slot before:
\* a port is only ever given commands that this client asked for this port,
\* and each item is carried out at most once.
OnlyAsked ==
    \A c \in Conns :
        /\ conn[c].given # <<>> => IsPost(c)
        /\ {[port |-> g.port, cmd |-> g.cmd] : g \in Range(conn[c].given)} \subseteq Asked(c)
        /\ Len(conn[c].given) <= Len(Items(c))

\* The daemon has read all that client c sends, and c keeps to HTTP.
Received(c) == conn[c].sent # <<>> /\ conn[c].got = Len(conn[c].sent)

InOrder(it) == it.port \notin {"nopath", "long"} /\ it.cmd <= CMD_DISABLE

\* What the last reply of connection c may be.  Code 200 for a POST says that
\* every item was in order and no port refused; when two ports are given
\* commands the first one's refusal is forgotten, so nothing is asked then.
RightReply(c, code) ==
    CASE conn[c].sent[1].method = "GET" -> code \in {200, 500}
      [] conn[c].sent[1].method = "PUT" -> code = 405
      [] OTHER ->
        /\ code = 200 => \A i \in Range(Items(c)) : InOrder(i)
        /\ Len(conn[c].given) = 1 /\ code = 200 => conn[c].given[1].ret = 0
        /\ code > 400 => \E g \in Range(conn[c].given) : g.ret = code

\* A request that reaches the daemon in one piece is answered when it has been
\* read, with the code that says what was done.
WholeIsAnswered ==
    \A c \in Conns :
        Received(c) /\ conn[c].recvs = 1
            => Len(conn[c].replies) = 1 /\ RightReply(c, conn[c].replies[1])

\* A request is answered when it has been read, however many pieces it comes
\* in.  usb_monitor_client_cb keeps what it has read for this, but parses the
\* beginning of the buffer again in place of the new part.
PiecesAreAnswered == \A c \in Conns : Received(c) => conn[c].replies # <<>>

\* A slot does not stay taken: whatever a client sends, and in which pieces,
\* its connection is closed and the slot serves another one.
SlotReturns == \A s \in Slots : s \notin clients_map ~> s \in clients_map
=============================================================================
