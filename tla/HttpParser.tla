----------------------------- MODULE HttpParser -----------------------------
(***************************************************************************)
(* http_parser.c, the vendored parser, as far as the requests of this      *)
(* daemon's clients reach it.  The bytes of a request come in units, the   *)
(* pieces between which a recv can divide it with different consequences:  *)
(*                                                                         *)
(*   l1, l2   the request line, cut anywhere inside it; l1 has the method  *)
(*   len      a Content-Length header with its line end                    *)
(*   h1, h2   another header, cut inside its value; h2 has the line end    *)
(*   end      the empty line                                               *)
(*   b1, b2   the body, cut anywhere inside it; it has no line ends        *)
(*                                                                         *)
(* All units have the length 1.  The parser keeps its state from one call  *)
(* of http_parser_execute to the next.  The bodies are sent with a         *)
(* Content-Length, without Transfer-Encoding, Upgrade and Connection       *)
(* headers, and responses are not parsed: those states are left out.       *)
(***************************************************************************)
EXTENDS Integers

CONSTANT MaxBody        \* bound on the Content-Length that clients send

Methods == {"GET", "POST", "PUT"}
NoLength == MaxBody + 1             \* ULLONG_MAX: no Content-Length was seen

\* The values of parser->state, each standing for the ones in which the next
\* unit has the same effect, and "error" for any http_errno.
ParserStates ==
    {"start_req", "req_line", "header_field", "header_value", "body_identity", "error"}

\* What a unit makes the parser call: nothing, on_body, on_message_complete,
\* or on_body and then on_message_complete.
Parser == [state : ParserStates, method : Methods, content_length : 0 .. NoLength,
           calls : {"none", "body", "complete", "both"}]

http_parser_init ==
    [state |-> "start_req", method |-> "GET", content_length |-> NoLength, calls |-> "none"]

goes(ps, state) == [ps EXCEPT !.state = state]

\* s_start_req to s_req_method: empty lines are skipped, and only a request
\* line starts with the name of a method.
start_req(ps, u) ==
    CASE u.kind = "end" -> ps
      [] u.kind = "l1" -> [goes(ps, "req_line") EXCEPT !.method = u.method, !.content_length = NoLength]
      [] OTHER -> goes(ps, "error")

\* s_req_method to s_req_line_almost_done: wherever the line was cut, its
\* beginning is not a continuation of it.
req_line(ps, u) == goes(ps, IF u.kind = "l2" THEN "header_field" ELSE "error")

\* s_headers_almost_done and s_headers_done.
headers_done(ps) ==
    IF ps.content_length \in {0, NoLength}
    THEN [goes(ps, "start_req") EXCEPT !.calls = "complete"]
    ELSE goes(ps, "body_identity")

\* s_header_field_start and s_header_field.  The rest of a value has no colon:
\* it is taken for a header without a value.  A space or a brace is no token.
header_field(ps, u) ==
    CASE u.kind = "end" -> headers_done(ps)
      [] u.kind = "len" -> [ps EXCEPT !.content_length = u.n]
      [] u.kind = "h1" -> goes(ps, "header_value")
      [] u.kind = "h2" -> ps
      [] OTHER -> goes(ps, "error")

\* s_header_value_start to s_header_value_lws: a value lasts until a line end.
header_value(ps, u) ==
    IF u.kind \in {"l2", "len", "h2", "end"} THEN goes(ps, "header_field") ELSE ps

\* s_body_identity and s_message_done: a body is any bytes.
body_identity(ps) ==
    IF ps.content_length = 1
    THEN [goes(ps, "start_req") EXCEPT !.content_length = 0, !.calls = "both"]
    ELSE [ps EXCEPT !.content_length = @ - 1, !.calls = "body"]

\* One turn of the loop in http_parser_execute.
parse_unit(parser, u) ==
    LET ps == [parser EXCEPT !.calls = "none"]
    IN CASE ps.state = "start_req" -> start_req(ps, u)
         [] ps.state = "req_line" -> req_line(ps, u)
         [] ps.state = "header_field" -> header_field(ps, u)
         [] ps.state = "header_value" -> header_value(ps, u)
         [] ps.state = "body_identity" -> body_identity(ps)
         [] ps.state = "error" -> ps
=============================================================================
