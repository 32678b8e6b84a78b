------------------------------- MODULE MCHttp -------------------------------
EXTENDS HttpClient

CONSTANTS p1, p2, c1, c2

MCPathOf == p1 :> <<1, 99>> @@ p2 :> <<1, 9>>

Item(p, c) == [port |-> p, cmd |-> c]
Line(m) == <<[kind |-> "l1", method |-> m], [kind |-> "l2"]>>
Header == <<[kind |-> "h1"], [kind |-> "h2"]>>
ContentLength(n) == <<[kind |-> "len", n |-> n]>>
End == <<[kind |-> "end"]>>
Part(k, items) == <<[kind |-> k, items |-> items]>>

Post(head, items1, items2) ==
    Line("POST") \o head \o ContentLength(2) \o End \o Part("b1", items1) \o Part("b2", items2)

\* The last request is longer than the buffer, two more fill it exactly.
MCRequests ==
    {Line("GET") \o Header \o End,
     Post(<<>>, <<Item(p1, 0)>>, <<>>),
     Post(<<>>, <<Item(p1, 2)>>, <<Item("long", 0)>>),
     Post(Header, <<Item(p1, 0)>>, <<>>)}
=============================================================================
