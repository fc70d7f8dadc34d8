----------------------------- MODULE MCExchange -----------------------------
(* Exchange with three documents, queries of plain and of marked words, and *)
(* clients that write their headers in other ways than searchclient does.   *)
EXTENDS Exchange

CONSTANTS d1, d2, d3

MCLower == [c \in {"a", "A", "b"} |-> IF c = "A" THEN "a" ELSE c]
MCText == [d \in Docs |->
    IF d = d1 THEN <<"A", "-", "b", Space, "a", "b">>
    ELSE IF d = d2 THEN <<"b", ".", "a", Space, "a", Space, "b">>
    ELSE <<"b", "+", "b", Space, "a", "b">>]

\* An empty query, two words of which d3 has one, a word that all have, twice,
\* and a term that no document can have.
MCQueries ==
    {<<"=">>, <<"b", "=", "A", "+", "b">>, <<"b", "%20", "+", "b">>, <<"=", "a", "-", "b">>}

L(k, s) == [key |-> k, text |-> s]
Put(lines, body) ==
    [method |-> "PUT", target |-> "static", query |-> <<>>, lines |-> lines, body |-> body]
Plain(method, target, q) ==
    [method |-> method, target |-> target, query |-> q, body |-> <<>>,
     lines |-> <<L("accept", <<Space, "x">>)>>]

\* No space behind a colon; nothing behind one; no number; too large a one;
\* two lengths; the name of the header within another; a kept connection.
MCOthers ==
    {Put(<<L("content-length", <<"1">>)>>, <<"p">>),
     Put(<<L("connection", <<"close">>), L("content-length", <<"0", "2">>)>>, <<"p", "q">>),
     Put(<<L("content-length", <<Space, "x">>)>>, <<>>),
     Put(<<L("content-length", <<Space, "9", "9">>)>>, <<>>),
     Put(<<L("content-length", <<Space, "2">>), L("content-length", <<Space, "1">>)>>, <<"p">>),
     Put(<<L("x-content-length", <<Space, "1">>)>>, <<"p">>),
     Put(<<L("accept", <<>>)>>, <<>>),
     Put(<<L("content-length", <<Space, "1">>)>>, <<"p">>),
     Plain("GET", "page", <<>>), Plain("GET", "none", <<>>),
     Plain("POST", "page", <<>>), Plain("PATCH", "static", <<>>), Plain("", "none", <<>>)}
    \cup {Plain("GET", "search", q) : q \in MCQueries}
    \cup {Plain("GET", "ask", q) : q \in {<<"=">>, <<"=", "a", "-", "b">>}}

MCUploads == {<<>>, <<"p">>, <<"q", "r">>}
=============================================================================
