----------------------------- MODULE MCProblems -----------------------------
(* TLC instance of Problems: three readers whose problems lie at, behind and *)
(* inside of each other's, one, two or three of them as each other's         *)
(* alternatives.                                                             *)
EXTENDS Problems

Reader(c)    == [kind |-> "reader", checks |-> c]
Either(S, T) == {[kind |-> "union", a |-> a, b |-> b] : a \in S, b \in T}
                    \union {[kind |-> "result", success |-> s, failure |-> f] : s \in S, f \in T}

MCReader ==
    {Reader(<<"status", "json">>), Reader(<<"bearer", "value">>), Reader(<<"header", "json", "mapped">>)}

MCLens ==
    LET Two == Either(MCReader, {Reader(<<"status", "json">>)})
    IN  MCReader \union Either(MCReader, MCReader) \union Either(Two, MCReader)
=============================================================================
