----------------------------- MODULE MCMessages -----------------------------
(* TLC instance of Messages.                                                 *)
(* Path: each kind of matcher alone, behind a literal and before another;    *)
(* every text of up to three characters for a variable; every path of up to  *)
(* five characters from elsewhere.  Headers: one name in two spellings, and  *)
(* one a browser sets itself.  Query: what others write, with every kind of  *)
(* escape.  Body and lenses: as MCMessageBody and MCProblems have them.      *)
EXTENDS Messages, MCMessageBody, MCProblems

MCChar == {"/", "?", "#"} \union Hex

Lit(t)     == [kind |-> "literal", text |-> t, count |-> 1]
Var(k, n)  == [kind |-> k, text |-> <<>>, count |-> n]
Seg        == Var("segment", 1)
Bare(m)    == [bare |-> TRUE, pieces |-> <<m>>]
Join(s)    == [bare |-> FALSE, pieces |-> s]
A          == Lit(<<"a">>)

Variable ==
    {Seg, Var("int", 1), Var("hex", 1), Var("upToChars", 2), Var("exactlyChars", 2),
     Var("upToSegments", 2), Var("exactlySegments", 2), Var("restOfPath", 1)}

MCTemplate ==
    {Bare(Lit(<<"/">>)), Bare(Lit(<<"a", "/", "b">>)), Bare(Seg), Join(<<Lit(<<"/">>)>>)}
        \union {Join(<<m>>) : m \in Variable}
        \union {Join(<<A, m>>) : m \in Variable}
        \union {Join(<<m, Lit(<<"/", "b">>)>>) : m \in Variable}
        \union {Join(<<Seg, m>>) : m \in Variable}
        \union {Join(<<Lit(<<"/", "a", "/">>), Seg, Lit(<<"b">>), Seg>>)}

MCText == SeqOf({"a", "/", "1"}, 3) \union {<<"?">>, <<"a", "?">>}

MCForeign == {<<"/">> \o s : s \in SeqOf({"a", "b", "/", "1"}, 4)}

-----------------------------------------------------------------------------
MCName     == {"X-Id", "x-id", "Host", "Connection"}
MCLower(n) ==
    CASE n = "X-Id" -> "x-id" [] n = "Host" -> "host" [] n = "Connection" -> "connection"
      [] OTHER -> n

MCHeaderValue == {<<>>, <<"a">>, <<"b">>}

MCBatch ==
    {<<<<"X-Id", <<"a">>>>, <<"X-Id", <<"b">>>>>>, <<<<"X-Id", <<>>>>, <<"x-id", <<"a">>>>>>}

MCEdit == {[v \in MCHeaderValue |-> IF v = <<>> THEN <<"a">> ELSE <<"b">>]}

-----------------------------------------------------------------------------
X  == <<"x">>
Y  == <<"y">>
XY == <<"x", " ", "y">>

MCLetter      == {"x", "y", " ", "+", "=", "%", "undefined"}
MCQueryName   == {X, XY, Y}
MCQueryValues == {<<>>, <<{}>>, <<{<<>>}>>, <<{<<" ", "x", " ">>}>>, <<{X}, {}, {<<"+", "=">>}>>}
MCQueryBatch  == {<<<<X, <<{}>>>>, <<Y, <<>>>>>>, <<<<XY, <<{<<"+">>}>>>>, <<X, <<{X}, {}>>>>>>}

MCForeignQuery ==
    {<<>>, <<<<>>>>, <<<<"x", "+", "y", "=", "+", "x">>, Y>>,
     <<<<"x", "%20", "y", "=", "%2B">>, <<>>, <<"x", "=">>>>,
     <<<<"x", "=", "x", "+", "x", "+", "y">>, <<"y", "=", "x", "=", "y">>>>,
     <<X, <<"y", "=", "%">>>>}
=============================================================================
