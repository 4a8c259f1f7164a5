----------------------------- MODULE MCBidiCall -----------------------------
(* TLC instance of BidiCall: two calls of the example's get (1) and post (2), *)
(* of an unsecured function (3) and of one the server does not have (4).      *)
(* Each kind of token, and a body that is not json, comes one way to one      *)
(* place: the lenses that refuse it know neither.                             *)
EXTENDS BidiCall

MCRoute == 1..3
MCPlace == 1..4

Tokens(place, via) ==
    CASE place = 1 -> IF via = "memory" THEN {"signed"} ELSE {"signed", "none"}
      [] place = 2 -> IF via = "memory" THEN {"signed", "forged"}
                      ELSE {"signed", "nameless", "basic"}
      [] place = 3 -> {"none"}
      [] place = 4 -> IF via = "memory" THEN {} ELSE {"none"}

MCCall ==
    {c \in [place : MCPlace, readable : BOOLEAN, via : Transport,
            token : {"signed", "forged", "nameless", "basic", "none"}] :
        /\ c.token \in Tokens(c.place, c.via)
        /\ ~c.readable => c.place = 2 /\ c.token = "signed" /\ c.via # "memory"}
=============================================================================
