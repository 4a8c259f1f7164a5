---------------------------- MODULE MCMessageBody ----------------------------
(* TLC instance of MessageBody: no bytes, one, and a character of two at    *)
(* either end, once in a JSON text.                                          *)
EXTENDS MessageBody

MCByte    == {Lead, Trail, Replacement, Zero, Promised[1], "a", "quote"}
MCContent == {<<>>, <<"a">>, <<"quote", Lead, Trail>>, <<Lead, Trail, "a">>}
=============================================================================
