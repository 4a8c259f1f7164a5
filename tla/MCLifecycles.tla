---------------------------- MODULE MCLifecycles ----------------------------
(* TLC instance of Lifecycles: three routes, listed in any order, and two    *)
(* requests in flight, the second of which may carry the id of the first or  *)
(* a foreign one.                                                            *)
EXTENDS Lifecycles

MCRoute == 1..3
=============================================================================
