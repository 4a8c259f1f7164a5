-------------------------- MODULE MCDebugLifecycle --------------------------
(* TLC instance of DebugLifecycle: two requests in flight, the second of    *)
(* which may carry the id of the first or a foreign one, and three routes.  *)
EXTENDS DebugLifecycle

MCRoute == 1..3
=============================================================================
