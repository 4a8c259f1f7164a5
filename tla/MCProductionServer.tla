------------------------- MODULE MCProductionServer -------------------------
(* TLC instance of ProductionServer: one route without a body, a union of   *)
(* two lenses that parse it, and one that takes it as it is.                *)
EXTENDS ProductionServer

MCRoute == 1..3
=============================================================================
