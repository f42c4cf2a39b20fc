-------------------------- MODULE MCSessionHandler --------------------------
(* Model checking of SessionHandler alone, under any view controller.       *)
EXTENDS SessionHandler
=============================================================================
