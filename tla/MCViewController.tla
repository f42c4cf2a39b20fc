-------------------------- MODULE MCViewController --------------------------
(* Model checking of the view controller and the capture session together.  *)
EXTENDS ViewController
=============================================================================
