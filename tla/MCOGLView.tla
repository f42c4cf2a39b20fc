----------------------------- MODULE MCOGLView -----------------------------
(* Model checking of the mask geometry.                                     *)
EXTENDS OGLView
=============================================================================
