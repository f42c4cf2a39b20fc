--------------------------- MODULE MCDlibWrapper ---------------------------
(* Model checking of the landmark smoothing.                                *)
EXTENDS DlibWrapper
=============================================================================
