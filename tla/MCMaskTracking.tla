--------------------------- MODULE MCMaskTracking ---------------------------
(* Model checking of the composed application.  No definition tells one     *)
(* shape from another.                                                      *)
EXTENDS MaskTracking, TLC

ShapeSymmetry == Permutations(Shapes)
=============================================================================
