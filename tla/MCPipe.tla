------------------------------- MODULE MCPipe -------------------------------
(* Model checking of the pipe.  No definition tells one thread or one item  *)
(* from another.                                                            *)
EXTENDS Pipe, TLC

PipeSymmetry == Permutations(Threads) \cup Permutations(Items)
=============================================================================
