---------------------------- MODULE MCThreadPool ----------------------------
(* Model checking of the thread pool. The tasks are numbers, which the      *)
(* clients take in their order, so that no symmetry is needed for them.     *)
EXTENDS ThreadPool
=============================================================================
