-------------------------- MODULE MCReadWriteMutex --------------------------
(* Model checking of read_write_mutex.  No definition tells one client from *)
(* another.                                                                 *)
EXTENDS ReadWriteMutex, TLC

ClientSymmetry == Permutations(Clients)
=============================================================================
