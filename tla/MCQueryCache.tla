---------------------------- MODULE MCQueryCache ----------------------------
(* The threads are interchangeable. *)
EXTENDS QueryCache, TLC

ThreadSymmetry == Permutations(Threads)

=============================================================================
