------------------------------ MODULE MCQueue ------------------------------
(* A small instance of Queue.  Items are interchangeable.                   *)
EXTENDS Queue

Symmetry == Permutations(Items)
=============================================================================
