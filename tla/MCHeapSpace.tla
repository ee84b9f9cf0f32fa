----------------------------- MODULE MCHeapSpace -----------------------------
(* Instances of the arenas, memory objects and the BIBOP.                   *)
EXTENDS HeapSpace

TwoArenas == <<"pair", "array">>
MaxSizes == [g \in 1 .. NumGens |-> IF g = 1 THEN 8 ELSE 12]
Ratios == [g \in 1 .. NumGens |-> IF g = 1 THEN 2 ELSE 1]
=============================================================================
