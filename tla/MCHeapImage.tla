----------------------------- MODULE MCHeapImage -----------------------------
(* Three C symbols that move and trade places, and hash values that collide. *)
EXTENDS HeapImage

MCSymbols == <<"f", "g", "return_c">>
MCHash == [f |-> 1, g |-> 5, return_c |-> 2]
MCOldAddr == [f |-> 1, g |-> 5, return_c |-> 2]
MCNewAddr == [f |-> 5, g |-> 2, return_c |-> 9]
==============================================================================
