----------------------------- MODULE MCSyncVar -----------------------------
(* An M-variable with all its operations, for TLC.                          *)
EXTENDS SyncVar, TLC

AllOps == {"get", "take", "swap"}
Symmetric == Permutations(Threads) \cup Permutations(Values)
=============================================================================
