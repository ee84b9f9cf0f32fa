---------------------------- MODULE Subsequence ----------------------------
(***************************************************************************)
(* The subsequence of a sequence at given positions: what filtering a list *)
(* returns.  It is the library's SelectSeq with the test made a set, and   *)
(* defined without recursion, so that it can be reasoned about (module     *)
(* SubsequenceProofs).                                                     *)
(***************************************************************************)
EXTENDS Naturals, Sequences, FiniteSets

\* how many of the positions K come before k or are k
Place(K, k) == Cardinality({i \in K : i <= k})

\* the j-th of the positions K
Nth(K, j) == CHOOSE k \in K : Place(K, k) = j

SubSeqAt(s, K) == [j \in 1 .. Cardinality(K) |-> s[Nth(K, j)]]

\* the elements of s that are in A, in their order
Where(s, A) == {k \in DOMAIN s : s[k] \in A}
Filter(s, A) == SubSeqAt(s, Where(s, A))
=============================================================================
