------------------------- MODULE SubsequenceProofs -------------------------
(***************************************************************************)
(* What SubSeqAt(s, K) is, for every sequence s and every set K of         *)
(* positions of it: the elements of s at the positions K, in their order,  *)
(* each once.  The proofs count: Place(K, .) is an injection of K into     *)
(* 1 .. |K|, hence a bijection.  SubSeqAtUnique is the converse, by which  *)
(* a sequence is shown to be the filtered one.                             *)
(***************************************************************************)
EXTENDS Subsequence, SequencesExt, SequenceTheorems, FiniteSetTheorems,
        WellFoundedInduction, TLAPS

\* h enumerates K upwards
Enumerates(h, n, K) ==
    /\ h \in [1 .. n -> K]
    /\ \A i, j \in 1 .. n : i < j => h[i] < h[j]
    /\ \A k \in K : \E i \in 1 .. n : h[i] = k

\* Positions of a sequence are finitely many.
LEMMA PositionsFinite ==
    ASSUME NEW n \in Nat, NEW K \in SUBSET (1 .. n)
    PROVE  IsFiniteSet(K) /\ Cardinality(K) \in Nat /\ Cardinality(K) <= n
<1>1. IsFiniteSet(1 .. n) /\ Cardinality(1 .. n) = n
  BY FS_Interval
<1> QED BY <1>1, FS_Subset, FS_CardinalityType

\* The rank of a position counts it, and grows with the position.
LEMMA PlaceProps ==
    ASSUME NEW n \in Nat, NEW K \in SUBSET (1 .. n)
    PROVE  /\ \A k \in K : Place(K, k) \in 1 .. Cardinality(K)
           /\ \A k, l \in K : k < l => Place(K, k) < Place(K, l)
<1> DEFINE Upto(k) == {i \in K : i <= k}
<1>0. IsFiniteSet(K) /\ Cardinality(K) \in Nat
  BY PositionsFinite
<1>1. ASSUME NEW k \in K
      PROVE  /\ IsFiniteSet(Upto(k)) /\ Cardinality(Upto(k)) \in Nat
             /\ Cardinality(Upto(k)) <= Cardinality(K)
             /\ Cardinality(Upto(k)) # 0
  <2>1. Upto(k) \in SUBSET K /\ k \in Upto(k)
    OBVIOUS
  <2> HIDE DEF Upto
  <2> QED BY <1>0, <2>1, FS_Subset, FS_CardinalityType, FS_EmptySet
<1>2. ASSUME NEW k \in K, NEW l \in K, k < l
      PROVE  Cardinality(Upto(k)) < Cardinality(Upto(l))
  <2>0. k \in Nat /\ l \in Nat /\ \A i \in K : i \in Nat
    OBVIOUS
  <2>1a. ASSUME NEW i \in Upto(k) PROVE i \in Upto(l)
    BY <1>2, <2>0
  <2>1b. l \in Upto(l) /\ l \notin Upto(k)
    BY <1>2, <2>0
  <2>1. Upto(k) \in SUBSET Upto(l) /\ l \in Upto(l) /\ l \notin Upto(k)
    BY <2>1a, <2>1b
  <2>2. Cardinality(Upto(k)) <= Cardinality(Upto(l)) /\ Cardinality(Upto(l)) # Cardinality(Upto(k))
    <3> HIDE DEF Upto
    <3> QED BY <1>1, <2>1, FS_Subset
  <2> HIDE DEF Upto
  <2> QED BY <1>1, <2>2
<1>3. \A k \in K : Place(K, k) = Cardinality(Upto(k))
  BY DEF Place
<1> HIDE DEF Upto
<1> QED BY <1>0, <1>1, <1>2, <1>3

\* So the ranks are 1 .. |K|, and Nth enumerates K upwards.
LEMMA NthEnumerates ==
    ASSUME NEW n \in Nat, NEW K \in SUBSET (1 .. n)
    PROVE  /\ \A j \in 1 .. Cardinality(K) : Nth(K, j) \in K /\ Place(K, Nth(K, j)) = j
           /\ Enumerates([j \in 1 .. Cardinality(K) |-> Nth(K, j)], Cardinality(K), K)
<1> DEFINE c == Cardinality(K)
           rank == [k \in K |-> Place(K, k)]
           nth == [j \in 1 .. c |-> Nth(K, j)]
<1>0. IsFiniteSet(K) /\ c \in Nat
  BY PositionsFinite
<1>1. rank \in Injection(K, 1 .. c)
  <2>1. rank \in [K -> 1 .. c]
    BY PlaceProps
  <2>2. \A k, l \in K : k # l => rank[k] # rank[l]
    <3> SUFFICES ASSUME NEW k \in K, NEW l \in K, k # l PROVE rank[k] # rank[l]
      OBVIOUS
    <3>1. k \in Nat /\ l \in Nat
      OBVIOUS
    <3>2. Place(K, k) \in 1 .. c /\ Place(K, l) \in 1 .. c
      BY PlaceProps
    <3>3. (k < l => Place(K, k) < Place(K, l)) /\ (l < k => Place(K, l) < Place(K, k))
      BY PlaceProps
    <3> HIDE DEF c
    <3> QED BY <1>0, <3>1, <3>2, <3>3
  <2> QED BY <2>1, <2>2 DEF Injection, IsInjective
<1>2. IsFiniteSet(1 .. c) /\ Cardinality(1 .. c) = c
  BY <1>0, FS_Interval
<1>3. rank \in Surjection(K, 1 .. c)
  <2> HIDE DEF rank
  <2> QED BY <1>0, <1>1, <1>2, FS_Injection
<1>4. \A j \in 1 .. c : \E k \in K : Place(K, k) = j
  BY <1>3 DEF Surjection
<1>5. ASSUME NEW j \in 1 .. c PROVE Nth(K, j) \in K /\ Place(K, Nth(K, j)) = j
  BY <1>4 DEF Nth
<1>6. nth \in [1 .. c -> K]
  BY <1>5
<1>7. ASSUME NEW i \in 1 .. c, NEW j \in 1 .. c, i < j PROVE nth[i] < nth[j]
  <2>0. nth[i] \in K /\ nth[j] \in K
    BY <1>5
  <2>1. nth[i] \in Int /\ nth[j] \in Int /\ nth[i] \in K /\ nth[j] \in K
    <3>1. \A k \in K : k \in Int
      OBVIOUS
    <3> HIDE DEF nth
    <3> QED BY <2>0, <3>1
  <2>2. Place(K, nth[i]) = i /\ Place(K, nth[j]) = j
    BY <1>5
  <2>3. i \in Int /\ j \in Int
    BY <1>0
  <2> HIDE DEF nth
  <2>4. nth[j] < nth[i] => j < i
    BY <2>1, <2>2, PlaceProps
  <2>5. nth[i] # nth[j]
    BY <2>2, <2>3, <1>7
  <2> QED BY <1>7, <2>1, <2>3, <2>4, <2>5
<1>8. ASSUME NEW k \in K PROVE \E i \in 1 .. c : nth[i] = k
  <2>1. Place(K, k) \in 1 .. c
    BY PlaceProps
  <2>2. Nth(K, Place(K, k)) \in K /\ Place(K, Nth(K, Place(K, k))) = Place(K, k)
    BY <1>5, <2>1
  <2>3. Nth(K, Place(K, k)) = k
    BY <1>1, <2>2 DEF Injection, IsInjective
  <2> QED BY <2>1, <2>3
<1> QED BY <1>5, <1>6, <1>7, <1>8 DEF Enumerates

\* SubSeqAt(s, K) is a sequence of as many elements as there are positions, taken
\* from s at the positions K, upwards.
LEMMA SubSeqAtProps ==
    ASSUME NEW T, NEW s \in Seq(T), NEW K \in SUBSET DOMAIN s
    PROVE  /\ SubSeqAt(s, K) \in Seq(T)
           /\ Len(SubSeqAt(s, K)) = Cardinality(K) /\ Cardinality(K) \in Nat
           /\ \E h : /\ Enumerates(h, Len(SubSeqAt(s, K)), K)
                     /\ \A j \in 1 .. Len(SubSeqAt(s, K)) : SubSeqAt(s, K)[j] = s[h[j]]
<1> DEFINE c == Cardinality(K)
           nth == [j \in 1 .. c |-> Nth(K, j)]
<1>1. DOMAIN s = 1 .. Len(s) /\ Len(s) \in Nat /\ \A k \in DOMAIN s : s[k] \in T
  OBVIOUS
<1>2. c \in Nat
  BY <1>1, PositionsFinite
<1>3. Enumerates(nth, c, K)
  BY <1>1, NthEnumerates
<1>4. \A j \in 1 .. c : Nth(K, j) \in K
  BY <1>1, NthEnumerates
<1>5. SubSeqAt(s, K) \in [1 .. c -> T]
  BY <1>1, <1>4 DEF SubSeqAt
<1>6. SubSeqAt(s, K) \in Seq(T) /\ Len(SubSeqAt(s, K)) = c
  <2> HIDE DEF c
  <2> QED BY <1>2, <1>5
<1>7. \A j \in 1 .. c : SubSeqAt(s, K)[j] = s[nth[j]]
  BY DEF SubSeqAt
<1> HIDE DEF c, nth
<1> QED BY <1>2, <1>3, <1>6, <1>7 DEF c

\* A sequence made of the elements of s at the positions K, upwards, is
\* SubSeqAt(s, K).
LEMMA SubSeqAtUnique ==
    ASSUME NEW T, NEW s \in Seq(T), NEW K \in SUBSET DOMAIN s, NEW u \in Seq(T), NEW h,
           Enumerates(h, Len(u), K), \A j \in 1 .. Len(u) : u[j] = s[h[j]]
    PROVE  u = SubSeqAt(s, K)
<1> DEFINE m == Len(u)
<1>0. DOMAIN s = 1 .. Len(s) /\ Len(s) \in Nat /\ m \in Nat /\ K \in SUBSET Nat
  OBVIOUS
<1>1. \A i, j \in 1 .. m : h[i] = h[j] => i = j
  <2> SUFFICES ASSUME NEW i \in 1 .. m, NEW j \in 1 .. m, h[i] = h[j] PROVE i = j
    OBVIOUS
  <2>1. h[i] \in Nat /\ h[j] \in Nat /\ (i < j => h[i] < h[j]) /\ (j < i => h[j] < h[i])
    BY <1>0 DEF Enumerates
  <2> QED BY <1>0, <2>1
<1>2. Cardinality(K) = m
  <2>1. h \in Bijection(1 .. m, K)
    BY <1>1 DEF Enumerates, Bijection, Injection, Surjection, IsInjective
  <2> QED BY <1>0, <2>1, FS_CountingElements DEF ExistsBijection
<1>3. ASSUME NEW j \in 1 .. m PROVE Place(K, h[j]) = j
  <2> DEFINE U == {i \in K : i <= h[j]}
             g == [i \in 1 .. j |-> h[i]]
  <2>a. \A i \in 1 .. m : h[i] \in K /\ h[i] \in Nat
    BY <1>0 DEF Enumerates
  <2>b. j \in Nat /\ 1 .. j \subseteq 1 .. m
    BY <1>0
  <2>0. /\ j \in Nat /\ 1 .. j \subseteq 1 .. m /\ h[j] \in Nat
        /\ \A i \in 1 .. m : h[i] \in K /\ h[i] \in Nat
    BY <2>a, <2>b
  <2>1. ASSUME NEW i \in 1 .. j PROVE g[i] \in U
    <3>1. i = j \/ i < j
      BY <2>0
    <3>2. h[i] <= h[j]
      BY <2>0, <3>1 DEF Enumerates
    <3> QED BY <2>0, <3>2
  <2>2. ASSUME NEW k \in U PROVE \E i \in 1 .. j : g[i] = k
    <3>1. PICK i \in 1 .. m : h[i] = k
      BY DEF Enumerates
    <3>2. ~ (j < i)
      <4> SUFFICES ASSUME j < i PROVE FALSE
        OBVIOUS
      <4>1. h[j] < h[i]
        BY DEF Enumerates
      <4> QED BY <2>0, <3>1, <4>1
    <3> QED BY <1>0, <2>0, <3>1, <3>2
  <2>3. g \in Bijection(1 .. j, U)
    <3>1. g \in [1 .. j -> U]
      BY <2>1
    <3>2. \A a, b \in 1 .. j : g[a] = g[b] => a = b
      BY <1>1, <2>0
    <3> HIDE DEF g, U
    <3> QED BY <2>2, <3>1, <3>2 DEF Bijection, Injection, Surjection, IsInjective
  <2>4. Cardinality(U) = j
    <3> HIDE DEF g, U
    <3> QED BY <2>0, <2>3, FS_CountingElements DEF ExistsBijection
  <2> QED BY <2>4 DEF Place
<1>4. ASSUME NEW j \in 1 .. m PROVE Nth(K, j) = h[j]
  <2>1. h[j] \in K /\ Place(K, h[j]) = j
    BY <1>3 DEF Enumerates
  <2>2. Nth(K, j) \in K /\ Place(K, Nth(K, j)) = j
    BY <2>1 DEF Nth
  <2>3. \A k, l \in K : k < l => Place(K, k) < Place(K, l)
    BY <1>0, PlaceProps
  <2>4. h[j] \in Nat /\ Nth(K, j) \in Nat /\ j \in Nat
    BY <1>0, <2>1, <2>2
  <2>5. ~ (j < j)
    BY <2>4
  <2> QED BY <2>1, <2>2, <2>3, <2>4, <2>5
<1>5. SubSeqAt(s, K) = [j \in 1 .. m |-> s[h[j]]]
  BY <1>2, <1>4 DEF SubSeqAt
<1>6. u = [j \in 1 .. m |-> u[j]]
  OBVIOUS
<1> QED BY <1>5, <1>6

-----------------------------------------------------------------------------
(* Removing one element. *)

\* A nonempty set of naturals has a least element, which Min returns.
LEMMA MinProps ==
    ASSUME NEW S \in SUBSET Nat, S # {}
    PROVE  Min(S) \in S /\ \A k \in S : Min(S) <= k
<1> DEFINE Less == OpToRel(<, Nat)
<1>1. IsWellFoundedOn(Less, Nat)
  BY NatLessThanWellFounded, Zenon DEF Less
<1>2. PICK x \in S : \A y \in S : ~ (<<y, x>> \in Less)
  <2> HIDE DEF Less
  <2> QED BY <1>1, WFMin
<1>3. \A y \in S : x <= y
  <2> SUFFICES ASSUME NEW y \in S PROVE x <= y
    OBVIOUS
  <2>1. x \in Nat /\ y \in Nat
    BY <1>2
  <2>2. ~ (<<y, x>> \in Less)
    BY <1>2
  <2>3. ~ (y < x)
    BY <2>1, <2>2 DEF OpToRel
  <2> QED BY <2>1, <2>3
<1> QED BY <1>2, <1>3 DEF Min

\* Removing one position of a list.
LEMMA RemoveAtProps ==
    ASSUME NEW T, NEW s \in Seq(T), NEW i \in 1 .. Len(s)
    PROVE  /\ RemoveAt(s, i) \in Seq(T)
           /\ Len(RemoveAt(s, i)) = Len(s) - 1
           /\ \A k \in 1 .. Len(s) - 1 : RemoveAt(s, i)[k] = IF k < i THEN s[k] ELSE s[k + 1]
<1> DEFINE a == SubSeq(s, 1, i - 1)
           b == SubSeq(s, i + 1, Len(s))
<1>1. Len(s) \in Nat /\ i \in Nat /\ i >= 1 /\ i <= Len(s) /\ \A k \in 1 .. Len(s) : s[k] \in T
  OBVIOUS
<1>2. a \in Seq(T) /\ Len(a) = i - 1 /\ \A k \in 1 .. i - 1 : a[k] = s[k]
  BY <1>1
<1>3. b \in Seq(T) /\ Len(b) = Len(s) - i /\ \A k \in 1 .. Len(s) - i : b[k] = s[i + k]
  BY <1>1
<1> HIDE DEF a, b
<1>4. a \o b \in Seq(T) /\ Len(a \o b) = Len(s) - 1
  <2>0. a \in Seq(T) /\ b \in Seq(T)
    BY <1>2, <1>3
  <2>1. a \o b \in Seq(T)
    BY <2>0
  <2>2. Len(a \o b) = Len(a) + Len(b)
    BY <2>0
  <2> QED BY <1>1, <1>2, <1>3, <2>1, <2>2
<1>5. ASSUME NEW k \in 1 .. Len(s) - 1 PROVE (a \o b)[k] = IF k < i THEN s[k] ELSE s[k + 1]
  <2>1. CASE k < i
    BY <1>1, <1>2, <1>3, <2>1
  <2>2. CASE ~ (k < i)
    <3>1. (a \o b)[k] = b[k - (i - 1)]
      BY <1>1, <1>2, <1>3, <2>2
    <3>2. k - (i - 1) \in 1 .. Len(s) - i
      BY <1>1, <2>2
    <3> QED BY <1>1, <1>3, <2>2, <3>1, <3>2
  <2> QED BY <2>1, <2>2
<1> QED BY <1>4, <1>5 DEF RemoveAt, a, b

\* Filtering keeps the elements of A and nothing else.
LEMMA FilterProps ==
    ASSUME NEW T, NEW s \in Seq(T), NEW A
    PROVE  /\ Filter(s, A) \in Seq(T)
           /\ ToSet(Filter(s, A)) = ToSet(s) \cap A
           /\ \E h : /\ Enumerates(h, Len(Filter(s, A)), Where(s, A))
                     /\ \A j \in 1 .. Len(Filter(s, A)) : Filter(s, A)[j] = s[h[j]]
<1> DEFINE K == Where(s, A)
           u == Filter(s, A)
<1>1. K \in SUBSET DOMAIN s /\ u = SubSeqAt(s, K)
  BY DEF Filter, Where
<1>2. \A k \in DOMAIN s : k \in K <=> s[k] \in A
  BY DEF Where
<1> HIDE DEF K, u
<1>3. u \in Seq(T) /\ \E h : /\ Enumerates(h, Len(u), K)
                             /\ \A j \in 1 .. Len(u) : u[j] = s[h[j]]
  BY <1>1, SubSeqAtProps
<1>4. PICK h : Enumerates(h, Len(u), K) /\ \A j \in 1 .. Len(u) : u[j] = s[h[j]]
  BY <1>3
<1>5. DOMAIN u = 1 .. Len(u)
  BY <1>3
<1>6. \A j \in 1 .. Len(u) : h[j] \in K
  BY <1>4 DEF Enumerates
<1>7. \A k \in K : \E j \in 1 .. Len(u) : h[j] = k
  BY <1>4 DEF Enumerates
<1>8. ToSet(u) = ToSet(s) \cap A
  BY <1>1, <1>2, <1>4, <1>5, <1>6, <1>7 DEF ToSet
<1> QED BY <1>3, <1>8 DEF u, K

\* What enumerates the positions of A in s is the filtered list.
LEMMA FilterIs ==
    ASSUME NEW T, NEW s \in Seq(T), NEW A, NEW u \in Seq(T), NEW h,
           Enumerates(h, Len(u), Where(s, A)),
           \A j \in 1 .. Len(u) : u[j] = s[h[j]]
    PROVE  Filter(s, A) = u
<1> DEFINE K == Where(s, A)
<1>1. K \in SUBSET DOMAIN s
  BY DEF Where
<1>2. Enumerates(h, Len(u), K)
  OBVIOUS
<1>3. Filter(s, A) = SubSeqAt(s, K)
  BY DEF Filter
<1> HIDE DEF K
<1> QED BY <1>1, <1>2, <1>3, SubSeqAtUnique

\* Filtering keeps a list all of whose elements are in A, and forgets one none
\* of whose elements are; only the elements of the list matter.
LEMMA FilterAll ==
    ASSUME NEW T, NEW s \in Seq(T), NEW A
    PROVE  /\ ToSet(s) \subseteq A => Filter(s, A) = s
           /\ ToSet(s) \cap A = {} <=> Filter(s, A) = <<>>
           /\ \A B : ToSet(s) \cap A = ToSet(s) \cap B => Filter(s, A) = Filter(s, B)
<1>0. Len(s) \in Nat /\ DOMAIN s = 1 .. Len(s)
  OBVIOUS
<1>1. ASSUME ToSet(s) \subseteq A PROVE Filter(s, A) = s
  <2> DEFINE h == [j \in 1 .. Len(s) |-> j]
             K == Where(s, A)
  <2>1. K = 1 .. Len(s)
    BY <1>0, <1>1 DEF ToSet, Where
  <2>2. Enumerates(h, Len(s), 1 .. Len(s))
    BY DEF Enumerates
  <2>3. \A j \in 1 .. Len(s) : s[j] = s[h[j]]
    OBVIOUS
  <2>4. Enumerates(h, Len(s), K)
    BY <2>1, <2>2
  <2> HIDE DEF h
  <2> QED BY <2>3, <2>4, FilterIs
<1>2. ASSUME NEW B, ToSet(s) \cap A = ToSet(s) \cap B PROVE Filter(s, A) = Filter(s, B)
  <2>1. Where(s, A) = Where(s, B)
    BY <1>2 DEF ToSet, Where
  <2> QED BY <2>1 DEF Filter
<1>3. ASSUME Filter(s, A) = <<>> PROVE ToSet(s) \cap A = {}
  <2>1. ToSet(<<>>) = {}
    BY DEF ToSet
  <2> QED BY <1>3, <2>1, FilterProps
<1>4. ASSUME ToSet(s) \cap A = {} PROVE Filter(s, A) = <<>>
  <2> DEFINE u == Filter(s, A)
  <2>1. u \in Seq(T) /\ ToSet(u) = {}
    BY <1>4, FilterProps
  <2> HIDE DEF u
  <2>2. DOMAIN u = 1 .. Len(u) /\ Len(u) \in Nat
    BY <2>1
  <2>3. ~ (Len(u) > 0)
    <3> SUFFICES ASSUME Len(u) > 0 PROVE FALSE
      OBVIOUS
    <3>1. 1 \in DOMAIN u
      BY <2>2
    <3> QED BY <2>1, <3>1 DEF ToSet
  <2>4. u = <<>>
    BY <2>1, <2>2, <2>3
  <2> QED BY <2>4 DEF u
<1> QED BY <1>1, <1>2, <1>3, <1>4

\* Filtering a concatenation.
LEMMA FilterConcat ==
    ASSUME NEW T, NEW s \in Seq(T), NEW t \in Seq(T), NEW A
    PROVE  Filter(s \o t, A) = Filter(s, A) \o Filter(t, A)
<1> DEFINE c == s \o t
           u == Filter(s, A)
           v == Filter(t, A)
           w == u \o v
<1>1. u \in Seq(T) /\ v \in Seq(T) /\ Len(u) \in Nat /\ Len(v) \in Nat
  BY FilterProps
<1>2. PICK f : /\ Enumerates(f, Len(u), Where(s, A))
               /\ \A j \in 1 .. Len(u) : u[j] = s[f[j]]
  BY FilterProps
<1>3. PICK g : /\ Enumerates(g, Len(v), Where(t, A))
               /\ \A j \in 1 .. Len(v) : v[j] = t[g[j]]
  BY FilterProps
<1>4. /\ c \in Seq(T) /\ Len(c) = Len(s) + Len(t) /\ Len(s) \in Nat /\ Len(t) \in Nat
      /\ DOMAIN s = 1 .. Len(s) /\ DOMAIN t = 1 .. Len(t)
      /\ \A i \in 1 .. Len(s) + Len(t) : c[i] = IF i <= Len(s) THEN s[i] ELSE t[i - Len(s)]
  BY ConcatProperties
<1> HIDE DEF u, v, c
<1>5. /\ w \in Seq(T) /\ Len(w) = Len(u) + Len(v)
      /\ \A i \in 1 .. Len(u) + Len(v) : w[i] = IF i <= Len(u) THEN u[i] ELSE v[i - Len(u)]
  BY <1>1, ConcatProperties
<1> HIDE DEF w
<1> DEFINE K == Where(c, A)
           h == [j \in 1 .. Len(w) |-> IF j <= Len(u) THEN f[j] ELSE Len(s) + g[j - Len(u)]]
<1>6. DOMAIN c = 1 .. Len(s) + Len(t)
  BY <1>4
<1>7. /\ \A j \in 1 .. Len(u) : f[j] \in 1 .. Len(s) /\ s[f[j]] \in A
      /\ \A j \in 1 .. Len(v) : g[j] \in 1 .. Len(t) /\ t[g[j]] \in A
  BY <1>2, <1>3, <1>4 DEF Enumerates, Where
<1>8. ASSUME NEW j \in 1 .. Len(w) PROVE h[j] \in K /\ w[j] = c[h[j]]
  <2>1. CASE j <= Len(u)
    <3>1. j \in 1 .. Len(u) /\ h[j] = f[j] /\ w[j] = u[j]
      BY <1>1, <1>5, <2>1
    <3>2. c[f[j]] = s[f[j]] /\ f[j] \in DOMAIN c
      BY <1>4, <1>6, <1>7, <3>1
    <3> QED BY <1>2, <1>7, <3>1, <3>2 DEF Where
  <2>2. CASE ~ (j <= Len(u))
    <3>1. j - Len(u) \in 1 .. Len(v) /\ h[j] = Len(s) + g[j - Len(u)] /\ w[j] = v[j - Len(u)]
      BY <1>1, <1>5, <2>2
    <3> DEFINE k == g[j - Len(u)]
    <3>2. k \in 1 .. Len(t) /\ t[k] \in A /\ v[j - Len(u)] = t[k]
      BY <1>3, <1>7, <3>1
    <3> HIDE DEF k
    <3>3. Len(s) + k \in 1 .. Len(s) + Len(t) /\ ~ (Len(s) + k <= Len(s)) /\ (Len(s) + k) - Len(s) = k
      BY <1>4, <3>2
    <3>4. c[Len(s) + k] = t[k]
      BY <1>4, <3>3
    <3>5. h[j] = Len(s) + k
      BY <3>1 DEF k
    <3> QED BY <1>6, <3>1, <3>2, <3>3, <3>4, <3>5 DEF Where
  <2> QED BY <2>1, <2>2
<1>9. ASSUME NEW i \in 1 .. Len(w), NEW j \in 1 .. Len(w), i < j PROVE h[i] < h[j]
  <2>0. i \in Nat /\ j \in Nat
    OBVIOUS
  <2>1. CASE j <= Len(u)
    <3>1. i \in 1 .. Len(u) /\ j \in 1 .. Len(u) /\ h[i] = f[i] /\ h[j] = f[j]
      BY <1>1, <1>9, <2>0, <2>1
    <3> QED BY <1>2, <1>9, <3>1 DEF Enumerates
  <2>2. CASE i <= Len(u) /\ ~ (j <= Len(u))
    <3>1. /\ i \in 1 .. Len(u) /\ h[i] = f[i]
          /\ j - Len(u) \in 1 .. Len(v) /\ h[j] = Len(s) + g[j - Len(u)]
      BY <1>1, <1>5, <2>2
    <3>2. f[i] \in 1 .. Len(s) /\ g[j - Len(u)] \in 1 .. Len(t)
      BY <1>7, <3>1
    <3> QED BY <1>4, <3>1, <3>2
  <2>3. CASE ~ (i <= Len(u))
    <3>1. /\ i - Len(u) \in 1 .. Len(v) /\ h[i] = Len(s) + g[i - Len(u)]
          /\ j - Len(u) \in 1 .. Len(v) /\ h[j] = Len(s) + g[j - Len(u)]
          /\ i - Len(u) < j - Len(u)
      BY <1>1, <1>5, <1>9, <2>3
    <3>2. g[i - Len(u)] < g[j - Len(u)]
      BY <1>3, <3>1 DEF Enumerates
    <3>3. g[i - Len(u)] \in Nat /\ g[j - Len(u)] \in Nat
      BY <1>7, <3>1
    <3> HIDE DEF h
    <3> QED BY <1>4, <3>1, <3>2, <3>3, SMTT(30)
  <2> QED BY <1>1, <1>9, <2>0, <2>1, <2>2, <2>3
<1>10. ASSUME NEW k \in K PROVE \E j \in 1 .. Len(w) : h[j] = k
  <2>0. k \in 1 .. Len(s) + Len(t) /\ c[k] \in A
    BY <1>6 DEF Where
  <2>1. CASE k <= Len(s)
    <3>1. k \in DOMAIN s /\ s[k] \in A
      BY <1>4, <2>0, <2>1
    <3>2. PICK j \in 1 .. Len(u) : f[j] = k
      BY <1>2, <3>1 DEF Enumerates, Where
    <3>3. j \in 1 .. Len(w) /\ h[j] = k
      BY <1>1, <1>5, <3>2
    <3> QED BY <3>3
  <2>2. CASE ~ (k <= Len(s))
    <3>1. k - Len(s) \in DOMAIN t /\ t[k - Len(s)] \in A
      BY <1>4, <2>0, <2>2
    <3>2. PICK j \in 1 .. Len(v) : g[j] = k - Len(s)
      BY <1>3, <3>1 DEF Enumerates, Where
    <3>3. Len(u) + j \in 1 .. Len(w) /\ ~ (Len(u) + j <= Len(u)) /\ (Len(u) + j) - Len(u) = j
      BY <1>1, <1>5
    <3>4. h[Len(u) + j] = Len(s) + g[j]
      BY <3>3
    <3>5. h[Len(u) + j] = k
      BY <1>4, <2>0, <3>2, <3>4
    <3> QED BY <3>3, <3>5
  <2> QED BY <2>1, <2>2
<1>11. Enumerates(h, Len(w), K)
  BY <1>8, <1>9, <1>10 DEF Enumerates
<1> HIDE DEF h, K
<1>12. c \in Seq(T) /\ w \in Seq(T)
  BY <1>4, <1>5
<1>13. Enumerates(h, Len(w), Where(c, A))
  BY <1>11 DEF K
<1>14. \A j \in 1 .. Len(w) : w[j] = c[h[j]]
  BY <1>8
<1>15. Filter(c, A) = w
  BY <1>12, <1>13, <1>14, FilterIs
<1> QED BY <1>15 DEF c, w, u, v

\* Reversing.
LEMMA ReverseProps ==
    ASSUME NEW T, NEW s \in Seq(T)
    PROVE  /\ Reverse(s) \in Seq(T) /\ Len(Reverse(s)) = Len(s)
           /\ \A k \in 1 .. Len(s) : Reverse(s)[k] = s[Len(s) - k + 1]
           /\ ToSet(Reverse(s)) = ToSet(s)
<1> DEFINE r == Reverse(s)
<1>1. Len(s) \in Nat /\ DOMAIN s = 1 .. Len(s) /\ \A k \in 1 .. Len(s) : s[k] \in T
  OBVIOUS
<1>2. \A k \in 1 .. Len(s) : (Len(s) - k) + 1 \in 1 .. Len(s)
  BY <1>1
<1>3. r = [k \in 1 .. Len(s) |-> s[(Len(s) - k) + 1]]
  BY DEF Reverse
<1> HIDE DEF r
<1>4. /\ r \in Seq(T) /\ Len(r) = Len(s) /\ DOMAIN r = 1 .. Len(s)
      /\ \A k \in 1 .. Len(s) : r[k] = s[(Len(s) - k) + 1]
  BY <1>1, <1>2, <1>3
<1>5. \A k \in 1 .. Len(s) : s[k] = r[(Len(s) - k) + 1]
  BY <1>1, <1>2, <1>4
<1>6. ToSet(r) = ToSet(s)
  BY <1>1, <1>2, <1>4, <1>5 DEF ToSet
<1> QED BY <1>4, <1>6 DEF r

\* Filtering a reversed list reverses the filtered list.
LEMMA FilterReverse ==
    ASSUME NEW T, NEW s \in Seq(T), NEW A
    PROVE  Filter(Reverse(s), A) = Reverse(Filter(s, A))
<1> DEFINE r == Reverse(s)
           u == Filter(s, A)
           w == Reverse(u)
           K == Where(r, A)
<1>1. u \in Seq(T) /\ Len(u) \in Nat
  BY FilterProps
<1>2. PICK f : /\ Enumerates(f, Len(u), Where(s, A))
               /\ \A j \in 1 .. Len(u) : u[j] = s[f[j]]
  BY FilterProps
<1>3. /\ r \in Seq(T) /\ Len(r) = Len(s) /\ Len(s) \in Nat /\ DOMAIN s = 1 .. Len(s)
      /\ \A k \in 1 .. Len(s) : r[k] = s[Len(s) - k + 1]
  BY ReverseProps
<1> HIDE DEF r, u
<1>4. w \in Seq(T) /\ Len(w) = Len(u) /\ \A k \in 1 .. Len(u) : w[k] = u[Len(u) - k + 1]
  BY <1>1, ReverseProps
<1> HIDE DEF w
<1> DEFINE h == [j \in 1 .. Len(w) |-> Len(s) - f[Len(u) - j + 1] + 1]
<1>5. DOMAIN r = 1 .. Len(s)
  BY <1>3
<1>6. \A j \in 1 .. Len(u) : f[j] \in 1 .. Len(s) /\ s[f[j]] \in A
  BY <1>2, <1>3 DEF Enumerates, Where
<1>7. \A j \in 1 .. Len(u) : Len(u) - j + 1 \in 1 .. Len(u)
  BY <1>1
<1>8. ASSUME NEW j \in 1 .. Len(w) PROVE h[j] \in K /\ w[j] = r[h[j]]
  <2> DEFINE m == Len(u) - j + 1
             k == f[m]
  <2>1. m \in 1 .. Len(u) /\ h[j] = Len(s) - k + 1 /\ w[j] = u[m]
    BY <1>4, <1>7
  <2>2. k \in 1 .. Len(s) /\ s[k] \in A /\ u[m] = s[k]
    BY <1>2, <1>6, <2>1
  <2> HIDE DEF k, m
  <2>3. Len(s) - k + 1 \in 1 .. Len(s) /\ Len(s) - (Len(s) - k + 1) + 1 = k
    BY <1>3, <2>2
  <2>4. r[Len(s) - k + 1] = s[k]
    BY <1>3, <2>3
  <2> HIDE DEF h
  <2> QED BY <1>5, <2>1, <2>2, <2>3, <2>4 DEF Where
<1>9. ASSUME NEW i \in 1 .. Len(w), NEW j \in 1 .. Len(w), i < j PROVE h[i] < h[j]
  <2> DEFINE a == Len(u) - i + 1
             b == Len(u) - j + 1
  <2>1. a \in 1 .. Len(u) /\ b \in 1 .. Len(u) /\ b < a
    BY <1>1, <1>4, <1>7, <1>9
  <2>2. h[i] = Len(s) - f[a] + 1 /\ h[j] = Len(s) - f[b] + 1
    OBVIOUS
  <2> HIDE DEF a, b, h
  <2>3. f[b] < f[a]
    BY <1>2, <2>1 DEF Enumerates
  <2>4. f[a] \in Nat /\ f[b] \in Nat
    BY <1>6, <2>1
  <2> QED BY <1>3, <2>2, <2>3, <2>4
<1>10. ASSUME NEW k \in K PROVE \E j \in 1 .. Len(w) : h[j] = k
  <2> DEFINE l == Len(s) - k + 1
  <2>1. l \in 1 .. Len(s) /\ s[l] \in A /\ k = Len(s) - l + 1 /\ k \in Nat
    BY <1>3, <1>5 DEF Where
  <2> HIDE DEF l
  <2>2. PICK m \in 1 .. Len(u) : f[m] = l
    BY <1>2, <1>3, <2>1 DEF Enumerates, Where
  <2>3. Len(u) - m + 1 \in 1 .. Len(w) /\ Len(u) - (Len(u) - m + 1) + 1 = m
    BY <1>1, <1>4, <1>7
  <2>4. h[Len(u) - m + 1] = Len(s) - f[m] + 1
    BY <2>3
  <2> HIDE DEF h
  <2> QED BY <2>1, <2>2, <2>3, <2>4
<1>11. Enumerates(h, Len(w), K)
  BY <1>8, <1>9, <1>10 DEF Enumerates
<1> HIDE DEF h
<1> QED BY <1>3, <1>4, <1>8, <1>11, FilterIs DEF r, w, u

\* Elements of a concatenation.
LEMMA ConcatElements ==
    ASSUME NEW T, NEW s \in Seq(T), NEW t \in Seq(T)
    PROVE  /\ ToSet(s \o t) = ToSet(s) \cup ToSet(t)
           /\ IsInjective(s \o t) <=>
                 IsInjective(s) /\ IsInjective(t) /\ ToSet(s) \cap ToSet(t) = {}
<1> DEFINE c == s \o t
<1>1. /\ c \in Seq(T) /\ Len(c) = Len(s) + Len(t) /\ Len(s) \in Nat /\ Len(t) \in Nat
      /\ DOMAIN s = 1 .. Len(s) /\ DOMAIN t = 1 .. Len(t)
      /\ \A i \in 1 .. Len(s) + Len(t) : c[i] = IF i <= Len(s) THEN s[i] ELSE t[i - Len(s)]
  BY ConcatProperties
<1> HIDE DEF c
<1>2. DOMAIN c = 1 .. Len(s) + Len(t)
  BY <1>1
<1>3. ASSUME NEW i \in DOMAIN s PROVE i \in DOMAIN c /\ c[i] = s[i]
  BY <1>1, <1>2
<1>4. ASSUME NEW i \in DOMAIN t PROVE Len(s) + i \in DOMAIN c /\ c[Len(s) + i] = t[i]
  <2>1. Len(s) + i \in 1 .. Len(s) + Len(t) /\ ~ (Len(s) + i <= Len(s)) /\ (Len(s) + i) - Len(s) = i
    BY <1>1
  <2> QED BY <1>1, <1>2, <2>1
<1>5. ASSUME NEW i \in DOMAIN c
      PROVE  \/ i \in DOMAIN s /\ c[i] = s[i]
             \/ i - Len(s) \in DOMAIN t /\ c[i] = t[i - Len(s)]
  BY <1>1, <1>2
<1>6. ToSet(c) = ToSet(s) \cup ToSet(t)
  BY <1>3, <1>4, <1>5 DEF ToSet
<1>7. ASSUME IsInjective(c)
      PROVE  IsInjective(s) /\ IsInjective(t) /\ ToSet(s) \cap ToSet(t) = {}
  <2>1. IsInjective(s)
    BY <1>3, <1>7 DEF IsInjective
  <2>2. IsInjective(t)
    <3> SUFFICES ASSUME NEW i \in DOMAIN t, NEW j \in DOMAIN t, t[i] = t[j] PROVE i = j
      BY DEF IsInjective
    <3>1. Len(s) + i = Len(s) + j
      BY <1>4, <1>7 DEF IsInjective
    <3> QED BY <1>1, <3>1
  <2>3. ASSUME NEW i \in DOMAIN s, NEW j \in DOMAIN t, s[i] = t[j] PROVE FALSE
    <3>1. i = Len(s) + j
      BY <1>3, <1>4, <1>7, <2>3 DEF IsInjective
    <3> QED BY <1>1, <3>1
  <2> QED BY <2>1, <2>2, <2>3 DEF ToSet
<1>8. ASSUME IsInjective(s), IsInjective(t), ToSet(s) \cap ToSet(t) = {}
      PROVE  IsInjective(c)
  <2> SUFFICES ASSUME NEW i \in DOMAIN c, NEW j \in DOMAIN c, c[i] = c[j] PROVE i = j
    BY DEF IsInjective
  <2>1. \A k \in DOMAIN s, l \in DOMAIN t : s[k] # t[l]
    BY <1>8 DEF ToSet
  <2>2. CASE i \in DOMAIN s /\ c[i] = s[i]
    <3>1. j \in DOMAIN s /\ c[j] = s[j]
      BY <1>5, <2>1, <2>2
    <3> QED BY <1>8, <2>2, <3>1 DEF IsInjective
  <2>3. CASE i - Len(s) \in DOMAIN t /\ c[i] = t[i - Len(s)]
    <3>1. j - Len(s) \in DOMAIN t /\ c[j] = t[j - Len(s)]
      BY <1>5, <2>1, <2>3
    <3>2. i - Len(s) = j - Len(s)
      BY <1>8, <2>3, <3>1 DEF IsInjective
    <3> QED BY <1>1, <1>2, <3>2
  <2> QED BY <1>5, <2>2, <2>3
<1> QED BY <1>6, <1>7, <1>8 DEF c

\* Lists of at most one element.
LEMMA SmallLists ==
    ASSUME NEW x
    PROVE  /\ Len(<<x>>) = 1 /\ ToSet(<<x>>) = {x} /\ IsInjective(<<x>>) /\ Reverse(<<x>>) = <<x>>
           /\ ToSet(<<>>) = {} /\ IsInjective(<<>>) /\ Reverse(<<>>) = <<>>
<1>1. <<x>> \in Seq({x}) /\ Len(<<x>>) = 1 /\ DOMAIN <<x>> = {1} /\ <<x>>[1] = x
  OBVIOUS
<1>2. ToSet(<<x>>) = {x} /\ IsInjective(<<x>>)
  BY <1>1 DEF ToSet, IsInjective
<1>3. ToSet(<<>>) = {} /\ IsInjective(<<>>)
  BY DEF ToSet, IsInjective
<1>4. Reverse(<<x>>) = <<x>>
  <2>1. /\ Reverse(<<x>>) \in Seq({x}) /\ Len(Reverse(<<x>>)) = Len(<<x>>)
        /\ \A k \in 1 .. Len(<<x>>) : Reverse(<<x>>)[k] = <<x>>[Len(<<x>>) - k + 1]
    BY <1>1, ReverseProps
  <2>2. \A k \in 1 .. Len(Reverse(<<x>>)) : Reverse(<<x>>)[k] = <<x>>[k]
    BY <1>1, <2>1
  <2> QED BY <1>1, <2>1, <2>2, SeqEqual
<1>5. Reverse(<<>>) = <<>>
  <2>1. <<>> \in Seq({x}) /\ Len(<<>>) = 0
    OBVIOUS
  <2>2. Reverse(<<>>) \in Seq({x}) /\ Len(Reverse(<<>>)) = Len(<<>>)
    BY <2>1, ReverseProps
  <2> QED BY <2>1, <2>2, EmptySeq
<1> QED BY <1>1, <1>2, <1>3, <1>4, <1>5

\* Reversing two joined lists reverses each and swaps them.
LEMMA ReverseConcat ==
    ASSUME NEW T, NEW s \in Seq(T), NEW t \in Seq(T)
    PROVE  Reverse(s \o t) = Reverse(t) \o Reverse(s)
<1> DEFINE c == s \o t
           a == Reverse(c)
           p == Reverse(s)
           q == Reverse(t)
           b == q \o p
<1>1. /\ c \in Seq(T) /\ Len(c) = Len(s) + Len(t) /\ Len(s) \in Nat /\ Len(t) \in Nat
      /\ \A i \in 1 .. Len(s) + Len(t) : c[i] = IF i <= Len(s) THEN s[i] ELSE t[i - Len(s)]
  BY ConcatProperties
<1>2. /\ p \in Seq(T) /\ Len(p) = Len(s)
      /\ \A k \in 1 .. Len(s) : p[k] = s[Len(s) - k + 1]
  BY ReverseProps
<1>3. /\ q \in Seq(T) /\ Len(q) = Len(t)
      /\ \A k \in 1 .. Len(t) : q[k] = t[Len(t) - k + 1]
  BY ReverseProps
<1> HIDE DEF c, p, q
<1>4. /\ a \in Seq(T) /\ Len(a) = Len(c)
      /\ \A k \in 1 .. Len(c) : a[k] = c[Len(c) - k + 1]
  BY <1>1, ReverseProps
<1>5. /\ b \in Seq(T) /\ Len(b) = Len(q) + Len(p)
      /\ \A i \in 1 .. Len(q) + Len(p) : b[i] = IF i <= Len(q) THEN q[i] ELSE p[i - Len(q)]
  <2>1. p \in Seq(T) /\ q \in Seq(T)
    BY <1>2, <1>3
  <2> QED BY <2>1, ConcatProperties
<1> HIDE DEF a, b
<1>6. ASSUME NEW k \in 1 .. Len(a) PROVE a[k] = b[k]
  <2>0. k \in Nat /\ k >= 1 /\ k <= Len(s) + Len(t)
    BY <1>1, <1>4
  <2>1. CASE k <= Len(t)
    <3> DEFINE m == Len(c) - k + 1
    <3>1. m \in 1 .. Len(s) + Len(t) /\ ~ (m <= Len(s)) /\ m - Len(s) = Len(t) - k + 1
      BY <1>1, <2>0, <2>1
    <3>2. a[k] = c[m]
      BY <1>4
    <3> HIDE DEF m
    <3>3. a[k] = t[Len(t) - k + 1]
      BY <1>1, <3>1, <3>2
    <3>4. b[k] = q[k] /\ q[k] = t[Len(t) - k + 1]
      BY <1>1, <1>2, <1>3, <1>5, <2>0, <2>1
    <3> QED BY <3>3, <3>4
  <2>2. CASE ~ (k <= Len(t))
    <3> DEFINE m == Len(c) - k + 1
               n == k - Len(t)
    <3>1. m \in 1 .. Len(s) + Len(t) /\ m <= Len(s) /\ n \in 1 .. Len(s) /\ Len(s) - n + 1 = m
      BY <1>1, <2>0, <2>2
    <3>2. a[k] = c[m]
      BY <1>4
    <3>3. b[k] = p[n]
      BY <1>1, <1>2, <1>3, <1>5, <2>0, <2>2
    <3> HIDE DEF m, n
    <3> QED BY <1>1, <1>2, <3>1, <3>2, <3>3
  <2> QED BY <2>1, <2>2
<1>7. Len(a) = Len(b)
  BY <1>1, <1>2, <1>3, <1>4, <1>5
<1>8. a = b
  BY <1>4, <1>5, <1>6, <1>7, SeqEqual
<1> QED BY <1>8 DEF a, b, c, p, q

\* Neither filtering nor reversing makes an element occur twice.
LEMMA InjectiveKept ==
    ASSUME NEW T, NEW s \in Seq(T), NEW A, IsInjective(s)
    PROVE  IsInjective(Filter(s, A)) /\ IsInjective(Reverse(s))
<1>0. Len(s) \in Nat /\ DOMAIN s = 1 .. Len(s)
  OBVIOUS
<1>1. IsInjective(Filter(s, A))
  <2> DEFINE u == Filter(s, A)
  <2>1. u \in Seq(T) /\ Len(u) \in Nat
    BY FilterProps
  <2>2. PICK h : Enumerates(h, Len(u), Where(s, A)) /\ \A j \in 1 .. Len(u) : u[j] = s[h[j]]
    BY FilterProps
  <2> HIDE DEF u
  <2>3. ASSUME NEW j \in 1 .. Len(u), NEW k \in 1 .. Len(u), u[j] = u[k] PROVE j = k
    <3>1. h[j] \in DOMAIN s /\ h[k] \in DOMAIN s /\ s[h[j]] = s[h[k]]
      BY <2>2, <2>3 DEF Enumerates, Where
    <3>2. h[j] = h[k] /\ h[j] \in Nat
      BY <1>0, <3>1 DEF IsInjective
    <3>3. ~ (j < k) /\ ~ (k < j)
      BY <2>2, <3>2 DEF Enumerates
    <3> QED BY <2>1, <3>3
  <2> QED BY <2>1, <2>3 DEF IsInjective, u
<1>2. IsInjective(Reverse(s))
  <2> DEFINE r == Reverse(s)
  <2>1. r \in Seq(T) /\ Len(r) = Len(s) /\ \A k \in 1 .. Len(s) : r[k] = s[Len(s) - k + 1]
    BY ReverseProps
  <2> HIDE DEF r
  <2>2. ASSUME NEW j \in 1 .. Len(r), NEW k \in 1 .. Len(r), r[j] = r[k] PROVE j = k
    <3>1. Len(s) - j + 1 \in DOMAIN s /\ Len(s) - k + 1 \in DOMAIN s
      BY <1>0, <2>1
    <3>2. Len(s) - j + 1 = Len(s) - k + 1
      BY <2>1, <2>2, <3>1 DEF IsInjective
    <3> QED BY <1>0, <2>1, <3>2
  <2> QED BY <2>1, <2>2 DEF IsInjective, r
<1> QED BY <1>1, <1>2

\* A list around one of its positions; the head is the first.
LEMMA SplitAt ==
    ASSUME NEW T, NEW s \in Seq(T), NEW k \in 1 .. Len(s)
    PROVE  /\ SubSeq(s, 1, k - 1) \in Seq(T) /\ SubSeq(s, k + 1, Len(s)) \in Seq(T)
           /\ Len(SubSeq(s, 1, k - 1)) = k - 1
           /\ s = SubSeq(s, 1, k - 1) \o (<<s[k]>> \o SubSeq(s, k + 1, Len(s)))
<1> DEFINE a == SubSeq(s, 1, k - 1)
           b == SubSeq(s, k + 1, Len(s))
           c == <<s[k]>> \o b
           d == a \o c
<1>1. Len(s) \in Nat /\ k \in Nat /\ k >= 1 /\ k <= Len(s) /\ \A i \in 1 .. Len(s) : s[i] \in T
  OBVIOUS
<1>2. a \in Seq(T) /\ Len(a) = k - 1 /\ \A i \in 1 .. k - 1 : a[i] = s[i]
  BY <1>1
<1>3. b \in Seq(T) /\ Len(b) = Len(s) - k /\ \A i \in 1 .. Len(s) - k : b[i] = s[k + i]
  BY <1>1
<1> HIDE DEF a, b
<1>4. <<s[k]>> \in Seq(T) /\ Len(<<s[k]>>) = 1 /\ <<s[k]>>[1] = s[k]
  BY <1>1
<1>5. /\ c \in Seq(T) /\ Len(c) = 1 + Len(b)
      /\ \A i \in 1 .. 1 + Len(b) : c[i] = IF i <= 1 THEN <<s[k]>>[i] ELSE b[i - 1]
  BY <1>3, <1>4, ConcatProperties
<1> HIDE DEF c
<1>6. /\ d \in Seq(T) /\ Len(d) = Len(a) + Len(c)
      /\ \A i \in 1 .. Len(a) + Len(c) : d[i] = IF i <= Len(a) THEN a[i] ELSE c[i - Len(a)]
  BY <1>2, <1>5, ConcatProperties
<1> HIDE DEF d
<1>7. Len(d) = Len(s)
  BY <1>1, <1>2, <1>3, <1>5, <1>6
<1>8. ASSUME NEW i \in 1 .. Len(s) PROVE s[i] = d[i]
  <2>1. CASE i < k
    BY <1>1, <1>2, <1>6, <1>7, <2>1
  <2>2. CASE i = k
    <3>1. d[k] = c[1]
      BY <1>1, <1>2, <1>6, <1>7
    <3>2. c[1] = s[k]
      BY <1>1, <1>3, <1>4, <1>5
    <3> QED BY <2>2, <3>1, <3>2
  <2>3. CASE i > k
    <3>1. d[i] = c[i - (k - 1)]
      BY <1>1, <1>2, <1>6, <1>7, <2>3, SMTT(30)
    <3>2. i - (k - 1) \in 1 .. 1 + Len(b) /\ ~ (i - (k - 1) <= 1) /\ (i - (k - 1)) - 1 = i - k
      BY <1>1, <1>3, <2>3
    <3>3. c[i - (k - 1)] = b[i - k]
      BY <1>5, <3>2
    <3>4. i - k \in 1 .. Len(s) - k /\ k + (i - k) = i
      BY <1>1, <2>3
    <3> QED BY <1>3, <3>1, <3>3, <3>4
  <2> QED BY <1>1, <2>1, <2>2, <2>3
<1>9. s = d
  BY <1>6, <1>7, <1>8, SeqEqual
<1> QED BY <1>2, <1>3, <1>9 DEF a, b, c, d

\* A non-empty list is its head before its tail.
LEMMA SplitHead ==
    ASSUME NEW T, NEW s \in Seq(T), s # <<>>
    PROVE  Head(s) \in T /\ Tail(s) \in Seq(T) /\ s = <<Head(s)>> \o Tail(s)
<1>1. Len(s) \in Nat /\ 1 \in 1 .. Len(s)
  OBVIOUS
<1>2. /\ SubSeq(s, 1, 0) \in Seq(T) /\ SubSeq(s, 2, Len(s)) \in Seq(T)
      /\ s = SubSeq(s, 1, 0) \o (<<s[1]>> \o SubSeq(s, 2, Len(s)))
  BY <1>1, SplitAt
<1>3. SubSeq(s, 1, 0) = <<>>
  BY SubSeqEmpty
<1>4. Tail(s) = SubSeq(s, 2, Len(s)) /\ Head(s) = s[1] /\ Head(s) \in T
  BY TailIsSubSeq
<1>5. <<s[1]>> \o SubSeq(s, 2, Len(s)) \in Seq(T)
  BY <1>2, <1>4
<1>6. <<>> \o (<<s[1]>> \o SubSeq(s, 2, Len(s))) = <<s[1]>> \o SubSeq(s, 2, Len(s))
  BY <1>5, ConcatEmptySeq
<1> QED BY <1>2, <1>3, <1>4, <1>6

\* Putting an element in front and taking it away again.
LEMMA ConsProps ==
    ASSUME NEW T, NEW x \in T, NEW s \in Seq(T)
    PROVE  /\ <<x>> \o s \in Seq(T) /\ <<x>> \o s # <<>>
           /\ Head(<<x>> \o s) = x /\ Tail(<<x>> \o s) = s
<1> DEFINE c == <<x>> \o s
<1>1. <<x>> \in Seq(T) /\ Len(<<x>>) = 1 /\ <<x>>[1] = x /\ Len(s) \in Nat
  OBVIOUS
<1>2. /\ c \in Seq(T) /\ Len(c) = 1 + Len(s)
      /\ \A i \in 1 .. 1 + Len(s) : c[i] = IF i <= 1 THEN <<x>>[i] ELSE s[i - 1]
  BY <1>1, ConcatProperties
<1> HIDE DEF c
<1>3. c # <<>> /\ c[1] = x
  BY <1>1, <1>2
<1>4. /\ Tail(c) \in Seq(T) /\ Len(Tail(c)) = Len(c) - 1
      /\ \A i \in 1 .. Len(Tail(c)) : Tail(c)[i] = c[i + 1]
  BY <1>2, <1>3, HeadTailProperties
<1>5. Len(Tail(c)) = Len(s)
  BY <1>1, <1>2, <1>4
<1>6. ASSUME NEW i \in 1 .. Len(Tail(c)) PROVE Tail(c)[i] = s[i]
  <2>1. i + 1 \in 1 .. 1 + Len(s) /\ ~ (i + 1 <= 1) /\ (i + 1) - 1 = i
    BY <1>1, <1>5
  <2> QED BY <1>2, <1>4, <2>1
<1>7. Tail(c) = s
  BY <1>4, <1>5, <1>6, SeqEqual
<1>8. Head(c) = x
  BY <1>2, <1>3
<1> QED BY <1>2, <1>3, <1>7, <1>8 DEF c
=============================================================================
