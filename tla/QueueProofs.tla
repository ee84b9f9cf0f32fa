---------------------------- MODULE QueueProofs ----------------------------
(***************************************************************************)
(* The two lists with their lazy clean-ups implement LiveQueue, for any    *)
(* items and any number of operations: the refinement Abs of module Queue, *)
(* operation by operation.  The inductive invariant says that an item is   *)
(* in one place, that a live item is in the queue and a fresh one is not   *)
(* (Once), and that what a poll has found is still at the head of front,   *)
(* cancelled or not (PollStands): dequeue may take it unseen, and only if  *)
(* it was itself cancelled does getIdFromTrans raise Match.                *)
(***************************************************************************)
EXTENDS Queue, SubsequenceProofs

-----------------------------------------------------------------------------
(* Lists whose elements occur once.                                         *)

\* Appending lists of items can be regrouped.
LEMMA Associative ==
    \A s, t, u \in Seq(Items) : (s \o t) \o u = s \o (t \o u)
BY ConcatAssociative

\* h is the first element of s that is in A, between u and v.
Leads(s, u, h, v, A) ==
    s = u \o (<<h>> \o v) /\ IsInjective(s) /\ ToSet(u) \cap A = {} /\ h \in A

\* What is left when it is taken.
TakenFrom(s, u, h, v, A) ==
    /\ Filter(s, A) # <<>> /\ Head(Filter(s, A)) = h
    /\ Tail(Filter(s, A)) = Filter(v, A \ {h})
    /\ IsInjective(v) /\ h \notin ToSet(v)
    /\ ToSet(s) = ToSet(u) \cup {h} \cup ToSet(v)

\* dequeue: taking the first live item leaves the live items behind it, in order.
LEMMA Took ==
    ASSUME NEW T, NEW u \in Seq(T), NEW v \in Seq(T), NEW h \in T, NEW A, NEW s \in Seq(T),
           Leads(s, u, h, v, A)
    PROVE  TakenFrom(s, u, h, v, A)
<1>0. s = u \o (<<h>> \o v) /\ IsInjective(s) /\ ToSet(u) \cap A = {} /\ h \in A
  BY DEF Leads
<1> DEFINE o == <<h>>
           c == o \o v
<1>1. o \in Seq(T) /\ ToSet(o) = {h} /\ IsInjective(o)
  BY SmallLists
<1>2. Filter(o, A) = o
  <2>1. ToSet(o) \subseteq A
    BY <1>0, <1>1
  <2> HIDE DEF o
  <2> QED BY <1>1, <2>1, FilterAll
<1>3. Filter(u, A) = <<>>
  BY <1>0, FilterAll
<1> HIDE DEF o
<1>4. c \in Seq(T)
  BY <1>1
<1>5. Filter(c, A) = o \o Filter(v, A)
  <2>1. Filter(o \o v, A) = Filter(o, A) \o Filter(v, A)
    BY <1>1, FilterConcat, SMTT(30)
  <2> QED BY <1>2, <2>1
<1>6. ToSet(c) = {h} \cup ToSet(v) /\ (IsInjective(c) => IsInjective(v) /\ h \notin ToSet(v))
  BY <1>1, ConcatElements
<1>7. IsInjective(u \o c) /\ s = u \o c
  BY <1>0 DEF o
<1> HIDE DEF c
<1>8. ToSet(u \o c) = ToSet(u) \cup ToSet(c) /\ IsInjective(c)
  BY <1>4, <1>7, ConcatElements
<1>9. Filter(u \o c, A) = <<>> \o Filter(c, A) /\ Filter(c, A) \in Seq(T)
  <2>1. Filter(u \o c, A) = Filter(u, A) \o Filter(c, A)
    BY <1>4, FilterConcat, SMTT(30)
  <2>2. Filter(c, A) \in Seq(T)
    BY <1>4, FilterProps
  <2> QED BY <1>3, <2>1, <2>2
<1>10. Filter(u \o c, A) = Filter(c, A)
  BY <1>9, ConcatEmptySeq
<1>11. Filter(v, A) = Filter(v, A \ {h}) /\ Filter(v, A) \in Seq(T)
  BY <1>6, <1>8, FilterAll, FilterProps
<1>12. /\ Filter(c, A) # <<>> /\ Head(Filter(c, A)) = h /\ Tail(Filter(c, A)) = Filter(v, A)
  BY <1>5, <1>11, ConsProps DEF o
<1> QED BY <1>6, <1>7, <1>8, <1>10, <1>11, <1>12 DEF TakenFrom

\* x is in s, between u and v.
Between(s, u, x, v) == s = u \o (<<x>> \o v) /\ IsInjective(s)

\* What is left in A when x is cancelled, or leaves the list.
DroppedFrom(s, u, x, v, A) ==
    /\ Filter(s, A \ {x}) = Filter(u, A) \o Filter(v, A)
    /\ Filter(u \o v, A \ {x}) = Filter(u, A) \o Filter(v, A)
    /\ x \in A => Filter(s, A) = Filter(u, A) \o (<<x>> \o Filter(v, A))
    /\ x \notin A => Filter(s, A) = Filter(u, A) \o Filter(v, A)
    /\ u \o v \in Seq(Items) /\ IsInjective(u \o v)
    /\ ToSet(u \o v) = ToSet(s) \ {x} /\ x \in ToSet(s)

\* remove: cutting out one item leaves every other item, in order.
LEMMA Dropped ==
    ASSUME NEW u \in Seq(Items), NEW v \in Seq(Items), NEW x \in Items, NEW A,
           NEW s \in Seq(Items), Between(s, u, x, v)
    PROVE  DroppedFrom(s, u, x, v, A)
<1>0. s = u \o (<<x>> \o v) /\ IsInjective(s)
  BY DEF Between
<1> DEFINE o == <<x>>
           c == o \o v
<1>1. o \in Seq(Items) /\ ToSet(o) = {x} /\ IsInjective(o)
  BY SmallLists
<1>2. /\ x \in A => Filter(o, A) = o
      /\ x \notin A => Filter(o, A) = <<>>
      /\ Filter(o, A \ {x}) = <<>>
  <2>1. /\ ToSet(o) \subseteq A => Filter(o, A) = o
        /\ ToSet(o) \cap A = {} => Filter(o, A) = <<>>
    BY <1>1, FilterAll
  <2>2. ToSet(o) \cap (A \ {x}) = {} => Filter(o, A \ {x}) = <<>>
    BY <1>1, FilterAll
  <2> HIDE DEF o
  <2> QED BY <1>1, <2>1, <2>2
<1> HIDE DEF o
<1>3. c \in Seq(Items) /\ IsInjective(u \o c) /\ s = u \o c
  BY <1>0, <1>1 DEF o
<1>4. ToSet(c) = {x} \cup ToSet(v) /\ (IsInjective(c) => IsInjective(v) /\ x \notin ToSet(v))
  BY <1>1, ConcatElements
<1>5. \A B : Filter(c, B) = Filter(o, B) \o Filter(v, B)
  BY <1>1, FilterConcat, SMTT(30)
<1> HIDE DEF c
<1>6. /\ ToSet(u \o c) = ToSet(u) \cup ToSet(c)
      /\ IsInjective(u) /\ IsInjective(c) /\ ToSet(u) \cap ToSet(c) = {}
  BY <1>3, ConcatElements
<1>7. x \notin ToSet(u) /\ x \notin ToSet(v)
  BY <1>4, <1>6
<1>8. /\ Filter(u, A \ {x}) = Filter(u, A) /\ Filter(v, A \ {x}) = Filter(v, A)
  <2>1. ToSet(u) \cap (A \ {x}) = ToSet(u) \cap A /\ ToSet(v) \cap (A \ {x}) = ToSet(v) \cap A
    BY <1>7
  <2>2. Filter(u, A \ {x}) = Filter(u, A)
    BY <2>1, FilterAll
  <2>3. Filter(v, A \ {x}) = Filter(v, A)
    BY <2>1, FilterAll
  <2> QED BY <2>2, <2>3
<1>9. Filter(v, A) \in Seq(Items) /\ <<>> \o Filter(v, A) = Filter(v, A)
  <2>1. Filter(v, A) \in Seq(Items)
    BY FilterProps
  <2> QED BY <2>1, ConcatEmptySeq
<1>10. \A B : Filter(u \o c, B) = Filter(u, B) \o Filter(c, B)
  BY <1>3, FilterConcat
<1>11. Filter(u \o v, A \ {x}) = Filter(u, A) \o Filter(v, A)
  <2>1. \A B : Filter(u \o v, B) = Filter(u, B) \o Filter(v, B)
    BY FilterConcat
  <2> QED BY <1>8, <2>1
<1>12. ToSet(u \o v) = ToSet(u) \cup ToSet(v) /\ IsInjective(u \o v) /\ u \o v \in Seq(Items)
  BY <1>4, <1>6, ConcatElements
<1>13. Filter(u \o c, A \ {x}) = Filter(u, A) \o Filter(v, A)
  BY <1>2, <1>5, <1>8, <1>9, <1>10
<1>14. x \in A => Filter(u \o c, A) = Filter(u, A) \o (o \o Filter(v, A))
  BY <1>2, <1>5, <1>10
<1>15. x \notin A => Filter(u \o c, A) = Filter(u, A) \o Filter(v, A)
  BY <1>2, <1>5, <1>9, <1>10
<1>16. ToSet(u \o v) = ToSet(u \o c) \ {x} /\ x \in ToSet(u \o c)
  BY <1>4, <1>6, <1>7, <1>12
<1> QED BY <1>3, <1>11, <1>12, <1>13, <1>14, <1>15, <1>16 DEF o, DroppedFrom

\* LiveQueue!Cancel: u is q without its item x.
CutOut(q, x, u) ==
    \E k \in DOMAIN q : q[k] = x /\ u = SubSeq(q, 1, k - 1) \o SubSeq(q, k + 1, Len(q))

\* What remove leaves is what LiveQueue!Cancel asks for: the list without one position.
LEMMA Middle ==
    ASSUME NEW T, NEW p \in Seq(T), NEW r \in Seq(T), NEW x \in T
    PROVE  CutOut(p \o (<<x>> \o r), x, p \o r)
<1> DEFINE c == <<x>> \o r
           q == p \o c
           k == Len(p) + 1
           a == SubSeq(q, 1, k - 1)
           b == SubSeq(q, k + 1, Len(q))
<1>1. <<x>> \in Seq(T) /\ Len(<<x>>) = 1 /\ Len(p) \in Nat /\ Len(r) \in Nat
  OBVIOUS
<1>2. /\ c \in Seq(T) /\ Len(c) = 1 + Len(r)
      /\ \A i \in 1 .. 1 + Len(r) : c[i] = IF i <= 1 THEN <<x>>[i] ELSE r[i - 1]
  BY <1>1, ConcatProperties
<1> HIDE DEF c
<1>3. /\ q \in Seq(T) /\ Len(q) = Len(p) + Len(c)
      /\ \A i \in 1 .. Len(p) + Len(c) : q[i] = IF i <= Len(p) THEN p[i] ELSE c[i - Len(p)]
  BY <1>2, ConcatProperties
<1> HIDE DEF q
<1>4. k \in DOMAIN q /\ k - 1 = Len(p) /\ k + 1 = Len(p) + 2 /\ Len(q) = Len(p) + Len(r) + 1
  BY <1>1, <1>2, <1>3
<1> HIDE DEF k
<1>5. a \in Seq(T) /\ Len(a) = Len(p) /\ \A i \in 1 .. Len(p) : a[i] = q[i]
  BY <1>1, <1>3, <1>4
<1>6. b \in Seq(T) /\ Len(b) = Len(r) /\ \A i \in 1 .. Len(r) : b[i] = q[Len(p) + 1 + i]
  <2>1. /\ k + 1 \in Int /\ Len(q) \in Int /\ \A i \in k + 1 .. Len(q) : q[i] \in T
    BY <1>1, <1>3, <1>4
  <2>2. /\ b \in Seq(T) /\ Len(b) = IF k + 1 <= Len(q) THEN Len(q) - (k + 1) + 1 ELSE 0
        /\ \A i \in 1 .. Len(q) - (k + 1) + 1 : b[i] = q[(k + 1) + i - 1]
    BY <2>1, SubSeqProperties
  <2>3. Len(q) - (k + 1) + 1 = Len(r) /\ (k + 1 <= Len(q) \/ Len(r) = 0)
    BY <1>1, <1>4
  <2>4. \A i \in 1 .. Len(r) : (k + 1) + i - 1 = Len(p) + 1 + i
    BY <1>1, <1>4
  <2> HIDE DEF b
  <2> QED BY <2>2, <2>3, <2>4
<1> HIDE DEF a, b
<1>7. a = p
  <2>1. \A i \in 1 .. Len(a) : a[i] = p[i]
    BY <1>1, <1>2, <1>3, <1>5
  <2> QED BY <1>5, <2>1, SeqEqual
<1>8. b = r
  <2>1. ASSUME NEW i \in 1 .. Len(b) PROVE b[i] = r[i]
    <3>1. /\ Len(p) + 1 + i \in 1 .. Len(p) + Len(c) /\ ~ (Len(p) + 1 + i <= Len(p))
          /\ (Len(p) + 1 + i) - Len(p) = i + 1
          /\ i + 1 \in 1 .. 1 + Len(r) /\ ~ (i + 1 <= 1) /\ (i + 1) - 1 = i /\ i \in 1 .. Len(r)
      BY <1>1, <1>2, <1>6
    <3>2. q[Len(p) + 1 + i] = c[i + 1]
      BY <1>3, <3>1
    <3>3. c[i + 1] = r[i]
      BY <1>2, <3>1
    <3> QED BY <1>6, <3>1, <3>2, <3>3
  <2> QED BY <1>6, <2>1, SeqEqual
<1>9. p \o r = a \o b
  BY <1>7, <1>8
<1>10. q[k] = x
  <2>1. /\ Len(p) + 1 \in 1 .. Len(p) + Len(c) /\ ~ (Len(p) + 1 <= Len(p))
        /\ (Len(p) + 1) - Len(p) = 1 /\ 1 \in 1 .. 1 + Len(r) /\ 1 <= 1
    BY <1>1, <1>2
  <2>2. q[Len(p) + 1] = c[1] /\ c[1] = <<x>>[1]
    BY <1>2, <1>3, <2>1
  <2> QED BY <2>2 DEF k
<1> QED BY <1>4, <1>9, <1>10 DEF a, b, q, c, CutOut

\* clean drops a prefix without live items, and what is left starts with one.
LEMMA CleanProps ==
    ASSUME NEW T, NEW l \in Seq(T)
    PROVE  /\ clean(l) \in Seq(T)
           /\ clean(l) # <<>> => Head(clean(l)) \in live
           /\ clean(l) = <<>> <=> ToSet(l) \cap live = {}
           /\ \E u \in Seq(T) : l = u \o clean(l) /\ ToSet(u) \cap live = {}
<1> DEFINE K == {k \in DOMAIN l : l[k] \in live}
<1>0. Len(l) \in Nat /\ DOMAIN l = 1 .. Len(l) /\ \A i \in 1 .. Len(l) : l[i] \in T
  OBVIOUS
<1>1. CASE K = {}
  <2>1. clean(l) = <<>>
    BY <1>1 DEF clean
  <2>2. ToSet(l) \cap live = {}
    BY <1>1 DEF ToSet
  <2>3. l = l \o <<>> /\ <<>> \in Seq(T)
    BY ConcatEmptySeq
  <2> QED BY <2>1, <2>2, <2>3
<1>2. CASE K # {}
  <2> DEFINE m == Min(K)
             u == SubSeq(l, 1, m - 1)
             b == SubSeq(l, m + 1, Len(l))
  <2>1. K \in SUBSET Nat
    BY <1>0
  <2>2. clean(l) = SubSeq(l, m, Len(l))
    BY <1>2 DEF clean
  <2>3. m \in K /\ \A k \in K : m <= k
    <3> HIDE DEF K
    <3> QED BY <1>2, <2>1, MinProps
  <2>4. m \in 1 .. Len(l) /\ l[m] \in live
    BY <1>0, <2>3
  <2>5. \A k \in 1 .. Len(l) : k < m => l[k] \notin live
    <3> SUFFICES ASSUME NEW k \in 1 .. Len(l), k < m, l[k] \in live PROVE FALSE
      OBVIOUS
    <3>1. k \in K
      BY <1>0
    <3> HIDE DEF K, m
    <3>2. m <= k /\ m \in Nat
      BY <2>3, <2>4, <3>1
    <3> QED BY <3>2
  <2> HIDE DEF K, m
  <2>6. /\ u \in Seq(T) /\ b \in Seq(T) /\ Len(u) = m - 1
        /\ l = u \o (<<l[m]>> \o b)
    BY <2>4, SplitAt
  <2>7. SubSeq(l, m, Len(l)) = <<l[m]>> \o b
    <3>1. Len(l) \in m .. Len(l)
      BY <1>0, <2>4
    <3> QED BY <2>4, <3>1, SubSeqRecursiveFirst
  <2>8. \A i \in 1 .. m - 1 : u[i] = l[i]
    BY <1>0, <2>4
  <2>9. ToSet(u) \cap live = {}
    <3> HIDE DEF u
    <3>1. DOMAIN u = 1 .. m - 1
      BY <2>4, <2>6
    <3>2. \A i \in 1 .. m - 1 : i \in 1 .. Len(l) /\ i < m
      BY <1>0, <2>4
    <3> QED BY <2>5, <2>8, <3>1, <3>2 DEF ToSet
  <2>10. l[m] \in T /\ m \in DOMAIN l
    BY <1>0, <2>4
  <2>11. ToSet(l) \cap live # {}
    BY <2>4, <2>10 DEF ToSet
  <2> HIDE DEF u, b
  <2>12. /\ <<l[m]>> \o b \in Seq(T) /\ <<l[m]>> \o b # <<>> /\ Head(<<l[m]>> \o b) = l[m]
    BY <2>6, <2>10, ConsProps
  <2> QED BY <2>2, <2>4, <2>6, <2>7, <2>9, <2>11, <2>12
<1> QED BY <1>1, <1>2

-----------------------------------------------------------------------------
(* The inductive invariant.                                                 *)

TypeOK ==
    /\ front \in Seq(Items) /\ rear \in Seq(Items)
    /\ live \in SUBSET Items /\ fresh \in SUBSET Items
    /\ seen \in Items \cup {NoItem}

\* An item is in one place, a live one in the queue and a fresh one outside.
Once ==
    /\ IsInjective(Contents)
    /\ live \subseteq ToSet(Contents) /\ fresh \cap ToSet(Contents) = {}

\* What a poll has found is still at the head, cancelled or not.
PollStands == seen # NoItem => front # <<>> /\ Head(front) = seen

IInv == TypeOK /\ Once /\ PollStands

\* A step of Queue is a step of LiveQueue, or changes nothing that it shows.
Simulates == Abs!Next \/ (Live(Contents)' = Live(Contents) /\ got' = got)

\* Contents as a list.
LEMMA ContentsProps ==
    ASSUME TypeOK
    PROVE  /\ Contents \in Seq(Items) /\ Reverse(rear) \in Seq(Items)
           /\ ToSet(Contents) = ToSet(front) \cup ToSet(rear)
           /\ IsInjective(Contents) => /\ IsInjective(front) /\ IsInjective(Reverse(rear))
                                       /\ IsInjective(rear)
                                       /\ ToSet(front) \cap ToSet(rear) = {}
           /\ Live(Contents) = Filter(front, live) \o Reverse(Filter(rear, live))
<1> DEFINE r == Reverse(rear)
<1>0. front \in Seq(Items) /\ rear \in Seq(Items)
  BY DEF TypeOK
<1>1. r \in Seq(Items) /\ ToSet(r) = ToSet(rear)
  BY <1>0, ReverseProps
<1>2. Filter(r, live) = Reverse(Filter(rear, live))
  BY <1>0, FilterReverse
<1>3. IsInjective(r) => IsInjective(rear)
  <2> DEFINE d == Reverse(r)
  <2> HAVE IsInjective(r)
  <2>1. /\ Len(r) = Len(rear) /\ Len(rear) \in Nat
        /\ \A k \in 1 .. Len(rear) : r[k] = rear[Len(rear) - k + 1]
    BY <1>0, ReverseProps
  <2> HIDE DEF r
  <2>2. /\ d \in Seq(Items) /\ Len(d) = Len(rear)
        /\ \A k \in 1 .. Len(rear) : d[k] = r[Len(rear) - k + 1]
    BY <1>1, <2>1, ReverseProps
  <2>3. IsInjective(d)
    BY <1>1, InjectiveKept
  <2> HIDE DEF d
  <2>4. ASSUME NEW k \in 1 .. Len(d) PROVE d[k] = rear[k]
    <3>1. Len(rear) - k + 1 \in 1 .. Len(rear) /\ Len(rear) - (Len(rear) - k + 1) + 1 = k
      BY <2>1, <2>2
    <3> QED BY <2>1, <2>2, <3>1
  <2>5. d = rear
    BY <1>0, <2>2, <2>4, SeqEqual
  <2> QED BY <2>3, <2>5
<1> HIDE DEF r
<1>4. front \o r \in Seq(Items)
  BY <1>0, <1>1
<1>5. /\ ToSet(front \o r) = ToSet(front) \cup ToSet(r)
      /\ IsInjective(front \o r) =>
            IsInjective(front) /\ IsInjective(r) /\ ToSet(front) \cap ToSet(r) = {}
  BY <1>0, <1>1, ConcatElements
<1>6. Filter(front \o r, live) = Filter(front, live) \o Filter(r, live)
  BY <1>0, <1>1, FilterConcat
<1> QED BY <1>1, <1>2, <1>3, <1>4, <1>5, <1>6 DEF Contents, Live, r

\* A new item joins the queue at the end.
LEMMA Joins ==
    ASSUME IInv, NEW x \in Items, New(x), NEW c \in Seq(Items),
           IsInjective(c), ToSet(c) \subseteq ToSet(Contents), live \subseteq ToSet(c),
           Filter(c, live) = Live(Contents), Contents' = c \o <<x>>, got' = got
    PROVE  Once' /\ Simulates
<1> DEFINE o == <<x>>
           A == live \cup {x}
<1>0. TypeOK /\ Once
  BY DEF IInv
<1>1. o \in Seq(Items) /\ ToSet(o) = {x} /\ IsInjective(o)
  BY SmallLists
<1>2. live' = A /\ fresh' = fresh \ {x} /\ x \in fresh
  BY DEF New
<1>3. x \notin ToSet(Contents) /\ x \notin live /\ x \notin ToSet(c)
  BY <1>0, <1>2 DEF Once
<1>4. Contents' = c \o o
  OBVIOUS
<1> HIDE DEF o
<1>5. ToSet(c \o o) = ToSet(c) \cup {x} /\ IsInjective(c \o o)
  BY <1>1, <1>3, ConcatElements
<1>6. Once'
  BY <1>0, <1>2, <1>4, <1>5 DEF Once
<1>7. Filter(c \o o, A) = Filter(c, A) \o Filter(o, A)
  BY <1>1, FilterConcat, SMTT(30)
<1>8. Filter(o, A) = o
  BY <1>1, FilterAll
<1>9. Filter(c, A) = Filter(c, live)
  BY <1>3, FilterAll
<1>10. Live(Contents)' = Live(Contents) \o <<x>>
  BY <1>2, <1>4, <1>7, <1>8, <1>9 DEF Live, o
<1>11. Live(Contents) \in Seq(Items)
  BY <1>0, ContentsProps, FilterProps DEF Live
<1>12. Live(Contents)' = Append(Live(Contents), x)
  <2> HIDE DEF Live
  <2> QED BY <1>10, <1>11, AppendIsConcat
<1> QED BY <1>6, <1>12 DEF Simulates, Abs!Next, Abs!Put

\* Q.enqueue.
LEMMA EnqueueStep ==
    ASSUME IInv, NEW x \in Items, enqueue(x)
    PROVE  IInv' /\ Simulates
<1>0. TypeOK /\ Once /\ New(x) /\ front' = front /\ rear' = <<x>> \o rear /\ seen' = NoItem /\ got' = got
  BY DEF enqueue, IInv
<1>1. TypeOK'
  <2>1. <<x>> \in Seq(Items) /\ rear \in Seq(Items)
    BY <1>0 DEF TypeOK
  <2>2. <<x>> \o rear \in Seq(Items)
    BY <2>1, ConcatProperties
  <2>3. live' \in SUBSET Items /\ fresh' \in SUBSET Items /\ seen' \in Items \cup {NoItem}
    BY <1>0 DEF TypeOK, New, enqueue
  <2> QED BY <1>0, <2>2, <2>3 DEF TypeOK
<1> DEFINE o == <<x>>
           r == Reverse(rear)
<1>2. o \in Seq(Items) /\ Reverse(o) = o
  BY SmallLists
<1>3. front \in Seq(Items) /\ rear \in Seq(Items) /\ r \in Seq(Items)
  BY <1>0, ContentsProps DEF TypeOK
<1> HIDE DEF o
<1>4. Reverse(o \o rear) = r \o o
  BY <1>2, <1>3, ReverseConcat
<1> HIDE DEF r
<1>5. front \o (r \o o) = (front \o r) \o o
  <2>1. front \in Seq(Items) /\ r \in Seq(Items) /\ o \in Seq(Items)
    BY <1>2, <1>3
  <2> QED BY <2>1, Associative
<1>6. Contents' = Contents \o <<x>>
  BY <1>0, <1>4, <1>5 DEF Contents, o, r
<1>7. Contents \in Seq(Items) /\ IsInjective(Contents) /\ live \subseteq ToSet(Contents)
  BY <1>0, ContentsProps DEF Once
<1>8. Once' /\ Simulates
  BY <1>0, <1>6, <1>7, Joins DEF Live
<1> QED BY <1>0, <1>1, <1>8 DEF IInv, PollStands

\* Channel.cleanAndEnqueue: both ways leave the live items and the new one.
LEMMA CleanAndEnqueueStep ==
    ASSUME IInv, NEW x \in Items, cleanAndEnqueue(x)
    PROVE  IInv' /\ Simulates /\ Live(Contents)' = Contents'
<1>0. TypeOK /\ Once /\ New(x) /\ seen' = NoItem /\ got' = got
  BY DEF cleanAndEnqueue, IInv
<1> DEFINE o == <<x>>
           f == Filter(front, live)
           g == Filter(rear, live)
           r == Reverse(g)
           c == Live(Contents)
<1>1. o \in Seq(Items) /\ Reverse(o) = o /\ Reverse(<<>>) = <<>> /\ ToSet(o) = {x}
  BY SmallLists
<1>2. f \in Seq(Items) /\ g \in Seq(Items)
  BY <1>0, FilterProps DEF TypeOK
<1>3. r \in Seq(Items)
  <2> HIDE DEF g
  <2> QED BY <1>2, ReverseProps
<1>4. c = f \o r
  BY <1>0, ContentsProps
<1>5. live' = live \cup {x} /\ fresh' = fresh \ {x} /\ x \in fresh
  BY <1>0 DEF New
<1>6. c \in Seq(Items)
  <2> HIDE DEF f, r, c
  <2> QED BY <1>2, <1>3, <1>4
<1>7. /\ ToSet(c) = ToSet(Contents) \cap live /\ IsInjective(c) /\ Filter(c, live) = c
  <2>1. Contents \in Seq(Items) /\ IsInjective(Contents)
    BY <1>0, ContentsProps DEF Once
  <2>2. ToSet(c) = ToSet(Contents) \cap live
    BY <2>1, FilterProps DEF Live
  <2>3. IsInjective(c)
    BY <2>1, InjectiveKept DEF Live
  <2> HIDE DEF c
  <2>4. ToSet(c) \subseteq live
    BY <2>2
  <2>5. Filter(c, live) = c
    BY <1>6, <2>4, FilterAll
  <2> QED BY <2>2, <2>3, <2>5
<1>8. /\ front' \in Seq(Items) /\ rear' \in Seq(Items) /\ Contents' = c \o o
  <2>1. CASE /\ cleanAll(front) = <<>>
             /\ front' = cleanRev(rear, <<x>>) /\ rear' = <<>>
    <3>1. f = <<>> /\ front' = r \o o /\ rear' = <<>>
      BY <2>1 DEF cleanAll, cleanRev, Live
    <3> HIDE DEF f, r, o, c
    <3>2. r \o o \in Seq(Items) /\ <<>> \o r = r
      BY <1>1, <1>3, ConcatEmptySeq
    <3>3. (r \o o) \o <<>> = r \o o
      BY <3>2, ConcatEmptySeq
    <3>4. Contents' = (r \o o) \o <<>>
      BY <1>1, <3>1 DEF Contents
    <3>5. c = r
      BY <1>4, <3>1, <3>2
    <3> QED BY <3>1, <3>2, <3>3, <3>4, <3>5
  <2>2. CASE /\ cleanAll(front) # <<>>
             /\ front' = cleanAll(front) /\ rear' = <<x>> \o cleanAll(rear)
    <3>1. front' = f /\ rear' = o \o g
      BY <2>2 DEF cleanAll, Live
    <3>2. Reverse(o \o g) = r \o o
      <4> HIDE DEF o, g
      <4> QED BY <1>1, <1>2, ReverseConcat
    <3>3. o \o g \in Seq(Items)
      <4> HIDE DEF o, g
      <4> QED BY <1>1, <1>2
    <3> HIDE DEF f, g, r, o, c
    <3>4. f \o (r \o o) = (f \o r) \o o
      <4>1. f \in Seq(Items) /\ r \in Seq(Items) /\ o \in Seq(Items)
        BY <1>1, <1>2, <1>3
      <4> QED BY <4>1, Associative
    <3>5. Contents' = f \o (r \o o)
      BY <3>1, <3>2 DEF Contents
    <3> QED BY <1>2, <1>4, <3>1, <3>3, <3>4, <3>5
  <2> QED BY <2>1, <2>2 DEF cleanAndEnqueue
<1>9. TypeOK'
  BY <1>0, <1>5, <1>8 DEF TypeOK
<1>10. Once' /\ Simulates
  <2>1. /\ ToSet(c) \subseteq ToSet(Contents) /\ live \subseteq ToSet(c)
    BY <1>0, <1>7 DEF Once
  <2>2. Contents' = c \o <<x>> /\ Filter(c, live) = Live(Contents)
    BY <1>7, <1>8
  <2> HIDE DEF c
  <2> QED BY <1>0, <1>6, <1>7, <2>1, <2>2, Joins
<1>11. Live(Contents)' = Contents'
  <2> HIDE DEF c, o
  <2>1. ToSet(c \o o) = ToSet(c) \cup {x} /\ c \o o \in Seq(Items)
    BY <1>1, <1>6, ConcatElements
  <2>2. ToSet(c \o o) \subseteq live \cup {x}
    BY <1>7, <2>1
  <2>3. Filter(c \o o, live \cup {x}) = c \o o
    BY <2>1, <2>2, FilterAll
  <2> QED BY <1>5, <1>8, <2>3 DEF Live
<1> QED BY <1>0, <1>9, <1>10, <1>11 DEF IInv, PollStands

\* cleanAndChk: nothing live is lost.
LEMMA CleanAndChkStep ==
    ASSUME IInv, cleanAndChk
    PROVE  IInv' /\ Simulates
<1>0. TypeOK /\ Once /\ live' = live /\ fresh' = fresh /\ got' = got
  BY DEF cleanAndChk, IInv
<1> DEFINE r == Reverse(rear)
           l == clean(front)
           g == Filter(rear, live)
           d == Reverse(g)
<1>1. /\ front \in Seq(Items) /\ rear \in Seq(Items) /\ r \in Seq(Items)
      /\ Contents \in Seq(Items) /\ IsInjective(Contents) /\ live \subseteq ToSet(Contents)
      /\ fresh \cap ToSet(Contents) = {}
  BY <1>0, ContentsProps DEF TypeOK, Once
<1>2. /\ l \in Seq(Items)
      /\ l # <<>> => Head(l) \in live
      /\ l = <<>> <=> ToSet(front) \cap live = {}
  BY <1>1, CleanProps
<1>3. PICK u \in Seq(Items) : front = u \o l /\ ToSet(u) \cap live = {}
  BY <1>1, CleanProps
<1>4. CASE l # <<>> /\ front' = l /\ seen' = Head(front') /\ rear' = rear
  <2> HIDE DEF l, r
  <2>1. Contents' = l \o r
    BY <1>4 DEF Contents, r
  <2>2. (u \o l) \o r = u \o (l \o r)
    <3>1. u \in Seq(Items) /\ l \in Seq(Items) /\ r \in Seq(Items)
      BY <1>1, <1>2
    <3> QED BY <3>1, Associative
  <2>3. Contents = u \o (l \o r) /\ l \o r \in Seq(Items)
    BY <1>1, <1>2, <1>3, <2>2 DEF Contents, r
  <2> DEFINE c == l \o r
  <2>4. c \in Seq(Items) /\ Contents = u \o c
    BY <2>3
  <2> HIDE DEF c
  <2>5. /\ ToSet(Contents) = ToSet(u) \cup ToSet(c) /\ IsInjective(c)
    BY <1>1, <2>4, ConcatElements
  <2>6. Filter(u \o c, live) = Filter(u, live) \o Filter(c, live) /\ Filter(u, live) = <<>>
    BY <1>3, <2>4, FilterConcat, FilterAll
  <2>7. Filter(c, live) \in Seq(Items)
    BY <2>4, FilterProps
  <2>8. Filter(u \o c, live) = Filter(c, live)
    BY <2>6, <2>7, ConcatEmptySeq
  <2>9. Contents' = c
    BY <2>1 DEF c
  <2>10. Live(Contents)' = Live(Contents)
    BY <1>0, <2>4, <2>8, <2>9 DEF Live
  <2>11. Once'
    BY <1>0, <1>1, <1>3, <2>5, <2>9 DEF Once
  <2>12. TypeOK' /\ PollStands'
    <3>1. Head(l) \in Items
      BY <1>2, <1>4, SplitHead
    <3> QED BY <1>0, <1>2, <1>4, <3>1 DEF TypeOK, PollStands
  <2> QED BY <1>0, <2>10, <2>11, <2>12 DEF IInv, Simulates
<1>5. CASE /\ l = <<>> /\ rear' = <<>>
           /\ \/ Live(rear) # <<>> /\ front' = cleanRev(rear, <<>>) /\ seen' = Head(front')
              \/ Live(rear) = <<>> /\ seen' = NoItem /\ front' = front
  <2>1. g \in Seq(Items) /\ ToSet(g) = ToSet(rear) \cap live
    BY <1>1, FilterProps
  <2>2. IsInjective(g) /\ IsInjective(front)
    <3>1. IsInjective(rear) /\ IsInjective(front)
      BY <1>0, ContentsProps DEF Once
    <3> QED BY <1>1, <3>1, InjectiveKept
  <2>3. Filter(front, live) = <<>>
    BY <1>1, <1>2, <1>5, FilterAll
  <2> HIDE DEF g
  <2>4. d \in Seq(Items) /\ ToSet(d) = ToSet(g) /\ IsInjective(d)
    BY <2>1, <2>2, ReverseProps, InjectiveKept
  <2> HIDE DEF d
  <2>5. Live(Contents) = d
    <3>1. Live(Contents) = <<>> \o d
      BY <1>0, <2>3, ContentsProps DEF d, g
    <3> QED BY <2>4, <3>1, ConcatEmptySeq
  <2>6. ToSet(Contents) = ToSet(front) \cup ToSet(rear)
    BY <1>0, ContentsProps
  <2>7. CASE g # <<>>
    <3>1. front' = d \o <<>> /\ seen' = Head(front')
      BY <1>5, <2>7 DEF cleanRev, Live, d, g
    <3>2. front' = d
      BY <2>4, <3>1, ConcatEmptySeq
    <3>3. Contents' = d \o Reverse(<<>>)
      BY <1>5, <3>2 DEF Contents
    <3>4. Contents' = d
      BY <2>4, <3>3, ConcatEmptySeq, SmallLists
    <3>5. Filter(d, live) = d
      BY <2>1, <2>4, FilterAll
    <3>6. Live(Contents)' = Live(Contents)
      BY <1>0, <2>5, <3>4, <3>5 DEF Live
    <3>7. Once'
      BY <1>0, <1>1, <1>2, <1>5, <2>1, <2>4, <2>6, <3>4 DEF Once
    <3>8. d # <<>> /\ Head(d) \in live
      <4>1. ToSet(g) # {}
        <5>1. Len(g) \in Nat /\ Len(g) # 0 /\ DOMAIN g = 1 .. Len(g)
          BY <2>1, <2>7
        <5>2. 1 \in DOMAIN g
          BY <5>1
        <5> QED BY <5>2 DEF ToSet
      <4>2. d # <<>>
        BY <2>4, <4>1, SmallLists
      <4>3. 1 \in DOMAIN d /\ Head(d) = d[1]
        BY <2>4, <4>2
      <4>4. Head(d) \in ToSet(d)
        BY <4>3 DEF ToSet
      <4> QED BY <2>1, <2>4, <4>2, <4>4
    <3>9. TypeOK' /\ PollStands'
      <4>1. Head(d) \in Items
        BY <2>4, <3>8, SplitHead
      <4> QED BY <1>0, <1>5, <2>4, <3>1, <3>2, <3>8, <4>1 DEF TypeOK, PollStands
    <3> QED BY <1>0, <3>6, <3>7, <3>9 DEF IInv, Simulates
  <2>8. CASE g = <<>>
    <3>1. front' = front /\ seen' = NoItem
      BY <1>5, <2>8 DEF Live, g
    <3>2. Contents' = front \o Reverse(<<>>)
      BY <1>5, <3>1 DEF Contents
    <3>3. Contents' = front
      BY <1>1, <3>2, ConcatEmptySeq, SmallLists
    <3>4. d = <<>>
      BY <2>8, SmallLists DEF d
    <3>5. Live(Contents)' = Live(Contents)
      BY <1>0, <2>3, <2>5, <3>3, <3>4 DEF Live
    <3>6. ToSet(rear) \cap live = {}
      BY <2>1, <2>8, SmallLists
    <3>7. Once'
      BY <1>0, <1>1, <1>2, <1>5, <2>2, <2>6, <3>3, <3>6 DEF Once
    <3>8. TypeOK' /\ PollStands'
      BY <1>0, <1>5, <3>1 DEF TypeOK, PollStands
    <3> QED BY <1>0, <3>5, <3>7, <3>8 DEF IInv, Simulates
  <2> QED BY <2>7, <2>8
<1> QED BY <1>4, <1>5 DEF cleanAndChk

\* The oldest live item h is handed out and cancelled.
LEMMA HandsOut ==
    ASSUME IInv, NEW u \in Seq(Items), NEW v \in Seq(Items), NEW h \in Items,
           Contents = u \o (<<h>> \o v), ToSet(u) \cap live = {}, h \in live,
           Contents' = v, got' = h, live' = live \ {h}, fresh' = fresh
    PROVE  Once' /\ Simulates
<1>0. Once
  BY DEF IInv
<1> DEFINE c == u \o (<<h>> \o v)
<1>1. /\ Filter(c, live) # <<>> /\ Head(Filter(c, live)) = h
      /\ Tail(Filter(c, live)) = Filter(v, live \ {h})
      /\ IsInjective(v) /\ h \notin ToSet(v)
      /\ ToSet(c) = ToSet(u) \cup {h} \cup ToSet(v)
  <2>1. c = u \o (<<h>> \o v) /\ IsInjective(c) /\ c \in Seq(Items)
    BY <1>0, ContentsProps DEF Once, IInv
  <2> HIDE DEF c
  <2>2. Leads(c, u, h, v, live)
    BY <2>1 DEF Leads
  <2>3. TakenFrom(c, u, h, v, live)
    BY <2>1, <2>2, Took
  <2> QED BY <2>3 DEF TakenFrom
<1>2. Contents = c
  OBVIOUS
<1> HIDE DEF c
<1>3. Once'
  BY <1>0, <1>1, <1>2 DEF Once
<1>4. /\ Live(Contents) # <<>> /\ got' = Head(Live(Contents))
      /\ Live(Contents)' = Tail(Live(Contents))
  BY <1>1, <1>2 DEF Live
<1> QED BY <1>3, <1>4 DEF Simulates, Abs!Next, Abs!Take

\* cleanAndRemove.
LEMMA CleanAndRemoveStep ==
    ASSUME IInv, cleanAndRemove
    PROVE  IInv' /\ Simulates
<1>0. /\ TypeOK /\ Once /\ fresh' = fresh /\ live' = live \ {got'}
      /\ seen' = NoItem
  BY DEF cleanAndRemove, IInv
<1> DEFINE r == Reverse(rear)
           l == clean(front)
           g == Filter(rear, live)
           d == Reverse(g)
<1>1. /\ front \in Seq(Items) /\ rear \in Seq(Items) /\ r \in Seq(Items)
      /\ Contents \in Seq(Items) /\ IsInjective(Contents) /\ live \subseteq ToSet(Contents)
      /\ fresh \cap ToSet(Contents) = {}
  BY <1>0, ContentsProps DEF TypeOK, Once
<1>2. /\ l \in Seq(Items)
      /\ l # <<>> => Head(l) \in live
      /\ l = <<>> <=> ToSet(front) \cap live = {}
  BY <1>1, CleanProps
<1>3. PICK u \in Seq(Items) : front = u \o l /\ ToSet(u) \cap live = {}
  BY <1>1, CleanProps
<1>4. g \in Seq(Items) /\ ToSet(g) = ToSet(rear) \cap live /\ IsInjective(g)
  <2>1. g \in Seq(Items) /\ ToSet(g) = ToSet(rear) \cap live
    BY <1>1, FilterProps
  <2>2. IsInjective(rear)
    BY <1>0, ContentsProps DEF Once
  <2> QED BY <1>1, <2>1, <2>2, InjectiveKept
<1>5. d \in Seq(Items) /\ ToSet(d) = ToSet(g) /\ IsInjective(d)
  <2> HIDE DEF g
  <2> QED BY <1>4, ReverseProps, InjectiveKept
<1>6. cleanRev(rear, <<>>) = d
  <2>1. cleanRev(rear, <<>>) = d \o <<>>
    BY DEF cleanRev, Live
  <2> HIDE DEF d
  <2> QED BY <1>5, <2>1, ConcatEmptySeq
<1>7. CASE l # <<>> /\ got' = Head(l) /\ front' = Tail(l) /\ rear' = rear
  <2> HIDE DEF l, r
  <2> DEFINE t == Tail(l)
             v == t \o r
  <2>1. PICK h : h = Head(l)
    OBVIOUS
  <2>2. h \in Items /\ t \in Seq(Items) /\ l = <<h>> \o t
    BY <1>2, <1>7, <2>1, SplitHead
  <2>3. Contents' = v
    BY <1>7 DEF Contents, r
  <2> HIDE DEF t
  <2>4. <<h>> \in Seq(Items) /\ v \in Seq(Items) /\ <<h>> \o v \in Seq(Items)
    BY <1>1, <2>2
  <2>5. l \o r = <<h>> \o v
    <3>1. <<h>> \in Seq(Items) /\ t \in Seq(Items) /\ r \in Seq(Items)
      BY <1>1, <2>2, <2>4
    <3>2. (<<h>> \o t) \o r = <<h>> \o (t \o r)
      BY <3>1, Associative
    <3> QED BY <2>2, <3>2
  <2>6. Contents = u \o (l \o r)
    <3>1. u \in Seq(Items) /\ l \in Seq(Items) /\ r \in Seq(Items)
      BY <1>1, <1>2
    <3>2. (u \o l) \o r = u \o (l \o r)
      BY <3>1, Associative
    <3> QED BY <1>3, <3>2 DEF Contents, r
  <2> HIDE DEF v
  <2>7. Contents = u \o (<<h>> \o v)
    BY <2>5, <2>6
  <2>8. h \in live /\ got' = h /\ live' = live \ {h}
    BY <1>0, <1>2, <1>7, <2>1
  <2>9. Once' /\ Simulates
    BY <1>0, <1>3, <2>2, <2>3, <2>4, <2>7, <2>8, HandsOut
  <2>10. TypeOK' /\ PollStands'
    BY <1>0, <1>7, <2>2 DEF TypeOK, PollStands, t
  <2> QED BY <2>9, <2>10 DEF IInv
<1>8. CASE l = <<>> /\ got' = Head(d) /\ d # <<>> /\ front' = Tail(d) /\ rear' = <<>>
  <2> HIDE DEF l, r, g
  <2>1. Live(Contents) = d
    <3>1. Filter(front, live) = <<>>
      BY <1>1, <1>2, <1>8, FilterAll
    <3>2. Live(Contents) = <<>> \o d
      BY <1>0, <3>1, ContentsProps DEF d, g
    <3> HIDE DEF d
    <3> QED BY <1>5, <3>2, ConcatEmptySeq
  <2> HIDE DEF d
  <2>2. PICK h : h = Head(d)
    OBVIOUS
  <2> DEFINE v == Tail(d)
  <2>3. h \in Items /\ v \in Seq(Items) /\ d = <<h>> \o v
    BY <1>5, <1>8, <2>2, SplitHead
  <2>4. Contents' = v
    <3>1. Contents' = v \o Reverse(<<>>)
      BY <1>8 DEF Contents
    <3> HIDE DEF v
    <3> QED BY <2>3, <3>1, ConcatEmptySeq, SmallLists
  <2> HIDE DEF v
  <2>5. ToSet(<<h>>) = {h} /\ <<h>> \in Seq(Items) /\ ToSet(<<>>) = {} /\ <<>> \in Seq(Items)
    BY <2>3, SmallLists
  <2>6. h \in ToSet(d)
    <3>1. ToSet(<<h>> \o v) = ToSet(<<h>>) \cup ToSet(v)
      BY <2>3, <2>5, ConcatElements
    <3> QED BY <2>3, <2>5, <3>1
  <2>7. h \in live
    BY <1>4, <1>5, <2>6
  <2>8. PICK e \in Seq(Items) : e \o d = d /\ ToSet(e) = {}
    BY <1>5, <2>5, ConcatEmptySeq
  <2>9. /\ Filter(d, live) # <<>> /\ Head(Filter(d, live)) = h
        /\ Tail(Filter(d, live)) = Filter(v, live \ {h})
        /\ IsInjective(v) /\ h \notin ToSet(v)
        /\ ToSet(d) = {h} \cup ToSet(v)
    <3>1. d = e \o (<<h>> \o v) /\ ToSet(e) \cap live = {}
      BY <2>3, <2>8
    <3>2. Leads(d, e, h, v, live)
      BY <1>5, <2>7, <3>1 DEF Leads
    <3>3. TakenFrom(d, e, h, v, live)
      BY <1>5, <2>3, <2>8, <3>2, Took
    <3> QED BY <2>8, <3>3 DEF TakenFrom
  <2>10. Filter(d, live) = d
    BY <1>4, <1>5, FilterAll
  <2>11. got' = h /\ live' = live \ {h}
    BY <1>0, <1>8, <2>2
  <2>12. Simulates
    <3>1. /\ Live(Contents) # <<>> /\ got' = Head(Live(Contents))
          /\ Live(Contents)' = Tail(Live(Contents))
      BY <2>1, <2>4, <2>9, <2>10, <2>11 DEF Live
    <3> QED BY <3>1 DEF Simulates, Abs!Next, Abs!Take
  <2>13. Once'
    <3>1. ToSet(Contents) = ToSet(front) \cup ToSet(rear)
      BY <1>0, ContentsProps
    <3>2. live \subseteq ToSet(d)
      BY <1>1, <1>2, <1>4, <1>5, <1>8, <3>1
    <3> QED BY <1>0, <1>1, <1>4, <1>5, <2>4, <2>9, <2>11, <3>1, <3>2 DEF Once
  <2>14. TypeOK' /\ PollStands'
    BY <1>0, <1>8, <2>3, <2>5 DEF TypeOK, PollStands, v
  <2> QED BY <2>12, <2>13, <2>14 DEF IInv
<1>9. CASE l = <<>> /\ d = <<>> /\ got' = NoItem /\ rear' = <<>> /\ front' = front
  <2>1. ToSet(Contents) = ToSet(front) \cup ToSet(rear) /\ IsInjective(front)
    BY <1>0, ContentsProps DEF Once
  <2>2. live = {}
    <3> HIDE DEF d, g, l
    <3>1. ToSet(d) = {}
      BY <1>9, SmallLists
    <3> QED BY <1>1, <1>2, <1>4, <1>5, <1>9, <2>1, <3>1
  <2>3. live' = {}
    BY <1>0, <2>2
  <2>4. Contents' = front
    <3>1. Contents' = front \o Reverse(<<>>)
      BY <1>9 DEF Contents
    <3> QED BY <1>1, <3>1, ConcatEmptySeq, SmallLists
  <2>5. Filter(Contents, {}) = <<>> /\ Filter(front, {}) = <<>>
    BY <1>1, FilterAll
  <2>6. Live(Contents) = <<>> /\ Live(Contents)' = <<>>
    BY <2>2, <2>3, <2>4, <2>5 DEF Live
  <2>7. Simulates
    BY <1>9, <2>6 DEF Simulates, Abs!Next, Abs!Take
  <2>8. Once'
    BY <1>0, <1>1, <2>1, <2>3, <2>4 DEF Once
  <2>9. TypeOK' /\ PollStands'
    BY <1>0, <1>9, <2>3 DEF TypeOK, PollStands
  <2> QED BY <2>7, <2>8, <2>9 DEF IInv
<1> QED BY <1>6, <1>7, <1>8, <1>9 DEF cleanAndRemove

\* The item x between a and b is cancelled, and may leave the queue.
LEMMA Leaves ==
    ASSUME IInv, NEW a \in Seq(Items), NEW b \in Seq(Items), NEW x \in Items,
           Contents = a \o (<<x>> \o b), Contents' \in {Contents, a \o b},
           live' = live \ {x}, fresh' = fresh, got' = got
    PROVE  Once' /\ Simulates
<1>0. TypeOK /\ Once
  BY DEF IInv
<1>1. Contents \in Seq(Items) /\ IsInjective(Contents)
  BY <1>0, ContentsProps DEF Once
<1> DEFINE f == Filter(a, live)
           g == Filter(b, live)
<1>2. f \in Seq(Items) /\ g \in Seq(Items)
  BY FilterProps
<1>3. DroppedFrom(Contents, a, x, b, live)
  <2>1. Between(Contents, a, x, b)
    BY <1>1 DEF Between
  <2> QED BY <1>1, <2>1, Dropped
<1>4. /\ Filter(Contents, live \ {x}) = f \o g
      /\ Filter(a \o b, live \ {x}) = f \o g
      /\ x \in live => Filter(Contents, live) = f \o (<<x>> \o g)
      /\ x \notin live => Filter(Contents, live) = f \o g
      /\ IsInjective(a \o b) /\ ToSet(a \o b) = ToSet(Contents) \ {x}
  BY <1>3 DEF DroppedFrom
<1> HIDE DEF f, g
<1>5. Once'
  <2>1. IsInjective(Contents') /\ ToSet(Contents') \subseteq ToSet(Contents)
    BY <1>1, <1>4
  <2>2. live' \subseteq ToSet(Contents')
    BY <1>0, <1>4 DEF Once
  <2> QED BY <1>0, <2>1, <2>2 DEF Once
<1>6. Live(Contents)' = f \o g
  BY <1>4 DEF Live
<1>7. CASE x \in live
  <2> DEFINE q == Live(Contents)
  <2>1. q = f \o (<<x>> \o g)
    BY <1>4, <1>7 DEF Live
  <2>2. CutOut(f \o (<<x>> \o g), x, f \o g)
    BY <1>2, Middle
  <2> HIDE DEF q
  <2>3. CutOut(q, x, f \o g)
    BY <2>1, <2>2
  <2>4. CutOut(q, x, Live(Contents)')
    BY <1>6, <2>3
  <2>5. Abs!Cancel
    BY <2>4 DEF Abs!Cancel, CutOut, q
  <2> QED BY <1>5, <2>5 DEF Simulates, Abs!Next
<1>8. CASE x \notin live
  <2>1. Live(Contents) = f \o g
    BY <1>4, <1>8 DEF Live
  <2> QED BY <1>5, <1>6, <2>1 DEF Simulates
<1> QED BY <1>7, <1>8

\* Q.dequeue after a poll hands out a live item, or drops a cancelled one.
LEMMA DequeueStep ==
    ASSUME IInv, dequeue
    PROVE  IInv' /\ Simulates
<1>0. /\ TypeOK /\ Once /\ front # <<>> /\ front' = Tail(front) /\ rear' = rear
      /\ fresh' = fresh /\ live' = live \ {Head(front)} /\ seen' = NoItem
      /\ \/ Head(front) \in live /\ got' = Head(front)
         \/ Head(front) \notin live /\ got' = got
  BY DEF dequeue, IInv, PollStands
<1> DEFINE r == Reverse(rear)
           t == Tail(front)
           v == t \o r
<1>1. front \in Seq(Items) /\ r \in Seq(Items) /\ Contents \in Seq(Items)
  BY <1>0, ContentsProps DEF TypeOK
<1>2. PICK h : h = Head(front)
  OBVIOUS
<1>3. h \in Items /\ t \in Seq(Items) /\ front = <<h>> \o t
  BY <1>0, <1>1, <1>2, SplitHead
<1>4. Contents' = v
  BY <1>0 DEF Contents
<1> HIDE DEF t, r
<1>5. <<h>> \in Seq(Items) /\ v \in Seq(Items) /\ <<h>> \o v \in Seq(Items)
  BY <1>1, <1>3
<1>6. (<<h>> \o t) \o r = <<h>> \o v
  <2>1. <<h>> \in Seq(Items) /\ t \in Seq(Items) /\ r \in Seq(Items)
    BY <1>1, <1>3, <1>5
  <2> QED BY <2>1, Associative
<1> HIDE DEF v
<1>7. Contents = <<h>> \o v
  BY <1>3, <1>6 DEF Contents, r
<1>8. Contents = <<>> \o (<<h>> \o v) /\ <<>> \in Seq(Items) /\ ToSet(<<>>) \cap live = {}
  <2> DEFINE c == <<h>> \o v
  <2>0. c \in Seq(Items)
    BY <1>5
  <2> HIDE DEF c
  <2>1. <<>> \o c = c
    BY <2>0, ConcatEmptySeq
  <2>2. <<>> \in Seq(Items) /\ ToSet(<<>>) = {}
    BY DEF ToSet
  <2> QED BY <1>7, <2>1, <2>2 DEF c
<1>9. live' = live \ {h}
  BY <1>0, <1>2
<1>10. Once' /\ Simulates
  <2>1. CASE h \in live /\ got' = h
    BY <1>0, <1>3, <1>4, <1>5, <1>8, <1>9, <2>1, HandsOut
  <2>2. CASE h \notin live /\ got' = got
    <3>1. <<>> \o v = v
      BY <1>5, ConcatEmptySeq
    <3> QED BY <1>0, <1>3, <1>4, <1>5, <1>8, <1>9, <2>2, <3>1, Leaves
  <2> QED BY <1>0, <1>2, <2>1, <2>2
<1>11. TypeOK' /\ PollStands'
  BY <1>0, <1>3 DEF TypeOK, PollStands, t
<1> QED BY <1>10, <1>11 DEF IInv

\* An element of a list stands between two others.
LEMMA Found ==
    ASSUME NEW s \in Seq(Items), NEW x \in ToSet(s)
    PROVE  \E a, b \in Seq(Items) : s = a \o (<<x>> \o b)
<1>1. DOMAIN s = 1 .. Len(s)
  OBVIOUS
<1>2. PICK k \in 1 .. Len(s) : s[k] = x
  BY <1>1 DEF ToSet
<1> DEFINE a == SubSeq(s, 1, k - 1)
           b == SubSeq(s, k + 1, Len(s))
<1>3. a \in Seq(Items) /\ b \in Seq(Items) /\ s = a \o (<<s[k]>> \o b)
  BY SplitAt
<1> HIDE DEF a, b
<1> QED BY <1>2, <1>3

\* Another event of the choice commits.
LEMMA CancelStep ==
    ASSUME IInv, NEW x \in Items, cancel(x)
    PROVE  IInv' /\ Simulates
<1>0. /\ TypeOK /\ Once /\ x \in live /\ live' = live \ {x} /\ seen' = seen
      /\ front' = front /\ rear' = rear /\ fresh' = fresh /\ got' = got
  BY DEF cancel, IInv
<1>1. Contents \in Seq(Items) /\ x \in ToSet(Contents)
  BY <1>0, ContentsProps DEF Once
<1>2. PICK a \in Seq(Items), b \in Seq(Items) : Contents = a \o (<<x>> \o b)
  BY <1>1, Found
<1>3. Contents' = Contents
  BY <1>0 DEF Contents
<1>4. Once' /\ Simulates
  BY <1>0, <1>2, <1>3, Leaves
<1>5. PollStands'
  BY <1>0 DEF IInv, PollStands
<1> QED BY <1>0, <1>4, <1>5 DEF IInv, TypeOK

\* Q.reset.
LEMMA ResetStep ==
    ASSUME IInv, reset
    PROVE  IInv' /\ Simulates
<1>0. front' = <<>> /\ rear' = <<>> /\ live' = {} /\ seen' = NoItem /\ fresh' = fresh /\ got' = got
  BY DEF reset
<1>1. Reverse(<<>>) = <<>> /\ ToSet(<<>>) = {} /\ IsInjective(<<>>)
  BY SmallLists
<1>2. <<>> \in Seq(Items) /\ <<>> \o <<>> = <<>>
  BY ConcatEmptySeq
<1>3. Contents' = <<>>
  BY <1>0, <1>1, <1>2 DEF Contents
<1>4. Once'
  BY <1>0, <1>1, <1>3 DEF Once
<1>5. Filter(<<>>, {}) = <<>>
  BY <1>1, <1>2, FilterAll
<1>6. Live(Contents)' = <<>>
  BY <1>0, <1>3, <1>5 DEF Live
<1>7. TypeOK' /\ PollStands'
  BY <1>0, <1>2 DEF IInv, TypeOK, PollStands, reset
<1> QED BY <1>0, <1>4, <1>6, <1>7 DEF IInv, Simulates, Abs!Next, Abs!Reset

\* Concatenation, to be regrouped without looking into the lists.
Cat(s, t) == s \o t

\* Cat stays in the lists of items and is associative.
LEMMA CatAssociative ==
    \A s, t, u \in Seq(Items) : Cat(s, t) \in Seq(Items) /\ Cat(Cat(s, t), u) = Cat(s, Cat(t, u))
<1> SUFFICES ASSUME NEW s \in Seq(Items), NEW t \in Seq(Items), NEW u \in Seq(Items)
             PROVE  s \o t \in Seq(Items) /\ (s \o t) \o u = s \o (t \o u)
  BY DEF Cat
<1>1. s \o t \in Seq(Items)
  BY ConcatProperties
<1>2. (s \o t) \o u = s \o (t \o u)
  BY ConcatAssociative
<1> QED BY <1>1, <1>2

\* Four lists, the middle two joined first, opened from the left.
LEMMA RegroupLeft ==
    \A a, b, c, d \in Seq(Items) : Cat(Cat(a, Cat(b, c)), d) = Cat(a, Cat(b, Cat(c, d)))
BY CatAssociative

\* Four lists, the middle two joined first, paired from both ends.
LEMMA RegroupRight ==
    \A a, b, c, d \in Seq(Items) : Cat(a, Cat(Cat(b, c), d)) = Cat(Cat(a, b), Cat(c, d))
BY CatAssociative

\* x has been taken out of s.
TakenOut(s, x, u) == \E a, b \in Seq(Items) : s = a \o (<<x>> \o b) /\ u = a \o b

\* Q.remove takes the first match out of a list.
LEMMA RemoveFromProps ==
    ASSUME NEW s \in Seq(Items), NEW P \in SUBSET Items, Matches(s, P) # {}
    PROVE  \E x \in P : TakenOut(s, x, RemoveFrom(s, P))
<1> DEFINE K == Matches(s, P)
           k == Min(K)
           a == SubSeq(s, 1, k - 1)
           b == SubSeq(s, k + 1, Len(s))
<1>1. K \in SUBSET (1 .. Len(s)) /\ \A i \in K : s[i] \in P
  BY DEF Matches
<1>2. k \in K
  <2>1. K # {}
    OBVIOUS
  <2> HIDE DEF K
  <2>2. K \in SUBSET Nat
    BY <1>1
  <2> QED BY <2>1, <2>2, MinProps
<1>3. k \in 1 .. Len(s) /\ s[k] \in P
  BY <1>1, <1>2
<1>4. RemoveFrom(s, P) = a \o b
  BY DEF RemoveFrom, RemoveAt
<1> HIDE DEF k, K
<1>5. a \in Seq(Items) /\ b \in Seq(Items) /\ s = a \o (<<s[k]>> \o b)
  BY <1>3, SplitAt
<1> HIDE DEF a, b
<1> QED BY <1>3, <1>4, <1>5 DEF TakenOut

\* x has been taken out of the queue.
Without(x) == \E a, b \in Seq(Items) : Contents = a \o (<<x>> \o b) /\ Contents' = a \o b

\* Q.remove takes one matching item out of the queue, wherever it is.
LEMMA RemoveTakesOne ==
    ASSUME IInv, NEW P \in SUBSET Items, remove(P)
    PROVE  /\ front' \in Seq(Items) /\ rear' \in Seq(Items)
           /\ \E x \in P : Without(x)
<1>0. TypeOK
  BY DEF IInv
<1> DEFINE r == Reverse(rear)
<1>1. front \in Seq(Items) /\ rear \in Seq(Items) /\ r \in Seq(Items) /\ Contents \in Seq(Items)
  BY <1>0, ContentsProps DEF TypeOK
<1>2. CASE Matches(front, P) # {} /\ front' = RemoveFrom(front, P) /\ rear' = rear
  <2>a. PICK x \in P : TakenOut(front, x, front')
    BY <1>1, <1>2, RemoveFromProps
  <2> DEFINE o == <<x>>
  <2>b. o \in Seq(Items) /\ Reverse(o) = o
    BY SmallLists
  <2>c. SUFFICES /\ front' \in Seq(Items) /\ rear' \in Seq(Items)
                 /\ \E a, b \in Seq(Items) : Contents = a \o (o \o b) /\ Contents' = a \o b
    BY <2>c DEF Without
  <2>2. PICK a \in Seq(Items), b \in Seq(Items) : front = a \o (o \o b) /\ front' = a \o b
    BY <2>a DEF TakenOut
  <2> HIDE DEF o, r
  <2>3. a \o b \in Seq(Items) /\ b \o r \in Seq(Items)
    BY <1>1
  <2>4. (a \o b) \o r = a \o (b \o r)
    <3>1. Cat(Cat(a, b), r) = Cat(a, Cat(b, r))
      BY <1>1, CatAssociative
    <3> QED BY <3>1 DEF Cat
  <2>5. (a \o (o \o b)) \o r = a \o (o \o (b \o r))
    <3>1. Cat(Cat(a, Cat(o, b)), r) = Cat(a, Cat(o, Cat(b, r)))
      BY <1>1, <2>b, RegroupLeft
    <3> QED BY <3>1 DEF Cat
  <2>6. Contents = a \o (o \o (b \o r)) /\ Contents' = a \o (b \o r)
    BY <1>2, <2>2, <2>4, <2>5 DEF Contents, r
  <2> QED BY <1>1, <1>2, <2>2, <2>3, <2>6 DEF o
<1>3. CASE Matches(rear, P) # {} /\ rear' = RemoveFrom(rear, P) /\ front' = front
  <2>a. PICK x \in P : TakenOut(rear, x, rear')
    BY <1>1, <1>3, RemoveFromProps
  <2> DEFINE o == <<x>>
  <2>b. o \in Seq(Items) /\ Reverse(o) = o
    BY SmallLists
  <2>c. SUFFICES /\ front' \in Seq(Items) /\ rear' \in Seq(Items)
                 /\ \E a, b \in Seq(Items) : Contents = a \o (o \o b) /\ Contents' = a \o b
    BY <2>c DEF Without
  <2>1. PICK a \in Seq(Items), b \in Seq(Items) : rear = a \o (o \o b) /\ rear' = a \o b
    BY <2>a DEF TakenOut
  <2> DEFINE p == Reverse(a)
             q == Reverse(b)
  <2>2. p \in Seq(Items) /\ q \in Seq(Items)
    BY ReverseProps
  <2> HIDE DEF o, r
  <2>3. a \o b \in Seq(Items) /\ o \o b \in Seq(Items)
    BY <2>b
  <2>4. Reverse(a \o b) = q \o p /\ Reverse(o \o b) = q \o o
    <3>1. Reverse(a \o b) = q \o p
      BY ReverseConcat
    <3> QED BY <2>b, <3>1, ReverseConcat
  <2>5. Reverse(a \o (o \o b)) = Reverse(o \o b) \o p
    BY <2>3, ReverseConcat
  <2>6. r = (q \o o) \o p
    BY <2>1, <2>4, <2>5 DEF r
  <2> HIDE DEF p, q
  <2>7. front \o q \in Seq(Items)
    BY <1>1, <2>2
  <2>8. front \o ((q \o o) \o p) = (front \o q) \o (o \o p)
    <3>1. Cat(front, Cat(Cat(q, o), p)) = Cat(Cat(front, q), Cat(o, p))
      BY <1>1, <2>b, <2>2, RegroupRight
    <3> QED BY <3>1 DEF Cat
  <2>9. (front \o q) \o p = front \o (q \o p)
    <3>1. Cat(Cat(front, q), p) = Cat(front, Cat(q, p))
      BY <1>1, <2>2, CatAssociative
    <3> QED BY <3>1 DEF Cat
  <2>10. Contents = (front \o q) \o (o \o p)
    BY <2>6, <2>8 DEF Contents, r
  <2>11. Contents' = (front \o q) \o p
    BY <1>3, <2>1, <2>4, <2>9 DEF Contents
  <2> QED BY <1>1, <1>3, <2>1, <2>2, <2>3, <2>7, <2>10, <2>11 DEF o
<1> QED BY <1>2, <1>3 DEF remove

\* Q.remove.
LEMMA RemoveStep ==
    ASSUME IInv, NEW P \in SUBSET Items, remove(P)
    PROVE  IInv' /\ Simulates
<1>0. /\ TypeOK /\ Once /\ live' = live \cap ToSet(front' \o rear')
      /\ seen' = NoItem /\ fresh' = fresh /\ got' = got
  BY DEF remove, IInv
<1>1. front' \in Seq(Items) /\ rear' \in Seq(Items) /\ \E x \in P : Without(x)
  BY RemoveTakesOne
<1>2. PICK x \in Items, a \in Seq(Items), b \in Seq(Items) :
        Contents = a \o (<<x>> \o b) /\ Contents' = a \o b
  BY <1>1 DEF Without
<1>3. Contents \in Seq(Items)
  BY <1>0, ContentsProps
<1>4. TypeOK'
  <2>1. live' \in SUBSET Items
    BY <1>0 DEF TypeOK
  <2> QED BY <1>0, <1>1, <2>1 DEF TypeOK
<1>5. ToSet(Contents') = ToSet(front' \o rear')
  <2>1. Reverse(rear') \in Seq(Items) /\ ToSet(Reverse(rear')) = ToSet(rear')
    BY <1>1, ReverseProps
  <2>2. ToSet(front' \o Reverse(rear')) = ToSet(front') \cup ToSet(Reverse(rear'))
    BY <1>1, <2>1, ConcatElements
  <2>3. ToSet(front' \o rear') = ToSet(front') \cup ToSet(rear')
    BY <1>1, ConcatElements
  <2> QED BY <2>1, <2>2, <2>3 DEF Contents
<1>6. ToSet(a \o b) = ToSet(Contents) \ {x}
  <2>1. Between(Contents, a, x, b)
    BY <1>0, <1>2 DEF Between, Once
  <2>2. DroppedFrom(Contents, a, x, b, live)
    BY <1>3, <2>1, Dropped
  <2> QED BY <2>2 DEF DroppedFrom
<1>7. live' = live \ {x}
  BY <1>0, <1>2, <1>5, <1>6 DEF Once
<1>8. Once' /\ Simulates
  BY <1>0, <1>2, <1>7, Leaves
<1> QED BY <1>0, <1>4, <1>8 DEF IInv, PollStands

\* A new queue satisfies the invariant and is a new LiveQueue.
LEMMA InitQueue == Init => IInv /\ Abs!Init
<1> SUFFICES ASSUME Init PROVE IInv /\ Abs!Init
  OBVIOUS
<1>0. front = <<>> /\ rear = <<>> /\ live = {} /\ seen = NoItem /\ fresh = Items /\ got = NoItem
  BY DEF Init
<1>1. Reverse(<<>>) = <<>> /\ ToSet(<<>>) = {} /\ IsInjective(<<>>)
  BY SmallLists
<1>2. <<>> \in Seq(Items) /\ <<>> \o <<>> = <<>>
  BY ConcatEmptySeq
<1>3. Contents = <<>>
  BY <1>0, <1>1, <1>2 DEF Contents
<1>4. Filter(<<>>, {}) = <<>>
  BY <1>1, <1>2, FilterAll
<1>5. Abs!Init
  BY <1>0, <1>3, <1>4 DEF Abs!Init, Live
<1>6. IInv
  BY <1>0, <1>1, <1>2, <1>3 DEF IInv, TypeOK, Once, PollStands
<1> QED BY <1>5, <1>6

\* One lemma per operation.
LEMMA QueueStep ==
    ASSUME IInv, [Next]_vars
    PROVE  IInv' /\ [Abs!Next]_<<Live(Contents), got>>
<1>1. ASSUME Next PROVE IInv' /\ Simulates
  <2>1. ASSUME NEW x \in Items, enqueue(x) \/ cleanAndEnqueue(x) \/ cancel(x)
        PROVE  IInv' /\ Simulates
    BY <2>1, EnqueueStep, CleanAndEnqueueStep, CancelStep
  <2>2. ASSUME NEW P \in SUBSET Items, remove(P) PROVE IInv' /\ Simulates
    BY <2>2, RemoveStep
  <2> QED BY <1>1, <2>1, <2>2, CleanAndChkStep, CleanAndRemoveStep, DequeueStep, ResetStep DEF Next
<1>2. CASE UNCHANGED vars
  BY <1>2 DEF vars, IInv, TypeOK, Once, PollStands, Contents, Live
<1> QED BY <1>1, <1>2 DEF Simulates

\* The queue of live items behaves as LiveQueue says, for any number of items
\* and operations: every live item is handed out once, oldest first.
THEOREM QueueRefines == Spec => Abs!Spec
<1>1. IInv /\ [Next]_vars => IInv' /\ [Abs!Next]_<<Live(Contents), got>>
  BY QueueStep
<1> QED BY InitQueue, <1>1, PTL DEF Spec, Abs!Spec

\* Where the item that remove has taken out was.
LEMMA RemovedAt ==
    ASSUME IInv, NEW P \in SUBSET Items, remove(P)
    PROVE  \E k \in Matches(Contents, P) : Contents' = RemoveAt(Contents, k)
<1>1. PICK x \in P : Without(x)
  BY RemoveTakesOne
<1>2. PICK a \in Seq(Items), b \in Seq(Items) :
        Contents = a \o (<<x>> \o b) /\ Contents' = a \o b
  BY <1>1 DEF Without
<1>3. CutOut(Contents, x, Contents')
  BY <1>2, Middle
<1> QED BY <1>3 DEF CutOut, Matches, RemoveAt

\* The doFn of an event finds at the head what its poll saw, whatever has been
\* cancelled in between, and raises Match only if that very item was.
THEOREM PollsAreMet == Spec => DequeueMeetsPoll
<1>1. IInv /\ [Next]_vars => IInv'
  BY QueueStep
<1>2. IInv /\ [Next]_vars =>
         [dequeue => \/ seen \in live /\ got' = seen /\ ~raised'
                     \/ seen \notin live /\ raised' /\ live' = live]_vars
  <2> SUFFICES ASSUME IInv, dequeue
               PROVE  \/ seen \in live /\ got' = seen /\ ~raised'
                      \/ seen \notin live /\ raised' /\ live' = live
    OBVIOUS
  <2>1. front # <<>> /\ Head(front) = seen
    BY DEF dequeue, IInv, PollStands
  <2>2. /\ live' = live \ {seen}
        /\ \/ seen \in live /\ got' = seen /\ raised' = FALSE
           \/ seen \notin live /\ raised' = TRUE
    BY <2>1 DEF dequeue
  <2> QED BY <2>2
<1> QED BY InitQueue, <1>1, <1>2, PTL DEF Spec, DequeueMeetsPoll

\* The two lists are the queue of live items; a thread that blocks on a
\* channel leaves no cancelled item in its queue; a dequeue meets what its
\* poll saw; and a removal takes out one item that matches its predicate.
THEOREM QueueImplements == Spec => Implements
<1>1. IInv /\ [Next]_vars => IInv'
  BY QueueStep
<1>2. IInv /\ [Next]_vars =>
         [\A x \in Items : cleanAndEnqueue(x) => Live(Contents)' = Contents']_vars
  BY CleanAndEnqueueStep
<1>3. Spec => BlockingSweeps
  BY InitQueue, <1>1, <1>2, PTL DEF Spec, BlockingSweeps
<1>4. IInv /\ [Next]_vars =>
         [\A P \in SUBSET Items :
             remove(P) => \E k \in Matches(Contents, P) : Contents' = RemoveAt(Contents, k)]_vars
  BY RemovedAt
<1>5. Spec => RemovesOne
  BY InitQueue, <1>1, <1>4, PTL DEF Spec, RemovesOne
<1> QED BY QueueRefines, PollsAreMet, <1>3, <1>5 DEF Implements
=============================================================================
