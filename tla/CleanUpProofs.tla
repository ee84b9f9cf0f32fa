--------------------------- MODULE CleanUpProofs ---------------------------
(***************************************************************************)
(* The safety of the registries (module CleanUp), proved for any threads,  *)
(* names and hooks, and any of the operations before and while CML runs,   *)
(* the unprotected unlogAll included.  NoStaleWrite is not inductive.  It  *)
(* needs what a call can be doing - unlogItem inside logItem cannot pass,  *)
(* while CML runs, the lock its caller holds (Shape) -, that one thread is *)
(* alone before CML runs (OneThread), that an overtaken thread is inside   *)
(* unlogItem (Overtook), and that the name is not in the list any more     *)
(* when addCleaner or logItem is about to add it (NewName).                *)
(***************************************************************************)
EXTENDS CleanUp, SubsequenceProofs, SequenceTheorems, TLAPS

Unique(l) == \A j, k \in DOMAIN l : l[j] = l[k] => j = k

\* removeHook and unlogItem: a list without duplicates loses the name.
LEMMA RemoveFirstProps ==
    ASSUME NEW T, NEW s \in Seq(T), NEW x, Unique(s)
    PROVE  /\ RemoveFirst(s, x) \in Seq(T) /\ Unique(RemoveFirst(s, x))
           /\ x \notin ToSet(RemoveFirst(s, x))
<1>0. DOMAIN s = 1 .. Len(s) /\ Len(s) \in Nat
  OBVIOUS
<1>1. CASE ~ \E i \in 1 .. Len(s) : s[i] = x
  BY <1>0, <1>1 DEF RemoveFirst, ToSet
<1>2. CASE \E i \in 1 .. Len(s) : s[i] = x
  <2> DEFINE I == {i \in 1 .. Len(s) : s[i] = x}
             m == Min(I)
             r == RemoveAt(s, m)
  <2>1. m \in I
    <3>1. I \in SUBSET Nat /\ I # {}
      BY <1>2
    <3> HIDE DEF I
    <3> QED BY <3>1, MinProps
  <2>2. RemoveFirst(s, x) = r
    BY <1>2 DEF RemoveFirst, SelectInSeq
  <2>3. m \in 1 .. Len(s) /\ s[m] = x
    BY <2>1
  <2> HIDE DEF I, m
  <2>4. /\ r \in Seq(T) /\ Len(r) = Len(s) - 1
        /\ \A k \in 1 .. Len(s) - 1 : r[k] = IF k < m THEN s[k] ELSE s[k + 1]
    BY <2>3, RemoveAtProps
  <2> DEFINE old(k) == IF k < m THEN k ELSE k + 1
  <2>5. ASSUME NEW k \in 1 .. Len(s) - 1
        PROVE  old(k) \in 1 .. Len(s) /\ old(k) # m /\ r[k] = s[old(k)]
    BY <1>0, <2>3, <2>4
  <2>6. DOMAIN r = 1 .. Len(s) - 1
    <3> HIDE DEF r
    <3> QED BY <2>4
  <2>7. x \notin ToSet(r)
    <3> SUFFICES ASSUME NEW k \in 1 .. Len(s) - 1 PROVE r[k] # x
      BY <2>6 DEF ToSet
    <3> QED BY <1>0, <2>3, <2>5 DEF Unique
  <2>8. Unique(r)
    <3> SUFFICES ASSUME NEW j \in 1 .. Len(s) - 1, NEW k \in 1 .. Len(s) - 1, r[j] = r[k]
                 PROVE  j = k
      BY <2>6 DEF Unique
    <3>1. old(j) = old(k)
      <4> HIDE DEF old
      <4> QED BY <1>0, <2>5 DEF Unique
    <3> QED BY <1>0, <2>3, <3>1
  <2> HIDE DEF r
  <2> QED BY <2>2, <2>4, <2>7, <2>8
<1> QED BY <1>1, <1>2

\* Filtering a list without duplicates introduces none.
LEMMA FilterUnique ==
    ASSUME NEW T, NEW s \in Seq(T), NEW K \in SUBSET DOMAIN s, Unique(s)
    PROVE  SubSeqAt(s, K) \in Seq(T) /\ Unique(SubSeqAt(s, K))
<1> DEFINE u == SubSeqAt(s, K)
<1>1. u \in Seq(T) /\ Len(u) \in Nat
  BY SubSeqAtProps
<1>2. PICK h : Enumerates(h, Len(u), K) /\ \A j \in 1 .. Len(u) : u[j] = s[h[j]]
  BY SubSeqAtProps
<1> HIDE DEF u
<1>3. ASSUME NEW j \in 1 .. Len(u), NEW k \in 1 .. Len(u), u[j] = u[k] PROVE j = k
  <2>1. h[j] \in DOMAIN s /\ h[k] \in DOMAIN s /\ s[h[j]] = s[h[k]]
    BY <1>2, <1>3 DEF Enumerates
  <2>2. h[j] = h[k] /\ h[j] \in Nat
    BY <2>1 DEF Unique
  <2>3. ~ (j < k) /\ ~ (k < j)
    BY <1>2, <2>2 DEF Enumerates
  <2> QED BY <1>1, <2>3
<1> QED BY <1>1, <1>3 DEF Unique, u

\* Putting a new name in front.
LEMMA ConsUnique ==
    ASSUME NEW T, NEW s \in Seq(T), NEW x \in T, Unique(s), x \notin ToSet(s)
    PROVE  <<x>> \o s \in Seq(T) /\ Unique(<<x>> \o s)
<1> DEFINE u == <<x>> \o s
<1>1. u \in Seq(T) /\ Len(u) = Len(s) + 1 /\ Len(s) \in Nat
  OBVIOUS
<1>2. \A k \in 1 .. Len(u) : u[k] = IF k = 1 THEN x ELSE s[k - 1]
  OBVIOUS
<1> HIDE DEF u
<1>3. ASSUME NEW j \in 1 .. Len(u), NEW k \in 1 .. Len(u), u[j] = u[k] PROVE j = k
  <2>1. \A i \in 1 .. Len(u) : i # 1 => i - 1 \in DOMAIN s /\ s[i - 1] # x
    BY <1>1 DEF ToSet
  <2> QED BY <1>1, <1>2, <1>3, <2>1 DEF Unique
<1> QED BY <1>1, <1>3 DEF Unique, u

\* The queue of lockV: a thread joins at the end, the oldest leaves.
LEMMA AppendFacts ==
    ASSUME NEW q \in Seq(Threads), NEW t \in Threads, t \notin ToSet(q), IsInjective(q)
    PROVE  ToSet(Append(q, t)) = ToSet(q) \cup {t} /\ IsInjective(Append(q, t))
<1> DEFINE u == Append(q, t)
<1>1. u \in Seq(Threads) /\ Len(u) = Len(q) + 1 /\ Len(q) \in Nat
  OBVIOUS
<1>2. u[Len(q) + 1] = t /\ \A k \in 1 .. Len(q) : u[k] = q[k]
  OBVIOUS
<1>3. DOMAIN q = 1 .. Len(q) /\ DOMAIN u = 1 .. Len(q) + 1
  BY <1>1
<1> HIDE DEF u
<1>4. \A k \in 1 .. Len(q) + 1 : k \in 1 .. Len(q) \/ k = Len(q) + 1
  BY <1>1
<1>5. ToSet(u) = ToSet(q) \cup {t}
  BY <1>1, <1>2, <1>3, <1>4 DEF ToSet
<1>6. IsInjective(u)
  BY <1>1, <1>2, <1>3, <1>4 DEF ToSet, IsInjective
<1> QED BY <1>5, <1>6 DEF u

\* When the oldest leaves, the others are still waiting, each of them once.
LEMMA TailFacts ==
    ASSUME NEW q \in Seq(Threads), q # <<>>, IsInjective(q)
    PROVE  /\ Head(q) \in Threads /\ Tail(q) \in Seq(Threads)
           /\ Head(q) \in ToSet(q) /\ ToSet(Tail(q)) = ToSet(q) \ {Head(q)} /\ IsInjective(Tail(q))
<1> DEFINE u == Tail(q)
<1>1. u \in Seq(Threads) /\ Len(u) = Len(q) - 1 /\ Len(q) \in Nat /\ Len(q) > 0
  OBVIOUS
<1>2. Head(q) = q[1] /\ \A k \in 1 .. Len(q) - 1 : u[k] = q[k + 1]
  OBVIOUS
<1>3. DOMAIN q = 1 .. Len(q) /\ DOMAIN u = 1 .. Len(q) - 1
  BY <1>1
<1> HIDE DEF u
<1>4. Head(q) \in ToSet(q) /\ Head(q) \in Threads
  BY <1>1, <1>2, <1>3 DEF ToSet
<1>5. \A k \in 1 .. Len(q) : k = 1 \/ k - 1 \in 1 .. Len(q) - 1
  BY <1>1
<1>6. ToSet(u) \subseteq ToSet(q) \ {Head(q)}
  BY <1>1, <1>2, <1>3, SMTT(30) DEF ToSet, IsInjective
<1>7. ASSUME NEW k \in 1 .. Len(q), q[k] # Head(q) PROVE q[k] \in ToSet(u)
  <2>1. k - 1 \in 1 .. Len(q) - 1 /\ u[k - 1] = q[k]
    BY <1>1, <1>2, <1>5, <1>7
  <2> QED BY <1>3, <2>1 DEF ToSet
<1>8. IsInjective(u)
  BY <1>1, <1>2, <1>3, SMTT(30) DEF IsInjective
<1>9. ToSet(u) = ToSet(q) \ {Head(q)}
  BY <1>3, <1>6, <1>7 DEF ToSet
<1> QED BY <1>1, <1>4, <1>8, <1>9 DEF u

\* Filter keeps a list without duplicates one.
LEMMA FilterIsUnique ==
    ASSUME NEW T, NEW s \in Seq(T), NEW A, Unique(s)
    PROVE  Filter(s, A) \in Seq(T) /\ Unique(Filter(s, A))
<1>1. Where(s, A) \in SUBSET DOMAIN s
  BY DEF Where
<1> QED BY <1>1, FilterUnique DEF Filter

\* clean applies hooks.
LEMMA ApplicableType ==
    ASSUME NEW l \in Seq(Names), NEW when
    PROVE  Applicable(l, when) \in Seq(Names)
<1> DEFINE s == Filter(l, {x \in Names : when \in WhenLst[x]})
<1>1. s \in Seq(Names)
  BY FilterProps
<1> HIDE DEF s
<1>2. Reverse(s) \in Seq(Names)
  BY <1>1 DEF Reverse
<1> QED BY <1>1, <1>2 DEF Applicable, s

-----------------------------------------------------------------------------
(* The inductive invariant. *)

Places == {"idle", "lock", "blocked", "read", "reread", "write", "cons", "raise", "unlock",
           "apply", "unlogAll", "export"}
Frames == [op : Operations \cup {None}, x : Names \cup {None}, when : Whens \cup {None},
           at : Places, inner : BOOLEAN, read : Seq(Names), todo : Seq(Names)]

TypeOK ==
    /\ running \in BOOLEAN
    /\ owner \in Threads \cup {NoThread} /\ lockQ \in Seq(Threads)
    /\ thr \in [Threads -> Frames]
    /\ hooks \in Seq(Names) /\ items \in Seq(Names)
    /\ calls \in [Threads -> Nat]
    /\ overtaken \in SUBSET Threads

\* What a call can be doing, place by place.  unlogItem inside logItem never
\* passes the lock while CML runs, and so logItem itself gets no further.
Shape(t) ==
    LET f == thr[t] IN
    /\ Unique(f.read)
    /\ f.op \in NamedOps => f.x \in Names
    /\ f.at \in {"lock", "blocked", "read"} => f.op \in NamedOps \cup {"clean"}
    /\ f.at = "reread" => f.op \in {"add", "log", "clean"}
    /\ f.at = "cons" => f.op \in {"add", "log"}
    /\ f.at = "write" => f.op \in {"add", "remove", "unlog", "clean"} \/ f.inner
    /\ f.at \in {"raise", "unlock"} => f.op # None
    /\ f.at = "export" => ~ running
    /\ f.inner => /\ f.op = "log" /\ f.at \in {"lock", "blocked", "read", "write", "raise", "unlock"}
                  /\ running => f.at \in {"lock", "blocked"}
    /\ f.op = "log" /\ ~ f.inner /\ f.at \in {"reread", "cons", "unlock"} => ~ running

\* a list that unlogItem has read may be out of date, no other
Overtook(t) == t \in overtaken => running /\ thr[t].op = "unlog" /\ thr[t].at = "write"

\* about to be added, and not there
NewName(t) ==
    LET f == thr[t] IN
    /\ f.op = "add" /\ f.at \in {"reread", "cons"} => f.x \notin ToSet(hooks)
    /\ \/ f.inner /\ f.at \in {"raise", "unlock"}
       \/ f.op = "log" /\ ~ f.inner /\ f.at \in {"reread", "cons"}
       => f.x \notin ToSet(items)

\* one conjunct of WritesAreFresh
Fresh(t) ==
    /\ thr[t].at \in {"write", "cons"} /\ t \notin overtaken =>
          thr[t].read = IF thr[t].op \in {"log", "unlog"} THEN items ELSE hooks
    /\ thr[t].op = "clean" /\ thr[t].at \in {"reread", "write"} =>
          thr[t].todo = Applicable(hooks, thr[t].when)

Local == \A t \in Threads : Shape(t) /\ Overtook(t) /\ NewName(t) /\ Fresh(t)

\* Before CML runs there is one thread, and nobody takes the lock.
OneThread ==
    ~ running => owner = NoThread /\ lockQ = <<>> /\ \A t \in Threads \ {Main} : thr[t].at = "idle"

IInv == TypeOK /\ Local /\ OneThread /\ LockHeld /\ NamesAreUnique

\* The thread that is inside a protected function, or is about to be, is the
\* only one.
LEMMA Exclusive ==
    ASSUME IInv, NEW t \in Threads, NEW u \in Threads, t # u, thr[t].at # "idle",
           Inside(t) \/ ~ running
    PROVE  ~ Inside(u) /\ u \notin overtaken /\ (~ running => thr[u].at = "idle")
<1>1. CASE ~ running
  <2>1. thr[u].at = "idle"
    BY <1>1 DEF IInv, OneThread
  <2> QED BY <1>1, <2>1 DEF IInv, Local, Shape, Overtook, Inside
<1>2. CASE running
  <2>1. owner = t
    BY <1>2 DEF IInv, LockHeld
  <2>2. ~ Inside(u)
    BY <1>2, <2>1 DEF IInv, LockHeld
  <2> QED BY <1>2, <2>2 DEF IInv, Local, Overtook, Inside
<1> QED BY <1>1, <1>2 DEF IInv, TypeOK

\* What holds of a thread that is outside: nothing about the lists.
LEMMA Outside ==
    ASSUME NEW u \in Threads, Shape(u), ~ Inside(u), u \notin overtaken,
           thr'[u] = thr[u], running' = running, u \notin overtaken'
    PROVE  Shape(u)' /\ Overtook(u)' /\ NewName(u)' /\ Fresh(u)'
<1>1. /\ ~ thr[u].inner
      /\ thr[u].at \notin {"read", "reread", "write", "cons", "raise", "unlock"}
  BY DEF Inside
<1>2. Shape(u)'
  BY DEF Shape
<1> QED BY <1>1, <1>2 DEF Overtook, NewName, Fresh

\* The registries are empty at first.
LEMMA InitIInv == Init => IInv
<1> SUFFICES ASSUME Init PROVE IInv
  OBVIOUS
<1> USE CleanUpAssumption DEF Init
<1>0. <<>> \in Seq(Names) /\ <<>> \in Seq(Threads) /\ Unique(<<>>)
  BY DEF Unique
<1>1. Idle \in Frames
  BY <1>0 DEF Frames, Idle, Places, None
<1>2. TypeOK
  BY <1>0, <1>1 DEF TypeOK
<1>3. Local
  <2> SUFFICES ASSUME NEW t \in Threads PROVE Shape(t) /\ Overtook(t) /\ NewName(t) /\ Fresh(t)
    BY DEF Local
  <2>1. thr[t] = Idle
    OBVIOUS
  <2>2. Shape(t)
    BY <1>0, <2>1 DEF Shape, Idle, None, NamedOps
  <2> QED BY <2>1, <2>2 DEF Overtook, NewName, Fresh, Idle
<1>4. OneThread
  BY DEF OneThread, Idle
<1>5. LockHeld
  BY DEF LockHeld, Inside, Idle, ToSet, IsInjective
<1>6. NamesAreUnique
  BY DEF NamesAreUnique
<1> QED BY <1>2, <1>3, <1>4, <1>5, <1>6 DEF IInv

\* What a step has to show that leaves the threads other than t alone.
Others(t) == \A u \in Threads \ {t} : thr'[u] = thr[u]

LEMMA InsideSame ==
    ASSUME NEW u, thr'[u] = thr[u]
    PROVE  Inside(u)' <=> Inside(u)
  BY DEF Inside

\* A call starts outside the lock.
LEMMA CallStep ==
    ASSUME IInv, NEW t \in Threads, NEW op \in InitOps \cup Ops, NEW x \in Names, NEW when \in Whens,
           call(t, op, x, when)
    PROVE  IInv'
<1> USE CleanUpAssumption
<1> DEFINE g == Frame(op, x, when)
<1>0. TypeOK /\ Local /\ OneThread /\ LockHeld /\ NamesAreUnique
  BY DEF IInv
<1>1. op \in Operations
  OBVIOUS
<1>2. /\ g \in Frames /\ g.op = op /\ ~ g.inner /\ g.read = <<>>
      /\ op \in NamedOps => g.x = x
      /\ g.at \in {"lock", "unlogAll", "export"}
      /\ g.at = "lock" => op \in NamedOps \cup {"clean"}
      /\ g.at = "export" => op = "export"
  <2>1. <<>> \in Seq(Names)
    OBVIOUS
  <2> QED BY <1>1, <2>1 DEF Frame, Frames, Places, Operations, None
<1>3. /\ thr' = [thr EXCEPT ![t] = g] /\ thr[t].at = "idle"
      /\ UNCHANGED <<running, owner, lockQ, hooks, items, overtaken>>
      /\ ~ running => t = Main
      /\ running => op \in Ops
      /\ calls' = [calls EXCEPT ![t] = @ + 1]
  BY DEF call
<1> HIDE DEF g
<1>4. thr'[t] = g /\ Others(t)
  BY <1>0, <1>3 DEF TypeOK, Others
<1>5. TypeOK'
  BY <1>0, <1>2, <1>3 DEF TypeOK
<1>6. Local'
  <2>1. Shape(t)'
    BY <1>2, <1>3, <1>4 DEF Shape, Unique
  <2>2. t \notin overtaken
    BY <1>0, <1>3 DEF Local, Overtook
  <2>3. Overtook(t)' /\ NewName(t)' /\ Fresh(t)'
    BY <1>2, <1>3, <1>4, <2>2 DEF Overtook, NewName, Fresh
  <2>4. ASSUME NEW u \in Threads \ {t} PROVE Shape(u)' /\ Overtook(u)' /\ NewName(u)' /\ Fresh(u)'
    <3>1. thr'[u] = thr[u] /\ Shape(u) /\ Overtook(u) /\ NewName(u) /\ Fresh(u)
      BY <1>0, <1>4 DEF Local, Others
    <3>2. Shape(u)'
      BY <1>3, <3>1 DEF Shape
    <3>3. Overtook(u)' /\ NewName(u)'
      BY <1>3, <3>1 DEF Overtook, NewName
    <3>4. Fresh(u)'
      BY <1>3, <3>1 DEF Fresh
    <3> QED BY <3>2, <3>3, <3>4
  <2> QED BY <2>1, <2>3, <2>4 DEF Local
<1>7. OneThread'
  BY <1>0, <1>3, <1>4 DEF OneThread, Others
<1>8. LockHeld'
  <2>1. ~ Inside(t) /\ ~ Inside(t)'
    BY <1>0, <1>2, <1>3, <1>4 DEF Inside, Local, Shape
  <2>2. \A u \in Threads : Inside(u)' <=> Inside(u)
    BY <1>4, <2>1, InsideSame DEF Others
  <2>3. \A u \in Threads : thr'[u].at = "blocked" <=> thr[u].at = "blocked"
    BY <1>2, <1>3, <1>4 DEF Others
  <2> QED BY <1>0, <1>3, <2>2, <2>3 DEF LockHeld
<1>9. NamesAreUnique'
  BY <1>0, <1>3 DEF NamesAreUnique
<1> QED BY <1>5, <1>6, <1>7, <1>8, <1>9 DEF IInv

\* CML starts to run between calls.
LEMMA DoitStep ==
    ASSUME IInv, doit
    PROVE  IInv'
<1> USE CleanUpAssumption
<1>0. TypeOK /\ Local /\ OneThread /\ LockHeld /\ NamesAreUnique
  BY DEF IInv
<1>1. ~ running /\ running' /\ UNCHANGED <<owner, lockQ, thr, hooks, items, calls, overtaken>>
  BY DEF doit
<1>2. \A t \in Threads : thr[t].at = "idle" /\ thr'[t].at = "idle"
  BY <1>0, <1>1 DEF OneThread, doit
<1>3. \A t \in Threads : ~ Inside(t) /\ ~ Inside(t)' /\ t \notin overtaken
  BY <1>0, <1>1, <1>2 DEF Inside, Local, Shape, Overtook
<1>4. TypeOK'
  BY <1>0, <1>1 DEF TypeOK
<1>5. Local'
  <2> SUFFICES ASSUME NEW t \in Threads PROVE (Shape(t) /\ Overtook(t) /\ NewName(t) /\ Fresh(t))'
    BY DEF Local
  <2>1. Shape(t) /\ thr'[t] = thr[t] /\ thr[t].at = "idle" /\ ~ thr[t].inner
    BY <1>0, <1>1, <1>2, <1>3 DEF Local, Inside
  <2>2. Shape(t)'
    BY <2>1 DEF Shape
  <2> QED BY <1>1, <1>3, <2>1, <2>2 DEF Overtook, NewName, Fresh
<1>6. OneThread'
  BY <1>1 DEF OneThread
<1>7. owner = NoThread /\ lockQ = <<>>
  BY <1>0, <1>1 DEF OneThread
<1>8. LockHeld'
  BY <1>0, <1>1, <1>3, <1>7 DEF LockHeld
<1>9. NamesAreUnique'
  BY <1>0, <1>1 DEF NamesAreUnique
<1> QED BY <1>4, <1>5, <1>6, <1>8, <1>9 DEF IInv

\* A step of t inside its call that leaves the lock and the lists alone: it is
\* enough to look at t.
LEMMA QuietStep ==
    ASSUME IInv, NEW t \in Threads, NEW g \in Frames, thr' = [thr EXCEPT ![t] = g],
           UNCHANGED <<running, owner, lockQ, hooks, items, calls, overtaken>>,
           thr[t].at # "idle", thr[t].at # "blocked", g.at # "blocked",
           Inside(t)' <=> Inside(t), t \notin overtaken,
           Shape(t)', NewName(t)', Fresh(t)'
    PROVE  IInv'
<1> USE CleanUpAssumption
<1>0. TypeOK /\ Local /\ OneThread /\ LockHeld /\ NamesAreUnique
  BY DEF IInv
<1>1. thr'[t] = g /\ Others(t)
  BY <1>0 DEF TypeOK, Others
<1>2. TypeOK'
  BY <1>0 DEF TypeOK
<1>3. Local'
  <2>1. ASSUME NEW u \in Threads \ {t} PROVE Shape(u)' /\ Overtook(u)' /\ NewName(u)' /\ Fresh(u)'
    <3>1. thr'[u] = thr[u] /\ Shape(u) /\ Overtook(u) /\ NewName(u) /\ Fresh(u)
      BY <1>0, <1>1 DEF Local, Others
    <3>2. Shape(u)'
      BY <3>1 DEF Shape
    <3>3. Overtook(u)' /\ NewName(u)'
      BY <3>1 DEF Overtook, NewName
    <3>4. Fresh(u)'
      BY <3>1 DEF Fresh
    <3> QED BY <3>2, <3>3, <3>4
  <2>2. Overtook(t)'
    BY DEF Overtook
  <2> QED BY <2>1, <2>2 DEF Local
<1>4. OneThread'
  BY <1>0, <1>1 DEF OneThread, Others
<1>5. LockHeld'
  <2>1. \A u \in Threads : Inside(u)' <=> Inside(u)
    BY <1>1, InsideSame DEF Others
  <2>2. \A u \in Threads : thr'[u].at = "blocked" <=> thr[u].at = "blocked"
    BY <1>1 DEF Others
  <2> QED BY <1>0, <2>1, <2>2 DEF LockHeld
<1>6. NamesAreUnique'
  BY <1>0 DEF NamesAreUnique
<1> QED BY <1>2, <1>3, <1>4, <1>5, <1>6 DEF IInv

\* lock: nobody is inside when the lock is free, and whoever finds it taken waits.
LEMMA LockStep ==
    ASSUME IInv, NEW t \in Threads, lock(t)
    PROVE  IInv'
<1> USE CleanUpAssumption
<1>0. TypeOK /\ Local /\ OneThread /\ LockHeld /\ NamesAreUnique
  BY DEF IInv
<1>1. thr[t].at = "lock" /\ UNCHANGED <<running, hooks, items, calls, overtaken>>
  BY DEF lock
<1>2. t \notin overtaken /\ thr[t] \in Frames /\ Shape(t)
  BY <1>0, <1>1 DEF Local, Overtook, TypeOK
<1>3. ASSUME NEW at \in {"read", "blocked"}, thr' = [thr EXCEPT ![t].at = at],
             running => owner = NoThread \/ at = "blocked"
      PROVE  /\ thr' \in [Threads -> Frames]
             /\ thr'[t] = [thr[t] EXCEPT !.at = at] /\ thr'[t].at = at
             /\ thr'[t].inner = thr[t].inner /\ Others(t)
             /\ Local' /\ (~ running => t = Main) /\ NamesAreUnique'
             /\ running /\ at = "read" => ~ thr[t].inner
  <2>1. [thr[t] EXCEPT !.at = at] \in Frames
    BY <1>2 DEF Frames, Places
  <2>2. thr' \in [Threads -> Frames] /\ thr'[t] = [thr[t] EXCEPT !.at = at] /\ Others(t)
    BY <1>0, <1>3, <2>1 DEF TypeOK, Others
  <2>3. /\ thr'[t].at = at /\ thr'[t].inner = thr[t].inner /\ thr'[t].op = thr[t].op
        /\ thr'[t].x = thr[t].x /\ thr'[t].read = thr[t].read
    BY <1>2, <2>2 DEF Frames
  <2>4. running /\ at = "read" => ~ thr[t].inner
    BY <1>0, <1>3 DEF LockHeld, Inside
  <2>5. Shape(t)'
    BY <1>1, <1>2, <1>3, <2>3, <2>4 DEF Shape
  <2>6. Overtook(t)' /\ NewName(t)' /\ Fresh(t)'
    BY <1>1, <1>2, <1>3, <2>3 DEF Overtook, NewName, Fresh
  <2>7. ASSUME NEW u \in Threads \ {t} PROVE Shape(u)' /\ Overtook(u)' /\ NewName(u)' /\ Fresh(u)'
    <3>1. thr'[u] = thr[u] /\ Shape(u) /\ Overtook(u) /\ NewName(u) /\ Fresh(u)
      BY <1>0, <2>2 DEF Local, Others
    <3>2. Shape(u)'
      BY <1>1, <3>1 DEF Shape
    <3>3. Overtook(u)' /\ NewName(u)'
      BY <1>1, <3>1 DEF Overtook, NewName
    <3>4. Fresh(u)'
      BY <1>1, <3>1 DEF Fresh
    <3> QED BY <3>2, <3>3, <3>4
  <2>8. Local'
    BY <2>5, <2>6, <2>7 DEF Local
  <2>9. ~ running => t = Main
    BY <1>0, <1>1 DEF OneThread
  <2>10. NamesAreUnique'
    BY <1>0, <1>1 DEF NamesAreUnique
  <2> QED BY <2>2, <2>3, <2>4, <2>8, <2>9, <2>10
<1>4. CASE ~ running /\ thr' = [thr EXCEPT ![t].at = "read"] /\ UNCHANGED <<owner, lockQ>>
  <2>1. thr' \in [Threads -> Frames] /\ thr'[t].at = "read" /\ Others(t) /\ Local' /\ t = Main
        /\ NamesAreUnique'
    BY <1>3, <1>4
  <2>2. TypeOK'
    BY <1>0, <1>1, <1>4, <2>1 DEF TypeOK
  <2>3. OneThread'
    BY <1>0, <1>1, <1>4, <2>1 DEF OneThread, Others
  <2>4. LockHeld'
    <3>1. \A u \in Threads : thr'[u].at = "blocked" <=> thr[u].at = "blocked"
      BY <1>1, <2>1 DEF Others
    <3> QED BY <1>0, <1>1, <1>4, <3>1 DEF LockHeld
  <2> QED BY <2>1, <2>2, <2>3, <2>4 DEF IInv
<1>5. CASE running /\ owner = NoThread /\ owner' = t /\ thr' = [thr EXCEPT ![t].at = "read"]
           /\ UNCHANGED lockQ
  <2>1. thr' \in [Threads -> Frames] /\ thr'[t].at = "read" /\ Others(t) /\ Local'
        /\ NamesAreUnique'
    BY <1>3, <1>5
  <2>2. TypeOK'
    BY <1>0, <1>1, <1>5, <2>1 DEF TypeOK
  <2>3. OneThread'
    BY <1>1, <1>5 DEF OneThread
  <2>4. LockHeld'
    <3>1. \A u \in Threads : thr'[u].at = "blocked" <=> thr[u].at = "blocked"
      BY <1>1, <2>1 DEF Others
    <3>2. Inside(t)'
      BY <2>1 DEF Inside
    <3>3. \A u \in Threads \ {t} : ~ Inside(u)'
      BY <1>0, <1>5, <2>1, InsideSame DEF LockHeld, Others
    <3> QED BY <1>0, <1>1, <1>5, <3>1, <3>2, <3>3 DEF LockHeld
  <2> QED BY <2>1, <2>2, <2>3, <2>4 DEF IInv
<1>6. CASE running /\ owner # NoThread /\ lockQ' = Append(lockQ, t)
           /\ thr' = [thr EXCEPT ![t].at = "blocked"] /\ UNCHANGED owner
  <2>1. thr' \in [Threads -> Frames] /\ thr'[t].at = "blocked" /\ thr'[t].inner = thr[t].inner
        /\ Others(t) /\ Local' /\ NamesAreUnique'
    BY <1>3, <1>6
  <2>2. TypeOK'
    BY <1>0, <1>1, <1>6, <2>1 DEF TypeOK
  <2>3. OneThread'
    BY <1>1, <1>6 DEF OneThread
  <2>4. LockHeld'
    <3>1. t \notin ToSet(lockQ)
      BY <1>0, <1>1 DEF LockHeld
    <3>2. ToSet(lockQ') = ToSet(lockQ) \cup {t} /\ IsInjective(lockQ')
      BY <1>0, <1>6, <3>1, AppendFacts DEF TypeOK, LockHeld
    <3>3. \A u \in Threads : thr'[u].at = "blocked" <=> thr[u].at = "blocked" \/ u = t
      BY <1>1, <2>1 DEF Others
    <3>4. Inside(t)' <=> Inside(t)
      BY <1>1, <2>1 DEF Inside
    <3>5. \A u \in Threads : Inside(u)' <=> Inside(u)
      BY <2>1, <3>4, InsideSame DEF Others
    <3> QED BY <1>0, <1>1, <1>6, <3>2, <3>3, <3>5 DEF LockHeld
  <2> QED BY <2>1, <2>2, <2>3, <2>4 DEF IInv
<1> QED BY <1>4, <1>5, <1>6 DEF lock

\* read: the caller holds the lock; logItem goes on to take it again.
LEMMA ReadStep ==
    ASSUME IInv, NEW t \in Threads, read(t)
    PROVE  IInv'
<1> USE CleanUpAssumption
<1> DEFINE f == thr[t]
<1>0. TypeOK /\ Local /\ OneThread /\ LockHeld /\ NamesAreUnique
  BY DEF IInv
<1>1. f.at = "read" /\ UNCHANGED <<running, owner, lockQ, hooks, items, calls, overtaken>>
  BY DEF read
<1>2. t \notin overtaken /\ f \in Frames /\ Shape(t) /\ Inside(t)
  BY <1>0, <1>1 DEF Local, Overtook, TypeOK, Inside
<1>3. hooks \in Seq(Names) /\ items \in Seq(Names) /\ Unique(hooks) /\ Unique(items)
  BY <1>0 DEF TypeOK, NamesAreUnique, Unique
<1>4. ASSUME NEW g \in Frames, thr' = [thr EXCEPT ![t] = g]
      PROVE  thr'[t] = g
  BY <1>0, <1>4 DEF TypeOK
<1>5. CASE f.op = "add"
  <2> DEFINE g == [f EXCEPT !.at = IF f.x \in ToSet(hooks) THEN "write" ELSE "reread", !.read = hooks]
  <2>1. thr' = [thr EXCEPT ![t] = g]
    <3>1. ~ f.inner
      BY <1>2, <1>5 DEF Shape
    <3> QED BY <1>5, <3>1 DEF read
  <2>2. /\ g \in Frames /\ g.op = "add" /\ g.x = f.x /\ g.inner = f.inner /\ g.read = hooks
        /\ g.at \in {"write", "reread"} /\ (g.at = "reread" => f.x \notin ToSet(hooks))
    BY <1>2, <1>3, <1>5 DEF Frames, Places
  <2> HIDE DEF g
  <2>3. thr'[t] = g
    BY <1>4, <2>1, <2>2
  <2>4. Shape(t)'
    BY <1>1, <1>2, <1>3, <1>5, <2>2, <2>3 DEF Shape
  <2>5. NewName(t)' /\ Fresh(t)'
    BY <1>1, <1>2, <1>5, <2>2, <2>3 DEF NewName, Fresh, Shape
  <2>6. Inside(t)'
    BY <2>2, <2>3 DEF Inside
  <2> QED BY <1>1, <1>2, <2>1, <2>2, <2>4, <2>5, <2>6, QuietStep
<1>6. CASE f.op = "remove"
  <2> DEFINE g == [f EXCEPT !.at = IF f.x \in ToSet(hooks) THEN "write" ELSE "unlock", !.read = hooks]
  <2>1. thr' = [thr EXCEPT ![t] = g]
    <3>1. ~ f.inner
      BY <1>2, <1>6 DEF Shape
    <3> QED BY <1>6, <3>1 DEF read
  <2>2. /\ g \in Frames /\ g.op = "remove" /\ g.x = f.x /\ g.inner = f.inner /\ g.read = hooks
        /\ g.at \in {"write", "unlock"}
    BY <1>2, <1>3, <1>6 DEF Frames, Places
  <2> HIDE DEF g
  <2>3. thr'[t] = g
    BY <1>4, <2>1, <2>2
  <2>4. Shape(t)'
    BY <1>1, <1>2, <1>3, <1>6, <2>2, <2>3 DEF Shape, None
  <2>5. NewName(t)' /\ Fresh(t)'
    BY <1>1, <1>2, <1>6, <2>2, <2>3 DEF NewName, Fresh, Shape
  <2>6. Inside(t)'
    BY <2>2, <2>3 DEF Inside
  <2> QED BY <1>1, <1>2, <2>1, <2>2, <2>4, <2>5, <2>6, QuietStep
<1>7. CASE f.op = "log" /\ ~ f.inner
  <2> DEFINE g == [f EXCEPT !.at = "lock", !.inner = TRUE]
  <2>1. thr' = [thr EXCEPT ![t] = g]
    BY <1>7 DEF read
  <2>2. /\ g \in Frames /\ g.op = "log" /\ g.x = f.x /\ g.inner /\ g.read = f.read
        /\ g.at = "lock"
    BY <1>2, <1>7 DEF Frames, Places
  <2> HIDE DEF g
  <2>3. thr'[t] = g
    BY <1>4, <2>1, <2>2
  <2>4. Shape(t)'
    BY <1>1, <1>2, <1>7, <2>2, <2>3 DEF Shape
  <2>5. NewName(t)' /\ Fresh(t)'
    BY <1>1, <1>7, <2>2, <2>3 DEF NewName, Fresh
  <2>6. Inside(t)'
    BY <2>2, <2>3 DEF Inside
  <2> QED BY <1>1, <1>2, <2>1, <2>2, <2>4, <2>5, <2>6, QuietStep
<1>8. CASE f.op = "unlog" \/ f.inner
  <2> DEFINE g == [f EXCEPT !.at = IF f.x \in ToSet(items) THEN "write" ELSE "raise", !.read = items]
  <2>0. f.op \in {"log", "unlog"} /\ (f.op = "log" => f.inner) /\ (f.op = "unlog" => ~ f.inner)
        /\ (f.inner => ~ running)
    BY <1>1, <1>2, <1>8 DEF Shape
  <2>1. thr' = [thr EXCEPT ![t] = g]
    BY <2>0 DEF read
  <2>2. /\ g \in Frames /\ g.op = f.op /\ g.x = f.x /\ g.inner = f.inner /\ g.read = items
        /\ g.at \in {"write", "raise"} /\ (g.at = "raise" => f.x \notin ToSet(items))
    BY <1>2, <1>3 DEF Frames, Places
  <2> HIDE DEF g
  <2>3. thr'[t] = g
    BY <1>4, <2>1, <2>2
  <2>4. Shape(t)'
    BY <1>1, <1>2, <1>3, <2>0, <2>2, <2>3 DEF Shape, None
  <2>5. NewName(t)' /\ Fresh(t)'
    BY <1>1, <2>0, <2>2, <2>3 DEF NewName, Fresh
  <2>6. Inside(t)'
    BY <2>2, <2>3 DEF Inside
  <2> QED BY <1>1, <1>2, <2>1, <2>2, <2>4, <2>5, <2>6, QuietStep
<1>9. CASE f.op = "clean"
  <2> DEFINE a == Applicable(hooks, f.when)
             g == [f EXCEPT !.at = IF f.when = "AtInitFn" THEN "reread" ELSE "unlock", !.todo = a]
  <2>0. ~ f.inner
    BY <1>2, <1>9 DEF Shape
  <2>1. thr' = [thr EXCEPT ![t] = g]
    BY <1>9, <2>0 DEF read
  <2>2. a \in Seq(Names)
    BY <1>3, ApplicableType
  <2> HIDE DEF a
  <2>3. /\ g \in Frames /\ g.op = "clean" /\ g.x = f.x /\ ~ g.inner /\ g.read = f.read
        /\ g.when = f.when /\ g.todo = a /\ g.at \in {"reread", "unlock"}
    BY <1>2, <1>9, <2>0, <2>2 DEF Frames, Places
  <2> HIDE DEF g
  <2>4. thr'[t] = g
    BY <1>4, <2>1, <2>3
  <2>5. Shape(t)'
    BY <1>1, <1>2, <1>9, <2>3, <2>4 DEF Shape, None
  <2>6. NewName(t)' /\ Fresh(t)'
    BY <1>1, <2>3, <2>4 DEF NewName, Fresh, a
  <2>7. Inside(t)'
    BY <2>3, <2>4 DEF Inside
  <2> QED BY <1>1, <1>2, <2>1, <2>3, <2>5, <2>6, <2>7, QuietStep
<1> QED BY <1>1, <1>2, <1>5, <1>6, <1>7, <1>8, <1>9 DEF Shape, NamedOps

\* reread: the lists are those of the first read.
LEMMA RereadStep ==
    ASSUME IInv, NEW t \in Threads, reread(t)
    PROVE  IInv'
<1> USE CleanUpAssumption
<1> DEFINE f == thr[t]
           at == IF f.op = "clean" THEN "write" ELSE "cons"
           l == IF f.op = "log" THEN items ELSE hooks
           g == [f EXCEPT !.at = at, !.read = l]
<1>0. TypeOK /\ Local /\ OneThread /\ LockHeld /\ NamesAreUnique
  BY DEF IInv
<1>1. f.at = "reread" /\ UNCHANGED <<running, owner, lockQ, hooks, items, calls, overtaken>>
  BY DEF reread
<1>2. t \notin overtaken /\ f \in Frames /\ Shape(t) /\ NewName(t) /\ Fresh(t) /\ Inside(t)
  BY <1>0, <1>1 DEF Local, Overtook, TypeOK, Inside
<1>3. hooks \in Seq(Names) /\ items \in Seq(Names) /\ Unique(hooks) /\ Unique(items)
  BY <1>0 DEF TypeOK, NamesAreUnique, Unique
<1>4. thr' = [thr EXCEPT ![t] = g]
  BY <1>0 DEF reread, TypeOK
<1>5. /\ g \in Frames /\ g.op = f.op /\ g.x = f.x /\ g.inner = f.inner /\ g.read = l
      /\ g.when = f.when /\ g.todo = f.todo /\ g.at = at
  BY <1>2, <1>3 DEF Frames, Places
<1>6. thr'[t] = g
  BY <1>0, <1>4 DEF TypeOK
<1> HIDE DEF g
<1>7. Shape(t)'
  BY <1>1, <1>2, <1>3, <1>5, <1>6 DEF Shape
<1>8. NewName(t)'
  BY <1>1, <1>2, <1>5, <1>6 DEF NewName, Shape
<1>9. Fresh(t)'
  BY <1>1, <1>2, <1>5, <1>6 DEF Fresh, Shape
<1>10. Inside(t)'
  BY <1>5, <1>6 DEF Inside
<1> QED BY <1>1, <1>2, <1>4, <1>5, <1>7, <1>8, <1>9, <1>10, QuietStep

\* write: the list written back is the current one, changed, or the one
\* unlogItem has read before unlogAll.
LEMMA WriteStep ==
    ASSUME IInv, NEW t \in Threads, write(t)
    PROVE  IInv'
<1> USE CleanUpAssumption
<1> DEFINE f == thr[t]
           g == [f EXCEPT !.at = "unlock"]
<1>0. TypeOK /\ Local /\ OneThread /\ LockHeld /\ NamesAreUnique
  BY DEF IInv
<1>1. /\ f.at \in {"write", "cons"} /\ thr' = [thr EXCEPT ![t] = g]
      /\ overtaken' = overtaken \ {t} /\ UNCHANGED <<running, owner, lockQ, calls>>
  BY <1>0 DEF write, TypeOK
<1>2. f \in Frames /\ Shape(t) /\ Overtook(t) /\ NewName(t) /\ Fresh(t) /\ Inside(t)
  BY <1>0, <1>1 DEF Local, TypeOK, Inside
<1>3. /\ g \in Frames /\ g.op = f.op /\ g.x = f.x /\ g.inner = f.inner /\ g.read = f.read
      /\ g.at = "unlock"
  BY <1>2 DEF Frames, Places
<1>4. thr'[t] = g /\ Others(t)
  BY <1>0, <1>1 DEF TypeOK, Others
<1>5. hooks \in Seq(Names) /\ items \in Seq(Names) /\ Unique(hooks) /\ Unique(items)
      /\ f.read \in Seq(Names) /\ Unique(f.read)
  BY <1>0, <1>2 DEF TypeOK, NamesAreUnique, Unique, Frames, Shape
<1>6. f.op # "clean" => f.x \in Names
  BY <1>1, <1>2 DEF Shape, NamedOps
<1> HIDE DEF f, g
<1>7. /\ hooks' \in Seq(Names) /\ items' \in Seq(Names) /\ Unique(hooks') /\ Unique(items')
      /\ f.inner => f.x \notin ToSet(items')
  <2> DEFINE r == RemoveFirst(f.read, f.x)
  <2>0. r \in Seq(Names) /\ Unique(r) /\ f.x \notin ToSet(r)
    BY <1>5, RemoveFirstProps
  <2> HIDE DEF r
  <2>1. CASE f.at = "write" /\ f.op = "add" /\ hooks' = <<f.x>> \o r /\ UNCHANGED items
    <3>1. <<f.x>> \o r \in Seq(Names) /\ Unique(<<f.x>> \o r)
      BY <1>6, <2>0, <2>1, ConsUnique
    <3> QED BY <1>2, <1>5, <2>1, <3>1 DEF Shape, f
  <2>2. CASE f.at = "write" /\ f.op = "remove" /\ hooks' = r /\ UNCHANGED items
    BY <1>2, <1>5, <2>0, <2>2 DEF Shape, f
  <2>3. CASE f.at = "write" /\ f.op \in {"log", "unlog"} /\ items' = r /\ UNCHANGED hooks
    BY <1>5, <2>0, <2>3
  <2>4. CASE /\ f.at = "write" /\ f.op = "clean" /\ UNCHANGED items
             /\ hooks' = Filter(f.read, {x \in Names : "AtExit" \in WhenLst[x]})
    <3>1. hooks' \in Seq(Names) /\ Unique(hooks')
      BY <1>5, <2>4, FilterIsUnique
    <3> QED BY <1>2, <1>5, <2>4, <3>1 DEF Shape, f
  <2>5. CASE f.at = "cons" /\ f.op = "add" /\ hooks' = <<f.x>> \o f.read /\ UNCHANGED items
    <3>1. f.read = hooks /\ f.x \notin ToSet(hooks) /\ ~ f.inner
      BY <1>2, <2>5 DEF Fresh, NewName, Overtook, Shape, f
    <3> QED BY <1>5, <1>6, <2>5, <3>1, ConsUnique
  <2>6. CASE f.at = "cons" /\ f.op = "log" /\ items' = <<f.x>> \o f.read /\ UNCHANGED hooks
    <3>1. f.read = items /\ f.x \notin ToSet(items) /\ ~ f.inner
      BY <1>2, <2>6 DEF Fresh, NewName, Overtook, Shape, f
    <3> QED BY <1>5, <1>6, <2>6, <3>1, ConsUnique
  <2> QED BY <2>1, <2>2, <2>3, <2>4, <2>5, <2>6 DEF write, f, r
<1>8. TypeOK' /\ NamesAreUnique'
  BY <1>0, <1>1, <1>3, <1>7 DEF TypeOK, NamesAreUnique, Unique
<1>9. Local'
  <2>1. Shape(t)'
    BY <1>1, <1>2, <1>3, <1>4 DEF Shape, f, None
  <2>2. Overtook(t)' /\ Fresh(t)'
    BY <1>1, <1>3, <1>4 DEF Overtook, Fresh
  <2>3. NewName(t)'
    BY <1>3, <1>4, <1>7 DEF NewName
  <2>4. ASSUME NEW u \in Threads \ {t} PROVE Shape(u)' /\ Overtook(u)' /\ NewName(u)' /\ Fresh(u)'
    <3>1. ~ Inside(u) /\ u \notin overtaken
      BY <1>1, <1>2, Exclusive DEF f
    <3> QED BY <1>0, <1>1, <1>4, <3>1, Outside DEF Local, Others
  <2> QED BY <2>1, <2>2, <2>3, <2>4 DEF Local
<1>10. OneThread'
  BY <1>0, <1>1, <1>4 DEF OneThread, Others, f
<1>11. LockHeld'
  <2>1. Inside(t)'
    BY <1>3, <1>4 DEF Inside
  <2>2. \A u \in Threads : Inside(u)' <=> Inside(u)
    BY <1>2, <1>4, <2>1, InsideSame DEF Others
  <2>3. \A u \in Threads : thr'[u].at = "blocked" <=> thr[u].at = "blocked"
    BY <1>1, <1>3, <1>4 DEF Others, f
  <2> QED BY <1>0, <1>1, <2>2, <2>3 DEF LockHeld
<1> QED BY <1>8, <1>9, <1>10, <1>11 DEF IInv

\* What the frame of a function becomes when it returns.
LEMMA ReturnFacts ==
    ASSUME IInv, NEW t \in Threads, thr[t].at \in {"unlock", "raise"}
    PROVE  /\ Return(thr[t]) \in Frames /\ Unique(Return(thr[t]).read)
           /\ ~ Return(thr[t]).inner
           /\ Return(thr[t]).op \in NamedOps => Return(thr[t]).x \in Names
           /\ thr[t].inner => /\ ~ running /\ Return(thr[t]).at = "reread"
                              /\ Return(thr[t]).op = "log" /\ Return(thr[t]).x = thr[t].x
           /\ ~ thr[t].inner => Return(thr[t]).at \in {"idle", "apply"}
<1> DEFINE f == thr[t]
<1>0. f \in Frames /\ Shape(t)
  BY DEF IInv, TypeOK, Local
<1>1. <<>> \in Seq(Names) /\ Unique(<<>>)
  BY DEF Unique
<1> HIDE DEF f
<1>2. CASE f.inner
  <2>1. f.op = "log" /\ f.x \in Names /\ ~ running
    BY <1>0, <1>2 DEF Shape, f, NamedOps
  <2>2. Return(f) = [f EXCEPT !.at = "reread", !.inner = FALSE, !.read = <<>>]
    BY <1>2, <2>1 DEF Return
  <2> QED BY <1>0, <1>1, <1>2, <2>1, <2>2 DEF Frames, Places, f
<1>3. CASE ~ f.inner /\ f.op = "clean"
  <2>1. Return(f) = [f EXCEPT !.at = "apply", !.read = <<>>]
    BY <1>3 DEF Return
  <2> QED BY <1>0, <1>1, <1>3, <2>1 DEF Frames, Places, f, NamedOps
<1>4. CASE ~ f.inner /\ f.op # "clean"
  <2>1. Return(f) = Idle
    BY <1>4 DEF Return
  <2> QED BY <1>0, <1>1, <1>4, <2>1 DEF Frames, Places, f, Idle, None, NamedOps
<1> QED BY <1>2, <1>3, <1>4 DEF f

\* unlock: the frame returns and the oldest waiting thread has the lock.
LEMMA UnlockStep ==
    ASSUME IInv, NEW t \in Threads, unlock(t)
    PROVE  IInv'
<1> USE CleanUpAssumption
<1> DEFINE f == thr[t]
           g == Return(f)
<1>0. TypeOK /\ Local /\ OneThread /\ LockHeld /\ NamesAreUnique
  BY DEF IInv
<1>1. f.at \in {"unlock", "raise"} /\ UNCHANGED <<running, hooks, items, calls, overtaken>>
  BY DEF unlock
<1>2. f \in Frames /\ Shape(t) /\ NewName(t) /\ Inside(t) /\ t \notin overtaken
  BY <1>0, <1>1 DEF Local, TypeOK, Inside, Overtook
<1>3. /\ g \in Frames /\ Unique(g.read) /\ ~ g.inner
      /\ g.op \in NamedOps => g.x \in Names
      /\ f.inner => ~ running /\ g.at = "reread" /\ g.op = "log" /\ g.x = f.x
      /\ ~ f.inner => g.at \in {"idle", "apply"}
  BY <1>1, ReturnFacts
<1>4. \A u \in Threads \ {t} : ~ Inside(u) /\ u \notin overtaken
  BY <1>1, <1>2, Exclusive
<1>5. NamesAreUnique'
  BY <1>0, <1>1 DEF NamesAreUnique
<1> HIDE DEF g
<1>6. ASSUME thr'[t] = g PROVE Shape(t)' /\ Overtook(t)' /\ NewName(t)' /\ Fresh(t)'
  <2>1. Shape(t)'
    BY <1>1, <1>3, <1>6 DEF Shape
  <2>2. NewName(t)'
    BY <1>1, <1>2, <1>3, <1>6 DEF NewName
  <2>3. Overtook(t)' /\ Fresh(t)'
    BY <1>1, <1>2, <1>3, <1>6 DEF Overtook, Fresh
  <2> QED BY <2>1, <2>2, <2>3
<1>7. CASE lockQ = <<>> /\ owner' = NoThread /\ lockQ' = lockQ /\ thr' = [thr EXCEPT ![t] = g]
  <2>1. thr'[t] = g /\ Others(t)
    BY <1>0, <1>7 DEF TypeOK, Others
  <2>2. TypeOK'
    BY <1>0, <1>1, <1>3, <1>7 DEF TypeOK
  <2>3. Local'
    <3>1. ASSUME NEW u \in Threads \ {t} PROVE Shape(u)' /\ Overtook(u)' /\ NewName(u)' /\ Fresh(u)'
      BY <1>0, <1>1, <1>4, <2>1, Outside DEF Local, Others
    <3> QED BY <1>6, <2>1, <3>1 DEF Local
  <2>4. OneThread'
    BY <1>0, <1>1, <1>7, <2>1 DEF OneThread, Others
  <2>5. LockHeld'
    <3>1. \A u \in Threads \ {t} : ~ Inside(u)'
      BY <1>4, <2>1, InsideSame DEF Others
    <3>2. running => ~ Inside(t)'
      BY <1>3, <2>1 DEF Inside
    <3>3. \A u \in Threads : thr'[u].at = "blocked" <=> thr[u].at = "blocked"
      BY <1>1, <1>3, <2>1 DEF Others
    <3> QED BY <1>0, <1>1, <1>7, <3>1, <3>2, <3>3 DEF LockHeld
  <2> QED BY <1>5, <2>2, <2>3, <2>4, <2>5 DEF IInv
<1>8. CASE /\ lockQ # <<>> /\ owner' = Head(lockQ) /\ lockQ' = Tail(lockQ)
           /\ thr' = [thr EXCEPT ![t] = g, ![Head(lockQ)].at = "read"]
  <2>0. PICK v : v = Head(lockQ)
    OBVIOUS
  <2>1. running
    BY <1>0, <1>8 DEF OneThread
  <2>2. /\ v \in Threads /\ Tail(lockQ) \in Seq(Threads) /\ v \in ToSet(lockQ)
        /\ ToSet(Tail(lockQ)) = ToSet(lockQ) \ {v} /\ IsInjective(Tail(lockQ))
    BY <1>0, <1>8, <2>0, TailFacts DEF TypeOK, LockHeld
  <2>3. thr[v].at = "blocked" /\ v # t
    BY <1>0, <1>1, <2>2 DEF LockHeld
  <2> DEFINE h == [thr[v] EXCEPT !.at = "read"]
  <2>4. thr' = [[thr EXCEPT ![t] = g] EXCEPT ![v] = h]
    <3>1. [thr EXCEPT ![t] = g][v] = thr[v]
      BY <1>0, <2>2, <2>3 DEF TypeOK
    <3> QED BY <1>8, <2>0, <3>1
  <2>5. thr[v] \in Frames /\ Shape(v) /\ ~ thr[v].inner
    BY <1>0, <1>4, <2>2, <2>3 DEF TypeOK, Local, Inside
  <2>6. /\ h \in Frames /\ h.at = "read" /\ h.op = thr[v].op /\ h.x = thr[v].x
        /\ ~ h.inner /\ h.read = thr[v].read
    BY <2>5 DEF Frames, Places
  <2> HIDE DEF h
  <2>7. thr'[t] = g /\ thr'[v] = h /\ \A u \in Threads \ {t, v} : thr'[u] = thr[u]
    BY <1>0, <2>2, <2>3, <2>4 DEF TypeOK
  <2>8. TypeOK'
    <3>1. thr' \in [Threads -> Frames]
      BY <1>0, <1>3, <2>2, <2>4, <2>6 DEF TypeOK
    <3> QED BY <1>0, <1>1, <1>8, <2>0, <2>2, <3>1 DEF TypeOK
  <2>9. Local'
    <3>1. Shape(v)'
      BY <1>1, <2>3, <2>5, <2>6, <2>7 DEF Shape
    <3>2. Overtook(v)' /\ NewName(v)' /\ Fresh(v)'
      BY <1>1, <1>4, <2>2, <2>3, <2>6, <2>7 DEF Overtook, NewName, Fresh
    <3>3. ASSUME NEW u \in Threads \ {t, v} PROVE Shape(u)' /\ Overtook(u)' /\ NewName(u)' /\ Fresh(u)'
      BY <1>0, <1>1, <1>4, <2>7, Outside DEF Local
    <3> QED BY <1>6, <2>7, <3>1, <3>2, <3>3 DEF Local
  <2>10. OneThread'
    BY <1>1, <2>1 DEF OneThread
  <2>11. LockHeld'
    <3>1. \A u \in Threads \ {t, v} : ~ Inside(u)'
      BY <1>4, <2>7, InsideSame
    <3>2. ~ Inside(t)' /\ Inside(v)'
      BY <1>3, <2>1, <2>6, <2>7 DEF Inside
    <3>3. \A u \in Threads : thr'[u].at = "blocked" <=> thr[u].at = "blocked" /\ u # v
      BY <1>1, <1>3, <2>3, <2>6, <2>7
    <3>4. owner' = v /\ running' /\ lockQ' = Tail(lockQ)
      BY <1>1, <1>8, <2>0, <2>1
    <3>5. ToSet(lockQ') = {u \in Threads : thr'[u].at = "blocked"}
      BY <1>0, <2>2, <3>3, <3>4 DEF LockHeld
    <3> QED BY <2>2, <3>1, <3>2, <3>4, <3>5 DEF LockHeld
  <2> QED BY <1>5, <2>8, <2>9, <2>10, <2>11 DEF IInv
<1> QED BY <1>7, <1>8 DEF unlock, g

\* doCleaner: nothing of the registries changes.
LEMMA CleanerStep ==
    ASSUME IInv, NEW t \in Threads, doCleaner(t)
    PROVE  IInv'
<1> USE CleanUpAssumption
<1> DEFINE f == thr[t]
           g == IF f.todo = <<>> THEN Idle ELSE [f EXCEPT !.todo = Tail(@)]
<1>0. TypeOK /\ Local
  BY DEF IInv
<1>1. /\ f.at = "apply" /\ UNCHANGED <<running, owner, lockQ, hooks, items, calls, overtaken>>
      /\ thr' = [thr EXCEPT ![t] = g]
  BY DEF doCleaner
<1>2. f \in Frames /\ Shape(t) /\ t \notin overtaken /\ ~ Inside(t)
  BY <1>0, <1>1 DEF Local, TypeOK, Overtook, Shape, Inside
<1>3. /\ g \in Frames /\ Unique(g.read) /\ ~ g.inner /\ g.at \in {"idle", "apply"}
      /\ g.op \in NamedOps => g.x \in Names
  <2>1. CASE f.todo = <<>>
    <3>1. <<>> \in Seq(Names) /\ Unique(<<>>)
      BY DEF Unique
    <3>2. g = Idle
      BY <2>1
    <3> QED BY <3>1, <3>2 DEF Frames, Places, Idle, None, NamedOps
  <2>2. CASE f.todo # <<>>
    <3>1. Tail(f.todo) \in Seq(Names)
      BY <1>2, <2>2 DEF Frames
    <3>2. g = [f EXCEPT !.todo = Tail(@)]
      BY <2>2
    <3>3. ~ f.inner
      BY <1>2 DEF Inside
    <3> QED BY <1>1, <1>2, <3>1, <3>2, <3>3 DEF Frames, Shape
  <2> QED BY <2>1, <2>2
<1> HIDE DEF g
<1>4. thr'[t] = g
  BY <1>0, <1>1 DEF TypeOK
<1>5. Shape(t)' /\ NewName(t)' /\ Fresh(t)'
  BY <1>3, <1>4 DEF Shape, NewName, Fresh
<1>6. ~ Inside(t)'
  BY <1>3, <1>4 DEF Inside
<1> QED BY <1>1, <1>2, <1>3, <1>5, <1>6, QuietStep

\* unlogAll and exportFnCleanup return at once.
LEMMA Returned ==
    ASSUME IInv, NEW t \in Threads, thr[t].at \in {"unlogAll", "export"},
           thr' = [thr EXCEPT ![t] = Idle]
    PROVE  /\ thr'[t] = Idle /\ Others(t) /\ thr' \in [Threads -> Frames]
           /\ \A u \in Threads : Inside(u)' <=> Inside(u)
           /\ \A u \in Threads : thr'[u].at = "blocked" <=> thr[u].at = "blocked"
           /\ Unique(Idle.read) /\ Idle.at = "idle" /\ ~ Idle.inner /\ Idle.op = None
           /\ t \notin overtaken
<1>0. TypeOK /\ Local
  BY DEF IInv
<1>1. Idle \in Frames
  <2>1. <<>> \in Seq(Names)
    OBVIOUS
  <2> QED BY <2>1 DEF Frames, Places, Idle
<1>2. thr'[t] = Idle /\ Others(t) /\ thr' \in [Threads -> Frames]
  BY <1>0, <1>1 DEF TypeOK, Others
<1>3. Unique(Idle.read) /\ Idle.at = "idle" /\ ~ Idle.inner /\ Idle.op = None
  BY DEF Idle, Unique
<1>4. ~ Inside(t) /\ ~ Inside(t)' /\ t \notin overtaken
  BY <1>0, <1>2, <1>3 DEF Inside, Local, Shape, Overtook
<1>5. \A u \in Threads : Inside(u)' <=> Inside(u)
  BY <1>2, <1>4, InsideSame DEF Others
<1>6. \A u \in Threads : thr'[u].at = "blocked" <=> thr[u].at = "blocked"
  BY <1>2, <1>3 DEF Others
<1> QED BY <1>2, <1>3, <1>4, <1>5, <1>6

\* unlogAll: the one that is about to write a logged list is overtaken.
LEMMA UnlogAllStep ==
    ASSUME IInv, NEW t \in Threads, unlogAll(t)
    PROVE  IInv'
<1> USE CleanUpAssumption
<1>0. TypeOK /\ Local /\ OneThread /\ LockHeld /\ NamesAreUnique
  BY DEF IInv
<1>1. /\ thr[t].at = "unlogAll" /\ thr' = [thr EXCEPT ![t] = Idle]
      /\ items' = <<>> /\ UNCHANGED <<running, owner, lockQ, hooks, calls>>
      /\ overtaken' = overtaken \cup {u \in Threads : /\ thr[u].at \in {"write", "cons"}
                                                      /\ thr[u].op \in {"log", "unlog"}}
  BY DEF unlogAll
<1>2. /\ thr'[t] = Idle /\ Others(t) /\ thr' \in [Threads -> Frames]
      /\ \A u \in Threads : Inside(u)' <=> Inside(u)
      /\ \A u \in Threads : thr'[u].at = "blocked" <=> thr[u].at = "blocked"
      /\ Unique(Idle.read) /\ Idle.at = "idle" /\ ~ Idle.inner /\ Idle.op = None
      /\ t \notin overtaken
  BY <1>1, Returned
<1>3. <<>> \in Seq(Names) /\ ToSet(<<>>) = {}
  BY DEF ToSet
<1>4. TypeOK'
  BY <1>0, <1>1, <1>2, <1>3 DEF TypeOK
<1>5. Local'
  <2>1. Shape(t)' /\ NewName(t)' /\ Fresh(t)'
    BY <1>2 DEF Shape, NewName, Fresh, None, NamedOps
  <2>2. Overtook(t)'
    BY <1>1, <1>2 DEF Overtook
  <2>3. ASSUME NEW u \in Threads \ {t} PROVE Shape(u)' /\ Overtook(u)' /\ NewName(u)' /\ Fresh(u)'
    <3>1. thr'[u] = thr[u] /\ Shape(u) /\ Overtook(u) /\ NewName(u) /\ Fresh(u)
      BY <1>0, <1>2 DEF Local, Others
    <3>2. Shape(u)'
      BY <1>1, <3>1 DEF Shape
    <3>3. NewName(u)' /\ Fresh(u)'
      BY <1>1, <1>3, <3>1 DEF NewName, Fresh
    <3>4. thr[u].at # "idle" => running
      BY <1>0, <1>1 DEF OneThread
    <3>5. Overtook(u)'
      BY <1>1, <3>1, <3>4 DEF Overtook, Shape
    <3> QED BY <3>2, <3>3, <3>5
  <2> QED BY <2>1, <2>2, <2>3 DEF Local
<1>6. OneThread'
  BY <1>0, <1>1, <1>2 DEF OneThread, Others
<1>7. LockHeld'
  BY <1>0, <1>1, <1>2 DEF LockHeld
<1>8. NamesAreUnique'
  BY <1>0, <1>1 DEF NamesAreUnique
<1> QED BY <1>4, <1>5, <1>6, <1>7, <1>8 DEF IInv

\* exportFnCleanup: nobody else runs.
LEMMA ExportStep ==
    ASSUME IInv, NEW t \in Threads, exportFnCleanup(t)
    PROVE  IInv'
<1> USE CleanUpAssumption
<1> DEFINE A == {x \in Names : WhenLst[x] \cap {"AtInitFn", "AtExit"} # {}}
<1>0. TypeOK /\ Local /\ OneThread /\ LockHeld /\ NamesAreUnique
  BY DEF IInv
<1>1. /\ thr[t].at = "export" /\ thr' = [thr EXCEPT ![t] = Idle]
      /\ items' = (IF ServerList THEN items ELSE <<>>) /\ hooks' = Filter(hooks, A)
      /\ UNCHANGED <<running, owner, lockQ, calls, overtaken>>
  BY DEF exportFnCleanup
<1> HIDE DEF A
<1>2. /\ thr'[t] = Idle /\ Others(t) /\ thr' \in [Threads -> Frames]
      /\ \A u \in Threads : Inside(u)' <=> Inside(u)
      /\ \A u \in Threads : thr'[u].at = "blocked" <=> thr[u].at = "blocked"
      /\ Unique(Idle.read) /\ Idle.at = "idle" /\ ~ Idle.inner /\ Idle.op = None
      /\ t \notin overtaken
  BY <1>1, Returned
<1>3. ~ running
  BY <1>0, <1>1 DEF Local, Shape
<1>4. /\ hooks' \in Seq(Names) /\ Unique(hooks') /\ items' \in Seq(Names) /\ Unique(items')
  <2>1. hooks \in Seq(Names) /\ Unique(hooks) /\ items \in Seq(Names) /\ Unique(items)
    BY <1>0 DEF TypeOK, NamesAreUnique, Unique
  <2>2. <<>> \in Seq(Names) /\ Unique(<<>>)
    BY DEF Unique
  <2> QED BY <1>1, <2>1, <2>2, FilterIsUnique
<1>5. TypeOK'
  BY <1>0, <1>1, <1>2, <1>4 DEF TypeOK
<1>6. Local'
  <2>1. Shape(t)' /\ NewName(t)' /\ Fresh(t)' /\ Overtook(t)'
    BY <1>1, <1>2 DEF Shape, NewName, Fresh, Overtook, None, NamedOps
  <2>2. ASSUME NEW u \in Threads \ {t} PROVE Shape(u)' /\ Overtook(u)' /\ NewName(u)' /\ Fresh(u)'
    <3>1. ~ Inside(u) /\ u \notin overtaken
      BY <1>1, <1>3, Exclusive
    <3> QED BY <1>0, <1>1, <1>2, <3>1, Outside DEF Local, Others
  <2> QED BY <2>1, <2>2 DEF Local
<1>7. OneThread'
  BY <1>0, <1>1, <1>2 DEF OneThread, Others
<1>8. LockHeld'
  BY <1>0, <1>1, <1>2 DEF LockHeld
<1>9. NamesAreUnique'
  BY <1>4 DEF NamesAreUnique, Unique
<1> QED BY <1>5, <1>6, <1>7, <1>8, <1>9 DEF IInv

\* IInv is an invariant: one lemma per step of a thread.
THEOREM Invariance == Spec => []IInv
<1>1. IInv /\ [Next]_vars => IInv'
  <2> SUFFICES ASSUME IInv, [Next]_vars PROVE IInv'
    OBVIOUS
  <2>1. CASE doit
    BY <2>1, DoitStep
  <2>2. ASSUME NEW t \in Threads, NEW op \in InitOps \cup Ops, NEW x \in Names, NEW when \in Whens,
               call(t, op, x, when)
        PROVE  IInv'
    BY <2>2, CallStep
  <2>3. ASSUME NEW t \in Threads, Step(t) PROVE IInv'
    BY <2>3, LockStep, ReadStep, RereadStep, WriteStep, UnlockStep, CleanerStep, UnlogAllStep,
       ExportStep DEF Step
  <2>4. CASE UNCHANGED vars
    BY <2>4 DEF vars, IInv, TypeOK, Local, Shape, Overtook, NewName, Fresh, OneThread, LockHeld,
       Inside, NamesAreUnique
  <2> QED BY <2>1, <2>2, <2>3, <2>4 DEF Next
<1> QED BY InitIInv, <1>1, PTL DEF Spec

\* No update of a registry is lost and no name is registered twice, for any
\* threads, names and operations: the unprotected unlogAll, whose own effect an
\* overtaken unlogItem may undo, and logItem, which deadlocks while CML runs,
\* may be called at any time.
THEOREM RegistriesSafe == Spec => []NoStaleWrite
<1>1. IInv => NoStaleWrite
  BY DEF IInv, NoStaleWrite, Local, Fresh, WritesAreFresh
<1> QED BY Invariance, <1>1, PTL
=============================================================================
