------------------------------ MODULE Collector ------------------------------
(***************************************************************************)
(* The mutator and the generational collector together: gc/call-gc.c runs  *)
(* the collectors of MinorGC and MajorGC, ML code and the allocation       *)
(* functions of gc/ml-objects.c build and change the heap between them.    *)
(* After a collection the reclaimed cells are dropped and the others       *)
(* renumbered in the order of their addresses.  A cell has a birth number  *)
(* id that a copy keeps, for the properties to recognise it by.            *)
(***************************************************************************)
EXTENDS MajorGC

CONSTANTS
    NumRoots,   \* ML registers and C roots of the instance
    Kinds,      \* the kinds of object the mutator allocates
    MaxAlloc, MaxOps, MaxGC,   \* bounds on the mutator and the collector
    MaxHeap     \* bound on the cells of the heap

ASSUME GcAssumption ==
    /\ NumGens \in 1 .. MAX_NUM_GENS - 1
    /\ CardCells \in Nat \ {0}

VARIABLES
    mem, roots, stl, cards, minGen, err, lost,   \* the heap, see GcHeap
    budget      \* allocations, other mutator operations and collections left

vars == <<mem, roots, stl, cards, minGen, err, lost, budget>>

Cell(gen, objc, tag, f, st) ==
    [gen |-> gen, objc |-> objc, st |-> st, space |-> "to", tag |-> tag, f |-> f,
     id |-> 0]

(***************************************************************************)
(* A run starts from a heap image, so there are objects of every age: here *)
(* an array of any generation, old unless that is the last, and nil values. *)
(***************************************************************************)
Init ==
    /\ \E g \in Gens :
          mem = <<Cell(g, "array", "arr_data", <<0>>, IF g = NumGens THEN "young" ELSE "old")>>
    /\ roots = [r \in 1 .. NumRoots |-> IF r = 1 THEN 1 ELSE 0]
    /\ stl = <<>>
    /\ cards = [g \in Gens |-> CleanCards(MaxAlloc)]
    /\ minGen = MAX_NUM_GENS
    /\ err = FALSE /\ lost = FALSE
    /\ budget = [alloc |-> MaxAlloc, ops |-> MaxOps, gc |-> MaxGC]

\* the words the mutator can get hold of
Words == {0} \cup {roots[r] : r \in DOMAIN roots}

Born(gen, objc, tag, f) ==
    [Cell(gen, objc, tag, f, "young") EXCEPT !.id = MaxAlloc + 1 - budget.alloc]

-----------------------------------------------------------------------------
(***************************************************************************)
(* Allocation in new space, by ML code or ML_Alloc: the fields of an       *)
(* object are older than the object.                                       *)
(***************************************************************************)
HasTag(w, tags) == isBOXED(w) /\ mem[w].tag \in tags

AllocForms(kind) ==
    CASE kind = "record"  -> {<<"record", <<w, 0, 0>>>> : w \in Words}
      [] kind = "pair"    -> {<<"record", <<w, w>>>> : w \in Words}
      [] kind = "vec_hdr" -> {<<"vec_hdr", <<w, 0>>>> :
                                w \in {x \in Words : HasTag(x, {"raw", "record"})}}
      [] kind = "arr_hdr" -> {<<"arr_hdr", <<w, 0>>>> :
                                w \in {x \in Words : HasTag(x, {"arr_data"})}}
      [] kind = "mixed"   -> {<<"mixed", <<w, 1>>>> : w \in Words}
      [] kind = "arr_data" -> {<<"arr_data", <<w>>>> : w \in Words}
      [] kind = "susp"    -> {<<"susp", <<w>>>> : w \in Words}
      [] kind = "raw"     -> {<<"raw", <<>>>>}
      [] kind = "weak"    -> {<<"weak", <<w>>>> : w \in {x \in Words : isBOXED(x)}}
      [] OTHER            -> {}

\* where the mutator keeps a new object; empty registers are interchangeable
Dest == {r \in DOMAIN roots : roots[r] = 0 => \A q \in 1 .. r - 1 : roots[q] # 0}

Running == ~ err /\ ~ lost
CanAlloc == budget.alloc > 0 /\ Len(mem) < MaxHeap /\ Running

ML_Alloc ==
    /\ CanAlloc
    /\ \E kind \in Kinds, r \in Dest :
       \E form \in AllocForms(kind) :
          /\ mem' = Append(mem, Born(ALLOC_GEN, "new", form[1], form[2]))
          /\ roots' = [roots EXCEPT ![r] = Len(mem) + 1]
    /\ budget' = [budget EXCEPT !.alloc = @ - 1]
    /\ UNCHANGED <<stl, cards, minGen, err, lost>>

\* ML_AllocCode: BO_Alloc may lower the label of the region
ML_AllocCode ==
    /\ CanAlloc /\ "code" \in Kinds
    /\ \E r \in Dest : roots' = [roots EXCEPT ![r] = Len(mem) + 1]
    /\ mem' = Append(mem, Born(CODE_ALLOC_GEN, "code", "code", <<>>))
    /\ minGen' = Min({minGen, CODE_ALLOC_GEN})
    /\ budget' = [budget EXCEPT !.alloc = @ - 1]
    /\ UNCHANGED <<stl, cards, err, lost>>

\* a large string goes straight to the first generation
ML_AllocRaw ==
    /\ CanAlloc /\ "big" \in Kinds
    /\ \E r \in Dest : roots' = [roots EXCEPT ![r] = Len(mem) + 1]
    /\ mem' = Append(mem, Born(1, "string", "raw", <<>>))
    /\ budget' = [budget EXCEPT !.alloc = @ - 1]
    /\ UNCHANGED <<stl, cards, minGen, err, lost>>

-----------------------------------------------------------------------------
\* ML code: a store of a boxed value is recorded on the store list
Store ==
    /\ budget.ops > 0 /\ Running
    /\ \E r \in DOMAIN roots, w \in Words :
          /\ HasTag(roots[r], {"arr_data", "susp"})
          /\ mem[roots[r]].f[1] # w
          /\ mem' = [mem EXCEPT ![roots[r]].f[1] = w]
          /\ stl' = IF isBOXED(w) THEN <<<<roots[r], 1>>>> \o stl ELSE stl
    /\ budget' = [budget EXCEPT !.ops = @ - 1]
    /\ UNCHANGED <<roots, cards, minGen, err, lost>>

\* ML code: fetch a field (of a weak pointer too), or forget a value
Load ==
    /\ budget.ops > 0 /\ Running
    /\ \E r, q \in DOMAIN roots :
          /\ isBOXED(roots[q])
          /\ \E k \in 1 .. PtrLen(mem[roots[q]]) :
                LET w == mem[roots[q]].f[k]
                IN  isBOXED(w) /\ w # roots[r] /\ roots' = [roots EXCEPT ![r] = w]
    /\ budget' = [budget EXCEPT !.ops = @ - 1]
    /\ UNCHANGED <<mem, stl, cards, minGen, err, lost>>

Clear ==
    /\ budget.ops > 0 /\ Running
    /\ \E r \in DOMAIN roots : isBOXED(roots[r]) /\ roots' = [roots EXCEPT ![r] = 0]
    /\ budget' = [budget EXCEPT !.ops = @ - 1]
    /\ UNCHANGED <<mem, stl, cards, minGen, err, lost>>

-----------------------------------------------------------------------------
Heap == [mem |-> mem, roots |-> roots, stl |-> stl, cards |-> cards, weak |-> <<>>,
         todo |-> {}, minGen |-> minGen, err |-> err, lost |-> lost]

\* InvokeGC: the minor collection, then the generations 1..m when m > 0
ThenMajor(h, m) == IF m > 0 /\ ~ h.err /\ ~ h.lost THEN MajorGC(h, m, MaxAlloc) ELSE h
Collect(h, m) == ThenMajor(MinorGC(h), m)

Survives(h, x) ==
    LET c == h.mem[x] IN c.gen > ALLOC_GEN /\ c.space = "to" /\ c.st # "free"

Rank(h, x) == Cardinality({y \in 1 .. x : Survives(h, y)})

\* the address after the collection of what word w of the heap h refers to
NewWord(h, w) ==
    IF ~ isBOXED(w) THEN w
    ELSE IF Valid(h, w) /\ Survives(h, w) THEN Rank(h, w) ELSE Dangling

Compact(h) ==
    [i \in 1 .. Cardinality({x \in DOMAIN h.mem : Survives(h, x)}) |->
       LET x == CHOOSE y \in DOMAIN h.mem : Survives(h, y) /\ Rank(h, y) = i
           c == h.mem[x]
       IN  [c EXCEPT !.f = [k \in DOMAIN c.f |->
                              IF k <= PtrLen(c) THEN NewWord(h, c.f[k]) ELSE c.f[k]]]]

\* the heap h is left by a collection; what it reclaimed is gone
AfterGC(h) ==
    /\ stl' = h.stl
    /\ cards' = h.cards
    /\ minGen' = h.minGen
    /\ err' = h.err /\ lost' = h.lost

InvokeGC(m) ==
    /\ budget.gc > 0 /\ Running
    /\ \E h \in {Collect(Heap, m)} :
          /\ mem' = Compact(h)
          /\ roots' = [r \in DOMAIN roots |-> NewWord(h, h.roots[r])]
          /\ AfterGC(h)
    /\ budget' = [budget EXCEPT !.gc = @ - 1]

(***************************************************************************)
(* A large array with a boxed initial value: a collection, with the value  *)
(* as an extra root, and then the array in generation 1, so that it needs  *)
(* no store list entry for a pointer into new space.                       *)
(***************************************************************************)
ML_AllocArrayData(m) ==
    /\ CanAlloc /\ "big" \in Kinds /\ budget.gc > 0
    /\ \E w \in Words \ {0}, r \in Dest :
       \E h \in {Collect([Heap EXCEPT !.roots = Append(@, w)], m)} :
          LET live == Compact(h)
          IN  /\ mem' = Append(live, Born(1, "array", "arr_data",
                                          <<NewWord(h, h.roots[NumRoots + 1])>>))
              /\ roots' = [q \in DOMAIN roots |->
                             IF q = r THEN Len(live) + 1 ELSE NewWord(h, h.roots[q])]
              /\ AfterGC(h)
    /\ budget' = [budget EXCEPT !.gc = @ - 1, !.alloc = @ - 1]

Next ==
    \/ ML_Alloc \/ ML_AllocCode \/ ML_AllocRaw
    \/ Store \/ Load \/ Clear
    \/ \E m \in 0 .. NumGens : InvokeGC(m)
    \/ \E m \in {0, 1} : ML_AllocArrayData(m)

Spec == Init /\ [][Next]_vars

-----------------------------------------------------------------------------
RECURSIVE Closure(_, _)
Closure(m, s) ==
    LET succ(x) == IF m[x].tag \in {"weak", "null_weak"} THEN {}
                   ELSE {m[x].f[k] : k \in 1 .. PtrLen(m[x])}
        t == s \cup {w \in UNION {succ(x) : x \in s} : w \in DOMAIN m}
    IN  IF t = s THEN s ELSE Closure(m, t)

\* the cells a mutator can reach without going through a weak pointer
Reachable == Closure(mem, {w \in Words : isBOXED(w)})

\* the cells after the step that are copies of cell x, and the copy
Copies(x) == {y \in DOMAIN mem' : mem'[y].id = mem[x].id}
Moved(x) == CHOOSE y \in Copies(x) : TRUE
Image(w) == IF isBOXED(w) THEN Moved(w) ELSE w

SameObject(c, d) ==
    /\ d.tag = c.tag
    /\ d.f = [k \in DOMAIN c.f |-> IF k <= PtrLen(c) THEN Image(c.f[k]) ELSE c.f[k]]

Collection == budget'.gc < budget.gc

\* the collection came to its end, in the cases the code provides for
Completed == Collection /\ ~ lost'

\* A collection is invisible to the mutator: every object it can reach is
\* kept, once, with its kind, and with fields and registers that refer to the
\* same objects as before (MinorGC and MajorGC, whatever was forwarded first).
\* Excepted are the collections that lose their way, see lost in GcHeap.
GcPreserves ==
    [][Completed =>
         LET live == Reachable
         IN  /\ \A x \in live : Cardinality(Copies(x)) = 1
             /\ \A x \in live : mem[x].tag # "weak" => SameObject(mem[x], mem'[Moved(x)])
             /\ \A r \in DOMAIN roots :
                   \/ roots'[r] = Image(roots[r])
                   \/ roots'[r] = Len(mem') /\ budget'.alloc < budget.alloc]_vars

\* A weak pointer follows its referent as long as that is reachable, and is
\* otherwise nullified or still refers to what the collection did not
\* reclaim: FwdSpecial and ScanWeakPtrs never leave it dangling or hidden.
\* Only a major collection that finds a weak pointer to a mixed or a code
\* object of its generations is excepted (lost): the first is left
\* uninitialised, for the second the collector gives up.
WeakExact ==
    [][Completed =>
         \A x \in {y \in Reachable : mem[y].tag = "weak"} :
              LET t == mem[x].f[1]  d == mem'[Moved(x)]
              IN  \/ d.tag = "weak" /\ Copies(t) # {} /\ d.f = <<Moved(t)>>
                  \/ d.tag = "null_weak" /\ t \notin Reachable]_vars

\* A collection of all generations leaves nothing but what was reachable:
\* no stale card, store list entry or label keeps garbage alive.
FullGcReclaims ==
    [][Completed => \/ Len(mem') = Cardinality(Reachable)
                    \/ ~ InvokeGC(NumGens)]_vars

\* Every reference from an old mutable object to a younger generation is
\* remembered: by the store list until the next minor collection, by a card
\* whose mark is as young as the referent after it.  A code object in an older
\* array loses the collector (see lost in GcHeap).
RememberedSet ==
    ~ lost => \A x \in DOMAIN mem : \A k \in DOMAIN mem[x].f :
       LET c == mem[x]  w == c.f[k]
       IN  c.objc = "array" /\ isBOXED(w) /\ w \in DOMAIN mem /\ mem[w].gen < c.gen =>
              \/ \E i \in DOMAIN stl : stl[i] = <<x, k>>
              \/ mem[w].gen > ALLOC_GEN /\ cards[c.gen][CARD_INDEX(Heap, x)] <= mem[w].gen

\* No collection calls Die or fails an ASSERT, meets a to-space pointer, or
\* leaves a heap that CheckHeap rejects, but for a weak pointer to a code
\* object (lost).
NoDie == ~ err
=============================================================================
