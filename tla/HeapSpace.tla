------------------------------ MODULE HeapSpace ------------------------------
(***************************************************************************)
(* Where the objects of the heap live: the sizes of the arenas of every    *)
(* generation, the memory objects behind them and the BIBOP that tells an  *)
(* address which arena it is in.  Objects are only amounts of space here,  *)
(* and how much of it survives a collection is arbitrary.                  *)
(*                                                                         *)
(* A heap h is a record:                                                   *)
(*   gen    gen[g] = [arena, numGCs, lastPrevGC, toObj, fromObj, cacheObj] *)
(*   bibop  the two-level page table, see MarkRegion                       *)
(*   objs   the memory objects mapped from the O.S.                        *)
(*   numMinorGCs                                                           *)
(*   fault  "none", "die", "overflow" or "assert": how the run ended       *)
(* An arena is [base, size, used, old, req, frBase, frSize, frUsed]: used  *)
(* is nextw - tospBase, old is oldTop - tospBase (after the flip,          *)
(* oldTop - frspBase), and frUsed is frspTop - frspBase.                   *)
(***************************************************************************)
EXTENDS Integers, Sequences, FiniteSets, FiniteSetsExt, Functions

CONSTANTS
    NumGens,     \* heap->numGens
    CacheGen,    \* heap->cacheGen
    Arenas,      \* the arenas, in the order of their addresses
    AllocSz,     \* heap->allocSzB
    MaxSz,       \* MaxSz[g], the soft maximum of an arena of generation g
    Ratio,       \* Ratio[g]
    PageSz,      \* BIBOP_PAGE_SZB
    L2Sz, L1Sz,  \* sizes of the two levels of the BIBOP
    NumPages,    \* pages the O.S. is ready to map
    UnlimitedHeap,
    LargeSz,     \* the sizes of large objects
    MaxGC        \* bound on the collections of a run

ASSUME SpaceAssumption ==
    /\ NumGens \in Nat \ {0} /\ PageSz \in Nat \ {0} /\ L2Sz \in Nat \ {0}
    /\ NumPages < L1Sz * L2Sz          \* the last page never ends the table
    /\ \A g \in 1 .. NumGens : MaxSz[g] > 0 /\ Ratio[g] >= 0

Unmapped == <<0, "unmapped">>
UnmappedL2 == <<>>                     \* the shared table of unmapped regions
NIL == [base |-> 0, size |-> 0]

ArenaSet == Range(Arenas)
Roundup(n) == ((n + PageSz - 1) \div PageSz) * PageSz   \* RND_MEMOBJ_SZB
isACTIVE(ap) == ap.size > 0
AVAIL_SPACE(ap) == ap.size - ap.used

-----------------------------------------------------------------------------
(***************************************************************************)
(* The BIBOP.                                                              *)
(***************************************************************************)
INDEX_TO_PAGEID(bibop, ix) ==
    LET t == bibop[ix \div L2Sz + 1] IN IF t = UnmappedL2 THEN Unmapped ELSE t[(ix % L2Sz) + 1]

\* Mutant: only the first table of a region is marked.
MarkRegionShort(bibop, base, szB, aid) ==
    LET start == base \div PageSz
        end == start + szB \div PageSz
        page(ix) == IF ix \in start .. end - 1 THEN aid ELSE INDEX_TO_PAGEID(bibop, ix)
    IN  [i \in DOMAIN bibop |->
           IF i # start \div L2Sz + 1 THEN bibop[i]
           ELSE [j \in 1 .. L2Sz |-> page((i - 1) * L2Sz + j - 1)] \o <<>>] \o <<>>

(***************************************************************************)
(* Mark the pages of a region, table by table.  A table of its own takes   *)
(* the place of the shared one when something is mapped in it.             *)
(***************************************************************************)
MarkRegion(bibop, base, szB, aid) ==
    LET start == base \div PageSz
        end == start + szB \div PageSz
        topStart == start \div L2Sz
        topEnd == end \div L2Sz
        l2Start(i) == IF topStart < i THEN 0 ELSE start % L2Sz
        l2End(i) == IF i < topEnd THEN L2Sz ELSE end % L2Sz
        table(i) == [j \in 1 .. L2Sz |->
                       IF j - 1 \in l2Start(i) .. l2End(i) - 1 THEN aid
                       ELSE INDEX_TO_PAGEID(bibop, i * L2Sz + j - 1)]
        kept(i) == \/ i \notin topStart .. topEnd
                   \/ aid = Unmapped /\ bibop[i + 1] = UnmappedL2
    IN  [i \in DOMAIN bibop |-> IF kept(i - 1) THEN bibop[i] ELSE table(i - 1) \o <<>>] \o <<>>

InitBibop == [i \in 1 .. L1Sz |-> UnmappedL2]

-----------------------------------------------------------------------------
(***************************************************************************)
(* The memory system (memory/mem-common.ins, mem-mmap.c): the O.S. maps    *)
(* the lowest free range of pages, or fails.                               *)
(***************************************************************************)
PagesOf(obj) == obj.base \div PageSz .. (obj.base + obj.size) \div PageSz - 1

MEM_AllocMemObj(h, szb) ==
    LET sz == IF szb <= PageSz THEN PageSz ELSE Roundup(szb)
        used == UNION {PagesOf(o) : o \in h.objs}
        free == {b \in 1 .. NumPages + 1 - sz \div PageSz :
                   (b .. b + sz \div PageSz - 1) \cap used = {}}
    IN  IF free = {} THEN NIL ELSE [base |-> Min(free) * PageSz, size |-> sz]

MEM_FreeMemObj(h, obj) == [h EXCEPT !.objs = @ \ {obj}]

-----------------------------------------------------------------------------
\* the sum of the sizes of the arenas before arena number i
RECURSIVE SizeBefore(_, _)
SizeBefore(gen, i) ==
    IF i = 1 THEN 0 ELSE SizeBefore(gen, i - 1) + gen.arena[Arenas[i - 1]].size

\* f applied to x for the indices 1 .. n in turn
RECURSIVE InTurn(_, _, _)
InTurn(f(_, _), x, n) == IF n = 0 THEN x ELSE f(InTurn(f, x, n - 1), n)

\* the first slot of pair space is not used
PairSlot(a) == IF a = "pair" THEN 1 ELSE 0

\* lay the arenas of generation g out in the memory object obj
PlaceArenas(h, g, obj) ==
    LET gen == h.gen[g]
        placed == [i \in DOMAIN Arenas |->
          LET ap == gen.arena[Arenas[i]]
          IN  IF isACTIVE(ap)
              THEN [ap EXCEPT !.base = obj.base + SizeBefore(gen, i), !.used = PairSlot(Arenas[i])]
              ELSE [ap EXCEPT !.base = 0, !.frBase = 0, !.used = 0]]
        mark(b, i) == IF isACTIVE(placed[i])
                      THEN MarkRegion(b, placed[i].base, placed[i].size, <<g, Arenas[i]>>) ELSE b
    IN  [h EXCEPT !.gen[g].toObj = obj,
                  !.gen[g].arena = [a \in ArenaSet |->
                      placed[CHOOSE i \in DOMAIN Arenas : Arenas[i] = a]],
                  !.bibop = InTurn(mark, h.bibop, Len(Arenas))]

\* NewGeneration: the answer of "failure" leaves the heap as it is
NewGenerationFails(h, g) ==
    LET tot == SizeBefore(h.gen[g], Len(Arenas) + 1)
    IN  /\ h.gen[g].cacheObj.size < tot \/ h.gen[g].cacheObj = NIL
        /\ MEM_AllocMemObj(h, tot) = NIL

NewGeneration(h, g) ==
    LET tot == SizeBefore(h.gen[g], Len(Arenas) + 1)
        cache == h.gen[g].cacheObj
        obj == MEM_AllocMemObj(h, tot)
    IN  IF cache # NIL /\ cache.size >= tot
        THEN PlaceArenas([h EXCEPT !.gen[g].cacheObj = NIL], g, cache)
        ELSE PlaceArenas([h EXCEPT !.objs = @ \cup {obj}], g, obj)

\* Mutant: the old cache is forgotten instead of given back.
ReleaseFromObjLeaks(h, g) ==
    LET gen == h.gen[g]
    IN  IF g > CacheGen THEN MEM_FreeMemObj(h, gen.fromObj)
        ELSE IF gen.cacheObj.size > gen.fromObj.size THEN MEM_FreeMemObj(h, gen.fromObj)
        ELSE [h EXCEPT !.gen[g].cacheObj = gen.fromObj]

\* give from-space back, or keep it in the cache when it is the larger one
ReleaseFromObj(h, g) ==
    LET gen == h.gen[g]
    IN  IF g > CacheGen THEN MEM_FreeMemObj(h, gen.fromObj)
        ELSE IF gen.cacheObj.size > gen.fromObj.size THEN MEM_FreeMemObj(h, gen.fromObj)
        ELSE [MEM_FreeMemObj(h, gen.cacheObj) EXCEPT !.gen[g].cacheObj = gen.fromObj]

FreeGeneration(h, g) ==
    LET clear(b, i) == LET ap == h.gen[g].arena[Arenas[i]]
                       IN  IF ap.frBase # 0 THEN MarkRegion(b, ap.frBase, ap.frSize, Unmapped) ELSE b
        reset(ap) == IF ap.frBase # 0
                     THEN [ap EXCEPT !.frBase = 0, !.frSize = 0, !.frUsed = 0] ELSE ap
    IN  IF h.gen[g].fromObj = NIL THEN h
        ELSE [ReleaseFromObj(h, g) EXCEPT
               !.gen[g].fromObj = NIL,
               !.gen[g].arena = [a \in ArenaSet |-> reset(h.gen[g].arena[a])],
               !.bibop = InTurn(clear, h.bibop, Len(Arenas))]

-----------------------------------------------------------------------------
(***************************************************************************)
(* flip.c.  For an arena: the least size that holds whatever is copied     *)
(* into it, the size it gets, and what it will hand to the next            *)
(* generation.  prevOld is what the previous generation may promote.       *)
(***************************************************************************)
ThisMin(ap) == IF isACTIVE(ap) THEN ap.used - ap.old ELSE 0

Skipped(ap, prevOld) == ~ isACTIVE(ap) /\ ap.req = 0 /\ prevOld = 0

\* Mutant: the space requested for a large object is forgotten.
FlipMinSizeNoReq(ap, a, prevOld) ==
    IF Skipped(ap, prevOld) THEN 0 ELSE prevOld + ThisMin(ap) + 2 * PairSlot(a)

FlipMinSize(ap, a, prevOld) ==
    IF Skipped(ap, prevOld) THEN 0
    ELSE prevOld + ThisMin(ap) + ap.req + 2 * PairSlot(a)

FlipNewSize(ap, a, prevOld, g, numGCs) ==
    LET minSz == FlipMinSize(ap, a, prevOld)
        want == Max({minSz, prevOld + ap.req + Ratio[g] * (ThisMin(ap) \div numGCs)})
    IN  IF want > MaxSz[g] THEN Max({minSz, MaxSz[g]}) ELSE want

FlipArena(ap, a, prevOld, g, numGCs) ==
    LET fr == IF isACTIVE(ap)
              THEN [ap EXCEPT !.frBase = ap.base, !.frSize = ap.size, !.frUsed = ap.used]
              ELSE [ap EXCEPT !.frSize = 0]
    IN  IF Skipped(ap, prevOld) THEN fr
        ELSE [fr EXCEPT !.size = Roundup(FlipNewSize(ap, a, prevOld, g, numGCs))]

\* generation g must be flipped because it has no room for what may come
NoRoom(gen, prevOld) ==
    \E a \in ArenaSet : (IF isACTIVE(gen.arena[a]) THEN AVAIL_SPACE(gen.arena[a]) ELSE 0)
                           < prevOld[a]

FlipGen(h, g, prevOld, prevGC) ==
    LET old == h.gen[g]
        numGCs == prevGC - old.lastPrevGC
        flipped == [a \in ArenaSet |-> FlipArena(old.arena[a], a, prevOld[a], g, numGCs)]
        smaller == [a \in ArenaSet |-> [flipped[a] EXCEPT
                      !.size = Roundup(FlipMinSize(old.arena[a], a, prevOld[a]))]]
        h1 == [h EXCEPT !.gen[g] = [old EXCEPT !.arena = flipped, !.lastPrevGC = prevGC,
                                               !.numGCs = @ + 1, !.fromObj = old.toObj]]
        h2 == [h1 EXCEPT !.gen[g].arena = smaller]    \* try the minimum size
    IN  IF numGCs = 0 \/ (\E a \in ArenaSet : old.arena[a].old > old.arena[a].used)
        THEN [h EXCEPT !.fault = "assert"]
        ELSE IF ~ NewGenerationFails(h1, g) THEN NewGeneration(h1, g)
        ELSE IF ~ NewGenerationFails(h2, g) THEN NewGeneration(h2, g)
        ELSE [h EXCEPT !.fault = "die"]

(***************************************************************************)
(* Flip: generation by generation, at least level of them; the answer is   *)
(* the number of flipped generations.                                      *)
(***************************************************************************)
RECURSIVE FlipFrom(_, _, _, _, _)
FlipFrom(h, level, g, prevOld, prevGC) ==
    IF g > NumGens \/ h.fault # "none" THEN [h |-> h, m |-> NumGens]
    ELSE IF g > level /\ ~ NoRoom(h.gen[g], prevOld) THEN [h |-> h, m |-> g - 1]
    ELSE LET gen == h.gen[g]
         IN  FlipFrom(FlipGen(h, g, prevOld, prevGC), level, g + 1,
                      [a \in ArenaSet |-> IF isACTIVE(gen.arena[a]) THEN gen.arena[a].old ELSE 0],
                      gen.numGCs + 1)

\* all of the allocation space could be forwarded to any arena
Flip(h, level) ==
    FlipFrom(h, level, 1, [a \in ArenaSet |-> AllocSz], h.numMinorGCs)

-----------------------------------------------------------------------------
(***************************************************************************)
(* Collections, as far as space goes.  keep says what survives: the        *)
(* "young" objects above oldTop, which stay in their generation, and the   *)
(* "old" ones below it, which are promoted.                                *)
(***************************************************************************)
Overflows(h) == \E g \in 1 .. NumGens, a \in ArenaSet :
                   h.gen[g].arena[a].used > h.gen[g].arena[a].size

Checked(h) == IF Overflows(h) THEN [h EXCEPT !.fault = "overflow"] ELSE h

MinorGC(h, a, amount) ==
    Checked([h EXCEPT !.gen[1].arena[a].used = @ + amount, !.numMinorGCs = @ + 1])

YoungObjs(ap, a) == ap.frUsed - Max({ap.old, PairSlot(a)})
OldObjs(ap, a) == IF ap.old = 0 THEN 0 ELSE ap.old - PairSlot(a)

\* copy the survivors of generation g, whose from-space is still there
CopyGen(h, g, keep) ==
    LET next == IF g < NumGens THEN g + 1 ELSE g
        young(a) == LET ap == h.gen[g].arena[a]
                    IN  IF ap.frSize > 0 /\ "young" \in keep THEN YoungObjs(ap, a) ELSE 0
        old(a) == LET ap == h.gen[g].arena[a]
                  IN  IF ap.frSize > 0 /\ "old" \in keep THEN OldObjs(ap, a) ELSE 0
        add(hp, i, n(_)) == [hp EXCEPT !.gen[i].arena =
                               [a \in ArenaSet |-> [@[a] EXCEPT !.used = @ + n(a)]]]
    IN  add(add(h, g, young), next, old)

\* remember the top of to-space: the oldest generation has only young objects
RememberTop(h, g) ==
    [h EXCEPT !.gen[g].arena = [a \in ArenaSet |->
        [@[a] EXCEPT !.old = IF g = NumGens \/ ~ isACTIVE(h.gen[g].arena[a]) THEN 0
                             ELSE h.gen[g].arena[a].used]]]

\* TrimHeap: give up what is above the maximum and not needed
TrimGen(h, g) ==
    LET trimmed(a) ==
          LET ap == h.gen[g].arena[a]
              minSz == (IF g = 1 THEN AllocSz ELSE h.gen[g - 1].arena[a].size) + ap.used + ap.req
          IN  IF isACTIVE(ap) /\ ap.size > MaxSz[g]
              THEN [ap EXCEPT !.size = IF minSz < MaxSz[g] THEN MaxSz[g]
                                       ELSE Min({Roundup(minSz), ap.size})]
              ELSE ap
    IN  [h EXCEPT !.gen[g].arena = [a \in ArenaSet |-> trimmed(a)]]

MajorGC(h0, level, keep) ==
    LET flip == Flip(h0, level)
        copied == Checked(InTurn(LAMBDA h, g : CopyGen(h, g, keep), flip.h, flip.m))
        freed == InTurn(LAMBDA h, g : RememberTop(FreeGeneration(h, g), g), copied, flip.m)
    IN  IF flip.h.fault # "none" THEN flip.h
        ELSE IF copied.fault # "none" THEN copied
        ELSE IF UnlimitedHeap THEN freed
        ELSE InTurn(TrimGen, freed, flip.m)

\* InvokeGC and InvokeGCWithRoots
Collect(h, level, a, amount, keep) ==
    LET h1 == MinorGC(h, a, amount)
        full == \E b \in ArenaSet : AVAIL_SPACE(h1.gen[1].arena[b]) < AllocSz
    IN  IF h1.fault # "none" THEN h1
        ELSE IF level > 0 THEN MajorGC(h1, level, keep)
        ELSE IF full THEN MajorGC(h1, 1, keep)
        ELSE h1

-----------------------------------------------------------------------------
VARIABLES
    gen, bibop, objs, numMinorGCs, fault,   \* the heap
    crowded      \* history: the arenas ML_AllocVector left without room for new space, since
                 \* the last collection

vars == <<gen, bibop, objs, numMinorGCs, fault, crowded>>

Heap == [gen |-> gen, bibop |-> bibop, objs |-> objs, numMinorGCs |-> numMinorGCs,
         fault |-> fault]

Becomes(h, c) ==
    /\ gen' = h.gen /\ bibop' = h.bibop /\ objs' = h.objs
    /\ numMinorGCs' = h.numMinorGCs /\ fault' = h.fault
    /\ crowded' = IF h.fault = "none" THEN c ELSE crowded

EmptyArena == [base |-> 0, size |-> 0, used |-> 0, old |-> 0, req |-> 0,
               frBase |-> 0, frSize |-> 0, frUsed |-> 0]

\* InitHeap, for a boot: new space, and the first generation's to-space
InitHeap ==
    LET new == [base |-> PageSz, size |-> Roundup(AllocSz)]
        empty == [arena |-> [a \in ArenaSet |-> EmptyArena], numGCs |-> 0, lastPrevGC |-> 0,
                  toObj |-> NIL, fromObj |-> NIL, cacheObj |-> NIL]
        first == [empty EXCEPT !.arena = [a \in ArenaSet |->
                     [EmptyArena EXCEPT !.size = Roundup(2 * AllocSz)]]]
    IN  NewGeneration([gen |-> [g \in 1 .. NumGens |-> IF g = 1 THEN first ELSE empty],
                       bibop |-> MarkRegion(InitBibop, new.base, new.size, <<0, "new">>),
                       objs |-> {new}, numMinorGCs |-> 0, fault |-> "none"], 1)

Init ==
    /\ gen = InitHeap.gen /\ bibop = InitHeap.bibop /\ objs = InitHeap.objs
    /\ numMinorGCs = 0 /\ fault = "none" /\ crowded = {}

Running == fault = "none" /\ numMinorGCs < MaxGC

Keeps == {{}, {"young", "old"}}

\* what survives of new space: nothing, or all of it, into one arena
Survivors == {<<"array", 0>>} \cup {<<a, AllocSz>> : a \in ArenaSet}

InvokeGC(level) ==
    /\ Running
    /\ \E n \in Survivors, keep \in Keeps :
       \E h \in {Collect(Heap, level, n[1], n[2], keep)} : Becomes(h, {})

Large == ArenaSet \ {"pair"}

(***************************************************************************)
(* ML_AllocRaw, or ML_AllocArrayData with an unboxed initial value, for an *)
(* object that is too large for new space.  Input routines give back what  *)
(* they did not fill (ML_ShrinkRaw).                                       *)
(***************************************************************************)
ML_AllocRaw ==
    /\ Running
    /\ \E b \in Large, sz \in LargeSz, unused \in {0, 1}, n \in Survivors, keep \in Keeps :
       /\ sz > unused
       /\ LET room == AVAIL_SPACE(gen[1].arena[b]) > sz + AllocSz
          IN  /\ room => n[2] = 0 /\ keep = {}      \* no collection
              /\ \E h \in {IF room THEN Heap
                           ELSE Collect([Heap EXCEPT !.gen[1].arena[b].req = @ + sz], 1, n[1], n[2],
                                        keep)} :
                 Becomes(IF h.fault # "none" THEN h
                         ELSE Checked([h EXCEPT !.gen[1].arena[b].req = 0,
                                                !.gen[1].arena[b].used = @ + sz - unused]),
                         IF room THEN crowded ELSE {})

(***************************************************************************)
(* ML_AllocArrayData with a boxed initial value, or ML_AllocVector: always *)
(* after a collection, so that no pointer into new space is stored.  That  *)
(* the object leaves room for the next minor collection is not checked.    *)
(***************************************************************************)
ML_AllocVector ==
    /\ Running
    /\ \E b \in Large, sz \in LargeSz, n \in Survivors, keep \in Keeps :
       LET level == IF AVAIL_SPACE(gen[1].arena[b]) <= sz + AllocSz THEN 1 ELSE 0
       IN  \E h \in {Collect([Heap EXCEPT !.gen[1].arena[b].req = @ + sz], level, n[1], n[2], keep)} :
           \E r \in {IF h.fault # "none" THEN h
                      ELSE Checked([h EXCEPT !.gen[1].arena[b].req = 0,
                                             !.gen[1].arena[b].used = @ + sz])} :
              Becomes(r, {b} \cap {a \in ArenaSet : AVAIL_SPACE(r.gen[1].arena[a]) < AllocSz})

Next ==
    \/ \E level \in {0, 1, NumGens} : InvokeGC(level)
    \/ ML_AllocRaw
    \/ ML_AllocVector

Spec == Init /\ [][Next]_vars

-----------------------------------------------------------------------------
\* No collection copies past the end of an arena, and no assertion of Flip
\* fails: whatever survives, every to-space is large enough (flip.c).
NoOverflow ==
    /\ fault # "assert"
    /\ \A g \in 1 .. NumGens, a \in ArenaSet :
         gen[g].arena[a].used > gen[g].arena[a].size => g = 1 /\ a \in crowded

\* The mutator always leaves room for all of new space in every arena of the
\* first generation, also after large objects went there and arenas were
\* trimmed: the next minor collection cannot check any more.
MinorFits ==
    fault = "none" =>
        \A a \in ArenaSet \ crowded : AVAIL_SPACE(gen[1].arena[a]) >= AllocSz

\* Space suffices: neither a collection nor, since it cannot check any more,
\* the next minor one finds an arena too small for what survives (flip.c,
\* call-gc.c).  Excepted is the arena in which a large vector or an array of
\* boxed values was allocated since the last collection (crowded), when the
\* minor collection before it filled the room there was.
SpaceSuffices == NoOverflow /\ MinorFits

\* The BIBOP knows every page of every to-space by its arena, whatever memory
\* objects were cached, reused or given back in between.
BibopCovers ==
    fault = "none" =>
      \A g \in 1 .. NumGens, a \in ArenaSet :
        LET ap == gen[g].arena[a]
        IN  \A ix \in ap.base \div PageSz .. (ap.base + ap.size - 1) \div PageSz :
              isACTIVE(ap) => INDEX_TO_PAGEID(bibop, ix) = <<g, a>>

\* Every mapped memory object is new space, or the to-space or the cache of
\* exactly one generation: none is lost, none is used twice.
MemoryOwned ==
    LET held == {<<g, k>> \in (1 .. NumGens) \X {"toObj", "cacheObj"} : gen[g][k] # NIL}
    IN  fault = "none" =>
          /\ Cardinality(objs) = 1 + Cardinality(held)
          /\ {gen[x[1]][x[2]] : x \in held} \subseteq objs
          /\ Cardinality({gen[x[1]][x[2]] : x \in held}) = Cardinality(held)
          /\ \A o, p \in objs : o # p => PagesOf(o) \cap PagesOf(p) = {}
=============================================================================
