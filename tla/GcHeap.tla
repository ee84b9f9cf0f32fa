------------------------------- MODULE GcHeap -------------------------------
(***************************************************************************)
(* The heap of the run-time system as its collectors see it: cells with a  *)
(* descriptor, words that are pointers or not, the arena identifiers the   *)
(* BIBOP gives for an address, the card maps of the array arenas, and the  *)
(* debugging check of gc/check-heap.c.                                     *)
(*                                                                         *)
(* A heap h is a record:                                                   *)
(*   mem     the cells; the address of a cell is its index, so that within *)
(*           an arena the order of addresses is the order of allocation    *)
(*   roots   the words the collector takes as roots                        *)
(*   stl     the store list, newest first                                  *)
(*   cards   cards[g], the dirty map of the array arena of generation g    *)
(*   weak    heap->weakList, the threaded weak pointers, newest first      *)
(*   todo    the cells between sweep_nextw and nextw of their arena        *)
(*   minGen  the label of the big-object region                            *)
(*   err     Die was called or an ASSERT failed                            *)
(*   lost    the collector came to one of the two cases the code does not  *)
(*           provide for, and what follows is undefined: a major           *)
(*           collection found a weak pointer to a mixed or a code object,  *)
(*           or the store list a code object in an older array             *)
(* A word is 0 when unboxed, n > 0 for the pointer to cell n, and -n for   *)
(* MARK_PTR of it, which looks like an unboxed value.                      *)
(***************************************************************************)
EXTENDS Integers, Sequences, SequencesExt, FiniteSets, FiniteSetsExt

CONSTANTS
    NumGens,    \* number of generations (ngens)
    CardCells   \* array cells that share one card

ALLOC_GEN == 0
CODE_ALLOC_GEN == IF NumGens < 2 THEN NumGens ELSE 2
MAX_NUM_GENS == 14
CARD_CLEAN == 255
Dangling == 999   \* an address whose cell has been reclaimed

Arenas == <<"record", "pair", "mixed", "array">>   \* the arenas that are swept
Gens == 1 .. NumGens

isBOXED(w) == w > 0
MARK_PTR(w) == 0 - w

Upto(n) == [i \in 1 .. n |-> i]

Valid(h, w) == w \in DOMAIN h.mem

(***************************************************************************)
(* What ADDR_TO_PAGEID answers: the generation and class of the page.  A   *)
(* page of a big-object region carries the generation of the youngest      *)
(* object of the region, whatever the object's own is.                     *)
(***************************************************************************)
AidGen(h, w) ==
    IF h.mem[w].objc = "code" THEN h.minGen ELSE h.mem[w].gen

\* A to-space page has the identifier of its from-space: the test cannot
\* tell them apart.
IS_FROM_SPACE(h, w, maxGen) == AidGen(h, w) <= maxGen

(***************************************************************************)
(* The words of a cell that are swept: all of a record, an array or a      *)
(* special object, the pointer part of a mixed object (the raw word of a   *)
(* DTAG_mixed record may look like a pointer), none of a string.           *)
(***************************************************************************)
MixedTags == {"vec_hdr", "arr_hdr", "mixed"}

PtrLen(c) == IF c.tag \in {"raw", "code"} THEN 0
             ELSE IF c.tag \in MixedTags THEN 1
             ELSE Len(c.f)

\* change every cell (the empty tuple makes TLC build the new memory at once)
MapCells(h, F(_)) ==
    [h EXCEPT !.mem = [x \in DOMAIN h.mem |-> F(h.mem[x])] \o <<>>]

SetWord(h, p, k, w) == [h EXCEPT !.mem[p].f[k] = w]

(***************************************************************************)
(* Allocate the copy of cell v in arena a of generation g and leave the    *)
(* forwarding pointer behind.  Only swept arenas need sweeping.            *)
(***************************************************************************)
CopyTo(h, v, g, a, cell) ==
    LET new == Len(h.mem) + 1
    IN  [h EXCEPT
          !.mem = Append([@ EXCEPT ![v] = [@ EXCEPT !.tag = "forwarded", !.f = <<new>>]],
                         [cell EXCEPT !.gen = g, !.objc = a, !.st = "young", !.space = "to"]),
          !.todo = IF a = "string" THEN @ ELSE @ \cup {new}]

(***************************************************************************)
(* Copy a special object to generation g.  how is "thread" for a weak      *)
(* pointer that goes on weakList, with its referent hidden from the sweep, *)
(* "lost" for a copy that is never filled, "die" or "copy".                *)
(***************************************************************************)
CopySpecial(h, v, g, how) ==
    LET c == h.mem[v]
        copy == CASE how = "thread" -> [c EXCEPT !.tag = "marked", !.f = <<MARK_PTR(c.f[1])>>]
                  [] how = "lost" -> [c EXCEPT !.f = <<0>>]
                  [] OTHER -> c
    IN  [h |-> [CopyTo(h, v, g, "array", copy) EXCEPT
                  !.weak = IF how = "thread" THEN <<Len(h.mem) + 1>> \o @ ELSE @,
                  !.err = @ \/ how = "die", !.lost = @ \/ how = "lost"],
         w |-> Len(h.mem) + 1]

\* put the forwarded word r.w where it came from; r.g is its generation
PutRoot(r, i) == [r.h EXCEPT !.roots[i] = r.w]
PutWord(r, p, k) == [h |-> SetWord(r.h, p, k, r.w), g |-> r.h.mem[r.w].gen]

-----------------------------------------------------------------------------
(***************************************************************************)
(* Card maps.                                                              *)
(***************************************************************************)
ArrayCells(h, g) ==
    {x \in DOMAIN h.mem : /\ h.mem[x].gen = g /\ h.mem[x].objc = "array"
                          /\ h.mem[x].space = "to"}

CARD_INDEX(h, x) ==
    Cardinality({y \in ArrayCells(h, h.mem[x].gen) : y < x}) \div CardCells

\* MARK_CARD: a card only ever gets a younger mark
MARK_CARD(h, x, g) ==
    LET src == h.mem[x].gen  i == CARD_INDEX(h, x)
    IN  IF g < h.cards[src][i] THEN [h EXCEPT !.cards[src][i] = g] ELSE h

MarkYounger(h, x, g) == IF g < h.mem[x].gen THEN MARK_CARD(h, x, g) ELSE h

CleanCards(maxCards) == [i \in 0 .. maxCards |-> CARD_CLEAN]

-----------------------------------------------------------------------------
(***************************************************************************)
(* CheckHeap, compiled in with CHECK_HEAP: it looks at every object of the *)
(* generations that were swept, dead ones too.                             *)
(***************************************************************************)
CheckPtr(h, w, srcGen, srcKind, dstKinds) ==
    /\ Valid(h, w)                                  \* no unmapped address
    /\ h.mem[w].objc # "new"                        \* nor one in new space
    /\ h.mem[w].objc # "code" =>
          /\ h.mem[w].objc \in dstKinds
          /\ h.mem[w].gen < srcGen => srcKind = "array"
          /\ h.mem[w].tag # "forwarded"

AnyKind == {"record", "pair", "mixed", "string", "array"}

CheckRecordArena(h, c) ==
    /\ c.tag = "record"
    /\ \A k \in DOMAIN c.f :
          isBOXED(c.f[k]) => CheckPtr(h, c.f[k], c.gen, "record", AnyKind)

CheckPairArena(h, c) ==
    \A k \in DOMAIN c.f : isBOXED(c.f[k]) => CheckPtr(h, c.f[k], c.gen, "pair", AnyKind)

\* the data of a sequence lives in the arena its header says
CheckMixedArena(h, c) ==
    CASE c.tag \in {"vec_hdr", "arr_hdr"} ->
           /\ CheckPtr(h, c.f[1], c.gen, "record",
                       IF c.tag = "arr_hdr" THEN {"array"} ELSE {"record", "pair", "string"})
           /\ ~ isBOXED(c.f[2])
      [] c.tag = "mixed" ->
           isBOXED(c.f[1]) => CheckPtr(h, c.f[1], c.gen, "record", AnyKind)
      [] OTHER -> FALSE

CheckStringArena(c) == c.tag = "raw"

CheckArrayArena(h, c) ==
    /\ c.tag \in {"arr_data", "susp", "weak", "null_weak"}
    /\ \A k \in DOMAIN c.f :
          isBOXED(c.f[k]) => CheckPtr(h, c.f[k], c.gen, "array", AnyKind)

CheckHeap(h, maxSweptGen) ==
    \A x \in DOMAIN h.mem :
       LET c == h.mem[x]
       IN  c.gen \in 1 .. maxSweptGen /\ c.space = "to" =>
             CASE c.objc = "record" -> CheckRecordArena(h, c)
               [] c.objc = "pair"   -> CheckPairArena(h, c)
               [] c.objc = "mixed"  -> CheckMixedArena(h, c)
               [] c.objc = "string" -> CheckStringArena(c)
               [] c.objc = "array"  -> CheckArrayArena(h, c)
               [] OTHER             -> TRUE

\* the end of a collection: the check fails or the heap is as it should be
Verified(h, maxSweptGen) == [h EXCEPT !.err = @ \/ (~ h.lost /\ ~ CheckHeap(h, maxSweptGen))]
=============================================================================
