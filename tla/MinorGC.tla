------------------------------ MODULE MinorGC ------------------------------
(***************************************************************************)
(* gc/minor-gc.c: the collection of the allocation space, which copies     *)
(* what is live into the first generation.  One operator per C function,   *)
(* each from a heap to a heap; the functions that also return a value      *)
(* return [h |-> heap, w |-> word].                                        *)
(***************************************************************************)
EXTENDS GcHeap

InNewSpace(h, w) == isBOXED(w) /\ Valid(h, w) /\ h.mem[w].gen = ALLOC_GEN

(***************************************************************************)
(* A weak pointer.  Its referent may have been forwarded already: then the *)
(* copy keeps the from-space pointer, for the sweep to forward, since the  *)
(* collector never sees to-space pointers.  A referent not yet forwarded   *)
(* is hidden from the sweep, and the copy threaded on weakList.            *)
(***************************************************************************)
MinorGC_FwdSpecial(h, v) ==
    LET c == h.mem[v]  t == c.f[1]
    IN  CopySpecial(h, v, 1,
          CASE c.tag = "weak" -> IF InNewSpace(h, t) /\ h.mem[t].tag # "forwarded"
                                 THEN "thread" ELSE "copy"
            [] c.tag = "null_weak" -> "die"
            [] OTHER -> "copy")

\* the arena of generation 1 an object goes to; a pair loses its descriptor
MinorArena(c) ==
    CASE c.tag = "record" -> IF Len(c.f) = 2 THEN "pair" ELSE "record"
      [] c.tag \in MixedTags -> "mixed"
      [] c.tag = "arr_data" -> "array"
      [] c.tag = "raw" -> "string"

MinorGC_ForwardObj(h, v) ==
    LET c == h.mem[v]
    IN  CASE c.tag = "forwarded" -> [h |-> h, w |-> c.f[1]]
          [] c.tag \in {"susp", "weak", "null_weak"} -> MinorGC_FwdSpecial(h, v)
          [] OTHER -> [h |-> CopyTo(h, v, 1, MinorArena(c), c), w |-> Len(h.mem) + 1]

MinorGC_CheckWord(h, p, k) ==
    LET w == h.mem[p].f[k]
    IN  IF InNewSpace(h, w)
        THEN PutWord(MinorGC_ForwardObj(h, w), p, k).h
        ELSE h

\* Mutant: a store list entry is skipped when its value is not in new space.
MinorGC_StoreNewOnly(h, e) ==
    LET addr == e[1]  k == e[2]  w == h.mem[addr].f[k]
    IN  IF InNewSpace(h, w) /\ h.mem[addr].gen # ALLOC_GEN
        THEN MarkYounger(PutWord(MinorGC_ForwardObj(h, w), addr, k).h, addr, 1)
        ELSE h

(***************************************************************************)
(* One entry of the store list: the cell is looked at as it is now.        *)
(* Updates of objects in new space are ignored; otherwise a value in new   *)
(* space is forwarded, and a reference to a younger generation dirties the *)
(* card.  For a code object in a region with a younger label, the first    *)
(* page of the region is taken for the region's header.                    *)
(***************************************************************************)
MinorGC_StoreEntry(h, e) ==
    LET addr == e[1]  k == e[2]  w == h.mem[addr].f[k]  srcGen == h.mem[addr].gen
    IN  IF ~ isBOXED(w) \/ srcGen = ALLOC_GEN THEN h
        ELSE IF InNewSpace(h, w)
        THEN MarkYounger(PutWord(MinorGC_ForwardObj(h, w), addr, k).h, addr, 1)
        ELSE IF h.mem[w].objc = "code"
        THEN [h EXCEPT !.lost = @ \/ AidGen(h, w) < srcGen]
        ELSE MarkYounger(h, addr, AidGen(h, w))

MinorGC_ScanStoreList(h) ==
    [FoldLeft(MinorGC_StoreEntry, h, h.stl) EXCEPT !.stl = <<>>]

RECURSIVE MinorGC_SweepArena(_, _)
MinorGC_SweepArena(h, a) ==
    LET left == {x \in h.todo : h.mem[x].objc = a}
    IN  IF left = {} THEN h
        ELSE LET p == Min(left)
                 h1 == FoldLeft(LAMBDA g, k : MinorGC_CheckWord(g, p, k), h,
                                Upto(PtrLen(h.mem[p])))
             IN  MinorGC_SweepArena([h1 EXCEPT !.todo = @ \ {p}], a)

\* records, pairs, arrays, then mixed objects, until a pass sweeps nothing
RECURSIVE MinorGC_SweepToSpace(_)
MinorGC_SweepToSpace(h) ==
    IF h.todo = {} THEN h
    ELSE MinorGC_SweepToSpace(
            FoldLeft(MinorGC_SweepArena, h, <<"record", "pair", "array", "mixed">>))

\* Mutant: a weak pointer to a dead object is not nullified.
ScanWeakPtrKeep(h, p) ==
    LET obj == 0 - h.mem[p].f[1]
    IN  [h EXCEPT !.mem[p] = [@ EXCEPT !.tag = "weak",
           !.f = IF h.mem[obj].tag = "forwarded" THEN h.mem[obj].f ELSE <<obj>>]]

(***************************************************************************)
(* ScanWeakPtrs (gc/gc-util.c), for both collectors: a threaded weak       *)
(* pointer follows its referent or is nullified.  It has no case for a     *)
(* referent in the mixed arena, which is then left as it is; FwdSpecial    *)
(* does not thread a pointer to one.                                       *)
(***************************************************************************)
ScanWeakPtr(h, p) ==
    LET obj == 0 - h.mem[p].f[1]
    IN  CASE h.mem[obj].objc = "mixed" -> h
          [] h.mem[obj].objc = "code" -> [h EXCEPT !.err = TRUE]
          [] h.mem[obj].tag = "forwarded" ->
                [h EXCEPT !.mem[p] = [@ EXCEPT !.tag = "weak", !.f = h.mem[obj].f]]
          [] OTHER -> [h EXCEPT !.mem[p] = [@ EXCEPT !.tag = "null_weak", !.f = <<0>>]]

ScanWeakPtrs(h) == [FoldLeft(ScanWeakPtr, h, h.weak) EXCEPT !.weak = <<>>]

MinorGC_Root(h, r) ==
    IF InNewSpace(h, h.roots[r])
    THEN PutRoot(MinorGC_ForwardObj(h, h.roots[r]), r)
    ELSE h

\* MinorGC: roots, store list, to-space, weak pointers
MinorGC(h) ==
    LET h1 == FoldLeft(MinorGC_Root, h, Upto(Len(h.roots)))
    IN  Verified(ScanWeakPtrs(MinorGC_SweepToSpace(MinorGC_ScanStoreList(h1))), 1)
=============================================================================
