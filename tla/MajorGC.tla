------------------------------ MODULE MajorGC ------------------------------
(***************************************************************************)
(* gc/major-gc.c: the collection of the generations 1..m, after a minor    *)
(* collection has emptied the allocation space.  Which generations are     *)
(* flipped is the business of flip.c; here m is a parameter.               *)
(***************************************************************************)
EXTENDS MinorGC

\* The generation an object is copied to: objects below oldTop are promoted,
\* and nextGen of the oldest generation is itself.
TargetGen(c) ==
    IF c.st = "old" /\ c.gen < NumGens THEN c.gen + 1 ELSE c.gen

FlipCell(c, m) ==
    IF c.gen \in 1 .. m /\ c.objc # "code" THEN [c EXCEPT !.space = "from"] ELSE c

(***************************************************************************)
(* The part of Flip that the collector relies on: to-space becomes         *)
(* from-space, and a new array arena gets a clean dirty vector.            *)
(***************************************************************************)
FlipGens(h, m, maxCards) ==
    [MapCells(h, LAMBDA c : FlipCell(c, m)) EXCEPT
       !.cards = [g \in DOMAIN h.cards |->
                    IF g <= m THEN CleanCards(maxCards) ELSE h.cards[g]]]

(***************************************************************************)
(* A big object does not move: its descriptor changes state.  The region   *)
(* may be labelled from-space on account of another object.                *)
(***************************************************************************)
MajorGC_ForwardBigObj(h, m, v) ==
    LET c == h.mem[v]
    IN  IF c.gen <= m /\ c.st \in {"young", "old"}
        THEN [h EXCEPT !.mem[v].st = IF c.st = "young" THEN "forward" ELSE "promote"]
        ELSE h

\* Mutant: a weak pointer is forwarded at once when its referent has been.
MajorGC_FwdSpecialNow(h, m, v) ==
    LET c == h.mem[v]  t == c.f[1]
        weak == c.tag = "weak" /\ isBOXED(t) /\ IS_FROM_SPACE(h, t, m)
        r == CopySpecial(h, v, TargetGen(c),
                         IF weak /\ h.mem[t].tag # "forwarded" THEN "thread" ELSE "copy")
    IN  IF weak /\ h.mem[t].tag = "forwarded" THEN [r EXCEPT !.h.mem[r.w].f = h.mem[t].f] ELSE r

(***************************************************************************)
(* A special object.  A weak pointer to a from-space object that is not    *)
(* yet forwarded is threaded; one to an object of the mixed arena meets no *)
(* case of the switch, so that the copy is left uninitialised, and for one *)
(* to a code object the switch calls Die.                                  *)
(***************************************************************************)
MajorGC_FwdSpecial(h, m, v) ==
    LET c == h.mem[v]  t == c.f[1]
    IN  CopySpecial(h, v, TargetGen(c),
          CASE ~ (c.tag = "weak" /\ isBOXED(t) /\ IS_FROM_SPACE(h, t, m)) -> "copy"
            [] h.mem[t].objc \in {"mixed", "code"} -> "lost"
            [] h.mem[t].tag = "forwarded" -> "copy"
            [] OTHER -> "thread")

\* Die, in a build with TOSPACE_ID: the collector came across a to-space pointer
SeesToSpace(h, v) == h.mem[v].space = "to" /\ h.mem[v].objc # "code"

MajorGC_ForwardObj(h, m, v) ==
    LET c == h.mem[v]
    IN  CASE c.objc = "code" -> [h |-> MajorGC_ForwardBigObj(h, m, v), w |-> v]
          [] SeesToSpace(h, v) \/ c.objc = "new" -> [h |-> [h EXCEPT !.err = TRUE], w |-> v]
          [] c.tag = "forwarded" -> [h |-> h, w |-> c.f[1]]
          [] c.tag \in {"susp", "weak", "null_weak"} -> MajorGC_FwdSpecial(h, m, v)
          [] OTHER -> [h |-> CopyTo(h, v, TargetGen(c), c.objc, c), w |-> Len(h.mem) + 1]

\* CheckWord, with the generation of the target for those who keep cards
CheckedWord(h, m, p, k) ==
    LET w == h.mem[p].f[k]
    IN  IF isBOXED(w) /\ Valid(h, w) /\ IS_FROM_SPACE(h, w, m)
        THEN PutWord(MajorGC_ForwardObj(h, m, w), p, k)
        ELSE [h |-> h, g |-> CARD_CLEAN]

MajorGC_CheckWord(h, m, p, k) == CheckedWord(h, m, p, k).h

\* the words of the cells ps, in order, with the youngest generation they
\* now refer to
Younger(r, g) == [r EXCEPT !.g = Min({@, g})]

SweepWords(h, m, ps, mark0) ==
    LET word(a, p, k) == Younger(CheckedWord(a.h, m, p, k), a.g)
        cell(a, p) == FoldLeft(LAMBDA b, k : word(b, p, k), a, Upto(PtrLen(h.mem[p])))
    IN  FoldLeft(cell, [h |-> h, g |-> mark0],
                 SelectSeq(Upto(Len(h.mem)), LAMBDA p : p \in ps))

(***************************************************************************)
(* One dirty card of generation g > m: its words are checked up to         *)
(* sweep_nextw and the card is marked again with what it now refers to.    *)
(* Only words that pointed to from-space count for the new mark.           *)
(***************************************************************************)
MarkScanned(r, m, g, card) ==
    IF r.g <= g - 1 THEN [r.h EXCEPT !.cards[g][card] = r.g]
    ELSE IF g - 1 = m THEN [r.h EXCEPT !.cards[g][card] = CARD_CLEAN]
    ELSE r.h

ScanCard(h, m, g, card) ==
    LET cells == {x \in ArrayCells(h, g) \ h.todo : CARD_INDEX(h, x) = card}
    IN  MarkScanned(SweepWords(h, m, cells, g), m, g, card)

\* a root, and the dirty cards of generation g
MajorGC_Root(h, m, r) ==
    IF isBOXED(h.roots[r]) /\ IS_FROM_SPACE(h, h.roots[r], m)
    THEN PutRoot(MajorGC_ForwardObj(h, m, h.roots[r]), r) ELSE h

ScanCards(h, m, g) ==
    FoldLeft(LAMBDA a, i : IF a.cards[g][i - 1] <= m THEN ScanCard(a, m, g, i - 1) ELSE a,
             h, Upto(Cardinality(DOMAIN h.cards[g])))

\* Mutant: only the cards of the next older generation are scanned.
MajorGC_ScanRootsNext(h, m) ==
    FoldLeft(LAMBDA a, g : ScanCards(a, m, g),
             FoldLeft(LAMBDA a, r : MajorGC_Root(a, m, r), h, Upto(Len(h.roots))),
             IF m < NumGens THEN <<m + 1>> ELSE <<>>)

\* MajorGC_ScanRoots: the roots, and the dirty cards of the older generations
MajorGC_ScanRoots(h, m) ==
    FoldLeft(LAMBDA a, g : ScanCards(a, m, g),
             FoldLeft(LAMBDA a, r : MajorGC_Root(a, m, r), h, Upto(Len(h.roots))),
             [i \in 1 .. NumGens - m |-> m + i])

(***************************************************************************)
(* Sweep one cell of an array arena: the card keeps the youngest           *)
(* generation referred to, when that is younger than its own.              *)
(***************************************************************************)
MarkSwept(r, p) == MarkYounger(r.h, p, r.g)

MajorGC_SweepToSpArrays(h, m, p) ==
    MarkSwept(SweepWords(h, m, {p}, CARD_CLEAN), p)

RECURSIVE SweepToSpArena(_, _, _, _)
SweepToSpArena(h, m, g, a) ==
    LET left == {x \in h.todo : h.mem[x].gen = g /\ h.mem[x].objc = a}
    IN  IF left = {} THEN h
        ELSE LET p == Min(left)
                 h1 == IF a = "array" THEN MajorGC_SweepToSpArrays(h, m, p)
                       ELSE SweepWords(h, m, {p}, CARD_CLEAN).h
             IN  SweepToSpArena([h1 EXCEPT !.todo = @ \ {p}], m, g, a)

\* youngest generation first, until a pass over all of them sweeps nothing
RECURSIVE MajorGC_SweepToSpace(_, _, _)
MajorGC_SweepToSpace(h, m, maxSweptGen) ==
    IF h.todo = {} THEN h
    ELSE LET gen(b, g) == FoldLeft(LAMBDA c, a : SweepToSpArena(c, m, g, a), b, Arenas)
         IN  MajorGC_SweepToSpace(
                FoldLeft(gen, h, [g \in 1 .. maxSweptGen |-> g]), m, maxSweptGen)

\* Mutant: an unreached old object is taken for one that was kept.
ReclaimYoungOnly(h, m, i) ==
    MapCells(h, LAMBDA c :
        IF c.objc # "code" \/ c.gen # i THEN c
        ELSE CASE c.st = "young" -> [c EXCEPT !.st = "free"]
               [] c.st = "promote" -> [c EXCEPT !.st = "old", !.gen = @ + 1]
               [] OTHER -> [c EXCEPT !.st = "old"])

(***************************************************************************)
(* Reclaim the big objects of generation i that were not reached; the      *)
(* others keep in step with the ages of the small objects.                 *)
(***************************************************************************)
ReclaimBigObjs(h, m, i) ==
    LET forwardState == IF i # NumGens THEN "old" ELSE "young"
        promoteState == IF i # NumGens /\ i # m /\ i # NumGens - 1 THEN "old" ELSE "young"
        state(c) ==
          IF c.objc # "code" \/ c.gen # i THEN c
          ELSE CASE c.st \in {"young", "old"} -> [c EXCEPT !.st = "free"]
                 [] c.st = "forward" -> [c EXCEPT !.st = forwardState]
                 [] c.st = "promote" -> [c EXCEPT !.st = promoteState, !.gen = @ + 1]
                 [] OTHER -> c
    IN  MapCells(h, state)

\* relabel the big-object region to reflect promotions
RelabelRegions(h, m) ==
    LET gens == {h.mem[x].gen : x \in {y \in DOMAIN h.mem : /\ h.mem[y].objc = "code"
                                                            /\ h.mem[y].st # "free"}}
    IN  IF h.minGen <= m THEN [h EXCEPT !.minGen = Min(gens \cup {MAX_NUM_GENS})] ELSE h

\* oldTop: everything that survived is old, except in the oldest generation
RememberTops(h, m) ==
    MapCells(h, LAMBDA c :
        IF c.gen \in 1 .. m /\ c.space = "to" /\ c.objc # "code"
        THEN [c EXCEPT !.st = IF c.gen = NumGens THEN "young" ELSE "old"]
        ELSE c)

MajorGC(h, m, maxCards) ==
    LET maxSweptGen == IF m < NumGens THEN m + 1 ELSE m
        h1 == MajorGC_ScanRoots(FlipGens(h, m, maxCards), m)
        h2 == ScanWeakPtrs(MajorGC_SweepToSpace(h1, m, maxSweptGen))
        h3 == FoldLeft(LAMBDA b, i : ReclaimBigObjs(b, m, i), h2,
                       [i \in 1 .. m |-> m + 1 - i])
    IN  Verified(RememberTops(RelabelRegions(h3, m), m), maxSweptGen)
=============================================================================
