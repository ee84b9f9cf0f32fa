----------------------------- MODULE HeapImport -----------------------------
(***************************************************************************)
(* Rebuilding a heap from an image (gc/import-heap.c, gc/heap-in-util.c).  *)
(* The arenas are read to wherever the new process has room for them, and  *)
(* then every pointer is moved by the distance of what it points to.       *)
(*                                                                         *)
(* An input buffer b is [data, pos, nbytes, mem, ok]; an image in memory   *)
(* has nbytes left, a file is read from pos.  ok is FALSE once a read has  *)
(* failed, which ends the process: every caller but HeapIO_ReadExterns     *)
(* dies then.                                                              *)
(***************************************************************************)
EXTENDS HeapExport

CONSTANTS
    CardSz,       \* CARD_SZB, in words
    MaxGarbage    \* bound: the largest number of externs in a header that was not read

CARD_CLEAN == NumGens + 1

OpenImage(data, mem) ==
    [data |-> data, pos |-> 0, nbytes |-> IF mem THEN Len(data) ELSE 0, mem |-> mem, ok |-> TRUE]

HeapIO_Seek(b, offset) ==
    IF b.mem THEN IF b.pos + b.nbytes <= offset THEN [b EXCEPT !.ok = FALSE]
                  ELSE [b EXCEPT !.nbytes = @ - (offset - b.pos), !.pos = offset]
    ELSE [b EXCEPT !.pos = offset, !.nbytes = 0]

\* the buffer after a read of len words; Block is what was read
HeapIO_ReadBlock(b, len) ==
    IF b.nbytes >= len THEN [b EXCEPT !.nbytes = @ - len, !.pos = @ + len]
    ELSE IF ~ b.mem /\ b.pos + len <= Len(b.data) THEN [b EXCEPT !.pos = @ + len]
    ELSE IF b.mem THEN [b EXCEPT !.ok = FALSE]
    ELSE [b EXCEPT !.pos = Max({@, Len(b.data)}), !.ok = FALSE]

\* What a read returns.  Words that are not in the file are whatever the
\* memory held before: zeroes here.
Block(b, len) == [i \in 1 .. len |-> IF b.pos + i <= Len(b.data) THEN b.data[b.pos + i]
                                     ELSE <<"int", 0>>]

\* What a name stands for in this process.  In place of a name that was not read there is whatever
\* the memory held before: a name too, or none.
Resolve(t, v) ==
    IF v[1] = "name" THEN {ImportCSymbol(t, v[2])}
    ELSE {ML_unit} \cup {ImportCSymbol(t, s) : s \in ToSet(Symbols)}

\* HeapIO_ReadExterns: the buffer and the addresses of the names, in this process.  Neither of the
\* two reads is checked.
HeapIO_ReadExterns(t, b) ==
    LET b1 == HeapIO_ReadBlock(b, 1)
        hdr == Block(b, 1)[1]
        sizes == IF b1.ok /\ hdr[1] = "externs" THEN {hdr[2]} ELSE 0 .. MaxGarbage
        b2(n) == HeapIO_ReadBlock(b1, n)
        name(n, i) == IF b1.mem /\ ~ b2(n).ok THEN <<"int", 0>> ELSE Block(b1, n)[i]
    IN  UNION {{[b |-> [b2(n) EXCEPT !.ok = TRUE], ext |-> e] :
                   e \in {f \in [1 .. n -> UNION {Resolve(t, name(n, i)) : i \in 1 .. n}] :
                            \A i \in 1 .. n : f[i] \in Resolve(t, name(n, i))}} : n \in sizes}

-----------------------------------------------------------------------------
(***************************************************************************)
(* ReadHeap.  r is the state of the reader: the heap h, the buffer b, the  *)
(* BIBOP of the exporting process, addrOffset[g][a], the table boRegionTbl *)
(* of the exporting process's regions and their relocation information     *)
(* reloc, and prevSz[a], the size of the arenas of the generation before.  *)
(***************************************************************************)
AddRegion(r, info) ==
    LET base == info[2]
        sz == info[3]
        npages == (sz - BOPageSz) \div BOPageSz
    IN  [r EXCEPT
          !.oldBibop = [MarkRegion(@, base, sz, AID_BIGOBJ(MAX_NUM_GENS))
                        EXCEPT ![base \div PageSz] = AID_BIGOBJ_HDR(MAX_NUM_GENS)],
          !.reloc = Append(@, [firstPage |-> base + BOPageSz, nPages |-> npages,
                               objMap |-> [i \in 1 .. npages |-> <<>>]]),
          !.boRegionTbl = AddrTblInsert(@, base, Len(r.reloc) + 1)]

StartReader(h, b, numBORegions) ==
    FoldLeft(AddRegion,
             [h |-> h, b |-> HeapIO_ReadBlock(b, numBORegions),
              oldBibop |-> [p \in DOMAIN h.bibop |-> AID_UNMAPPED],
              addrOffset |-> [g \in Gens |-> [a \in ToSet(Arenas) |-> 0]],
              boRegionTbl |-> MakeAddrTbl(2 * PageSz, numBORegions), reloc |-> <<>>,
              prevSz |-> [a \in ToSet(Arenas) |-> AllocSz]],
             Block(b, numBORegions))

\* the header of arena a of generation g
HdrOf(hdrs, g, a) == hdrs[CHOOSE i \in DOMAIN hdrs : hdrs[i][1] = a /\ hdrs[i][2] = g]

\* make room for generation g, and note where its arenas were
AllocGen(r, hdrs, g) ==
    LET hdr(a) == HdrOf(hdrs, g, a)
        want(a) == hdr(a)[5] + r.prevSz[a]
        sz == [a \in ToSet(Arenas) |->
                 Roundup(IF a = "pair" /\ want(a) > 0 THEN want(a) + 2 ELSE want(a), PageSz)]
        mark(bibop, i) == MarkRegion(bibop, hdr(Arenas[i])[4], Roundup(hdr(Arenas[i])[5], PageSz),
                                     <<Arenas[i], g>>)
    IN  [r EXCEPT !.oldBibop = FoldLeft(mark, @, Numbered),
                  !.prevSz = [a \in ToSet(Arenas) |-> hdr(a)[5]],
                  !.h = [NewGeneration(@, g, sz) EXCEPT
                           !.dirty[g] = [c \in 1 .. sz["array"] \div CardSz |-> CARD_CLEAN]]]

\* Mutant: a read that fails goes unnoticed.
ReadArenaUnchecked(r, hdr) ==
    LET g == hdr[2]  a == hdr[1]  n == hdr[5]
        at == HeapIO_Seek(r.b, hdr[3])
    IN  IF n = 0 THEN r
        ELSE [r EXCEPT !.b = [HeapIO_ReadBlock(at, n) EXCEPT !.ok = TRUE],
                       !.h.arena[g][a].words = Block(at, n),
                       !.addrOffset[g][a] = r.h.arena[g][a].base - hdr[4]]

\* read arena a of generation g
ReadArena(r, hdr) ==
    LET g == hdr[2]  a == hdr[1]  n == hdr[5]
        at == HeapIO_Seek(r.b, hdr[3])
    IN  IF n = 0 THEN r
        ELSE [r EXCEPT !.b = HeapIO_ReadBlock(at, n), !.h.arena[g][a].words = Block(at, n),
                       !.addrOffset[g][a] = r.h.arena[g][a].base - hdr[4]]

\* Cut the next object off the free descriptor d, and note where it was.
AllocBODesc(r, d, objHdr, data) ==
    LET base == objHdr[3]
        n == BOPages(objHdr[4])
        got == IF r.h.desc[d].size = n * BOPageSz THEN [h |-> r.h, d |-> d] ELSE SplitDesc(r.h, d, n)
        k == AddrTblLookup(r.boRegionTbl, HdrPage(r.oldBibop, base \div PageSz) * PageSz)
        first == ADDR_TO_BOPAGE(r.reloc[k], base)
    IN  [r |-> [r EXCEPT
            !.h = [UseDesc(got.h, got.d, objHdr[2], objHdr[4], data) EXCEPT
                     !.bigObjs[objHdr[2]] = <<got.d>> \o @],
            !.reloc[k] = SetObjMap(@, first, n, [oldAddr |-> base, newObj |-> got.d])],
         last |-> got.d]

\* the code objects of generation g: one region for all of them
ReadBigObjs(r, hdr) ==
    LET g == hdr[2]  n == hdr[4]  tot == hdr[5] * BOPageSz
        fresh == BO_AllocRegion(r.h, tot)
        marked == SetMinGen(fresh.h, fresh.h.desc[fresh.d].region, g)
        hdrs == Block(r.b, n)
        b1 == HeapIO_ReadBlock(r.b, n)
        words == Block(b1, tot)
        start(i) == MapThenSumSet(LAMBDA j : Roundup(hdrs[j][4], BOPageSz), 1 .. i - 1)
        data(i) == SubSeq(words, start(i) + 1, start(i) + Roundup(hdrs[i][4], BOPageSz))
        add(s, i) == AllocBODesc(s.r, fresh.d, hdrs[i], data(i))
        done(s) == IF s.last = fresh.d THEN s.r
                   ELSE [s.r EXCEPT !.h.freeBigObjs = AddBODesc(@, fresh.d)]
    IN  IF hdr[5] = 0 THEN r
        ELSE IF ~ HeapIO_ReadBlock(b1, tot).ok THEN [r EXCEPT !.b.ok = FALSE]
        ELSE done(FoldLeft(add, [r |-> [r EXCEPT !.h = marked, !.b = HeapIO_ReadBlock(b1, tot)],
                                 last |-> 0], [i \in 1 .. n |-> i]))

ReadGen(r, hdrs, g) ==
    LET arenas == FoldLeft(LAMBDA s, i : ReadArena(s, HdrOf(hdrs, g, Arenas[i])),
                           AllocGen(r, hdrs, g), Numbered)
    IN  IF arenas.b.ok THEN ReadBigObjs(arenas, HdrOf(hdrs, g, "code")) ELSE arenas

\* read all of the heap; nothing is repaired yet
ReadHeap(h, b, numBORegions) ==
    LET r0 == IF HeapIO_ReadBlock(b, numBORegions).ok THEN StartReader(h, b, numBORegions)
              ELSE [h |-> h, b |-> [b EXCEPT !.ok = FALSE]]
        hdrs == Block(r0.b, 6 * NumGens)
        r1 == [r0 EXCEPT !.b = HeapIO_ReadBlock(@, 6 * NumGens)]
    IN  IF ~ r0.b.ok THEN r0
        ELSE IF ~ r1.b.ok THEN r1
        ELSE FoldLeft(LAMBDA r, g : IF r.b.ok THEN ReadGen(r, hdrs, g) ELSE r, r1, [g \in Gens |-> g])

-----------------------------------------------------------------------------
(***************************************************************************)
(* Relocation.                                                             *)
(***************************************************************************)
AddrToRelocInfo(r, a) ==
    LET k == AddrTblLookup(r.boRegionTbl, HdrPage(r.oldBibop, a \div PageSz) * PageSz)
    IN  ADDR_TO_BODESC(r.reloc[k], a)

\* an extern, or whatever is in memory after the table
ExternOf(externs, i) == IF i < Len(externs) THEN externs[i + 1] ELSE <<"int", -1>>

\* Mutant: an address in a code object is taken for the object's first word.
RepairWordStart(r, externs, w) ==
    LET aid == ADDR_TO_PAGEID(r.oldBibop, w[2])
        info == AddrToRelocInfo(r, w[2])
    IN  IF isBOXED(w)
        THEN IF IS_BIGOBJ_AID(aid) THEN <<"ptr", r.h.desc[info.newObj].obj>>
             ELSE <<"ptr", w[2] + r.addrOffset[aid[2]][aid[1]]>>
        ELSE IF isEXTERNTAG(w) THEN ExternOf(externs, w[2])
        ELSE w

RepairWord(r, externs, w) ==
    LET aid == ADDR_TO_PAGEID(r.oldBibop, w[2])
        info == AddrToRelocInfo(r, w[2])
    IN  IF isBOXED(w)
        THEN IF IS_BIGOBJ_AID(aid) THEN <<"ptr", w[2] - info.oldAddr + r.h.desc[info.newObj].obj>>
             ELSE <<"ptr", w[2] + r.addrOffset[aid[2]][aid[1]]>>
        ELSE IF isEXTERNTAG(w) THEN ExternOf(externs, w[2])
        ELSE w

\* the generation of what a word of the image points to
GenOfOld(r, w) ==
    LET aid == ADDR_TO_PAGEID(r.oldBibop, w[2])
    IN  IF IS_BIGOBJ_AID(aid) THEN r.h.desc[AddrToRelocInfo(r, w[2]).newObj].gen ELSE aid[2]

\* Mutant: code objects are left out of the cards.
DirtyCardsNoCode(r, g) ==
    LET words == r.h.arena[g]["array"].words
        younger(i) == /\ isBOXED(words[i]) /\ ~ IS_BIGOBJ_AID(ADDR_TO_PAGEID(r.oldBibop, words[i][2]))
                      /\ GenOfOld(r, words[i]) < g
        inCard(c) == {i \in DOMAIN words : (i - 1) \div CardSz = c - 1 /\ younger(i)}
    IN  [c \in DOMAIN r.h.dirty[g] |-> Min({CARD_CLEAN} \cup {GenOfOld(r, words[i]) : i \in inCard(c)})]

\* the cards of generation g, marked for the pointers into younger generations
DirtyCards(r, g) ==
    LET words == r.h.arena[g]["array"].words
        younger(i) == isBOXED(words[i]) /\ GenOfOld(r, words[i]) < g
        inCard(c) == {i \in DOMAIN words : (i - 1) \div CardSz = c - 1 /\ younger(i)}
    IN  [c \in DOMAIN r.h.dirty[g] |-> Min({CARD_CLEAN} \cup {GenOfOld(r, words[i]) : i \in inCard(c)})]

\* RepairHeap of the importer: relocate every word that may be a pointer
RelocateHeap(r, externs) ==
    [r.h EXCEPT
      !.dirty = [g \in Gens |-> DirtyCards(r, g)],
      !.arena = [g \in Gens |-> [a \in ToSet(Arenas) |->
                   [@[g][a] EXCEPT !.words = [i \in DOMAIN @ |->
                      IF i \in ToSet(Scanned(a, @)) THEN RepairWord(r, externs, @[i]) ELSE @[i]]]]]]
=============================================================================
