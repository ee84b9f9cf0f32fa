----------------------------- MODULE HeapExport -----------------------------
(***************************************************************************)
(* Saving the heap of a running program to a file (gc/export-heap.c,       *)
(* gc/heap-out-util.c, kernel/writer.c).                                   *)
(*                                                                         *)
(* A word is <<"int", n>>, <<"ptr", address>>, <<"desc", length, pointers>>, *)
(* <<"ext", index>> (an external reference) or <<"code", object, offset>>. *)
(* A heap has the fields of BigObjects and                                 *)
(*   arena   arena[g][a] = [base, words, needsRepair]                      *)
(*   dirty   dirty[g][c], the youngest generation card c of the arrays of  *)
(*           generation g may refer to                                     *)
(* The file is a sequence of words and headers; every header is one unit.  *)
(***************************************************************************)
EXTENDS BigObjects, CGlobals

CONSTANTS
    Symbols,      \* the C symbols, in the order they are recorded
    FilePageSz,   \* GETPAGESIZE(), in words
    AllocSz       \* heap->allocSzB, in words

Arenas == <<"record", "pair", "mixed", "string", "array">>
Gens == 1 .. NumGens

isBOXED(w) == w[1] = "ptr"
isEXTERNTAG(w) == w[1] = "ext"
isEXTERN(bibop, w) == isBOXED(w) /\ ADDR_TO_PAGEID(bibop, w[2]) = AID_UNMAPPED

Numbered == [i \in DOMAIN Arenas |-> i]
SizeBefore(sz, i) == MapThenSumSet(LAMBDA j : sz[Arenas[j]], 1 .. i - 1)

\* lay out the arenas of generation g, of sizes sz, in a new memory object;
\* an arena of size 0 is not active
NewGeneration(h, g, sz) ==
    LET tot == SizeBefore(sz, Len(Arenas) + 1)
        obj == MEM_AllocMemObj(h, tot)
        ix(a) == CHOOSE i \in DOMAIN Arenas : Arenas[i] = a
        base(a) == IF sz[a] > 0 THEN obj + SizeBefore(sz, ix(a)) ELSE 0
        slot(a) == IF a = "pair" /\ sz[a] > 0 THEN <<ML_unit, ML_unit>> ELSE <<>>
        mark(b, i) == MarkRegion(b, base(Arenas[i]), sz[Arenas[i]], <<Arenas[i], g>>)
    IN  IF tot = 0 THEN h
        ELSE [MapPages(h, obj, tot) EXCEPT
               !.arena[g] = [a \in ToSet(Arenas) |->
                  [base |-> base(a), words |-> slot(a), needsRepair |-> FALSE]],
               !.bibop = FoldLeft(mark, @, Numbered)]

\* a heap without generations; the first low pages hold C data
NoHeap(low) ==
    [arena |-> [g \in Gens |-> [a \in ToSet(Arenas) |->
                  [base |-> 0, words |-> <<>>, needsRepair |-> FALSE]]],
     dirty |-> [g \in Gens |-> <<>>], pages |-> 0 .. low - 1, bibop |-> [p \in 0 .. NumPages |-> AID_UNMAPPED],
     region |-> <<>>, bigRegions |-> <<>>, desc |-> <<>>, freeBigObjs |-> <<>>,
     bigObjs |-> [g \in Gens |-> <<>>]]

\* InitHeap: new space, and for a boot the generations (one page an arena)
InitHeap(isBoot, low) ==
    LET new(h, base) == [MapPages(h, base, AllocSz) EXCEPT
                           !.bibop = MarkRegion(@, base, AllocSz, <<"new", 0>>)]
        page == [a \in ToSet(Arenas) |-> PageSz]
        h0 == new(NoHeap(low), low * PageSz)
    IN  IF isBoot THEN FoldLeft(LAMBDA h, g : NewGeneration(h, g, page), h0, [g \in Gens |-> g])
        ELSE h0

\* the C symbols of a process, recorded one after the other (InitCFunList)
InitSymbols(addr) ==
    FoldLeft(LAMBDA t, s : IF s \in DOMAIN addr THEN RecordCSymbol(t, s, addr[s]) ELSE t,
             EmptyTables, Symbols)

-----------------------------------------------------------------------------
(***************************************************************************)
(* Scanning.  All of the words of a record, a pair or an array arena may   *)
(* be pointers; in the mixed arena each descriptor says how many are.      *)
(***************************************************************************)
RECURSIVE MixedPtrs(_, _)
MixedPtrs(words, p) ==
    IF p > Len(words) THEN <<>>
    ELSE [i \in 1 .. words[p][3] |-> p + i] \o MixedPtrs(words, p + words[p][2] + 1)

Scanned(a, words) ==
    CASE a = "string" -> <<>>
      [] a = "mixed"  -> MixedPtrs(words, 1)
      [] OTHER        -> [i \in 1 .. Len(words) |-> i]

\* the generations in turn, and in each the arenas in the order they are scanned
ScanOrder(h) ==
    FlattenSeq([g \in Gens |->
        FlattenSeq([k \in 1 .. 4 |->
            LET a == <<"record", "pair", "array", "mixed">>[k]
                ix == Scanned(a, h.arena[g][a].words)
            IN  [n \in DOMAIN ix |-> <<g, a, ix[n]>>]])])

\* replace the addresses of C symbols by external references; only the mixed
\* arena does not record that it needs repair
ScanHeap(h, t) ==
    LET visit(s, at) ==
          LET g == at[1]  a == at[2]
              w == s.h.arena[g][a].words[at[3]]
              exported(e) == [h |-> [s.h EXCEPT !.arena[g][a].words[at[3]] = e.w,
                                                !.arena[g][a].needsRepair = @ \/ a # "mixed"],
                              x |-> e.x]
          IN  IF isEXTERN(s.h.bibop, w) THEN exported(ExportCSymbol(t, s.x, w[2])) ELSE s
        clean == [h EXCEPT !.arena = [g \in Gens |-> [a \in ToSet(Arenas) |->
                    [@[g][a] EXCEPT !.needsRepair = FALSE]]]]
    IN  FoldLeft(visit, [h |-> clean, x |-> NewExportTbl], ScanOrder(h))

\* Mutant: the pair arena is forgotten.
RepairHeapNoPairs(h, x, mixedFlag) ==
    LET repair(a, ap) ==
          IF a # "pair" /\ (ap.needsRepair \/ (a = "mixed" /\ mixedFlag))
          THEN [ap EXCEPT !.needsRepair = FALSE,
                          !.words = [i \in DOMAIN @ |->
                              IF i \in ToSet(Scanned(a, @)) /\ isEXTERNTAG(@[i])
                              THEN AddrOfCSymbol(x, @[i]) ELSE @[i]]]
          ELSE ap
    IN  [h EXCEPT !.arena = [g \in Gens |-> [a \in ToSet(Arenas) |-> repair(a, @[g][a])]]]

\* Put the addresses back, in the arenas that need it.  mixedFlag is the
\* needsRepair field of the mixed arenas, which nothing initialises.
RepairHeap(h, x, mixedFlag) ==
    LET repair(a, ap) ==
          IF ap.needsRepair \/ (a = "mixed" /\ mixedFlag)
          THEN [ap EXCEPT !.needsRepair = FALSE,
                          !.words = [i \in DOMAIN @ |->
                              IF i \in ToSet(Scanned(a, @)) /\ isEXTERNTAG(@[i])
                              THEN AddrOfCSymbol(x, @[i]) ELSE @[i]]]
          ELSE ap
    IN  [h EXCEPT !.arena = [g \in Gens |-> [a \in ToSet(Arenas) |-> repair(a, @[g][a])]]]

\* AddrOfCSymbol would meet an index that is not in the table
BadIndex(h, x, mixedFlag) ==
    \E g \in Gens, a \in ToSet(Arenas) : LET ap == h.arena[g][a] IN
        /\ ap.needsRepair \/ (a = "mixed" /\ mixedFlag)
        /\ \E i \in ToSet(Scanned(a, ap.words)) :
             isEXTERNTAG(ap.words[i]) /\ ap.words[i][2] >= numItems(x)

\* a register, as it is saved: SAVE_REG
SaveReg(h, t, x, w) == IF isEXTERN(h.bibop, w) THEN ExportCSymbol(t, x, w[2]) ELSE [x |-> x, w |-> w]

-----------------------------------------------------------------------------
(***************************************************************************)
(* Writing.  A writer w is [data, pos, err, torn].  Of the words of a      *)
(* block the O.S. takes n; the writer notes an error when these are not    *)
(* all, and later blocks are written nevertheless.  torn is history: words *)
(* of the image are missing from the file.                                 *)
(***************************************************************************)
Put(data, pos, blk) ==
    [i \in 1 .. Max({Len(data), pos + Len(blk)}) |->
       IF i - pos \in DOMAIN blk THEN blk[i - pos]
       ELSE IF i \in DOMAIN data THEN data[i] ELSE <<"hole", 0>>]

WR_OpenFile == [data |-> <<>>, pos |-> 0, err |-> FALSE, torn |-> FALSE]
WR_Seek(w, pos) == [w EXCEPT !.pos = pos]
WR_Write(w, blk, n) ==
    [w EXCEPT !.data = Put(@, w.pos, SubSeq(blk, 1, n)), !.pos = @ + n,
              !.err = @ \/ n < Len(blk), !.torn = @ \/ n < Len(blk)]

\* WR_Free: what is still in the stream's buffer may be lost, and nobody looks
WR_Free(w, flushed) == IF flushed THEN w ELSE [w EXCEPT !.data = Front(@), !.torn = TRUE]

\* HeapIO_WriteImageHeader
ImageHeader(kind) == <<<<"image", kind>>>>
HeapHeader(h, perv) == <<<<"heap", Len(h.bigRegions), perv>>>>

\* HeapIO_WriteExterns: the number of symbols, then their names.  Its writes, of which each may
\* fail, are one block here, of which some words are missing.
Externs(x) == <<<<"externs", numItems(x)>>>> \o [i \in 1 .. numItems(x) |->
                                                    <<"name", ExportedSymbols(x)[i]>>]

RegionInfo(h) == [i \in DOMAIN h.bigRegions |->
                    <<"region", h.bigRegions[i], h.region[h.bigRegions[i]].size>>]

BigObjPages(h, g) == MapThenSumSet(LAMBDA d : BOPages(h.desc[d].size), ToSet(h.bigObjs[g]))

\* the header of every arena and, last in each generation, of its code objects
ArenaHdrs(h, pos) ==
    LET next(hdrs, offset, at) ==
          LET g == at[1]  a == at[2]
          IN  IF a = "code"
              THEN [hdrs |-> Append(hdrs, <<"code", g, offset, Len(h.bigObjs[g]), BigObjPages(h, g)>>),
                    offset |-> offset + Len(h.bigObjs[g]) + BigObjPages(h, g) * BOPageSz]
              ELSE LET n == Len(h.arena[g][a].words)
                   IN  [hdrs |-> Append(hdrs, <<a, g, offset, h.arena[g][a].base, n>>),
                        offset |-> offset + Roundup(n, FilePageSz)]
        order == FlattenSeq([g \in Gens |-> [i \in 1 .. 6 |-> <<g, Append(Arenas, "code")[i]>>]])
    IN  FoldLeft(LAMBDA s, at : next(s.hdrs, s.offset, at),
                 [hdrs |-> <<>>, offset |-> Roundup(pos + 6 * NumGens, FilePageSz)], order).hdrs

\* the blocks an arena header stands for; an arena is written at its offset,
\* the code objects wherever the file is
ArenaBlocks(h, hdr) ==
    IF hdr[1] = "code"
    THEN LET ds == h.bigObjs[hdr[2]]
         IN  IF ds = <<>> THEN <<>>
             ELSE <<[seek |-> -1, blk |-> [i \in DOMAIN ds |->
                      <<"object", h.desc[ds[i]].gen, h.desc[ds[i]].obj, h.desc[ds[i]].size>>]]>>
                  \o [i \in DOMAIN ds |-> [seek |-> -1, blk |-> h.desc[ds[i]].data]]
    ELSE IF hdr[5] = 0 THEN <<>>
    ELSE <<[seek |-> hdr[3], blk |-> h.arena[hdr[2]][hdr[1]].words]>>

\* all blocks WriteHeap writes, from position pos on
HeapBlocks(h, pos) ==
    LET info == RegionInfo(h)
        hdrs == ArenaHdrs(h, pos + Len(info))
    IN  (IF info = <<>> THEN <<>> ELSE <<[seek |-> -1, blk |-> info]>>)
        \o <<[seek |-> -1, blk |-> hdrs]>>
        \o FlattenSeq([i \in DOMAIN hdrs |-> ArenaBlocks(h, hdrs[i])])

\* write the first n of the blocks, and fail at the next one if there is one
WriteBlocks(w, blocks, n) ==
    LET write(v, i) == WR_Write(IF blocks[i].seek < 0 THEN v ELSE WR_Seek(v, blocks[i].seek),
                                blocks[i].blk, Len(blocks[i].blk) - IF i <= n THEN 0 ELSE 1)
    IN  FoldLeft(write, w, [i \in 1 .. Min({n + 1, Len(blocks)}) |-> i])
=============================================================================
