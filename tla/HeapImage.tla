------------------------------ MODULE HeapImage ------------------------------
(***************************************************************************)
(* A program that saves its heap, perhaps more than once and perhaps       *)
(* without success, and a process that starts from the file it left.  The  *)
(* two have their objects and their C symbols at different addresses, and  *)
(* an address of the one is mostly an address of something else in the     *)
(* other.                                                                  *)
(***************************************************************************)
EXTENDS HeapImport

CONSTANTS
    OldAddr,      \* OldAddr[s], the address of symbol s in the exporting process
    NewAddr,      \* ... and in the importing one
    CodeSizes,    \* sizes of code objects, in words
    MaxCode,      \* bound on the allocations and releases of code objects
    MaxObjs,      \* bound on the other objects
    MaxOps,       \* bound on both
    MaxExports,   \* bound on the exports of the program
    MaxTorn,      \* bound on both where a write of an image fails
    CODE_ALLOC_GEN,  \* the generation code objects are allocated in
    Unregistered  \* a C address that is not recorded as a symbol

ASSUME ImageAssumption ==
    NumGens < MAX_NUM_GENS /\ Unregistered \notin {OldAddr[s] : s \in DOMAIN OldAddr}

VARIABLES
    phase,     \* where the program is
    h,         \* its heap
    syms,      \* its C symbols
    regs,      \* the registers and globals that are saved
    ops,       \* operations on code objects, and objects, so far
    exports,   \* exports so far
    x,         \* the export table
    w,         \* the writer
    kind,      \* "heap" or "fn"
    before,    \* heap, registers and C symbols at the last call of ExportImage
    img        \* the reader of the importing process, and the addresses of its externs

vars == <<phase, h, syms, regs, ops, exports, x, w, kind, before, img>>

NoImage == [ext |-> <<>>, r |-> <<>>]
Idle == [h |-> <<>>, regs |-> <<>>]

Init ==
    /\ phase = "build" /\ ops = <<0, 0>> /\ exports = 0
    /\ h = InitHeap(TRUE, 1) /\ syms = InitSymbols(OldAddr)
    /\ regs = [pervStruct |-> ML_unit, arg |-> ML_unit, cont |-> ML_unit]
    /\ x = NewExportTbl /\ w = WR_OpenFile /\ kind = "heap" /\ before = Idle /\ img = NoImage

-----------------------------------------------------------------------------
(***************************************************************************)
(* The program: code objects come and go, then objects are built on them.  *)
(* Only arrays may refer to a younger generation.                          *)
(***************************************************************************)
\* A code object, allocated in generation CODE_ALLOC_GEN and perhaps promoted since.
AllocCode ==
    /\ phase = "build" /\ ops[1] < MaxCode /\ ops[2] = 0
    /\ \E g \in Min({NumGens, CODE_ALLOC_GEN}) .. NumGens, sz \in CodeSizes :
         h' = BO_Alloc(h, g, sz, [i \in 1 .. Roundup(sz, BOPageSz) |-> <<"code", ops[1], i>>])
    /\ ops' = <<ops[1] + 1, 0>>
    /\ UNCHANGED <<phase, syms, regs, exports, x, w, kind, before, img>>

FreeCode ==
    /\ phase = "build" /\ ops[1] < MaxCode /\ ops[2] = 0
    /\ \E d \in LiveDescs(h) : h' = BO_Free(h, d)
    /\ ops' = <<ops[1] + 1, 0>>
    /\ UNCHANGED <<phase, syms, regs, exports, x, w, kind, before, img>>

ObjSize(a) == IF a = "mixed" THEN 3 ELSE 2
\* offset of the first object, and of the address of an object in its words
FirstObj(a) == IF a = "pair" THEN 2 ELSE 0
Header(a) == IF a = "pair" THEN 0 ELSE 1

ObjPtrs(hp, gens) ==
    UNION {{<<"ptr", hp.arena[g][a].base + FirstObj(a) + n * ObjSize(a) + Header(a)>> :
              n \in 0 .. ((Len(hp.arena[g][a].words) - FirstObj(a)) \div ObjSize(a)) - 1} :
           g \in gens, a \in ToSet(Arenas)}

\* addresses at the end of a code object
CodePtrs(hp, gens) ==
    {<<"ptr", hp.desc[d].obj + hp.desc[d].size - 1>> : d \in {e \in LiveDescs(hp) : hp.desc[e].gen \in gens}}

\* addresses in C: of symbols, and one that is not registered
CAddrs == {<<"ptr", OldAddr[s]>> : s \in ToSet(Front(Symbols))} \cup {<<"ptr", Unregistered>>}

\* a raw word that looks like the address of a C symbol, or of an object
RawWord(a) == IF a = "string" THEN <<"ptr", 1>> ELSE <<"ptr", 2 * PageSz>>

ObjWords(a, v) ==
    CASE a = "pair"   -> <<v, ML_unit>>
      [] a = "mixed"  -> <<<<"desc", 2, 1>>, v, RawWord(a)>>
      [] a = "string" -> <<<<"desc", 1, 0>>, RawWord(a)>>
      [] OTHER        -> <<<<"desc", 1, 1>>, v>>

NewObject ==
    /\ phase = "build" /\ ops[2] < MaxObjs /\ ops[1] + ops[2] < MaxOps
    /\ \E g \in Gens, a \in ToSet(Arenas) :
       LET gens == IF a = "array" THEN Gens ELSE g .. NumGens
       IN  \E v \in IF a = "string" THEN {ML_unit} ELSE ObjPtrs(h, gens) \cup CodePtrs(h, gens) \cup CAddrs :
             h' = [h EXCEPT !.arena[g][a].words = @ \o ObjWords(a, v)]
    /\ ops' = <<ops[1], ops[2] + 1>>
    /\ UNCHANGED <<phase, syms, regs, exports, x, w, kind, before, img>>

\* the program calls the export function: two registers refer to C
Run ==
    /\ phase = "build" /\ ops[2] > 0
    /\ regs' = [pervStruct |-> CHOOSE p \in ObjPtrs(h, Gens) : TRUE,
                arg |-> <<"ptr", OldAddr[Symbols[2]]>>, cont |-> <<"ptr", OldAddr[Last(Symbols)]>>]
    /\ phase' = "run"
    /\ UNCHANGED <<h, syms, ops, exports, x, w, kind, before, img>>

-----------------------------------------------------------------------------
(***************************************************************************)
(* ExportImage, in the pieces between which a write can fail.  The heap is *)
(* the one left by the two collections ExportImage begins with.            *)
(***************************************************************************)
\* a heap in which an earlier export left references to its own table
Tainted(hp) == \E g \in Gens, a \in ToSet(Arenas) :
                  \E i \in DOMAIN hp.arena[g][a].words : isEXTERNTAG(hp.arena[g][a].words[i])

\* ExportFnImage clears the registers first and exports a function, here the
\* object the globals refer to.  A heap an earlier export has restored would
\* only repeat that export.
BeginExport(k) ==
    /\ phase = "run" /\ exports < MaxExports /\ (exports = 0 \/ Tainted(h))
    /\ exports' = exports + 1 /\ kind' = k /\ w' = WR_OpenFile
    /\ \E rs \in {IF k = "fn" THEN [regs EXCEPT !.arg = regs.pervStruct, !.cont = ML_unit] ELSE regs} :
         regs' = rs /\ before' = [h |-> h, regs |-> rs]
    /\ \E s \in {ScanHeap(h, syms)} : h' = s.h /\ x' = s.x
    /\ phase' = "scanned"
    /\ UNCHANGED <<syms, ops, img>>

\* the heap is small enough to try an export that fails
WritesFail == ops[1] + ops[2] <= MaxTorn

\* how many of len words the O.S. may take
Taken(len) == IF WritesFail THEN 0 .. len ELSE {len}

\* The first write's error is not looked at; the second one's check finds it.  An error here
\* returns without repairing the heap.
WriteHeaders ==
    /\ phase = "scanned"
    /\ \E n1, n2 \in Taken(1) : \E p \in {SaveReg(h, syms, x, regs.pervStruct)} :
         /\ w' = WR_Write(WR_Write(w, ImageHeader(kind), n1), HeapHeader(h, p.w), n2)
         /\ x' = p.x
         /\ phase' = IF w'.err THEN IF kind = "heap" THEN "run" ELSE "exited" ELSE "headers"
    /\ UNCHANGED <<h, syms, regs, ops, exports, kind, before, img>>

\* HeapIO_WriteExterns returns -1 for an error, which is not FAILURE: the state is written after it.
WriteState ==
    /\ phase = "headers"
    /\ \E p \in {SaveReg(h, syms, x, regs.arg)} :
       \E q \in {SaveReg(h, syms, p.x, regs.cont)} :
         /\ x' = q.x
         /\ \E n1 \in Taken(Len(Externs(q.x))), n2 \in Taken(1) :
              w' = WR_Write(WR_Write(w, Externs(q.x), n1), <<<<"state", p.w, q.w>>>>, n2)
         /\ phase' = IF w'.err THEN "finish" ELSE "state"
    /\ UNCHANGED <<h, syms, regs, ops, exports, kind, before, img>>

WriteHeap ==
    /\ phase = "state"
    /\ \E blocks \in {HeapBlocks(h, w.pos)} : \E n \in Taken(Len(blocks)) :
         w' = WriteBlocks(w, blocks, n)
    /\ phase' = "finish"
    /\ UNCHANGED <<h, syms, regs, ops, exports, x, kind, before, img>>

\* the end of a process: nothing of it remains
Die ==
    /\ phase' = "dead" /\ h' = <<>> /\ syms' = <<>> /\ x' = NewExportTbl /\ w' = WR_OpenFile
    /\ before' = Idle /\ img' = NoImage /\ regs' = <<>> /\ ops' = <<0, 0>> /\ exports' = 0
    /\ kind' = "heap"

\* A program that exports a function ends there.  One that meets a reference
\* of an earlier export's table may find its index too large, and dies.
FinishExport ==
    /\ phase = "finish"
    /\ \E mixedFlag \in BOOLEAN :
         IF kind = "heap" /\ BadIndex(h, x, mixedFlag) THEN Die
         ELSE /\ h' = IF kind = "heap" THEN RepairHeap(h, x, mixedFlag) ELSE h
              /\ phase' = IF kind = "heap" THEN "run" ELSE "exited"
              /\ \E flushed \in {TRUE, w.torn \/ ~ WritesFail} : w' = WR_Free(w, flushed)
              /\ UNCHANGED <<syms, regs, ops, exports, x, kind, before, img>>

-----------------------------------------------------------------------------
(***************************************************************************)
(* ImportHeapImage, in a process that may lack a C symbol, of the file or  *)
(* of what is linked with the program.                                     *)
(***************************************************************************)
Written == exports > 0 /\ phase \in {"run", "exited"}

\* The headers, the extern table and the registers; a first header of another kind is refused.
\* An image in memory whose names are cut short stays where they begin, and if there are enough
\* of them to pass for all that follows, the process goes on with these.
ImportHeapImage ==
    /\ Written
    /\ \E mem \in BOOLEAN, lacks \in {{}, {Head(Symbols)}} :
       \E t \in {InitSymbols([s \in DOMAIN NewAddr \ lacks |-> NewAddr[s]])} :
       \E b0 \in {OpenImage(w.data, mem)} :
       \E b \in {HeapIO_ReadBlock(HeapIO_ReadBlock(b0, 1), 1)} :
         IF ~ b.ok \/ Block(b0, 1) # ImageHeader(kind) THEN lacks = {} /\ Die
         ELSE \E e \in HeapIO_ReadExterns(t, b) :
              \E b2 \in {HeapIO_ReadBlock(e.b, 1)}, state \in {Block(e.b, 1)[1]} :
                /\ lacks # {} => ML_unit \in ToSet(e.ext)     \* a symbol that is used
                /\ \/ (ML_unit \in ToSet(e.ext) \/ ~ b2.ok \/ state[1] # "state") /\ Die
                   \/ /\ ML_unit \notin ToSet(e.ext) /\ b2.ok
                      /\ syms' = t /\ img' = [ext |-> e.ext, r |-> b2]
                      /\ regs' = IF state[1] # "state" THEN <<>>
                                 ELSE [pervStruct |-> w.data[2][3], arg |-> state[2],
                                       cont |-> IF kind = "heap" THEN Last(state) ELSE ML_unit]
                      /\ phase' = IF state[1] = "state" THEN "reading" ELSE "misread"
                      /\ h' = InitHeap(FALSE, 2) /\ x' = NewExportTbl
                      /\ UNCHANGED <<ops, exports, w, kind, before>>

ReadImage ==
    /\ phase = "reading"
    /\ \E r \in {ReadHeap(h, img.r, w.data[2][2])} :
         IF ~ r.b.ok THEN Die
         ELSE /\ phase' = "read" /\ h' = r.h
              /\ img' = [img EXCEPT !.r = [r EXCEPT !.h = <<>>, !.b = <<>>]]
              /\ UNCHANGED <<syms, regs, ops, exports, x, w, kind, before>>

\* the function of a function image starts with a continuation of its own
Relocate ==
    /\ phase = "read"
    /\ \E r \in {[img.r EXCEPT !.h = h]} :
         /\ h' = RelocateHeap(r, img.ext)
         /\ regs' = [[n \in DOMAIN regs |-> RepairWord(r, img.ext, regs[n])] EXCEPT
                       !.cont = IF kind = "fn" THEN <<"ptr", NewAddr[Last(Symbols)]>> ELSE @]
    /\ phase' = "loaded" /\ img' = NoImage
    /\ UNCHANGED <<syms, ops, exports, x, w, kind, before>>

Next ==
    \/ AllocCode \/ FreeCode \/ NewObject \/ Run
    \/ (\E k \in {"heap", "fn"} : BeginExport(k))
    \/ WriteHeaders \/ WriteState \/ WriteHeap \/ FinishExport
    \/ ImportHeapImage \/ ReadImage \/ Relocate

Spec == Init /\ [][Next]_vars

-----------------------------------------------------------------------------
\* what the address a of heap hp means: a place in an arena, a word of code or
\* a C symbol, whose addresses are given by addr
Meaning(hp, addr, a) ==
    LET arenas == {<<g, b>> \in Gens \X ToSet(Arenas) :
                     a - hp.arena[g][b].base \in 0 .. Len(hp.arena[g][b].words) - 1}
        code == {d \in LiveDescs(hp) : a - hp.desc[d].obj \in 0 .. hp.desc[d].size - 1}
    IN  IF arenas # {}
        THEN LET ga == CHOOSE p \in arenas : TRUE
             IN  <<ga, a - hp.arena[ga[1]][ga[2]].base>>
        ELSE IF code # {}
        THEN LET d == CHOOSE e \in code : TRUE
             IN  <<hp.desc[d].gen, hp.desc[d].data[a - hp.desc[d].obj + 1]>>
        ELSE <<"symbol", {s \in DOMAIN addr : addr[s] = a}>>

WordMeaning(hp, addr, v) == IF isBOXED(v) THEN Meaning(hp, addr, v[2]) ELSE v

\* an export reports an address in C that is not registered, and makes it unit
IsLost(v) == v = <<"ptr", Unregistered>>
Kept(v) == IF IsLost(v) THEN ML_unit ELSE v

SameWords(hp, hq, g, a) ==
    LET us == hp.arena[g][a].words
        vs == hq.arena[g][a].words
    IN  /\ Len(us) = Len(vs)
        /\ \A i \in DOMAIN us :
             IF i \in ToSet(Scanned(a, us))
             THEN WordMeaning(hp, OldAddr, Kept(us[i])) = WordMeaning(hq, NewAddr, vs[i])
             ELSE us[i] = vs[i]

\* The new process has the heap of the old one: every word that may be a
\* pointer means the same object, the same word of code or the same C symbol,
\* raw words are unchanged, and so are the registers (RepairWord in
\* import-heap.c).  Excepted are the addresses in C that are not registered,
\* which are unit, and a heap an earlier export did not restore.
RoundTrip ==
    phase = "loaded" /\ ~ Tainted(before.h) =>
        /\ \A g \in Gens, a \in ToSet(Arenas) :
             \/ SameWords(before.h, h, g, a)
             \/ a = "pair" /\ h.arena[g][a].words = <<>> /\ Len(before.h.arena[g][a].words) = 2
        /\ \A n \in DOMAIN regs \ (IF kind = "fn" THEN {"cont"} ELSE {}) :
             WordMeaning(before.h, OldAddr, before.regs[n]) = WordMeaning(h, NewAddr, regs[n])

\* A new process can collect its young generations: every array that refers
\* to a younger generation has its card marked for it (RepairHeap in
\* import-heap.c rebuilds the cards, which are not in the image).
ImportRemembers ==
    phase = "loaded" /\ ~ Tainted(before.h) =>
        \A g \in Gens : \A i \in DOMAIN h.arena[g]["array"].words :
          LET v == h.arena[g]["array"].words[i]
              aid == ADDR_TO_PAGEID(h.bibop, v[2])
              to == IF IS_BIGOBJ_AID(aid) THEN h.desc[BO_GetDesc(h, v[2])].gen ELSE aid[2]
          IN  isBOXED(v) /\ aid # AID_UNMAPPED /\ to < g
                => h.dirty[g][(i - 1) \div CardSz + 1] <= to

\* An export that wrote its headers leaves the running program as it was,
\* whether it succeeds or fails later (RepairHeap in export-heap.c): all but
\* the C addresses that are not registered, which the export has made unit,
\* and those in mixed objects, whose repair depends on a field nobody sets.
ExportRestores ==
    phase = "run" /\ exports > 0 /\ Len(w.data) >= 2 /\ ~ Tainted(before.h) =>
        \A g \in Gens, a \in ToSet(Arenas) :
          LET old == before.h.arena[g][a].words
              new == h.arena[g][a].words
          IN  /\ Len(new) = Len(old)
              /\ \A i \in DOMAIN old :
                   \/ new[i] = old[i]
                   \/ IsLost(old[i]) /\ new[i] = ML_unit
                   \/ a = "mixed" /\ isEXTERNTAG(new[i]) /\ AddrOfCSymbol(x, new[i]) = old[i]

\* Code objects tile their regions in the exporting and in the importing
\* process, and an address in one finds its descriptor (big-objects.c,
\* AllocBODesc in import-heap.c).
BigObjectsTile == phase # "dead" => Tiled(h)

\* An image with words missing is refused: whichever write failed, and if the
\* end of the file was never flushed, no process runs from it.  The reads of
\* HeapIO_ReadExterns are not checked; it is the READ of what comes after the
\* names in import-heap.c that fails.  Excepted is an image in memory cut short
\* within its names, which may be taken for the rest.
TornRefused ==
    /\ phase \in {"read", "loaded"} => ~ w.torn
    /\ phase = "misread" => img.r.mem /\ Last(w.data)[1] \in {"name", "state"}
=============================================================================
