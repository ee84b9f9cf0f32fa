------------------------------ MODULE Literals -------------------------------
(***************************************************************************)
(* The interpreters that build the literals of a compilation unit in the   *)
(* heap: BuildLiteralsV1 (gc/old-literals.c), BuildLiteralsV2 and          *)
(* BuildLiterals (gc/build-literals-v2.c, -v3.c).  Any instruction may     *)
(* collect, which moves every object: an ML value that is in a C variable  *)
(* and not among the roots is STALE afterwards.                            *)
(*                                                                         *)
(* The state of the interpreter is the record m.  A literal stands for the *)
(* ML value that represents it; sizes are in words.  Versions 2 and 3 are  *)
(* those of a 64-bit build, version 1 that of a 32-bit one.                *)
(***************************************************************************)
EXTENDS LiteralCode, FiniteSetsExt, TLC

CONSTANTS
    Nursery,        \* words of the allocation space below the limit
    HEAP_BUF_SZ,    \* words between the limit and its end
    SMALL_OBJ_SZW,  \* larger objects go to the first generation
    Reserve,        \* words free when the builder is called
    LowWater,       \* 512 words (version 2), 1K (version 1)
    FREE_REQ,       \* FREE_REQ_SZB
    StringArena,    \* words of the first generation's string arena
    MaxDepth,       \* maxDepth of the header
    MaxOuter,       \* bound on the shared records around a literal that is saved
    Saveds,         \* the values tried for its maxSaved, which nothing bounds
    Numbers,        \* the integers in literals
    Lens,           \* string and raw data lengths, in words
    Wide,           \* lengths and small numbers the decoder is tried on
    WideNumbers,    \* further numbers
    MaxInstrs       \* bound on the length of a program

\* The literals of a fixed size fit in the low-water mark, and the free space
\* a collection is to restore in the allocation space ("must be less than
\* MIN_ALLOC_SZB").
ASSUME SpaceAssumption == LowWater >= 7 /\ FREE_REQ < Nursery

VARIABLES version, src, m, result, count

vars == <<version, src, m, result, count>>

ML_unit == <<"int", Num(0)>>
STALE == <<"stale">>

\* Objects in the collected heap; ML_string0 and ML_vector0 are C data
Object(v) == v[1] \in {"boxed", "rawdata", "string", "record", "rawrecord", "mixed", "vector"}
Boxed(v) == Object(v) /\ v \notin {<<"string", 0>>, <<"vector", << >>>>}

RECURSIVE HasStale(_)
HasStale(v) ==
    \/ v = STALE
    \/ v[1] \in {"record", "vector", "mixed", "rawrecord"}
       /\ \E i \in DOMAIN v[2] : HasStale(v[2][i])

-----------------------------------------------------------------------------
(* The allocation space *)

\* ML_AllocWrite ... ML_Alloc of w words in all
Alloc(s, w) == [s EXCEPT !.free = @ - w, !.low = Min({@, s.free - w})]

\* A collection empties the allocation space; what is not a root is lost
InvokeGCWithRoots(s, roots) ==
    LET Lost(v) == IF Boxed(v) THEN STALE ELSE v
    IN  [s EXCEPT
            !.free = Nursery,
            !.code = IF "code" \in roots THEN @ ELSE Lost(@),
            !.saved = IF "saved" \in roots THEN @ ELSE [k \in DOMAIN @ |-> Lost(@[k])],
            !.stk = IF "stk" \in roots THEN @
                    ELSE [k \in DOMAIN @ |-> [@[k] EXCEPT !.val = Lost(@)]]]

-----------------------------------------------------------------------------
(* Version 3: stack and saved array are C arrays *)

Item(kind, v) == [kind |-> kind, val |-> v]

\* Mutant: the stack's roots are read back from the first word of the record
GCRestoreShifted(s) ==
    LET nSaved == Len(s.saved)
        rootObj == s.saved \o [i \in DOMAIN s.stk |->
                       IF s.stk[i].kind = "OBJ" THEN s.stk[i].val ELSE ML_unit]
    IN  [InvokeGCWithRoots(Alloc(s, Len(rootObj) + 1), {"code"}) EXCEPT
            !.manyRoots = @ \/ Len(rootObj) + 1 > HEAP_BUF_SZ,
            !.saved = SubSeq(rootObj, 1, nSaved),
            !.stk = [i \in DOMAIN @ |->
                        IF @[i].kind = "OBJ" THEN Item("OBJ", rootObj[i]) ELSE @[i]]]

\* The roots are copied to a record in the heap and read back in order;
\* the record is written without a check, and nothing bounds the saved values:
\* manyRoots says that one was larger than the buffer
GC(s) ==
    LET nSaved == Len(s.saved)
        rootObj == s.saved \o [i \in DOMAIN s.stk |->
                       IF s.stk[i].kind = "OBJ" THEN s.stk[i].val ELSE ML_unit]
    IN  [InvokeGCWithRoots(Alloc(s, Len(rootObj) + 1), {"code"}) EXCEPT
            !.manyRoots = @ \/ Len(rootObj) + 1 > HEAP_BUF_SZ,
            !.saved = SubSeq(rootObj, 1, nSaved),
            !.stk = [i \in DOMAIN @ |->
                        IF @[i].kind = "OBJ" THEN Item("OBJ", rootObj[nSaved + i]) ELSE @[i]]]

\* Mutant: without the last word
CheckGCExact(s, reqSpace) == IF s.free >= 0 /\ reqSpace - 1 > s.free THEN GC(s) ELSE s

\* availSpace is unsigned: past the limit it is huge
CheckGC(s, reqSpace) == IF s.free >= 0 /\ reqSpace > s.free THEN GC(s) ELSE s

Push(s, kind, v) == [s EXCEPT !.stk = Append(@, Item(kind, v))]
PushTaggedInt(s, n) == Push(s, "TAGINT", <<"int", n>>)
PushRawInt64(s, n) == Push(s, "RAWINT", <<"raw", n>>)
PushReal64(s) == Push(s, "REAL64", <<"real", 0>>)
PushMLValue(s, v) == Push(s, "OBJ", v)

\* n fields off the stack, into an object of the given kind
Fields(s, n) == [i \in 1 .. n |-> s.stk[Len(s.stk) - n + i].val]
Pop(s, n) == [s EXCEPT !.stk = SubSeq(@, 1, Len(@) - n)]
Build(s, kind, n) == PushMLValue(Pop(Alloc(s, n + 1), n), <<kind, Fields(s, n)>>)

PushRecord(s, sz) == Build(CheckGC(s, sz + 1), "record", sz)
PushRawRecord(s, sz) == Build(CheckGC(s, sz + 1), "rawrecord", sz)
PushMixedRecord(s, ptrLen, rawLen) ==
    Build(CheckGC(s, ptrLen + rawLen + 1), "mixed", ptrLen + rawLen)

\* A large string's data goes to the first generation, and the header of
\* three words to the allocation space, unchecked
LargeString(s, szw) ==
    LET grown == IF s.strFree <= szw + 1
                 THEN [GC(s) EXCEPT !.strFree = Max({StringArena, szw + 2})] ELSE s
    IN  [grown EXCEPT !.strFree = @ - (szw + 1), !.over = @ \/ grown.free < 3]

PushString(s, szw) ==
    IF szw > SMALL_OBJ_SZW
    THEN PushMLValue(Alloc(LargeString(s, szw), 3), <<"string", szw>>)
    ELSE PushMLValue(Alloc(CheckGC(s, szw + 1 + 3), szw + 1 + 3), <<"string", szw>>)

\* Data object, then header; a vector of more than SMALL_OBJ_SZW is not implemented
PushVector(s, len) == Alloc(Build(CheckGC(s, len + 1 + 3), "vector", len), 3)

ExecuteV3(s, i) ==
    CASE i[1] = "INT63"    -> PushTaggedInt(s, i[2])
      [] i[1] = "RAWINT64" -> PushRawInt64(s, i[2])
      [] i[1] = "REAL64"   -> PushReal64(s)
      [] i[1] = "STR8"     -> IF i[2] = 0 THEN PushMLValue(s, <<"string", 0>>)
                              ELSE PushString(s, i[2])
      [] i[1] = "RECORD"   -> PushRecord(s, i[2])
      [] i[1] = "RAWBLOCK" -> PushRawRecord(s, i[2])
      [] i[1] = "MIXED"    -> PushMixedRecord(s, i[2], i[3])
      [] i[1] = "VEC"      -> IF i[2] = 0 THEN PushMLValue(s, <<"vector", << >>>>)
                              ELSE PushVector(s, i[2])
      [] i[1] = "SAVE"     -> [s EXCEPT !.saved[i[2] + 1] = Last(s.stk).val]
      [] i[1] = "LOAD"     -> PushMLValue(s, s.saved[i[2] + 1])
      [] i[1] = "RETURN"   -> s

-----------------------------------------------------------------------------
(* Version 2: the stack is an ML list, the saved literals an ML array; the *)
(* C variable availSpace counts down and is not read from the registers    *)

CONS_SZ == 3

\* An old array is scanned for its recorded slots only
CollectV2(s) ==
    [InvokeGCWithRoots(s, {"code", "stk", "saved"}) EXCEPT
        !.saved = [k \in DOMAIN @ |->
                      IF s.old /\ k \in s.young \ s.recorded /\ Boxed(@[k]) THEN STALE ELSE @[k]],
        !.old = TRUE, !.young = {}, !.recorded = {}]

\* The request is taken off again after the allocation
GC_CHECK(s, spaceReq) ==
    IF spaceReq > s.avail
    THEN [CollectV2(s) EXCEPT !.avail = Nursery - CONS_SZ]
    ELSE [s EXCEPT !.avail = @ - spaceReq]

NeedGC(s) == s.free <= FREE_REQ

\* The head of the loop
EnsureSpaceV2(s) ==
    LET low == s.avail < LowWater
        collected == IF low /\ NeedGC(s) THEN CollectV2(s) ELSE s
    IN  [collected EXCEPT !.avail = (IF low THEN collected.free ELSE @) - CONS_SZ]

Spend(s, w) == [s EXCEPT !.avail = @ - w]
PUSH(s, v) == Push(Alloc(s, CONS_SZ), "OBJ", v)

\* An object of w words in all, of n fields of the stack
BuildV2(s, w, n, kind) == Spend(PUSH(Pop(Alloc(s, w), n), <<kind, Fields(s, n)>>), w)
DataV2(s, w, v) == Spend(PUSH(Alloc(s, w), v), w)

\* Mutant: no entry in the store list
SaveV2NoRecord(s, k) ==
    Alloc([s EXCEPT !.saved[k] = Last(s.stk).val, !.young = @ \cup {k}], 2)

\* The update is recorded in the store list, two words
SaveV2(s, k) ==
    Alloc([s EXCEPT !.saved[k] = Last(s.stk).val,
                    !.young = @ \cup {k}, !.recorded = @ \cup {k}], 2)

\* REAL64, which is not pushed, is never emitted
NumberV2(s, i) ==
    CASE i[1] = "INT"   -> PUSH(s, <<"int", i[2]>>)
      [] i[1] = "INT64" -> DataV2(s, 2, <<"boxed", i[2]>>)

ObjectV2(s, i) ==
    CASE i[1] = "STR8"   -> IF i[2] = 0 THEN PUSH(s, <<"string", 0>>)
                            ELSE DataV2(GC_CHECK(s, i[2] + 4), i[2] + 4, <<"string", i[2]>>)
      [] i[1] = "RECORD" -> BuildV2(GC_CHECK(s, i[2] + 1), i[2] + 1, i[2], "record")
      [] i[1] = "VECTOR" -> IF i[2] = 0 THEN PUSH(s, <<"vector", << >>>>)
                            ELSE BuildV2(GC_CHECK(s, i[2] + 4), i[2] + 4, i[2], "vector")
      [] i[1] \in {"RAW", "RAW64"} ->
             DataV2(GC_CHECK(s, i[2] + 1), i[2] + 1, <<"rawdata", i[2]>>)

ExecuteV2(s, i) ==
    CASE i[1] \in {"INT", "INT64"} -> NumberV2(s, i)
      [] i[1] \in {"STR8", "RECORD", "VECTOR", "RAW", "RAW64"} -> ObjectV2(s, i)
      [] i[1] = "SAVE"   -> SaveV2(s, i[2] + 1)
      [] i[1] = "LOAD"   -> PUSH(s, s.saved[i[2] + 1])
      [] i[1] = "RETURN" -> s

-----------------------------------------------------------------------------
(* Version 1: availSpace is read from the registers for every instruction  *)

CollectV1(s) == InvokeGCWithRoots(s, {"code", "stk"})

GC_CHECKV1(s, spaceReq) == IF spaceReq > s.free THEN CollectV1(s) ELSE s

EnsureSpaceV1(s) == IF s.free < LowWater /\ NeedGC(s) THEN CollectV1(s) ELSE s

BuildV1(s, w, n, kind) == PUSH(Pop(Alloc(s, w), n), <<kind, Fields(s, n)>>)

\* 64-bit data take two words each
NumberV1(s, i) ==
    CASE i[1] = "INT"    -> PUSH(s, <<"int", i[2]>>)
      [] i[1] = "RAW32"  -> PUSH(Alloc(s, 2), <<"boxed", i[2]>>)
      [] i[1] = "RAW32L" -> PUSH(Alloc(GC_CHECKV1(s, CONS_SZ + 1 + i[2]), 1 + i[2]),
                                 <<"rawdata", i[2]>>)
      [] i[1] = "REAL64" -> PUSH(Alloc(s, 4), <<"real", 0>>)
      [] i[1] = "RAW64L" -> PUSH(Alloc(GC_CHECKV1(s, CONS_SZ + 2 + 2 * i[2]), 2 + 2 * i[2]),
                                 <<"rawdata", i[2]>>)

ObjectV1(s, i) ==
    CASE i[1] = "STR8"   -> IF i[2] = 0 THEN PUSH(s, <<"string", 0>>)
                            ELSE PUSH(Alloc(GC_CHECKV1(s, i[2] + 4), i[2] + 4), <<"string", i[2]>>)
      [] i[1] = "LIT"    -> PUSH(s, s.stk[Len(s.stk) - i[2]].val)
      [] i[1] = "VECTOR" -> IF i[2] = 0 THEN PUSH(s, <<"vector", << >>>>)
                            ELSE BuildV1(GC_CHECKV1(s, i[2] + 4), i[2] + 4, i[2], "vector")
      [] i[1] = "RECORD" -> IF i[2] = 0 THEN PUSH(s, ML_unit)
                            ELSE BuildV1(GC_CHECKV1(s, i[2] + 1), i[2] + 1, i[2], "record")

ExecuteV1(s, i) ==
    CASE i[1] \in {"INT", "RAW32", "RAW32L", "REAL64", "RAW64L"} -> NumberV1(s, i)
      [] i[1] \in {"STR8", "LIT", "VECTOR", "RECORD"} -> ObjectV1(s, i)
      [] i[1] = "RETURN" -> s

-----------------------------------------------------------------------------
(* Programs: what `analyse' accepts and literals-v3.sml and literals.sml   *)
(* generate; version 1 has no generator any more                           *)

\* The n literals below the top `above'
Below(n, above) == {m.stk[i].kind : i \in Len(m.stk) - above - n + 1 .. Len(m.stk) - above}
Uniform(n, above) == n + above <= Len(m.stk) /\ Below(n, above) \subseteq {"TAGINT", "OBJ"}
Raw(n, above) == n + above <= Len(m.stk) /\ "OBJ" \notin Below(n, above)

Pushing(ops, args) == {i \in ops \X args : Len(m.stk) < MaxDepth}
Returning == {i \in {<<"RETURN">>} : Len(m.stk) = 1 /\ Uniform(1, 0)}

\* A literal is saved once.  Version 2 numbers the slots in the order of the
\* SAVEs, version 3 those of a record before those of its fields.
Filled == {k \in DOMAIN m.saved : m.saved[k] # ML_unit}
Saving(slots) == {<<"SAVE", k - 1>> : k \in {k \in slots : m.stk # << >> /\ Object(Last(m.stk).val)}}
Loading == Pushing({"LOAD"}, {k - 1 : k \in Filled})

EmitV3 ==
    Pushing({"INT63", "RAWINT64"}, Numbers) \cup Pushing({"STR8"}, Lens)
    \cup {<<"REAL64">> : d \in {d \in {0} : Len(m.stk) < MaxDepth}}
    \cup {<<op, n>> : op \in {"RECORD", "VEC"}, n \in {n \in 1 .. MaxDepth : Uniform(n, 0)}}
    \cup Pushing({"VEC"}, {0})
    \cup {<<"RAWBLOCK", n>> : n \in {n \in 1 .. MaxDepth : Raw(n, 0)}}
    \cup {<<"MIXED", f[1], f[2]>> : f \in {f \in (1 .. MaxDepth) \X (1 .. MaxDepth) :
                                              Raw(f[2], 0) /\ Uniform(f[1], f[2])}}
    \cup Saving({k \in DOMAIN m.saved \ Filled : k <= Cardinality(Filled) + 1 + MaxOuter}) \cup Loading
    \cup Returning

EmitV2 ==
    Pushing({"INT", "INT64"}, Numbers) \cup Pushing({"STR8"}, Lens)
    \cup Pushing({"RAW", "RAW64"}, Lens \ {0}) \cup Pushing({"VECTOR"}, {0})
    \cup {<<op, n>> : op \in {"RECORD", "VECTOR"}, n \in 1 .. Len(m.stk)}
    \cup Saving(DOMAIN m.saved \cap {Cardinality(Filled) + 1}) \cup Loading
    \cup Returning

EmitV1 ==
    Pushing({"INT", "RAW32"}, Numbers) \cup Pushing({"STR8"}, Lens)
    \cup Pushing({"RAW32L", "RAW64L"}, Lens \ {0}) \cup Pushing({"VECTOR", "RECORD"}, {0})
    \cup {<<"REAL64">> : d \in {d \in {0} : Len(m.stk) < MaxDepth}}
    \cup {<<op, n>> : op \in {"RECORD", "VECTOR"}, n \in 1 .. Len(m.stk)}
    \cup Pushing({"LIT"}, 0 .. Len(m.stk) - 1)
    \cup Returning

-----------------------------------------------------------------------------

\* The state before the first instruction; free words are left
Start(maxSaved, free, strFree, avail) ==
    [stk |-> << >>, saved |-> [k \in 1 .. maxSaved |-> ML_unit], code |-> <<"rawdata", 1>>,
     free |-> free, low |-> free, avail |-> avail, strFree |-> strFree,
     over |-> FALSE, manyRoots |-> FALSE, bare |-> FALSE,
     old |-> FALSE, young |-> {}, recorded |-> {}]

\* Version 2 allocates its saved array first.  A large one goes to the first
\* generation, and when there is no room for it (bare) the collection has no
\* roots of the builder's, not even its byte code.
ML_AllocArrayData(len, free) ==
    IF len <= SMALL_OBJ_SZW
    THEN {Start(len, free - (len + 1), 0, free - (len + 1))}
    ELSE {[Start(len, free, 0, free) EXCEPT !.old = TRUE],
          [InvokeGCWithRoots(Start(len, free, 0, Nursery), {}) EXCEPT !.old = TRUE, !.bare = TRUE]}

Init ==
    /\ version \in {"V1", "V2", "V3"}
    /\ src = <<"none">> /\ result = << >> /\ count = 0
    /\ \E free \in Reserve .. Nursery :
          \/ version = "V1" /\ m = Start(0, free, 0, 0)
          \/ version = "V2" /\ \E len \in Saveds : m \in ML_AllocArrayData(len, free)
          \/ version = "V3" /\ \E len \in Saveds, strFree \in {0, StringArena} :
                                 m = Start(len, free, strFree, 0)

\* With stale byte code, or after a write past the buffer, anything may
\* happen: the model stops there.
Defined == m.code # STALE /\ m.low >= -HEAP_BUF_SZ

Step(i, s) ==
    /\ Defined /\ result = << >> /\ (count < MaxInstrs \/ i = <<"RETURN">>)
    /\ src' = i /\ m' = s /\ count' = count + 1
    /\ result' = IF i = <<"RETURN">> THEN Last(m.stk).val ELSE << >>
    /\ UNCHANGED version

BuildLiterals ==
    version = "V3" /\ \E i \in EmitV3 : Step(i, ExecuteV3(m, DecodeV3(EncodeV3(i))[1]))

BuildLiteralsV2 ==
    version = "V2" /\ \E i \in EmitV2 :
                         Step(i, ExecuteV2(EnsureSpaceV2(m), DecodeV2(EncodeV2(i))[1]))

BuildLiteralsV1 ==
    version = "V1" /\ \E i \in EmitV1 : Step(i, ExecuteV1(EnsureSpaceV1(m), i))

Next == BuildLiterals \/ BuildLiteralsV2 \/ BuildLiteralsV1

Spec == Init /\ [][Next]_vars

-----------------------------------------------------------------------------
(* Properties *)

\* Instructions with arguments around every boundary between two forms
WideInstrs(v) ==
    LET numbers == {Num(n) : n \in Wide} \cup {Num(-n) : n \in Wide} \cup WideNumbers
        short == {n \in Wide : n < 65536}
    IN  IF v = "V3"
        THEN ({"INT63", "RAWINT64"} \X numbers) \cup ({"STR8"} \X Wide)
             \cup ({"RECORD", "RAWBLOCK"} \X (short \ {0})) \cup ({"MIXED"} \X short \X short)
             \cup ({"VEC", "SAVE", "LOAD"} \X short) \cup {<<"REAL64">>, <<"RETURN">>}
        ELSE ({"INT", "INT64"} \X numbers) \cup ({"STR8", "VECTOR"} \X Wide)
             \cup ({"RECORD", "RAW", "RAW64"} \X (Wide \ {0}))
             \cup ({"SAVE", "LOAD"} \X short) \cup {<<"RETURN">>}

\* What the compiler encodes, in version 2 or 3, the run-time system decodes,
\* to the last byte, at every boundary between the forms of one, two, four and
\* eight bytes of an instruction.  (No compiler writes version 1 any more.)
CodecExact ==
    count = 0 =>
        /\ version = "V3" => \A i \in WideInstrs("V3") :
                                DecodeV3(EncodeV3(i)) = <<i, Len(EncodeV3(i))>>
        /\ version = "V2" => \A i \in WideInstrs("V2") :
                                DecodeV2(EncodeV2(i)) = <<i, Len(EncodeV2(i))>>

\* No collection leaves a stale ML value in the interpreter: its byte code,
\* its stack and its saved literals are all among the roots, those in C
\* arrays by way of the root record and those in an old array by way of the
\* store list.  Excepted is the byte code of a program with so many shared
\* literals that allocating version 2's saved array collects (m.bare).
RootsAreLive ==
    /\ m.code # STALE \/ m.bare
    /\ \A i \in DOMAIN m.stk : ~HasStale(m.stk[i].val)
    /\ \A k \in DOMAIN m.saved : ~HasStale(m.saved[k])

\* The assertion at the head of the loop of BuildLiteralsV2: availSpace, which
\* the code maintains by hand, never exceeds the free space.
AvailIsSafe == version = "V2" => m.avail <= m.free

\* Allocation never leaves the allocation space and its buffer, as long as
\* no large string's header was written past the limit (m.over) and no root
\* record of version 3 is larger than the buffer (m.manyRoots), and
\* BuildLiteralsV2 never believes in more space than there is.
Fits == AvailIsSafe /\ (m.over \/ m.manyRoots \/ m.low >= -HEAP_BUF_SZ)

Abstract == INSTANCE LiteralSpec
    WITH stack <- [i \in DOMAIN m.stk |-> m.stk[i].val], slots <- m.saved, literal <- result

\* However often and wherever it collects, each of the three interpreters
\* executes the byte code as the stack machine does, as long as the behaviour
\* of the C code is defined.
Implements == Abstract!Spec
=============================================================================
