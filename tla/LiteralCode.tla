---------------------------- MODULE LiteralCode -----------------------------
(***************************************************************************)
(* The byte code of literals: the encoders of the compiler (version 2 in   *)
(* literals.sml, version 3 in literal-bytecode.sml) and the decoders of    *)
(* the run-time system (gc/build-literals-v2.c and -v3.c).  A symbolic     *)
(* instruction is <<operation, arguments>>; Encode gives its bytes, Decode *)
(* the instruction at the head of a byte sequence and the bytes it read.   *)
(* The characters of a string and the words of raw data follow the         *)
(* instruction and are left out.                                           *)
(***************************************************************************)
EXTENDS Integers, Sequences, SequencesExt

\* Literal numbers are wider than 32 bits: <<hi, lo>> is hi * 2^31 + lo, with
\* lo in 0 .. 2^31 - 1.  Counts and lengths are plain.
Num(k) == IF k >= 0 THEN <<0, k>> ELSE <<-1, 2147483647 + (k + 1)>>

minInt32 == -2147483647 - 1
maxInt32 == 2147483647

\* A number of 32 bits as an integer
Plain(n) == IF n[1] = 0 THEN n[2] ELSE n[2] - maxInt32 - 1

Within(n, low, high) == n[1] \in {-1, 0} /\ Plain(n) \in low .. high

\* n bytes of a number, most significant first
LargeIntToBytes(k, n) ==
    LET pow[i \in 0 .. n - 1] ==
            IF i = 0 THEN k
            ELSE <<pow[i - 1][1] \div 256,
                   (pow[i - 1][1] % 256) * 8388608 + pow[i - 1][2] \div 256>>
    IN  [i \in 1 .. n |-> pow[n - i][2] % 256]

IntToBytes(k, n) == LargeIntToBytes(Num(k), n)

\* The n bytes of an argument, with the first one as top
GetBytes(b, at, n, top) ==
    FoldLeft(LAMBDA acc, byte : <<acc[1] * 256 + acc[2] \div 8388608,
                                  (acc[2] % 8388608) * 256 + byte>>,
             Num(top), SubSeq(b, at + 1, at + n - 1))

GetUArg(b, at, n) == Plain(GetBytes(b, at, n, b[at]))
GetIArg(b, at, n) == GetBytes(b, at, n, IF b[at] >= 128 THEN b[at] - 256 ELSE b[at])

-----------------------------------------------------------------------------
(* Version 3, the compiler *)

\* The forms of one, two, four and eight bytes
EncWide(n, opWide) ==
    IF Within(n, -128, 127) THEN <<opWide>> \o LargeIntToBytes(n, 1)
    ELSE IF Within(n, -32768, 32767) THEN <<opWide + 1>> \o LargeIntToBytes(n, 2)
    ELSE IF Within(n, minInt32, maxInt32) THEN <<opWide + 2>> \o LargeIntToBytes(n, 4)
    ELSE <<opWide + 3>> \o LargeIntToBytes(n, 8)

\* opImm and opWide are the opcodes of the small and of the wide integers
EncInt(n, opImm, opWide) ==
    IF Within(n, 0, 31) THEN <<opImm + Plain(n)>>
    ELSE IF Within(n, -32, -1) THEN <<opImm + 64 + Plain(n)>>
    ELSE EncWide(n, opWide)

encINT63(n) == EncInt(n, 0, 128)
encINT64(n) == EncInt(n, 64, 156)

encSTR8(len) ==
    CASE len = 0       -> <<136>>
      [] len \in 1 .. 255 -> <<137>> \o IntToBytes(len, 1)
      [] len \in 256 .. 65534 -> <<138>> \o IntToBytes(len, 2)
      [] OTHER         -> <<139>> \o IntToBytes(len, 4)

EncRec(len, op_1) ==
    CASE len <= 14           -> <<op_1 - 1 + len>>
      [] len \in 15 .. 255   -> <<op_1 + 14>> \o IntToBytes(len, 1)
      [] len > 255           -> <<op_1 + 15>> \o IntToBytes(len, 2)

encRECORD(len) == EncRec(len, 160)
encRAW(len) == EncRec(len, 176)

encMIXED(ptrLen, rawLen) ==
    IF ptrLen <= 255 /\ rawLen <= 255
    THEN <<192>> \o IntToBytes(ptrLen, 1) \o IntToBytes(rawLen, 1)
    ELSE <<193>> \o IntToBytes(ptrLen, 2) \o IntToBytes(rawLen, 2)

encVEC(len) ==
    CASE len = 0           -> <<200>>
      [] len \in 1 .. 255  -> <<201>> \o IntToBytes(len, 1)
      [] len > 255         -> <<202>> \o IntToBytes(len, 2)

EncSlot(slot, op_0) ==
    IF slot <= 6 THEN <<op_0 + slot>> ELSE <<op_0 + 7>> \o IntToBytes(slot, 2)

EncodeV3(i) ==
    CASE i[1] = "INT63"    -> encINT63(i[2])
      [] i[1] = "RAWINT64" -> encINT64(i[2])
      [] i[1] = "REAL64"   -> <<133>>
      [] i[1] = "STR8"     -> encSTR8(i[2])
      [] i[1] = "RECORD"   -> encRECORD(i[2])
      [] i[1] = "RAWBLOCK" -> encRAW(i[2])
      [] i[1] = "MIXED"    -> encMIXED(i[2], i[3])
      [] i[1] = "VEC"      -> encVEC(i[2])
      [] i[1] = "SAVE"     -> EncSlot(i[2], 232)
      [] i[1] = "LOAD"     -> EncSlot(i[2], 240)
      [] i[1] = "RETURN"   -> <<255>>

-----------------------------------------------------------------------------
(* Version 3, the switch of BuildLiterals; the result is the instruction   *)
(* and the number of bytes read                                            *)

\* Mutant: negative tagged integers read as raw ones are, from 128 down
DecodeSmallIntsShifted(op) ==
    CASE op \in 0 .. 31   -> <<<<"INT63", Num(op)>>, 1>>
      [] op \in 32 .. 63  -> <<<<"INT63", Num(op - 128)>>, 1>>
      [] op \in 64 .. 95  -> <<<<"RAWINT64", Num(op - 64)>>, 1>>
      [] op \in 96 .. 127 -> <<<<"RAWINT64", Num(op - 128)>>, 1>>

DecodeSmallInts(op) ==
    CASE op \in 0 .. 31   -> <<<<"INT63", Num(op)>>, 1>>
      [] op \in 32 .. 63  -> <<<<"INT63", Num(op - 64)>>, 1>>
      [] op \in 64 .. 95  -> <<<<"RAWINT64", Num(op - 64)>>, 1>>
      [] op \in 96 .. 127 -> <<<<"RAWINT64", Num(op - 128)>>, 1>>

\* BIGINT, UTF8 and the narrow RAWINTs are reserved
DecodeNumbers(op, b) ==
    CASE op = 128 -> <<<<"INT63", GetIArg(b, 2, 1)>>, 2>>
      [] op = 129 -> <<<<"INT63", GetIArg(b, 2, 2)>>, 3>>
      [] op = 130 -> <<<<"INT63", GetIArg(b, 2, 4)>>, 5>>
      [] op = 131 -> <<<<"INT63", GetIArg(b, 2, 8)>>, 9>>
      [] op = 132 -> <<<<"REAL32">>, 1>>
      [] op = 133 -> <<<<"REAL64">>, 1>>
      [] op = 136 -> <<<<"STR8", 0>>, 1>>
      [] op = 137 -> <<<<"STR8", GetUArg(b, 2, 1)>>, 2>>
      [] op = 138 -> <<<<"STR8", GetUArg(b, 2, 2)>>, 3>>
      [] op = 139 -> <<<<"STR8", GetUArg(b, 2, 4)>>, 5>>
      [] op = 156 -> <<<<"RAWINT64", GetIArg(b, 2, 1)>>, 2>>
      [] op = 157 -> <<<<"RAWINT64", GetIArg(b, 2, 2)>>, 3>>
      [] op = 158 -> <<<<"RAWINT64", GetIArg(b, 2, 4)>>, 5>>
      [] op = 159 -> <<<<"RAWINT64", GetIArg(b, 2, 8)>>, 9>>
      [] OTHER    -> <<<<"DIE">>, 1>>

DecodeRecords(op, b) ==
    CASE op \in 160 .. 173 -> <<<<"RECORD", (op % 16) + 1>>, 1>>
      [] op = 174          -> <<<<"RECORD", GetUArg(b, 2, 1)>>, 2>>
      [] op = 175          -> <<<<"RECORD", GetUArg(b, 2, 2)>>, 3>>
      [] op \in 176 .. 189 -> <<<<"RAWBLOCK", (op % 16) + 1>>, 1>>
      [] op = 190          -> <<<<"RAWBLOCK", GetUArg(b, 2, 1)>>, 2>>
      [] op = 191          -> <<<<"RAWBLOCK", GetUArg(b, 2, 2)>>, 3>>
      [] op = 192          -> <<<<"MIXED", GetUArg(b, 2, 1), GetUArg(b, 3, 1)>>, 3>>
      [] op = 193          -> <<<<"MIXED", GetUArg(b, 2, 2), GetUArg(b, 4, 2)>>, 5>>
      [] op = 200          -> <<<<"VEC", 0>>, 1>>
      [] op = 201          -> <<<<"VEC", GetUArg(b, 2, 1)>>, 2>>
      [] op = 202          -> <<<<"VEC", GetUArg(b, 2, 2)>>, 3>>
      [] OTHER             -> <<<<"DIE">>, 1>>

\* RAWVEC and CONCAT are reserved
DecodeSlots(op, b) ==
    CASE op \in 232 .. 238 -> <<<<"SAVE", op % 8>>, 1>>
      [] op = 239          -> <<<<"SAVE", GetUArg(b, 2, 2)>>, 3>>
      [] op \in 240 .. 246 -> <<<<"LOAD", op % 8>>, 1>>
      [] op = 247          -> <<<<"LOAD", GetUArg(b, 2, 2)>>, 3>>
      [] op = 255          -> <<<<"RETURN">>, 1>>
      [] OTHER             -> <<<<"DIE">>, 1>>

DecodeV3(b) ==
    CASE b[1] < 128          -> DecodeSmallInts(b[1])
      [] b[1] \in 128 .. 159 -> DecodeNumbers(b[1], b)
      [] b[1] \in 160 .. 215 -> DecodeRecords(b[1], b)
      [] b[1] > 215          -> DecodeSlots(b[1], b)

-----------------------------------------------------------------------------
(* Version 2, the compiler for a 64-bit target *)

encINT(n) ==
    IF Within(n, 0, 10) THEN <<Plain(n)>>
    ELSE IF Within(n, -5, -1) THEN <<10 - Plain(n)>>
    ELSE EncWide(n, 16)

encINT64V2(n) == EncWide(n, 23)

\* A count with the opcodes of its one-byte and of its wide form
EncCount(n, opb, opw, wide) ==
    IF n <= 255 THEN <<opb>> \o IntToBytes(n, 1) ELSE <<opw>> \o IntToBytes(n, wide)

EncodeV2(i) ==
    CASE i[1] = "INT"    -> encINT(i[2])
      [] i[1] = "INT64"  -> encINT64V2(i[2])
      [] i[1] = "STR8"   -> EncCount(i[2], 44, 45, 8)
      [] i[1] = "RECORD" -> IF i[2] <= 7 THEN <<47 + i[2]>> ELSE EncCount(i[2], 55, 56, 4)
      [] i[1] = "VECTOR" -> EncCount(i[2], 57, 58, 4)
      [] i[1] = "RAW"    -> IF i[2] <= 2 THEN <<58 + i[2]>> ELSE EncCount(i[2], 61, 62, 4)
      [] i[1] = "RAW64"  -> EncCount(i[2], 65, 66, 4)
      [] i[1] = "SAVE"   -> EncCount(i[2], 68, 69, 2)
      [] i[1] = "LOAD"   -> EncCount(i[2], 70, 71, 2)
      [] i[1] = "RETURN" -> <<255>>

-----------------------------------------------------------------------------
(* Version 2, the run-time system: the table of the 64-bit build, an       *)
(* operation with the kind of its argument and an immediate argument       *)

InstrInfoInts(op) ==
    CASE op \in 0 .. 10  -> <<"INT", "IMMED", Num(op)>>
      [] op \in 11 .. 15 -> <<"INT", "IMMED", Num(10 - op)>>
      [] op = 16         -> <<"INT", "I8", 0>>
      [] op = 17         -> <<"INT", "I16", 0>>
      [] op = 18         -> <<"INT", "I32", 0>>
      [] op = 19         -> <<"INT", "I64", 0>>
      [] op = 23         -> <<"INT64", "I8", 0>>
      [] op = 24         -> <<"INT64", "I16", 0>>
      [] op = 25         -> <<"INT64", "I32", 0>>
      [] op = 26         -> <<"INT64", "I64", 0>>
      [] OTHER           -> <<"INVALID", "NO", 0>>

\* The operations BuildLiteralsV2 dies of are one, "DIE"
InstrInfo(op) ==
    CASE op \in 0 .. 26  -> InstrInfoInts(op)
      [] op \in 27 .. 38 \/ op \in 40 .. 43 \/ op \in 63 .. 64 -> <<"DIE", "NO", 0>>
      [] op = 39         -> <<"REAL64", "NO", 0>>
      [] op = 44         -> <<"STR8", "U8", 0>>
      [] op = 45         -> <<"STR8", "INT", 0>>
      [] op \in 48 .. 54 -> <<"RECORD", "IMMED", op - 47>>
      [] op = 55         -> <<"RECORD", "U8", 0>>
      [] op = 56         -> <<"RECORD", "U32", 0>>
      [] op = 57         -> <<"VECTOR", "U8", 0>>
      [] op = 58         -> <<"VECTOR", "U32", 0>>
      [] op \in 59 .. 60 -> <<"RAW", "IMMED", op - 58>>
      [] op = 61         -> <<"RAW", "U8", 0>>
      [] op = 62         -> <<"RAW", "U32", 0>>
      [] op = 65         -> <<"RAW64", "U8", 0>>
      [] op = 66         -> <<"RAW64", "U32", 0>>
      [] op = 67         -> <<"CONCAT", "U16", 0>>
      [] op = 68         -> <<"SAVE", "U8", 0>>
      [] op = 69         -> <<"SAVE", "U16", 0>>
      [] op = 70         -> <<"LOAD", "U8", 0>>
      [] op = 71         -> <<"LOAD", "U16", 0>>
      [] op = 255        -> <<"RETURN", "NO", 0>>
      [] OTHER           -> <<"UNUSED", "NO", 0>>

\* The argument of an instruction
GetArgV2(info, b) ==
    CASE info[2] = "NO"    -> <<<<info[1]>>, 1>>
      [] info[2] = "IMMED" -> <<<<info[1], info[3]>>, 1>>
      [] info[2] = "I8"    -> <<<<info[1], GetIArg(b, 2, 1)>>, 2>>
      [] info[2] = "U8"    -> <<<<info[1], GetUArg(b, 2, 1)>>, 2>>
      [] info[2] = "I16"   -> <<<<info[1], GetIArg(b, 2, 2)>>, 3>>
      [] info[2] = "U16"   -> <<<<info[1], GetUArg(b, 2, 2)>>, 3>>
      [] info[2] = "I32"   -> <<<<info[1], GetIArg(b, 2, 4)>>, 5>>
      [] info[2] = "U32"   -> <<<<info[1], GetUArg(b, 2, 4)>>, 5>>
      [] info[2] = "I64"   -> <<<<info[1], GetIArg(b, 2, 8)>>, 9>>
      [] info[2] = "INT"   -> <<<<info[1], Plain(GetIArg(b, 2, 8))>>, 9>>

DecodeV2(b) == GetArgV2(InstrInfo(b[1]), b)
=============================================================================
