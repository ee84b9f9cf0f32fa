------------------------------ MODULE BootFuns ------------------------------
(***************************************************************************)
(* Starting the system from bin files (kernel/main.c, kernel/boot.c,       *)
(* kernel/globals.c) as programs of CFun.  The loader holds the list of    *)
(* the files to load, the record of a unit's imports and the unit's value  *)
(* in C variables, over collections, the building of the unit's literals   *)
(* and the running of its code.                                            *)
(*                                                                         *)
(* ReadBinFile never fails: it compares the result of fread with -1, which *)
(* fread does not return.                                                  *)
(***************************************************************************)
EXTENDS CFun, FiniteSets

TreeDepth == 1                     \* bound on the nesting of an import tree
ImportLens == SubSeq(Lens, 1, 3)   \* imports of a unit: the copy of a longer record is not checked
BootPathWords == 65                \* MAX_BOOT_PATH_LEN, in words

(***************************************************************************)
(* SaveCState makes an object of the values, which the root calleeSave[0]  *)
(* refers to; RestoreCState fetches them.                                  *)
(***************************************************************************)
SaveCState(vs) == Small("calleeSave", Cardinality(vs) + 1, vs)
RestoreCState(v) == REC_SEL(v, "calleeSave")

\* ML code, or the building of literals: any number of collections, and at the
\* end any space above left words
Elsewhere(v, left) ==
    Alt(<<<<Small(v, 2, {})>>,
          <<InvokeGC({"calleeSave"}), Small(v, 2, {})>>,
          <<InvokeGC({"calleeSave"}), Small(v, NewSpace - left, {})>>>>)
BuildLiterals(v) == Elsewhere(v, 1152)
\* ML code checks for space once in 512 words
ApplyMLFn(f, v) == Alt(<<<<Uses({f, v}), Elsewhere(v, 1152 - 512)>>>>)

\* A new object, not moved and allocated without a collection.
ML_AllocCode(v) == Const(v)

\* the list of PerIDs is a root of the collector; an unknown PerID ends the program
LookupPerID(v) == If(<<REC_SEL(v, "PervStruct")>>, <<Exit>>)
EnterPerID(obj) ==
    <<Small("mlPerID", 4, {}), SEQHDR_ALLOC("mlPerID", "mlPerID"), REC_ALLOC("entry", {"mlPerID"} \cup obj, 3)>>

-----------------------------------------------------------------------------
(***************************************************************************)
(* The three formats of the header.                                        *)
(***************************************************************************)
\* a section that is there twice, or not at all, ends the program
NewHeader == Alt(<<<<Loop(6, <<If(<<>>, <<Exit>>)>>), If(<<>>, <<Exit>>),
                     Sys("fseeko", <<>>, <<Exit>>), Sys("fseeko", <<>>, <<Exit>>)>>>>)
OldHeader == Sys("fseeko", <<>>, <<Exit>>)
OriginalHeader == Alt(<<<<Sys("fseeko", <<>>, <<Exit>>), Sys("fseeko", <<>>, <<Exit>>)>>>>)
ReadHeader == Alt(<<<<NewHeader>>, <<OldHeader>>, <<OriginalHeader>>, <<Exit>>>>)

OpenBinFile(fail) == Sys("fopen", <<Acquire("file")>>, fail)
Seek == Sys("fseeko", <<>>, <<Exit>>)

\* write the leaves that are selected from the tree to the record being made
ImportSelection ==
    LET At_[n \in 0 .. TreeDepth] ==
            If(<<Use("tree")>>,
               IF n = 0 THEN <<Use("tree")>>
               ELSE <<Loop(2, <<REC_SEL("tree", "tree"), At_[n - 1]>>)>>)
    IN  At_[TreeDepth]

-----------------------------------------------------------------------------
(***************************************************************************)
(* LoadBinFile, for a unit of n imports, whose code is made by Code.       *)
(***************************************************************************)
ReadImports(n) ==
    <<Seek, CheckGC(n + 2, {"BinFileList"}),
      Loop(2, <<LookupPerID("tree"), ImportSelection>>), Small("importRec", n + 2, {})>>

ReadExportPid == <<If(<<>>, <<Exit>>)>>

ReadLiterals ==
    <<If(<<Const("val")>>,
         <<Acquire("dataObj"), Seek, SaveCState({"BinFileList", "importRec"}), BuildLiterals("val"),
           FREE("dataObj"), RestoreCState("BinFileList"), RestoreCState("importRec")>>)>>

\* a copy of the import record, with the literals as its last element
AddLiterals(n) ==
    <<Small("val", n + 2, {"importRec", "val"}), CheckGC(8, {"BinFileList", "val"})>>

NativeCode == <<Acquire("buffer"), ML_AllocCode("codeObj"), FREE("buffer")>>

\* the generated code is a byte vector; only src is a root, and not in ML_AllocRaw
llvm_codegen ==
    <<If(<<>>, <<Exit>>), If(<<>>, <<InvokeGC({"src"})>>), ML_AllocRaw("bVec"), Use("src"),
      SEQHDR_ALLOC("bVec", "bVec"), REC_ALLOC("pair", {"bVec"}, 2)>>
GeneratedCode ==
    <<Acquire("pkl")>> \o llvm_codegen \o
    <<REC_SEL("code", "pair"), Use("code"), ML_AllocCode("codeObj"), FREE("pkl")>>

RunCode(Code) ==
    <<If(<<>>, <<Seek>> \o Code \o
         <<REC_ALLOC("closure", {}, 1), SaveCState({"BinFileList"}), ApplyMLFn("closure", "val"),
           RestoreCState("BinFileList"), CheckGC(8, {"BinFileList", "val"})>>)>>

LoadBinFile(Code) ==
    <<OpenBinFile(<<Exit>>), If(<<>>, <<Seek>>), ReadHeader,
      Alt([i \in DOMAIN ImportLens |->
             ReadImports(ImportLens[i]) \o ReadExportPid \o ReadLiterals \o AddLiterals(ImportLens[i])])>>
    \o RunCode(Code) \o <<If(<<>>, EnterPerID({"val"})), FREE("file")>>

-----------------------------------------------------------------------------
AllocGlobals ==
    <<REC_ALLOC("RunVec", {}, 12), REC_ALLOC("CStruct", {"RunVec"}, 12), REC_ALLOC("unit", {"CStruct"}, 1)>>

\* A list that cannot be opened counts as empty.  The names are made without a
\* check for space and kept in a malloced table until the list is made.
BuildFileList ==
    <<Const("BinFileList"),
      Sys("fopen",
          <<If(<<>>, <<Exit>>), If(<<>>, <<Exit>>), MALLOC("nameBuf", <<Exit>>), MALLOC("fileNames", <<Exit>>),
            Alt([i \in DOMAIN Lens |-> <<Small("fileNames", (BootPathWords + 3) * Lens[i], {}), If(<<>>, <<Exit>>),
                                         Small("BinFileList", 3 * Lens[i], {"fileNames"})>>]),
            FREE("fileNames"), FREE("nameBuf")>>,
          <<>>)>>

\* the run-time system itself is registered once; the other entries are loaded
BootML ==
    <<InvokeGC({})>> \o AllocGlobals \o BuildFileList \o
    <<MALLOC("fname", <<Exit>>),
      Loop(2, <<Use("BinFileList"), REC_SEL("BinFileList", "BinFileList"),
                Alt(<<<<Exit>>, EnterPerID({}), LoadBinFile(NativeCode)>>)>>)>>

\* the heap comes from an image (HeapImage), and ML code runs until it ends
LoadML == <<If(<<>>, <<Exit>>), InvokeGC({})>>

ParseHeapParams == <<MALLOC("params", <<Exit>>)>>
ParseOptions ==
    ParseHeapParams \o <<Acquire("CmdLineArgs"), Loop(2, <<If(<<>>, <<Sys("fopen", <<>>, <<>>)>>)>>), If(<<>>, <<Exit>>)>>
main == ParseOptions \o <<If(BootML, LoadML), Exit>>

(* codegen *)
ml_CodeGen_generate ==
    <<REC_SEL("src", "arg"), REC_SEL("mlPkl", "arg"), Uses({"src", "mlPkl"})>> \o llvm_codegen \o <<ReturnVal("pair")>>

BootTable ==
    [main |-> main, LoadBinFile |-> LoadBinFile(NativeCode) \o <<Return>>,
     LoadBinFile_CFGP |-> LoadBinFile(GeneratedCode) \o <<Return>>,
     ml_CodeGen_generate |-> ml_CodeGen_generate]
=============================================================================
