----------------------------- MODULE RuntimeFuns -----------------------------
(***************************************************************************)
(* The C functions of the run-time, date, time, signal, profiling and      *)
(* dynamic-loading libraries, and the C side of calls to user C functions  *)
(* (c-libs/smlnj-runtime, smlnj-date, ..., dl, smlnj-ccalls), as programs  *)
(* of CFun.                                                                *)
(***************************************************************************)
EXTENDS CFun

(* smlnj-runtime *)
ml_Proc_argv == <<ML_CStringList("l"), ReturnVal("l")>>
ml_Proc_raw_argv == <<ML_CStringList("l"), ReturnVal("l")>>
ml_Proc_cmd_name == <<ML_CString("s"), ReturnVal("s")>>
ml_Proc_shift_argv == <<Return>>
ml_RunT_debug == <<Use("arg"), Return>>
ml_RunT_dummy == <<Return>>

\* the objects BlastIn, BlastOut and BuildLiterals make are made after they may have collected
ml_RunT_blast_in == <<Use("arg"), Big("obj"), If(<<RAISE_ERROR>>, <<ReturnVal("obj")>>)>>
ml_RunT_blast_out == <<Use("arg"), Big("data"), If(<<RAISE_ERROR>>, <<ReturnVal("data")>>)>>
ml_RunT_mkliterals == <<Use("arg"), Big("res"), ReturnVal("res")>>

\* the process ends, whether or not the image was written
ml_RunT_export_fun ==
    <<REC_SEL("mlName", "arg"), REC_SEL("funct", "arg"), Use("mlName"),
      Sys("fopen", <<>>, <<RAISE_ERROR>>), Use("funct"), InvokeGC({}), Exit>>
ml_RunT_export_heap ==
    <<Use("arg"), Sys("fopen", <<>>, <<RAISE_ERROR>>), InvokeGC({}), If(<<Return>>, <<RAISE_ERROR>>)>>
ml_RunT_gc_counter_reset == <<InvokeGC({}), Return>>
ml_RunT_gc_counter_read ==
    <<Const("nStores"), Const("lp"),
      If(<<>>, <<REC_ALLOC("lp", {}, 2), Loop(6, <<REC_ALLOC("lp", {"lp"}, 2)>>)>>),
      REC_ALLOC("res", {"nStores", "lp"}, 6), ReturnVal("res")>>

\* SetVMCache writes the old value, DoGC and AllGC collect with the rest of the list as a root
SetVMCache == <<Use("cell")>>
DoGC == <<Use("cell"), InvokeGC({"arg"})>>
AllGC == <<InvokeGC({"arg"})>>

\* one command of the list after the other, the rest of the list fetched first
ml_RunT_gc_ctl ==
    <<Loop(3, <<REC_SEL("cmd", "arg"), REC_SEL("cell", "cmd"), REC_SEL("arg", "arg"),
                Alt(<<<<Use("cell")>>, SetVMCache, DoGC, AllGC>>)>>),
      Return>>
ml_RunT_itick == <<Chk("clock_getres"), SYSWORD_ALLOC("t"), ReturnVal("t")>>
ml_RunT_mk_code_obj == <<Use("arg"), Const("code"), SEQHDR_ALLOC("res", "code"), ReturnVal("res")>>
ml_RunT_mkexec == <<REC_SEL("code", "arg"), Use("code"), REC_ALLOC("res", {"code"}, 1), ReturnVal("res")>>

\* two records, whose lengths the compiler keeps small; unit when one is not a record
RecordConcat == <<Uses({"r1", "r2"}), If(<<RAISE_ERROR>>, <<Small("res", 500, {"r1", "r2"}), ReturnVal("res")>>)>>
ml_RunT_recordconcat ==
    <<REC_SEL("r1", "arg"), REC_SEL("r2", "arg"),
      Alt(<<<<ReturnVal("r2")>>, <<ReturnVal("r1")>>, RecordConcat>>)>>
ml_RunT_record1 == <<REC_ALLOC("res", {"arg"}, 1), ReturnVal("res")>>
ml_RunT_setitimer == <<If(<<>>, <<Use("arg")>>), CHK_RETURN("setitimer")>>
ml_RunT_sysinfo ==
    <<Use("arg"), If(<<Return>>, <<ShortString("res"), OPTION_SOME("res", "res"), ReturnVal("res")>>)>>

(* smlnj-date *)
ml_alloc_tm == <<REC_ALLOC("tm", {}, 9), ReturnVal("tm")>>
ml_Date_gmtime == <<Use("arg"), Chk("gmtime_r")>> \o ml_alloc_tm
LocalOffset == <<Chk("localtime_r"), Chk("gmtime_r"), Return>>
ml_Date_localOffset == LocalOffset
ml_Date_localOffsetForTime == <<Use("arg")>> \o LocalOffset
ml_Date_localtime == <<Use("arg"), Chk("localtime_r")>> \o ml_alloc_tm
ml_Date_mktime == <<Use("arg"), If(<<RAISE_ERROR>>, <<SYSWORD_ALLOC("t"), ReturnVal("t")>>)>>
ml_Date_strftime ==
    <<REC_SEL("fmt", "arg"), REC_SEL("date", "arg"), Use("date"), If(<<>>, <<If(<<RAISE_ERROR>>, <<>>)>>),
      Use("fmt"), If(<<RAISE_ERROR>>, <<ShortString("res"), Use("res"), ReturnVal("res")>>)>>

(* smlnj-signals and smlnj-time; what they do to the signal state is in Signals *)
ml_Sig_getsigmask == <<Const("mask"), If(<<Return>>, <<>>),
                       Loop(20, <<REC_ALLOC("sig", {}, 2), LIST_cons("mask", "sig")>>),
                       OPTION_SOME("res", "mask"), ReturnVal("res")>>
ml_Sig_getsigstate == <<Use("arg"), Return>>
ml_Sig_listsigs == <<ML_SysConstList("l"), ReturnVal("l")>>
ml_Sig_pause == <<Return>>
ml_Sig_setsigmask == <<Use("arg"), Loop(3, <<REC_SEL("arg", "arg"), Use("arg")>>), Return>>
ml_Sig_setsigstate == <<REC_SEL("sig", "arg"), Uses({"sig", "arg"}), Return>>
ml_Time_gettime ==
    <<SYSWORD_ALLOC("usrT"), SYSWORD_ALLOC("sysT"), SYSWORD_ALLOC("gcUsrT"), SYSWORD_ALLOC("gcSysT"),
      REC_ALLOC("res", {"usrT", "sysT", "gcUsrT", "gcSysT"}, 4), ReturnVal("res")>>
ml_Time_timeofday == <<SYSWORD_ALLOC("t"), ReturnVal("t")>>

(* smlnj-prof: the array becomes, or stops being, a root of the collector *)
ml_Prof_getpquantum == <<Return>>
ml_Prof_setpref == <<If(<<REC_SEL("ProfCntArray", "arg")>>, <<>>), Return>>
ml_Prof_setptimer == <<If(<<RAISE_ERROR>>, <<CHK_RETURN("setitimer")>>)>>

(* smlnj-math *)
RealFun == <<Use("arg"), Small("res", 2, {}), ReturnVal("res")>>
ml_Math_atan64 == RealFun
ml_Math_cos64 == RealFun
ml_Math_exp64 == RealFun
ml_Math_log64 == RealFun
ml_Math_sin64 == RealFun
ml_Math_sqrt64 == RealFun
ml_Math_ctlrndmode == <<If(<<>>, <<Use("arg")>>), Return>>

(* dl *)
ml_U_Dynload_dlclose == <<Use("arg"), Return>>
ml_U_Dynload_dlerror == <<If(<<Return>>, <<ML_CString("s"), OPTION_SOME("r", "s"), ReturnVal("r")>>)>>
ml_U_Dynload_dlopen == <<REC_SEL("ml_libname", "arg"), Uses({"arg", "ml_libname"}), SYSWORD_ALLOC("res"),
                         ReturnVal("res")>>
ml_U_Dynload_dlsym == <<REC_SEL("ml_handle", "arg"), REC_SEL("symname", "arg"), Uses({"ml_handle", "symname"}),
                        SYSWORD_ALLOC("res"), ReturnVal("res")>>

-----------------------------------------------------------------------------
(***************************************************************************)
(* smlnj-ccalls.  The blocks malloced for the arguments of a C function    *)
(* are kept in ptrlist, with a descriptor for each, until they are freed   *)
(* or handed to ML.  Types nest to depth TypeDepth.                        *)
(***************************************************************************)
TypeDepth == 2
CallbackDepth == 1   \* of the arguments and the result of an ML function that C calls
Die == <<Exit>>
Owned(b) == FREE(b)          \* b belongs to another structure from here on
RaiseError == RAISE_ERROR

checked_memalign(b) == MALLOC(b, Die)
mk_strcpy(b) == MALLOC(b, Die)
keep_ptr == Alt(<<<<checked_memalign("ptrlist")>>>>)
free_ptrlist == Alt(<<<<FREE("kept"), FREE("ptrlist")>>>>)
mkWord32(v) == SYSWORD_ALLOC(v)
double_CtoML(v) == Small(v, 4, {})    \* a word to align, the descriptor, sizeof(double)>>2 words
ptrlist_space == 3 * 5                \* a cons cell and an address for each of three blocks
ptrlist_to_MLlist(l) ==
    Alt(<<<<Const(l), Loop(3, <<mkWord32("v"), LIST_cons(l, "v")>>), FREE("ptrlist"), Owned("kept")>>>>)
revMLList(l) == Loop(2, <<Use(l)>>)   \* in place

\* if NeedGC(bytes + ONE_K), a minor collection with one root
spaceCheck(n, root) == CheckGC(n + 128, {root})

\* the entry code of an ML function is never freed, and the function stays a root
recordFnAsRoot == REC_ALLOC("CInterfaceRootList", {}, 2)
build_entry == <<checked_memalign("entry"), recordFnAsRoot, Owned("entry")>>
mk_C_function == build_entry \o <<Owned("argtypes"), Owned("rettype")>>

(***************************************************************************)
(* The value datum as C data.  fail is what the caller does with an error; *)
(* part is the conversion of a component, whose value is then datum.       *)
(***************************************************************************)
FunctionMLtoC == <<Loop(2, <<checked_memalign("argtypes")>>), checked_memalign("rettype")>> \o mk_C_function
PtrMLtoC(part) == <<checked_memalign("kept"), keep_ptr, REC_SEL("datum", "val")>> \o part
ScalarMLtoC == <<If(<<>>, <<Use("val")>>)>>
StringMLtoC == <<Use("val"), checked_memalign("kept"), keep_ptr>>
StructMLtoC(part) == <<Loop(2, <<REC_SEL("datum", "val")>> \o part \o <<REC_SEL("val", "val")>>)>>
\* what a component that does not match has allocated stays kept
UnionMLtoC(part, fail) ==
    <<If(fail, <<>>), Loop(2, <<REC_SEL("datum", "val")>> \o part), If(fail, <<>>)>>
ArrayMLtoC(part, fail) == <<Use("val"), If(fail, <<>>), Loop(2, <<REC_SEL("datum", "val")>> \o part)>>

datumMLtoC(d, fail) ==
    LET At_[n \in 0..TypeDepth] ==
            <<REC_SEL("val", "datum"),
              Alt(<<fail, FunctionMLtoC, ScalarMLtoC, StringMLtoC>>
                  \o IF n = 0 THEN <<>>
                     ELSE <<PtrMLtoC(At_[n - 1]), StructMLtoC(At_[n - 1]),
                            UnionMLtoC(At_[n - 1], fail), ArrayMLtoC(At_[n - 1], fail)>>)>>
    IN  At_[d]

ml_datumMLtoC ==
    <<REC_SEL("type", "arg"), REC_SEL("datum", "arg"), Use("type")>>
    \o datumMLtoC(TypeDepth, <<free_ptrlist, RaiseError>>)
    \o <<spaceCheck(ptrlist_space, "dummyRoot"), ptrlist_to_MLlist("lp"), mkWord32("ret"),
         REC_ALLOC("ret", {"ret", "lp"}, 2), ReturnVal("ret")>>

(***************************************************************************)
(* C data as the value ret.  A partial aggregate is consed onto the root   *)
(* while part makes a component of it.                                     *)
(***************************************************************************)
RootAround(part) ==
    <<REC_ALLOC("root", {"mlval", "root"}, 2)>> \o part \o <<REC_SEL("mlval", "root"), REC_SEL("root", "root")>>
StringCtoML == <<spaceCheck(65, "root"), ML_CString("mlval")>>
StructCtoML(part) ==
    <<Const("mlval"), Loop(2, RootAround(part) \o <<LIST_cons("mlval", "ret")>>), revMLList("mlval")>>
ArrayCtoML(part) ==
    <<spaceCheck(100, "root"), Small("mlval", 101, {}), Loop(2, RootAround(part) \o <<Uses({"mlval", "ret"})>>)>>

word_CtoML(d, ty) ==
    LET At_[n \in 0..TypeDepth] ==
            <<Use(ty),
              Alt(<<<<Const("mlval")>>, <<mkWord32("mlval")>>, <<double_CtoML("mlval")>>, StringCtoML>>
                  \o IF n = 0 THEN <<>>
                     ELSE <<At_[n - 1] \o <<REC_SEL("mlval", "ret")>>, StructCtoML(At_[n - 1]),
                            ArrayCtoML(At_[n - 1])>>),
              REC_ALLOC("ret", {"mlval"}, 2)>>
    IN  At_[d]

datumCtoML(d, ty) ==
    <<Use(ty), If(<<double_CtoML("ret"), REC_ALLOC("ret", {"ret"}, 2)>>, word_CtoML(d, ty))>>

\* the type is copied, as a collection would move it
ml_datumCtoML ==
    <<Use("arg"), mk_strcpy("type"), REC_SEL("root", "arg")>> \o datumCtoML(1, "typecopy")
    \o <<FREE("type"), ReturnVal("ret")>>

(***************************************************************************)
(* The entry points of an ML function that C calls.  The registers are     *)
(* saved in a record that the collector knows of; what C holds is not.     *)
(***************************************************************************)
RegsSaved == 16
saveState == REC_ALLOC("state", {}, RegsSaved)
restoreState == Use("msp")
setup_msp(arg) == <<saveState, Use(arg)>>
RunML == If(<<InvokeGC({})>>, Die)    \* REQ_RETURN, which collects, or an uncaught exception
restore_msp == <<restoreState>>
convert_result == <<REC_SEL("datum", "msp")>> \o datumMLtoC(CallbackDepth, Die)
no_args_entry == setup_msp("nil") \o <<RunML>> \o restore_msp \o convert_result
some_args_entry ==
    <<Const("root"), Loop(2, datumCtoML(CallbackDepth, "argtypes") \o <<LIST_cons("root", "ret")>>), revMLList("root")>>
    \o setup_msp("root") \o <<RunML>> \o restore_msp \o convert_result

\* the C function may call back into ML
call_word_fn == Alt(<<<<>>, no_args_entry, some_args_entry>>)
call_double_fn == call_word_fn
call_float_fn == call_word_fn

\* cret_type is a pointer into the heap, used after the call
ml_c_call ==
    <<If(<<RaiseError>>, <<>>), REC_SEL("p", "arg"), REC_SEL("cret_type", "arg"), REC_SEL("q", "arg"),
      Loop(2, <<Use("p"), REC_SEL("datum", "q")>> \o datumMLtoC(1, <<free_ptrlist, RaiseError>>)
              \o <<REC_SEL("p", "p"), REC_SEL("q", "q")>>),
      If(<<free_ptrlist, RaiseError>>, <<>>), Use("cret_type"),
      Alt(<<<<call_double_fn, double_CtoML("ret"), REC_ALLOC("ret", {"ret"}, 2)>>,
            <<call_float_fn, double_CtoML("ret"), REC_ALLOC("ret", {"ret"}, 2)>>,
            <<call_word_fn, Const("root")>> \o word_CtoML(1, "cret_type")>>),
      If(<<free_ptrlist, Const("lp")>>, <<spaceCheck(ptrlist_space, "ret"), ptrlist_to_MLlist("lp")>>),
      REC_ALLOC("ret", {"ret", "lp"}, 2), ReturnVal("ret")>>

-----------------------------------------------------------------------------
\* the table the functions of these libraries are bound from
RuntimeTable ==
    [ml_Proc_argv |-> ml_Proc_argv, ml_Proc_raw_argv |-> ml_Proc_raw_argv,
     ml_Proc_cmd_name |-> ml_Proc_cmd_name, ml_Proc_shift_argv |-> ml_Proc_shift_argv,
     ml_RunT_debug |-> ml_RunT_debug, ml_RunT_dummy |-> ml_RunT_dummy,
     ml_RunT_blast_in |-> ml_RunT_blast_in, ml_RunT_blast_out |-> ml_RunT_blast_out,
     ml_RunT_mkliterals |-> ml_RunT_mkliterals, ml_RunT_export_fun |-> ml_RunT_export_fun,
     ml_RunT_export_heap |-> ml_RunT_export_heap,
     ml_RunT_gc_counter_reset |-> ml_RunT_gc_counter_reset,
     ml_RunT_gc_counter_read |-> ml_RunT_gc_counter_read, ml_RunT_gc_ctl |-> ml_RunT_gc_ctl,
     ml_RunT_itick |-> ml_RunT_itick, ml_RunT_mk_code_obj |-> ml_RunT_mk_code_obj,
     ml_RunT_mkexec |-> ml_RunT_mkexec, ml_RunT_recordconcat |-> ml_RunT_recordconcat,
     ml_RunT_record1 |-> ml_RunT_record1, ml_RunT_setitimer |-> ml_RunT_setitimer,
     ml_RunT_sysinfo |-> ml_RunT_sysinfo, ml_Date_gmtime |-> ml_Date_gmtime,
     ml_Date_localOffset |-> ml_Date_localOffset,
     ml_Date_localOffsetForTime |-> ml_Date_localOffsetForTime,
     ml_Date_localtime |-> ml_Date_localtime, ml_Date_mktime |-> ml_Date_mktime,
     ml_Date_strftime |-> ml_Date_strftime, ml_Sig_getsigmask |-> ml_Sig_getsigmask,
     ml_Sig_getsigstate |-> ml_Sig_getsigstate, ml_Sig_listsigs |-> ml_Sig_listsigs,
     ml_Sig_pause |-> ml_Sig_pause, ml_Sig_setsigmask |-> ml_Sig_setsigmask,
     ml_Sig_setsigstate |-> ml_Sig_setsigstate, ml_Time_gettime |-> ml_Time_gettime,
     ml_Time_timeofday |-> ml_Time_timeofday, ml_Prof_getpquantum |-> ml_Prof_getpquantum,
     ml_Prof_setpref |-> ml_Prof_setpref, ml_Prof_setptimer |-> ml_Prof_setptimer,
     ml_Math_atan64 |-> ml_Math_atan64, ml_Math_cos64 |-> ml_Math_cos64, ml_Math_exp64 |-> ml_Math_exp64,
     ml_Math_log64 |-> ml_Math_log64, ml_Math_sin64 |-> ml_Math_sin64, ml_Math_sqrt64 |-> ml_Math_sqrt64,
     ml_Math_ctlrndmode |-> ml_Math_ctlrndmode,
     ml_U_Dynload_dlclose |-> ml_U_Dynload_dlclose, ml_U_Dynload_dlerror |-> ml_U_Dynload_dlerror,
     ml_U_Dynload_dlopen |-> ml_U_Dynload_dlopen, ml_U_Dynload_dlsym |-> ml_U_Dynload_dlsym,
     ml_datumMLtoC |-> ml_datumMLtoC, ml_datumCtoML |-> ml_datumCtoML, ml_c_call |-> ml_c_call]

=============================================================================
