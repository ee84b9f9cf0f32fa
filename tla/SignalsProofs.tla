--------------------------- MODULE SignalsProofs ---------------------------
(***************************************************************************)
(* The safety of signal delivery (module Signals), proved for any number   *)
(* of signals, tasks, steps and events.  OneHandler and NoLostWork are not *)
(* inductive: a request that ML code has made and RunML has not yet served *)
(* must still fit the registers, and once ChooseSignal may be reached no   *)
(* handler is active (RequestsFit).  The type of sigCount, a difference of *)
(* two counters, needs that no signal is handled more often than it was    *)
(* received, also while one is chosen and not yet recorded (CountsFit).    *)
(* NoSpin needs the sum of the counters, as a cardinality (SpinInv).       *)
(***************************************************************************)
EXTENDS Signals, FiniteSetTheorems, WellFoundedInduction, TLAPS

Asked(r) == pc \in {"leave", "dispatch"} /\ request = r

ToChoose == pc \in {"mark", "choose", "record"} \/ (pc = "gcSignal" /\ after = "choose")

\* A request fits the registers it is made with; on every way to ChooseSignal
\* the ML handler is not active.
RequestsFit ==
    /\ Asked("SIG_RETURN") => regs.at = "handler"
    /\ Asked("SIG_RESUME") => regs.at = "resume"
    /\ ToChoose => ~ inSigHandler

\* No signal is handled more often than it was received, the occurrences that
\* ChooseSignal has taken and RunML is about to record included.
CountsFit ==
    /\ \A s \in Sigs : nHandled[s] <= nReceived[s]
    /\ pc = "record" => sigCode \in Sigs /\ nHandled[sigCode] + sigCount <= nReceived[sigCode]

IInv == TypeOK /\ OneHandler /\ NoLostWork /\ RequestsFit /\ CountsFit

\* A nonempty set of signals has one that comes first in turn.
LEMMA FirstInTurn ==
    ASSUME TypeOK, Unhandled # {}
    PROVE  NextSignal \in Unhandled
<1> DEFINE N == Cardinality(Sigs)
           Less == OpToRel(<, Nat)
           T == {Turns(s) : s \in Unhandled}
<1>1. N \in Nat \ {0}
  BY SignalAssumption, FS_Interval DEF Sigs, MIN_SYSTEM_SIG, RUNSIG_GC
<1>2. \A s \in Unhandled : Turns(s) \in Nat
  <2> SUFFICES ASSUME NEW s \in Unhandled PROVE Turns(s) \in Nat
    OBVIOUS
  <2>1. s \in Int /\ nextPendingSig \in Int
    BY SignalAssumption DEF Unhandled, Sigs, MIN_SYSTEM_SIG, RUNSIG_GC, TypeOK,
       CounterType
  <2> QED BY <1>1, <2>1 DEF Turns
<1>3. T \subseteq Nat /\ T # {}
  BY <1>2
<1>4. PICK x \in T : \A y \in T : ~ (<<y, x>> \in Less)
  <2> HIDE DEF T, Less
  <2>1. IsWellFoundedOn(Less, Nat)
    BY NatLessThanWellFounded, Zenon DEF Less
  <2> QED BY <1>3, <2>1, WFMin
<1>5. PICK s \in Unhandled : x = Turns(s)
  BY <1>4
<1>6. \A u \in Unhandled : Turns(s) <= Turns(u)
  <2> SUFFICES ASSUME NEW u \in Unhandled PROVE Turns(s) <= Turns(u)
    OBVIOUS
  <2>1. ~ (<<Turns(u), Turns(s)>> \in Less)
    BY <1>4, <1>5
  <2>2. Turns(u) \in Nat /\ Turns(s) \in Nat
    BY <1>2
  <2>3. ~ (Turns(u) < Turns(s))
    BY <2>1, <2>2 DEF OpToRel
  <2> QED BY <2>2, <2>3
<1> QED BY <1>6 DEF NextSignal

\* The collector's signal is a signal like the others, and no system signal.
LEMMA SignalSets == RUNSIG_GC \in Sigs /\ SysSigs = Sigs \ {RUNSIG_GC}
BY SignalAssumption DEF RUNSIG_GC, Sigs, SysSigs, MIN_SYSTEM_SIG

\* The process starts outside ML code, with nothing received or handled.
LEMMA InitIInv == Init => IInv
<1> SUFFICES ASSUME Init PROVE IInv
  OBVIOUS
<1> USE SignalAssumption DEF Init
<1>1. ControlType
  BY DEF ControlType, PCs, Requests
<1>2. CounterType
  BY DEF CounterType, SysSigs, Sigs, MIN_SYSTEM_SIG, RUNSIG_GC
<1>3. MLType
  BY DEF MLType, Cont
<1>4. OSType
  BY DEF OSType
<1>5. OneHandler /\ NoLostWork
  BY DEF OneHandler, NoLostWork
<1>6. RequestsFit /\ CountsFit
  BY DEF RequestsFit, CountsFit, Asked, ToChoose
<1> QED BY <1>1, <1>2, <1>3, <1>4, <1>5, <1>6 DEF IInv, TypeOK

-----------------------------------------------------------------------------
(* The O.S. *)

\* A signal that is sent changes nothing in the process.
LEMMA SendStep ==
    ASSUME IInv, NEW s \in SysSigs, Send(s)
    PROVE  IInv'
BY DEF Send, Asked, ToChoose, IInv, counters, chosen, gcSig, ml, flags, TypeOK,
   ControlType, CounterType, MLType, OSType, OneHandler, NoLostWork, RequestsFit,
   CountsFit, Cont, Requests, PCs

\* CSigHandler marks a handler pending only while none is active.
LEMMA HandlerStep ==
    ASSUME IInv, NEW s \in SysSigs, CSigHandler(s)
    PROVE  IInv'
<1> USE SignalAssumption, SignalSets DEF CSigHandler, NoticeSignal, IInv, chosen, gcSig, ml
<1>1. TypeOK'
  <2>1. ControlType'
    BY DEF TypeOK, ControlType, PCs, Requests
  <2>2. CounterType'
    BY DEF TypeOK, CounterType, CountsFit
  <2>3. MLType'
    BY DEF TypeOK, ControlType, MLType, Cont
  <2>4. OSType'
    BY DEF TypeOK, OSType
  <2> QED BY <2>1, <2>2, <2>3, <2>4 DEF TypeOK
<1>2. OneHandler'
  BY DEF TypeOK, ControlType, MLType, OneHandler, RequestsFit, Asked, ToChoose, Cont
<1>3. NoLostWork'
  BY DEF TypeOK, MLType, NoLostWork, Cont
<1>4. RequestsFit'
  BY DEF TypeOK, ControlType, MLType, OneHandler, RequestsFit, Asked, ToChoose, PCs
<1>5. CountsFit'
  BY DEF TypeOK, ControlType, CounterType, CountsFit, SysSigs, Sigs, MIN_SYSTEM_SIG,
     RUNSIG_GC
<1> QED BY <1>1, <1>2, <1>3, <1>4, <1>5

-----------------------------------------------------------------------------
(* Into ML code and out of it. *)

\* Entering ML code forgets the last request.
LEMMA EnterMLStep ==
    ASSUME IInv, EnterML
    PROVE  IInv'
BY SignalAssumption DEF EnterML, Asked, ToChoose, IInv, counters, chosen, gcSig, os, ml,
   flags, TypeOK, ControlType, CounterType, MLType, OSType, OneHandler, NoLostWork,
   RequestsFit, CountsFit, Cont, Requests, PCs

\* restoreregs goes to mark only when no handler is active.
LEMMA CheckSignalsStep ==
    ASSUME IInv, CheckSignals
    PROVE  IInv'
BY SignalAssumption DEF CheckSignals, Asked, ToChoose, IInv, counters, chosen, gcSig, os,
   ml, flags, TypeOK, ControlType, CounterType, MLType, OSType, OneHandler, NoLostWork,
   RequestsFit, CountsFit, Cont, Requests, PCs

\* So marking keeps pending and active apart.
LEMMA MarkPendingStep ==
    ASSUME IInv, MarkPending
    PROVE  IInv'
BY SignalAssumption DEF MarkPending, Asked, ToChoose, IInv, counters, chosen, gcSig, os,
   ml, flags, TypeOK, ControlType, CounterType, MLType, OSType, OneHandler, NoLostWork,
   RequestsFit, CountsFit, Cont, Requests, PCs

\* The request made with these registers is still the one to serve.
LEMMA LeaveMLStep ==
    ASSUME IInv, LeaveML
    PROVE  IInv'
<1> USE SignalAssumption DEF LeaveML, IInv, counters, chosen, gcSig, os, ml, flags
<1>1. TypeOK'
  <2>1. ControlType'
    BY DEF TypeOK, ControlType, PCs, Requests
  <2>2. CounterType'
    BY DEF TypeOK, CounterType, CountsFit
  <2>3. MLType'
    BY DEF TypeOK, ControlType, MLType, Cont
  <2>4. OSType'
    BY DEF TypeOK, OSType
  <2> QED BY <2>1, <2>2, <2>3, <2>4 DEF TypeOK
<1>2. OneHandler'
  BY DEF TypeOK, ControlType, CounterType, MLType, OneHandler, RequestsFit, Asked,
     ToChoose, Cont
<1>3. NoLostWork'
  BY DEF TypeOK, ControlType, CounterType, MLType, NoLostWork, Cont
<1>4. RequestsFit'
  BY DEF TypeOK, ControlType, CounterType, MLType, OneHandler, RequestsFit, Asked,
     ToChoose, PCs
<1>5. CountsFit'
  BY DEF TypeOK, ControlType, CounterType, MLType, CountsFit
<1> QED BY <1>1, <1>2, <1>3, <1>4, <1>5

-----------------------------------------------------------------------------
(* ML code. *)

\* A failed heap check asks for a collection.
LEMMA HeapCheckStep ==
    ASSUME IInv, HeapCheck
    PROVE  IInv'
BY SignalAssumption DEF HeapCheck, Ask, Asked, ToChoose, IInv, counters, chosen, gcSig,
   os, ml, flags, TypeOK, ControlType, CounterType, MLType, OSType, OneHandler,
   NoLostWork, RequestsFit, CountsFit, Cont, Requests, PCs

\* SIG_RESUME is asked for with the closure in the registers.
LEMMA SighResumeStep ==
    ASSUME IInv, SighResume
    PROVE  IInv'
BY SignalAssumption DEF SighResume, Ask, Asked, ToChoose, IInv, counters, chosen, gcSig,
   os, ml, flags, TypeOK, ControlType, CounterType, MLType, OSType, OneHandler,
   NoLostWork, RequestsFit, CountsFit, Cont, Requests, PCs

\* A step of the running task moves its position too.
LEMMA ComputeStep ==
    ASSUME IInv, Compute
    PROVE  IInv'
BY SignalAssumption DEF Compute, Asked, ToChoose, IInv, counters, chosen, gcSig, os, ml,
   flags, TypeOK, ControlType, CounterType, MLType, OSType, OneHandler, NoLostWork,
   RequestsFit, CountsFit, Cont, Requests, PCs

\* Allocation changes the allocation space only.
LEMMA AllocateStep ==
    ASSUME IInv, Allocate
    PROVE  IInv'
BY SignalAssumption DEF Allocate, Fill, Asked, ToChoose, IInv, counters, chosen, gcSig,
   os, ml, flags, TypeOK, ControlType, CounterType, MLType, OSType, OneHandler,
   NoLostWork, RequestsFit, CountsFit, Cont, Requests, PCs

\* SIG_RETURN is asked for by the active handler.
LEMMA HandlerReturnsStep ==
    ASSUME IInv, HandlerReturns
    PROVE  IInv'
BY SignalAssumption DEF HandlerReturns, Ask, Asked, ToChoose, IInv, counters, chosen,
   gcSig, os, ml, flags, TypeOK, ControlType, CounterType, MLType, OSType, OneHandler,
   NoLostWork, RequestsFit, CountsFit, Cont, Requests, PCs

-----------------------------------------------------------------------------
(* RunML. *)

\* The collector counts its signal as CSigHandler does.
LEMMA GCSignalStep ==
    ASSUME IInv, GCSignal
    PROVE  IInv'
<1> USE SignalAssumption, SignalSets DEF GCSignal, IInv, counters, chosen, gcSig, os, ml, flags
<1>1. TypeOK'
  <2>1. ControlType'
    BY DEF TypeOK, ControlType, PCs, Requests
  <2>2. CounterType'
    BY DEF TypeOK, CounterType, CountsFit
  <2>3. MLType'
    BY DEF TypeOK, ControlType, MLType, Cont
  <2>4. OSType'
    BY DEF TypeOK, OSType
  <2> QED BY <2>1, <2>2, <2>3, <2>4 DEF TypeOK
<1>2. OneHandler'
  BY DEF TypeOK, ControlType, MLType, OneHandler, RequestsFit, Asked, ToChoose, Cont
<1>3. NoLostWork'
  BY DEF TypeOK, MLType, NoLostWork, Cont
<1>4. RequestsFit'
  BY DEF TypeOK, ControlType, MLType, OneHandler, RequestsFit, Asked, ToChoose, PCs
<1>5. CountsFit'
  BY DEF TypeOK, ControlType, CounterType, CountsFit, SysSigs, Sigs, MIN_SYSTEM_SIG,
     RUNSIG_GC
<1> QED BY <1>1, <1>2, <1>3, <1>4, <1>5

\* A collection on the way to ChooseSignal leaves no handler active.
LEMMA RequestGCStep ==
    ASSUME IInv, RequestGC
    PROVE  IInv'
BY SignalAssumption DEF RequestGC, Dispatching, InvokeGC, Level, Asked, ToChoose, IInv,
   counters, chosen, gcSig, os, ml, flags, TypeOK, ControlType, CounterType, MLType,
   OSType, OneHandler, NoLostWork, RequestsFit, CountsFit, Cont, Requests, PCs

\* What ChooseSignal takes is at most what was received.
LEMMA ChooseSignalStep ==
    ASSUME IInv, ChooseSignal
    PROVE  IInv'
<1> USE SignalAssumption DEF ChooseSignal, IInv, counters, chosen, gcSig, os, ml, flags
<1>1. TypeOK'
  <2>1. ControlType'
    BY DEF TypeOK, ControlType, PCs, Requests
  <2>2. CounterType'
    BY FirstInTurn DEF TypeOK, CounterType, CountsFit, Unhandled, Delta
  <2>3. MLType'
    BY DEF TypeOK, ControlType, MLType, Cont
  <2>4. OSType'
    BY DEF TypeOK, OSType
  <2> QED BY <2>1, <2>2, <2>3, <2>4 DEF TypeOK
<1>2. OneHandler'
  BY DEF TypeOK, ControlType, CounterType, MLType, OneHandler, RequestsFit, Asked,
     ToChoose, Cont
<1>3. NoLostWork'
  BY DEF TypeOK, ControlType, CounterType, MLType, NoLostWork, Cont
<1>4. RequestsFit'
  BY DEF TypeOK, ControlType, CounterType, MLType, OneHandler, RequestsFit, Asked,
     ToChoose, PCs
<1>5. CountsFit'
  BY FirstInTurn DEF TypeOK, ControlType, CounterType, MLType, CountsFit, Unhandled, Delta
<1> QED BY <1>1, <1>2, <1>3, <1>4, <1>5

\* Recording it stays within what was received; the task is in the closure.
LEMMA RunHandlerStep ==
    ASSUME IInv, RunHandler
    PROVE  IInv'
<1> USE SignalAssumption DEF RunHandler, RecordHandled, MakeHandlerArg, MakeResumeCont,
   IInv, counters, chosen, gcSig, os, ml, flags
<1>1. TypeOK'
  <2>1. ControlType'
    BY DEF TypeOK, ControlType, PCs, Requests
  <2>2. CounterType'
    BY DEF TypeOK, CounterType, CountsFit
  <2>3. MLType'
    BY DEF TypeOK, ControlType, MLType, Cont
  <2>4. OSType'
    BY DEF TypeOK, OSType
  <2> QED BY <2>1, <2>2, <2>3, <2>4 DEF TypeOK
<1>2. OneHandler'
  BY DEF TypeOK, ControlType, CounterType, MLType, OneHandler, RequestsFit, Asked,
     ToChoose, Cont
<1>3. NoLostWork'
  BY DEF TypeOK, ControlType, CounterType, MLType, NoLostWork, Cont
<1>4. RequestsFit'
  BY DEF TypeOK, ControlType, CounterType, MLType, OneHandler, RequestsFit, Asked,
     ToChoose, PCs
<1>5. CountsFit'
  BY DEF TypeOK, ControlType, CounterType, MLType, CountsFit
<1> QED BY <1>1, <1>2, <1>3, <1>4, <1>5

\* The closure, or the other task, comes into the registers unchanged.
LEMMA SigReturnStep ==
    ASSUME IInv, SigReturn
    PROVE  IInv'
<1> USE SignalAssumption DEF SigReturn, Dispatching, IInv, counters, chosen, gcSig, os,
   ml, flags
<1>1. TypeOK'
  <2>1. ControlType'
    BY DEF TypeOK, ControlType, PCs, Requests
  <2>2. CounterType'
    BY DEF TypeOK, CounterType, CountsFit
  <2>3. MLType'
    BY DEF TypeOK, ControlType, MLType, Cont
  <2>4. OSType'
    BY DEF TypeOK, OSType
  <2> QED BY <2>1, <2>2, <2>3, <2>4 DEF TypeOK
<1>2. OneHandler'
  BY DEF TypeOK, ControlType, CounterType, MLType, OneHandler, RequestsFit, Asked,
     ToChoose, Cont
<1>3. NoLostWork'
  BY DEF TypeOK, ControlType, CounterType, MLType, NoLostWork, Cont
<1>4. RequestsFit'
  BY DEF TypeOK, ControlType, CounterType, MLType, OneHandler, RequestsFit, Asked,
     ToChoose, PCs
<1>5. CountsFit'
  BY DEF TypeOK, ControlType, CounterType, MLType, CountsFit
<1> QED BY <1>1, <1>2, <1>3, <1>4, <1>5

\* Loading the closure gives back the step it was made at.
LEMMA SigResumeStep ==
    ASSUME IInv, SigResume
    PROVE  IInv'
BY SignalAssumption DEF SigResume, Dispatching, LoadResumeState, Asked, ToChoose, IInv,
   counters, chosen, gcSig, os, ml, flags, TypeOK, ControlType, CounterType, MLType,
   OSType, OneHandler, NoLostWork, RequestsFit, CountsFit, Cont, Requests, PCs

\* An exception moves task and position together.
LEMMA RaiseMLExnStep ==
    ASSUME IInv, RaiseMLExn
    PROVE  IInv'
BY SignalAssumption DEF RaiseMLExn, Dispatching, Asked, ToChoose, IInv, counters, chosen,
   gcSig, os, ml, flags, TypeOK, ControlType, CounterType, MLType, OSType, OneHandler,
   NoLostWork, RequestsFit, CountsFit, Cont, Requests, PCs

\* A function that returns is followed by a collection,
LEMMA ReturnStep ==
    ASSUME IInv, Return
    PROVE  IInv'
BY SignalAssumption DEF Return, Dispatching, InvokeGC, Asked, ToChoose, IInv, counters,
   chosen, gcSig, os, ml, flags, TypeOK, ControlType, CounterType, MLType, OSType,
   OneHandler, NoLostWork, RequestsFit, CountsFit, Cont, Requests, PCs

\* and by the next function, at its beginning.
LEMMA ApplyMLFnStep ==
    ASSUME IInv, ApplyMLFn
    PROVE  IInv'
BY SignalAssumption DEF ApplyMLFn, Asked, ToChoose, IInv, counters, chosen, gcSig, os, ml,
   flags, TypeOK, ControlType, CounterType, MLType, OSType, OneHandler, NoLostWork,
   RequestsFit, CountsFit, Cont, Requests, PCs

\* The process ends.
LEMMA UncaughtExnStep ==
    ASSUME IInv, UncaughtExn
    PROVE  IInv'
BY SignalAssumption DEF UncaughtExn, Dispatching, Asked, ToChoose, IInv, counters, chosen,
   gcSig, os, ml, flags, TypeOK, ControlType, CounterType, MLType, OSType, OneHandler,
   NoLostWork, RequestsFit, CountsFit, Cont, Requests, PCs

\* Binding a C function changes nothing here.
LEMMA BindCFunStep ==
    ASSUME IInv, BindCFun
    PROVE  IInv'
BY SignalAssumption DEF BindCFun, Dispatching, Asked, ToChoose, IInv, counters, chosen,
   gcSig, os, ml, flags, TypeOK, ControlType, CounterType, MLType, OSType, OneHandler,
   NoLostWork, RequestsFit, CountsFit, Cont, Requests, PCs

\* Allocating an object may collect.
LEMMA AllocObjectStep ==
    ASSUME IInv, AllocObject
    PROVE  IInv'
BY SignalAssumption DEF AllocObject, Dispatching, InvokeGC, Fill, Asked, ToChoose, IInv,
   counters, chosen, gcSig, os, ml, flags, TypeOK, ControlType, CounterType, MLType,
   OSType, OneHandler, NoLostWork, RequestsFit, CountsFit, Cont, Requests, PCs

\* So may a C call, before the function runs.
LEMMA CallCStep ==
    ASSUME IInv, CallC
    PROVE  IInv'
BY SignalAssumption DEF CallC, Dispatching, InvokeGC, Level, Asked, ToChoose, IInv,
   counters, chosen, gcSig, os, ml, flags, TypeOK, ControlType, CounterType, MLType,
   OSType, OneHandler, NoLostWork, RequestsFit, CountsFit, Cont, Requests, PCs

-----------------------------------------------------------------------------
(* C functions. *)

\* pause waits in C code.
LEMMA PauseUntilSignalStep ==
    ASSUME IInv, PauseUntilSignal
    PROVE  IInv'
BY SignalAssumption DEF PauseUntilSignal, Calling, Asked, ToChoose, IInv, counters,
   chosen, gcSig, os, ml, flags, TypeOK, ControlType, CounterType, MLType, OSType,
   OneHandler, NoLostWork, RequestsFit, CountsFit, Cont, Requests, PCs

\* Other C functions change nothing here.
LEMMA OtherCFunStep ==
    ASSUME IInv, OtherCFun
    PROVE  IInv'
BY SignalAssumption DEF OtherCFun, Calling, Asked, ToChoose, IInv, counters, chosen,
   gcSig, os, ml, flags, TypeOK, ControlType, CounterType, MLType, OSType, OneHandler,
   NoLostWork, RequestsFit, CountsFit, Cont, Requests, PCs

\* The other requests of ML code.
LEMMA AskRuntimeStep ==
    ASSUME IInv, NEW r \in Requests \ {"SIG_RETURN", "SIG_RESUME"}, AskRuntime(r)
    PROVE  IInv'
BY SignalAssumption DEF AskRuntime, Ask, Fill, Asked, ToChoose, IInv, counters, chosen,
   gcSig, os, ml, flags, TypeOK, ControlType, CounterType, MLType, OSType, OneHandler,
   NoLostWork, RequestsFit, CountsFit, Cont, Requests, PCs

\* SetSignalState: only the settings change.
LEMMA SetSignalStateStep ==
    ASSUME IInv, NEW s \in Sigs, NEW st \in {"ignore", "enabled"}, SetSignalState(s, st)
    PROVE  IInv'
<1> USE SignalAssumption, SignalSets DEF SetSignalState, Setting, Calling, IInv, counters, chosen,
   gcSig, os, ml, flags
<1>1. TypeOK'
  <2>1. ControlType'
    BY DEF TypeOK, ControlType, PCs, Requests
  <2>2. CounterType'
    BY DEF TypeOK, CounterType, CountsFit
  <2>3. MLType'
    BY DEF TypeOK, ControlType, MLType, Cont
  <2>4. OSType'
    BY DEF TypeOK, OSType
  <2> QED BY <2>1, <2>2, <2>3, <2>4 DEF TypeOK
<1>2. OneHandler'
  BY DEF TypeOK, ControlType, MLType, OneHandler, RequestsFit, Asked, ToChoose, Cont
<1>3. NoLostWork'
  BY DEF TypeOK, MLType, NoLostWork, Cont
<1>4. RequestsFit'
  BY DEF TypeOK, ControlType, MLType, OneHandler, RequestsFit, Asked, ToChoose, PCs
<1>5. CountsFit'
  BY DEF TypeOK, ControlType, CounterType, CountsFit
<1> QED BY <1>1, <1>2, <1>3, <1>4, <1>5

\* SetSignalMask, for a mask of system signals.
LEMMA SetSignalMaskStep ==
    ASSUME IInv, NEW l, MaskOf(l) \subseteq SysSigs, SetSignalMask(l)
    PROVE  IInv'
BY SignalAssumption DEF SetSignalMask, Setting, Calling, Asked, ToChoose, IInv, counters,
   chosen, gcSig, os, ml, flags, TypeOK, ControlType, CounterType, MLType, OSType,
   OneHandler, NoLostWork, RequestsFit, CountsFit, Cont, Requests, PCs

\* The masks that ML code can ask for.
LEMMA MaskType ==
    /\ MaskOf(<<>>) \subseteq SysSigs
    /\ \A l \in SUBSET {MIN_SYSTEM_SIG} : MaskOf(<<l>>) \subseteq SysSigs
BY SignalAssumption DEF MaskOf, SysSigs, MIN_SYSTEM_SIG

\* gc_ctl changes the threshold.
LEMMA SetSigThresholdStep ==
    ASSUME IInv, NEW n \in {0, 1}, SetSigThreshold(n)
    PROVE  IInv'
BY SignalAssumption DEF SetSigThreshold, Setting, Calling, Asked, ToChoose, IInv,
   counters, chosen, gcSig, os, ml, flags, TypeOK, ControlType, CounterType, MLType,
   OSType, OneHandler, NoLostWork, RequestsFit, CountsFit, Cont, Requests, PCs

\* IInv is an invariant: one lemma per action.
THEOREM Invariance == Spec => []IInv
<1>1. Init => IInv
  BY InitIInv
<1>2. IInv /\ [Next]_vars => IInv'
  <2> SUFFICES ASSUME IInv, [Next]_vars PROVE IInv'
    OBVIOUS
  <2>1. CASE Main
    <3>1. CASE \E r \in {"CALLC", "ALLOC", "RETURN", "EXN", "FAULT", "RAISE_OVERFLOW", "BIND_CFUN"} :
                  AskRuntime(r)
      BY <3>1, AskRuntimeStep DEF Requests
    <3>2. CASE \E s \in Sigs, st \in {"ignore", "enabled"} : SetSignalState(s, st)
      BY <3>2, SetSignalStateStep
    <3>3. CASE SetSignalMask(<<>>) \/ \E l \in SUBSET {MIN_SYSTEM_SIG} : SetSignalMask(<<l>>)
      BY <3>3, SetSignalMaskStep, MaskType
    <3>4. CASE \E n \in {0, 1} : SetSigThreshold(n)
      BY <3>4, SetSigThresholdStep
    <3> QED
      BY <2>1, <3>1, <3>2, <3>3, <3>4, EnterMLStep, CheckSignalsStep, MarkPendingStep,
         LeaveMLStep, HeapCheckStep, SighResumeStep, ComputeStep, AllocateStep,
         HandlerReturnsStep, GCSignalStep, RequestGCStep, ChooseSignalStep,
         RunHandlerStep, SigReturnStep, SigResumeStep, RaiseMLExnStep, ReturnStep,
         ApplyMLFnStep, UncaughtExnStep, BindCFunStep, AllocObjectStep, CallCStep,
         PauseUntilSignalStep, OtherCFunStep DEF Main
  <2>2. CASE \E s \in SysSigs : Send(s) \/ CSigHandler(s)
    BY <2>2, SendStep, HandlerStep
  <2>3. CASE UNCHANGED vars
    BY <2>3 DEF vars, counters, chosen, gcSig, os, ml, flags, Asked, ToChoose, IInv,
       TypeOK, ControlType, CounterType, MLType, OSType, OneHandler, NoLostWork,
       RequestsFit, CountsFit, Cont, Requests, PCs
  <2> QED
    BY <2>1, <2>2, <2>3 DEF Next
<1> QED
  BY <1>1, <1>2, PTL DEF Spec

\* Every variable of the run loop and of signal delivery keeps its type; above
\* all, the difference of two counters that ChooseSignal takes is a number of
\* occurrences.
THEOREM TypeCorrect == Spec => []TypeOK
<1>1. IInv => TypeOK
  BY DEF IInv
<1> QED
  BY Invariance, <1>1, PTL

\* vp_inSigHandler tells exactly whether an ML handler is active, and no
\* handler is pending meanwhile, whenever the C handler runs.
THEOREM HandlersExclusive == Spec => []OneHandler
<1>1. IInv => OneHandler
  BY DEF IInv
<1> QED
  BY Invariance, <1>1, PTL

\* Whatever is interrupted, wherever, and whichever continuation the ML
\* handler returns, every task goes on at the step where it was interrupted.
THEOREM WorkPreserved == Spec => []NoLostWork
<1>1. IInv => NoLostWork
  BY DEF IInv
<1> QED
  BY Invariance, <1>1, PTL

\* No signal is passed to the ML handler more often than it was received.
THEOREM HandledWasReceived == Spec => []CountsFit
<1>1. IInv => CountsFit
  BY DEF IInv
<1> QED
  BY Invariance, <1>1, PTL
-----------------------------------------------------------------------------
(***************************************************************************)
(* NoSpin.  The scan of ChooseSignal ends if the counters of some signal   *)
(* differ.  What leads to it is a flag, or the summary counters; that they *)
(* do not lie needs the sum of the differences, which is the number of     *)
(* occurrences that wait: receiving adds one, recording removes those that *)
(* ChooseSignal took, whatever comes in between.                           *)
(***************************************************************************)

\* The occurrences that are received and not handled, one pair <<signal,
\* number>> each.
Waiting == {p \in Sigs \X Nat : nHandled[p[1]] < p[2] /\ p[2] <= nReceived[p[1]]}

\* The summary counters are apart by the number of occurrences that wait.
Counted == IsFiniteSet(Waiting) /\ totReceived = totHandled + Cardinality(Waiting)

\* Whatever sends RunML to ChooseSignal promises a signal that waits.
PromisesKept ==
    \/ handlerPending \/ pc \in {"mark", "choose"} \/ (pc = "gcSignal" /\ after = "choose")
    => Waiting # {}

SpinInv == Counted /\ PromisesKept /\ NoSpin

\* A signal has an occurrence that waits exactly when its counters differ.
LEMMA WaitingUnhandled ==
    ASSUME CounterType, CountsFit
    PROVE  Waiting # {} <=> Unhandled # {}
<1>1. ASSUME NEW p \in Waiting PROVE p[1] \in Unhandled
  BY <1>1 DEF Waiting, Unhandled, Delta, CounterType
<1>2. ASSUME NEW s \in Unhandled PROVE <<s, nReceived[s]>> \in Waiting
  BY <1>2 DEF Waiting, Unhandled, Delta, CounterType, CountsFit
<1> QED BY <1>1, <1>2

\* Receiving a signal adds one occurrence, and one to the summary.
LEMMA CountReceived ==
    ASSUME CounterType, CountsFit, Counted, NEW s \in Sigs,
           nReceived' = [nReceived EXCEPT ![s] = @ + 1],
           totReceived' = totReceived + 1, UNCHANGED <<nHandled, totHandled>>
    PROVE  Counted' /\ Waiting' # {}
<1> DEFINE new == <<s, nReceived[s] + 1>>
<1>1. Waiting' = Waiting \cup {new}
  BY DEF Waiting, CounterType, CountsFit
<1>2. new \notin Waiting
  BY DEF Waiting, CounterType
<1>3. IsFiniteSet(Waiting') /\ Cardinality(Waiting') = Cardinality(Waiting) + 1
  BY <1>1, <1>2, FS_AddElement DEF Counted
<1>4. Cardinality(Waiting) \in Nat
  BY FS_CardinalityType DEF Counted
<1>5. totReceived' = totHandled' + Cardinality(Waiting')
  BY <1>3, <1>4 DEF Counted, CounterType
<1>6. Waiting' # {}
  BY <1>1
<1> QED BY <1>3, <1>5, <1>6 DEF Counted

\* Recording removes the occurrences that ChooseSignal has taken, all of them
\* of one signal, and as many from the summary.
LEMMA CountHandled ==
    ASSUME CounterType, CountsFit, Counted, pc = "record", RecordHandled
    PROVE  Counted'
<1> DEFINE h == nHandled[sigCode]
           taken == {sigCode} \X ((h + 1) .. (h + sigCount))
<1>1. h \in Nat /\ sigCount \in Nat /\ sigCode \in Sigs /\ h + sigCount <= nReceived[sigCode]
  BY DEF CounterType, CountsFit
<1>2. Waiting' = Waiting \ taken
  <2>1. ASSUME NEW p \in Waiting' PROVE p \in Waiting \ taken
    BY <1>1, <2>1 DEF Waiting, CounterType, RecordHandled
  <2>2. ASSUME NEW p \in Waiting \ taken PROVE p \in Waiting'
    <3>1. p \in Sigs \X Nat /\ nHandled[p[1]] < p[2] /\ p[2] <= nReceived[p[1]]
      BY <2>2 DEF Waiting
    <3>2. p[1] # sigCode \/ ~ (p[2] \in (h + 1) .. (h + sigCount))
      BY <2>2, <3>1
    <3> QED BY <1>1, <3>1, <3>2 DEF Waiting, CounterType, RecordHandled
  <2> QED BY <2>1, <2>2
<1>3. taken \subseteq Waiting
  BY <1>1 DEF Waiting, CounterType
<1>4. IsFiniteSet(taken) /\ Cardinality(taken) = sigCount
  <2> HIDE DEF h
  <2>1. IsFiniteSet((h + 1) .. (h + sigCount)) /\ Cardinality((h + 1) .. (h + sigCount)) = sigCount
    BY <1>1, FS_Interval
  <2>2. IsFiniteSet({sigCode}) /\ Cardinality({sigCode}) = 1
    BY FS_Singleton
  <2>3. Cardinality(taken) = 1 * sigCount
    BY <2>1, <2>2, FS_Product
  <2> QED BY <1>1, <2>1, <2>2, <2>3, FS_Product
<1>5. IsFiniteSet(Waiting') /\ Cardinality(Waiting') = Cardinality(Waiting) - sigCount
  <2>1. Waiting \cap taken = taken
    BY <1>3
  <2> HIDE DEF taken
  <2> QED BY <1>2, <1>4, <2>1, FS_Difference DEF Counted
<1>6. Cardinality(Waiting) \in Nat
  BY FS_CardinalityType DEF Counted
<1> QED BY <1>1, <1>5, <1>6 DEF Counted, CounterType, RecordHandled

\* A step that leaves the counters alone.
LEMMA CountUnchanged ==
    ASSUME Counted, UNCHANGED <<nReceived, nHandled, totReceived, totHandled>>
    PROVE  Counted' /\ Waiting' = Waiting
BY DEF Counted, Waiting

\* Initially nothing waits.
LEMMA InitSpinInv == Init => SpinInv
<1> SUFFICES ASSUME Init PROVE SpinInv
  OBVIOUS
<1>1. Waiting = {}
  BY DEF Init, Waiting
<1> QED BY <1>1, FS_EmptySet DEF Init, SpinInv, Counted, PromisesKept, NoSpin

\* One step per group of actions: the C handler, the collector's signal, the
\* scan, the record, and those that leave the counters alone.
LEMMA SpinInvStep ==
    ASSUME IInv, SpinInv, [Next]_vars
    PROVE  SpinInv'
<1> USE SignalSets DEF SpinInv, NoSpin
<1>0. CounterType /\ CountsFit /\ ControlType
  BY DEF IInv, TypeOK
<1>1. CASE \E s \in SysSigs : CSigHandler(s)
  <2> PICK s \in SysSigs : CSigHandler(s)
    BY <1>1
  <2>1. Counted' /\ Waiting' # {}
    BY <1>0, CountReceived DEF CSigHandler
  <2> QED BY <2>1 DEF PromisesKept, CSigHandler
<1>2. CASE GCSignal
  <2>1. after \in {"enter", "choose", "callc", "apply"}
    BY <1>0 DEF ControlType
  <2>2. CASE UNCHANGED <<nReceived, totReceived, handlerPending>>
    BY <1>2, <2>1, <2>2, CountUnchanged DEF GCSignal, PromisesKept
  <2>3. CASE nReceived' = [nReceived EXCEPT ![RUNSIG_GC] = @ + 1] /\ totReceived' = totReceived + 1
    BY <1>0, <1>2, <2>1, <2>3, CountReceived DEF GCSignal, PromisesKept
  <2> QED BY <1>2, <2>2, <2>3 DEF GCSignal
<1>3. CASE ChooseSignal
  <2>1. Unhandled # {}
    BY <1>0, <1>3, WaitingUnhandled DEF ChooseSignal, PromisesKept
  <2> QED BY <1>3, <2>1, CountUnchanged DEF ChooseSignal, PromisesKept, counters, flags
<1>4. CASE RunHandler
  BY <1>0, <1>4, CountHandled DEF RunHandler, PromisesKept
<1>5. CASE CheckSignals
  <2>1. totReceived # totHandled => Waiting # {}
    <3>1. Waiting = {} => Cardinality(Waiting) = 0
      BY FS_EmptySet
    <3> QED BY <1>0, <3>1 DEF Counted, CounterType
  <2> QED BY <1>5, <2>1, CountUnchanged DEF CheckSignals, PromisesKept, counters, flags
<1>6. CASE EnterML \/ MarkPending \/ LeaveML
  BY <1>6, CountUnchanged DEF EnterML, MarkPending, LeaveML, PromisesKept, counters, flags
<1>7. CASE \/ HeapCheck \/ SighResume \/ Compute \/ Allocate \/ HandlerReturns
           \/ \E r \in Requests : AskRuntime(r)
  BY <1>7, CountUnchanged DEF HeapCheck, SighResume, Compute, Allocate, HandlerReturns,
     AskRuntime, Ask, PromisesKept, counters, flags
<1>8. CASE RequestGC \/ Return \/ AllocObject \/ CallC
  BY <1>8, CountUnchanged DEF RequestGC, Return, AllocObject, CallC, InvokeGC, PromisesKept,
     counters, flags
<1>9. CASE SigReturn \/ SigResume \/ RaiseMLExn \/ ApplyMLFn \/ UncaughtExn \/ BindCFun
  BY <1>9, CountUnchanged DEF SigReturn, SigResume, RaiseMLExn, ApplyMLFn, UncaughtExn, BindCFun,
     PromisesKept, counters, flags
<1>10. CASE \/ PauseUntilSignal \/ OtherCFun
            \/ \E s \in Sigs, st \in {"ignore", "enabled"} : SetSignalState(s, st)
            \/ \E l : SetSignalMask(l) \/ \E n \in {0, 1} : SetSigThreshold(n)
  BY <1>10, CountUnchanged DEF PauseUntilSignal, OtherCFun, SetSignalState, SetSignalMask,
     SetSigThreshold, Setting, Calling, PromisesKept, counters, flags
<1>11. CASE \E s \in SysSigs : Send(s)
  BY <1>11, CountUnchanged DEF Send, PromisesKept, counters, flags
<1>12. CASE UNCHANGED vars
  BY <1>12, CountUnchanged DEF vars, PromisesKept, counters, flags
<1> QED
  BY <1>1, <1>2, <1>3, <1>4, <1>5, <1>6, <1>7, <1>8, <1>9, <1>10, <1>11, <1>12
     DEF Next, Main, Requests

\* ChooseSignal's scan of the counters always ends.
THEOREM ScanEnds == Spec => []NoSpin
<1>1. IInv /\ SpinInv /\ [Next]_vars => SpinInv'
  BY SpinInvStep
<1>2. SpinInv => NoSpin
  BY DEF SpinInv
<1> QED BY InitSpinInv, Invariance, <1>1, <1>2, PTL DEF Spec
=============================================================================
