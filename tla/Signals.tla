------------------------------- MODULE Signals -------------------------------
(***************************************************************************)
(* The dispatch loop of the run-time system (kernel/run-ml.c) and the      *)
(* delivery of signals to ML (mach-dep/signal-util.c, unix-signal.c).  The *)
(* C handler only counts a signal and makes the heap limit zero; ML code   *)
(* comes out of its next heap check, and RunML runs the ML handler then.   *)
(* The O.S. may run the C handler between any two steps of the program;    *)
(* SIG_SetHandler blocks all signals meanwhile, so it is one step.         *)
(*                                                                         *)
(* ML code is a set of tasks, each a sequence of steps; the registers      *)
(* regs = [at, t, n] hold task t at its step n ("user"), the ML handler    *)
(* with the resumption closure of task t ("handler"), or the entry point   *)
(* sigh_resume with such a closure ("resume").                             *)
(***************************************************************************)
EXTENDS Integers, FiniteSets

CONSTANTS
    MAX_SYSTEM_SIG,  \* the system signals are 1 .. MAX_SYSTEM_SIG
    Tasks,           \* the continuations ML code switches between
    Steps,           \* step numbers of a task, taken round and round
    MaxSigs,         \* bound on the signals the O.S. sends
    MaxFill,         \* bound on how often the heap fills up
    MaxCalls         \* bound on the calls that change the settings

MIN_SYSTEM_SIG == 1
RUNSIG_GC == MAX_SYSTEM_SIG + 1
SysSigs == MIN_SYSTEM_SIG .. MAX_SYSTEM_SIG
Sigs == MIN_SYSTEM_SIG .. RUNSIG_GC

ASSUME SignalAssumption ==
    /\ MAX_SYSTEM_SIG \in Nat \ {0}
    /\ Steps \in Nat \ {0} /\ MaxSigs \in Nat /\ MaxFill \in Nat /\ MaxCalls \in Nat

Requests == {"none", "GC", "RETURN", "EXN", "FAULT", "RAISE_OVERFLOW", "BIND_CFUN", "CALLC", "ALLOC",
             "SIG_RETURN", "SIG_RESUME"}

PCs == {"enter", "check", "mark", "ml", "leave", "dispatch", "gcSignal", "choose", "record",
        "callc", "paused", "apply", "spin", "exit"}

VARIABLES
    pc,              \* where the program is
    request, target, \* what ML code asks for, and for SIG_RETURN the continuation
    after,           \* where InvokeGC returns to
    inMLFlag, handlerPending, inSigHandler,      \* vp_...
    nReceived, nHandled,             \* vp_sigCounts
    totReceived, totHandled,         \* vp_totalSigCount
    sigCode, sigCount, nextPendingSig,
    gcSigState, gcSigThreshold, gcLevel,
    limit,           \* "heap" or "zero": the heap limit register
    heap,            \* "ok", "low" or "full": the allocation space
    regs,            \* the ML state vector
    others,          \* the continuations of the tasks that do not run
    disp, mask,      \* the O.S.: dispositions and the signal mask
    sent,            \* signals the O.S. has sent and not delivered
    budget,          \* [sigs, fill, calls] still allowed
    pos              \* pos[t]: the step task t is at, for the properties

counters == <<nReceived, nHandled, totReceived, totHandled>>
chosen == <<sigCode, sigCount, nextPendingSig>>
gcSig == <<gcSigState, gcSigThreshold, gcLevel>>
os == <<disp, mask, sent>>
ml == <<regs, others, pos>>
flags == <<inMLFlag, handlerPending, inSigHandler>>
vars == <<pc, request, target, after, flags, counters, chosen, gcSig, limit, heap, ml, os, budget>>

Cont == [at : {"user", "resume"}, t : Tasks, n : 0 .. Steps - 1]

ControlType ==
    /\ pc \in PCs /\ request \in Requests /\ target \in Tasks
    /\ after \in {"enter", "choose", "callc", "apply"}
    /\ inMLFlag \in BOOLEAN /\ handlerPending \in BOOLEAN /\ inSigHandler \in BOOLEAN

CounterType ==
    /\ nReceived \in [Sigs -> Nat] /\ nHandled \in [Sigs -> Nat]
    /\ totReceived \in Nat /\ totHandled \in Nat
    /\ sigCode \in Sigs \cup {0} /\ sigCount \in Nat /\ nextPendingSig \in Sigs

MLType ==
    /\ limit \in {"heap", "zero"} /\ heap \in {"ok", "low", "full"}
    /\ regs \in [at : {"user", "handler", "resume"}, t : Tasks, n : 0 .. Steps - 1]
    /\ others \in [Tasks -> Cont]
    /\ pos \in [Tasks -> 0 .. Steps - 1]

OSType ==
    /\ gcSigState \in {"ignore", "enabled"} /\ gcSigThreshold \in {0, 1} /\ gcLevel \in {0, 1}
    /\ disp \in [SysSigs -> {"ignore", "default", "enabled"}]
    /\ mask \subseteq SysSigs /\ sent \subseteq SysSigs
    /\ budget \in [sigs : Nat, fill : Nat, calls : Nat]

TypeOK == ControlType /\ CounterType /\ MLType /\ OSType

\* InitVProcState, and the first ApplyMLFn of main; the handlers are set by
\* ML code at start-up
Init ==
    /\ pc = "enter" /\ request = "none" /\ after = "enter"
    /\ inMLFlag = FALSE /\ handlerPending = FALSE /\ inSigHandler = FALSE
    /\ nReceived = [s \in Sigs |-> 0] /\ nHandled = [s \in Sigs |-> 0]
    /\ totReceived = 0 /\ totHandled = 0
    /\ sigCode = 0 /\ sigCount = 0 /\ nextPendingSig = MIN_SYSTEM_SIG
    /\ gcSigState \in {"ignore", "enabled"} /\ gcSigThreshold \in {0, 1} /\ gcLevel = 0
    /\ limit = "heap" /\ heap = "ok"
    /\ \E t \in Tasks : regs = [at |-> "user", t |-> t, n |-> 0] /\ target = t
    /\ others = [t \in Tasks |-> [at |-> "user", t |-> t, n |-> 0]]
    /\ disp = [s \in SysSigs |-> "enabled"] /\ mask = {} /\ sent = {}
    /\ budget = [sigs |-> MaxSigs, fill |-> MaxFill, calls |-> MaxCalls]
    /\ pos = [t \in Tasks |-> 0]

-----------------------------------------------------------------------------
(***************************************************************************)
(* The O.S.  CSigHandler counts; the limit register it makes zero is the   *)
(* one of the interrupted ML code.  pause returns once a handler has run.  *)
(***************************************************************************)
Send(s) ==
    /\ budget.sigs > 0 /\ pc # "exit" /\ disp[s] # "default"
    /\ sent' = IF disp[s] = "ignore" THEN sent ELSE sent \cup {s}
    /\ budget' = [budget EXCEPT !.sigs = @ - 1]
    /\ UNCHANGED <<pc, request, target, after, flags, counters, chosen, gcSig, limit, heap, ml,
                   disp, mask>>

NoticeSignal ==
    IF inMLFlag /\ ~ handlerPending /\ ~ inSigHandler
    THEN handlerPending' = TRUE /\ limit' = "zero"
    ELSE UNCHANGED <<handlerPending, limit>>

CSigHandler(s) ==
    /\ s \in sent \ mask /\ pc # "exit"
    /\ sent' = sent \ {s}
    /\ nReceived' = [nReceived EXCEPT ![s] = @ + 1]
    /\ totReceived' = totReceived + 1
    /\ NoticeSignal
    /\ pc' = IF pc = "paused" THEN "enter" ELSE pc
    /\ UNCHANGED <<request, target, after, inMLFlag, inSigHandler, nHandled, totHandled,
                   chosen, gcSig, heap, ml, disp, mask, budget>>

-----------------------------------------------------------------------------
(***************************************************************************)
(* restoreregs and set_request, the way into ML code and out of it.        *)
(***************************************************************************)
EnterML ==
    /\ pc = "enter"
    /\ inMLFlag' = TRUE
    /\ request' = "none"
    /\ pc' = "check"
    /\ UNCHANGED <<target, after, handlerPending, inSigHandler, counters, chosen, gcSig,
                   limit, heap, ml, os, budget>>

\* Mutant: the test whether the ML handler is active is missing.
CheckSignalsAlways ==
    /\ pc = "check"
    /\ pc' = IF totReceived # totHandled THEN "mark" ELSE "ml"
    /\ UNCHANGED <<request, target, after, flags, counters, chosen, gcSig, limit, heap, ml, os,
                   budget>>

\* restoreregs of AMD64.prim.asm looks for signals that came in C code; the
\* limit is cleared in a second step, before which more may come
CheckSignals ==
    /\ pc = "check"
    /\ pc' = IF totReceived # totHandled /\ ~ inSigHandler THEN "mark" ELSE "ml"
    /\ UNCHANGED <<request, target, after, flags, counters, chosen, gcSig, limit, heap, ml, os,
                   budget>>

MarkPending ==
    /\ pc = "mark"
    /\ handlerPending' = TRUE
    /\ limit' = "zero"
    /\ pc' = "ml"
    /\ UNCHANGED <<request, target, after, inMLFlag, inSigHandler, counters, chosen, gcSig, heap, ml,
                   os, budget>>

LeaveML ==
    /\ pc = "leave"
    /\ inMLFlag' = FALSE
    /\ pc' = "dispatch"
    /\ UNCHANGED <<request, target, after, handlerPending, inSigHandler, counters, chosen, gcSig,
                   limit, heap, ml, os, budget>>

-----------------------------------------------------------------------------
(***************************************************************************)
(* ML code, external to the run-time system.  Everything but the entry     *)
(* sigh_resume begins with a heap check.                                   *)
(***************************************************************************)
CheckFails == limit = "zero" \/ heap = "full"

Ask(r) ==
    /\ request' = r /\ pc' = "leave"
    /\ UNCHANGED <<after, flags, counters, chosen, gcSig, limit, heap, ml, os>>

Fill == budget.fill > 0 /\ budget' = [budget EXCEPT !.fill = @ - 1]

HeapCheck ==
    /\ pc = "ml" /\ regs.at # "resume" /\ CheckFails
    /\ Ask("GC") /\ UNCHANGED <<target, budget>>

SighResume ==
    /\ pc = "ml" /\ regs.at = "resume"
    /\ Ask("SIG_RESUME") /\ UNCHANGED <<target, budget>>

Compute ==
    /\ pc = "ml" /\ regs.at = "user" /\ ~ CheckFails
    /\ LET n == (regs.n + 1) % Steps
       IN  /\ regs' = [regs EXCEPT !.n = n]
           /\ pos' = [pos EXCEPT ![regs.t] = n]
    /\ UNCHANGED <<pc, request, target, after, flags, counters, chosen, gcSig, limit, heap, others,
                   os, budget>>

Allocate ==
    /\ pc = "ml" /\ regs.at # "resume" /\ ~ CheckFails
    /\ \/ heap = "ok" /\ heap' = "low" /\ Fill
       \/ heap = "low" /\ heap' = "full" /\ budget' = budget
    /\ UNCHANGED <<pc, request, target, after, flags, counters, chosen, gcSig, limit, ml, os>>

AskRuntime(r) ==
    /\ pc = "ml" /\ ~ CheckFails
    /\ \/ regs.at = "user"
       \/ regs.at = "handler" /\ r \in {"CALLC", "ALLOC"}
    /\ Ask(r) /\ target' = target
    /\ IF r = "RETURN" THEN Fill ELSE budget' = budget

\* the ML handler ends by passing a continuation to sigh_return: that of the
\* interrupted task or, when it schedules tasks, that of another one
HandlerReturns ==
    /\ pc = "ml" /\ regs.at = "handler" /\ ~ CheckFails
    /\ target' \in Tasks
    /\ Ask("SIG_RETURN") /\ budget' = budget

-----------------------------------------------------------------------------
(***************************************************************************)
(* InvokeGC resets the limit and, last, signals the collection.            *)
(***************************************************************************)
InvokeGC(level, then) ==
    /\ limit' = "heap" /\ heap' = "ok"
    /\ gcLevel' = level
    /\ after' = then /\ pc' = "gcSignal"
    /\ UNCHANGED <<gcSigState, gcSigThreshold>>

Level == IF budget.fill > 0 THEN {0, 1} ELSE {0}

(***************************************************************************)
(* GCSignal.  The counter of all signals is also the C handler's: on the   *)
(* AMD64 the increment is one instruction, so nothing comes between.       *)
(***************************************************************************)
GCSignal ==
    /\ pc = "gcSignal"
    /\ pc' = after
    /\ after' = "enter" /\ gcLevel' = 0
    /\ IF \/ gcSigState # "enabled" \/ gcLevel < gcSigThreshold
          \/ inSigHandler /\ sigCode = RUNSIG_GC
       THEN UNCHANGED <<nReceived, totReceived, handlerPending>>
       ELSE /\ nReceived' = [nReceived EXCEPT ![RUNSIG_GC] = @ + 1]
            /\ totReceived' = totReceived + 1
            /\ handlerPending' = (handlerPending \/ (inMLFlag /\ ~ inSigHandler))
    /\ UNCHANGED <<request, target, inMLFlag, inSigHandler, nHandled, totHandled, chosen, gcSigState,
                   gcSigThreshold, limit, heap, ml, os, budget>>

Dispatching(r) == pc = "dispatch" /\ request = r

(***************************************************************************)
(* RunML.  A GC request is a signal when one is pending.                   *)
(***************************************************************************)
NeedGC == heap # "ok"

RequestGC ==
    /\ Dispatching("GC")
    /\ IF ~ handlerPending
       THEN \E level \in Level : InvokeGC(level, "enter")
       ELSE IF NeedGC THEN \E level \in Level : InvokeGC(level, "choose")
       ELSE pc' = "choose" /\ UNCHANGED <<limit, heap, gcSig, after>>
    /\ UNCHANGED <<request, target, flags, nReceived, nHandled, totReceived, totHandled, chosen, ml,
                   os, budget>>

\* the next signal in turn that has been received and not handled
Delta(s) == nReceived[s] - nHandled[s]
Turns(s) == (s - nextPendingSig - 1) % Cardinality(Sigs)
Unhandled == {s \in Sigs : Delta(s) # 0}
NextSignal == CHOOSE s \in Unhandled : \A u \in Unhandled : Turns(s) <= Turns(u)

\* ChooseSignal: the scan does not end when there is none
ChooseSignal ==
    /\ pc = "choose"
    /\ IF Unhandled = {}
       THEN pc' = "spin" /\ UNCHANGED chosen
       ELSE /\ pc' = "record"
            /\ nextPendingSig' = NextSignal
            /\ sigCode' = NextSignal
            /\ sigCount' = Delta(NextSignal)
    /\ UNCHANGED <<request, target, after, flags, counters, gcSig, limit, heap, ml, os, budget>>

\* Mutant: the summary counts signals where it should count occurrences.
RecordHandledOne ==
    /\ nHandled' = [nHandled EXCEPT ![sigCode] = @ + sigCount]
    /\ totHandled' = totHandled + 1
    /\ UNCHANGED <<nReceived, totReceived>>

RecordHandled ==
    /\ nHandled' = [nHandled EXCEPT ![sigCode] = @ + sigCount]
    /\ totHandled' = totHandled + sigCount
    /\ UNCHANGED <<nReceived, totReceived>>

\* Mutant: the closure is made from the roots of the last collection.
MakeResumeContStale(r) == [at |-> "resume", t |-> r.t, n |-> 0]

\* the closure of sigh_resume over the registers, and its inverse
MakeResumeCont(r) == [at |-> "resume", t |-> r.t, n |-> r.n]
LoadResumeState(c) == [at |-> "user", t |-> c.t, n |-> c.n]

MakeHandlerArg(r) == [MakeResumeCont(r) EXCEPT !.at = "handler"]

RunHandler ==
    /\ pc = "record"
    /\ RecordHandled
    /\ regs' = MakeHandlerArg(regs)
    /\ inSigHandler' = TRUE
    /\ handlerPending' = FALSE
    /\ pc' = "enter"
    /\ UNCHANGED <<request, target, after, inMLFlag, chosen, gcSig, limit, heap, others, pos, os,
                   budget>>

\* Mutant: the flag is left set.
SigReturnInHandler ==
    /\ Dispatching("SIG_RETURN")
    /\ IF target = regs.t
       THEN regs' = [regs EXCEPT !.at = "resume"] /\ others' = others
       ELSE /\ regs' = others[target]
            /\ others' = [others EXCEPT ![regs.t] = [regs EXCEPT !.at = "resume"]]
    /\ pc' = "enter"
    /\ UNCHANGED <<request, target, after, flags, counters, chosen, gcSig, limit, heap, pos, os,
                   budget>>

\* throw to the continuation; the handler is left
SigReturn ==
    /\ Dispatching("SIG_RETURN")
    /\ IF target = regs.t
       THEN regs' = [regs EXCEPT !.at = "resume"] /\ others' = others
       ELSE /\ regs' = others[target]
            /\ others' = [others EXCEPT ![regs.t] = [regs EXCEPT !.at = "resume"]]
    /\ inSigHandler' = FALSE
    /\ pc' = "enter"
    /\ UNCHANGED <<request, target, after, inMLFlag, handlerPending, counters, chosen, gcSig, limit,
                   heap, pos, os, budget>>

SigResume ==
    /\ Dispatching("SIG_RESUME")
    /\ regs' = LoadResumeState(regs)
    /\ pc' = "enter"
    /\ UNCHANGED <<request, target, after, flags, counters, chosen, gcSig, limit, heap, others, pos,
                   os, budget>>

\* an exception is raised in the task: it goes on somewhere else
RaiseMLExn ==
    /\ Dispatching("FAULT") \/ Dispatching("RAISE_OVERFLOW")
    /\ regs' = [regs EXCEPT !.n = 0]
    /\ pos' = [pos EXCEPT ![regs.t] = 0]
    /\ pc' = "enter"
    /\ UNCHANGED <<request, target, after, flags, counters, chosen, gcSig, limit, heap, others, os,
                   budget>>

\* a minor collection clears the store list; ApplyMLFn runs the next function
Return ==
    /\ Dispatching("RETURN")
    /\ InvokeGC(0, "apply")
    /\ UNCHANGED <<request, target, flags, nReceived, nHandled, totReceived, totHandled, chosen, ml,
                   os, budget>>

ApplyMLFn ==
    /\ pc = "apply"
    /\ regs' = [regs EXCEPT !.n = 0]
    /\ pos' = [pos EXCEPT ![regs.t] = 0]
    /\ pc' = "enter"
    /\ UNCHANGED <<request, target, after, flags, counters, chosen, gcSig, limit, heap, others, os,
                   budget>>

UncaughtExn ==
    /\ Dispatching("EXN")
    /\ pc' = "exit"
    /\ UNCHANGED <<request, target, after, flags, counters, chosen, gcSig, limit, heap, ml, os, budget>>

BindCFun ==
    /\ Dispatching("BIND_CFUN")
    /\ pc' = "enter"
    /\ UNCHANGED <<request, target, after, flags, counters, chosen, gcSig, limit, heap, ml, os, budget>>

\* ML_AllocString and the like: a large object may cost a major collection
AllocObject ==
    /\ Dispatching("ALLOC")
    /\ \/ pc' = "enter" /\ UNCHANGED <<limit, heap, gcSig, after, budget>>
       \/ InvokeGC(1, "enter") /\ Fill
    /\ UNCHANGED <<request, target, flags, nReceived, nHandled, totReceived, totHandled, chosen, ml,
                   os>>

CallC ==
    /\ Dispatching("CALLC")
    /\ IF NeedGC THEN \E level \in Level : InvokeGC(level, "callc")
       ELSE pc' = "callc" /\ UNCHANGED <<limit, heap, gcSig, after>>
    /\ UNCHANGED <<request, target, flags, nReceived, nHandled, totReceived, totHandled, chosen, ml,
                   os, budget>>

-----------------------------------------------------------------------------
(***************************************************************************)
(* The C functions that have to do with signals.                           *)
(***************************************************************************)
Calling ==
    /\ pc = "callc"
    /\ UNCHANGED <<request, target, after, flags, counters, chosen, limit, heap, ml>>

Setting ==
    /\ Calling /\ pc' = "enter"
    /\ budget.calls > 0 /\ budget' = [budget EXCEPT !.calls = @ - 1]

SetSignalState(s, st) ==
    /\ Setting
    /\ IF s = RUNSIG_GC
       THEN gcSigState' = st /\ UNCHANGED <<gcSigThreshold, gcLevel, os>>
       ELSE /\ disp' = [disp EXCEPT ![s] = st]
            /\ sent' = IF st = "ignore" THEN sent \ {s} ELSE sent
            /\ UNCHANGED <<mask, gcSig>>

\* NONE (<<>> here) is the empty mask, SOME [] all signals, SOME l those of
\* the list
MaskOf(sigList) == CASE sigList = <<>> -> {}
                     [] sigList = <<{}>> -> SysSigs
                     [] OTHER -> sigList[1]

SetSignalMask(sigList) ==
    /\ Setting
    /\ mask' = MaskOf(sigList)
    /\ UNCHANGED <<disp, sent, gcSig>>

\* gc_ctl "SigThreshold"
SetSigThreshold(n) ==
    /\ Setting
    /\ gcSigThreshold' = n
    /\ UNCHANGED <<gcSigState, gcLevel, os>>

PauseUntilSignal ==
    /\ Calling /\ pc' = "paused"
    /\ UNCHANGED <<gcSig, os, budget>>

\* any other C function
OtherCFun ==
    /\ Calling /\ pc' = "enter"
    /\ UNCHANGED <<gcSig, os, budget>>

Main ==
    \/ EnterML \/ CheckSignals \/ MarkPending \/ LeaveML
    \/ HeapCheck \/ SighResume \/ Compute \/ Allocate \/ HandlerReturns
    \/ \E r \in {"CALLC", "ALLOC", "RETURN", "EXN", "FAULT", "RAISE_OVERFLOW", "BIND_CFUN"} :
          AskRuntime(r)
    \/ GCSignal \/ RequestGC \/ ChooseSignal \/ RunHandler \/ SigReturn \/ SigResume
    \/ RaiseMLExn \/ Return \/ ApplyMLFn \/ UncaughtExn \/ BindCFun \/ AllocObject \/ CallC
    \/ \E s \in Sigs, st \in {"ignore", "enabled"} : SetSignalState(s, st)
    \/ SetSignalMask(<<>>) \/ \E l \in SUBSET {MIN_SYSTEM_SIG} : SetSignalMask(<<l>>)
    \/ \E n \in {0, 1} : SetSigThreshold(n)
    \/ PauseUntilSignal \/ OtherCFun

Next == Main \/ \E s \in SysSigs : Send(s) \/ CSigHandler(s)

Spec == Init /\ [][Next]_vars

(***************************************************************************)
(* The program runs on, and the ML handler is left in the end: it may use  *)
(* the run-time system as often as it likes, but ends with a throw.        *)
(***************************************************************************)
FairSpec == Spec /\ WF_vars(Main) /\ SF_vars(HandlerReturns)

-----------------------------------------------------------------------------
\* ChooseSignal is only called when a signal is unhandled, so that its scan of
\* the counters ends: the summary counter that restoreregs looks at never
\* promises a signal the counters of the signals do not have.
NoSpin == pc # "spin"

\* vp_inSigHandler is set exactly while an ML handler is active, and only then
\* is a task interrupted: no handler is run inside a handler, and a pending
\* one waits until the active one has returned.
OneHandler ==
    /\ inSigHandler <=> regs.at = "handler"
    /\ handlerPending => ~ inSigHandler

\* Wherever signals interrupt the tasks and whichever task the handlers go on
\* with, every task is resumed at the step where it was interrupted.
NoLostWork ==
    /\ regs.n = pos[regs.t]
    /\ \A t \in Tasks \ {regs.t} : others[t].t = t /\ others[t].n = pos[t]

\* Every signal the C handler or the collector has counted is passed to the
\* ML handler, unless the program sleeps in pause or ends.
SignalsHandled ==
    \A s \in Sigs : Delta(s) # 0 ~> (Delta(s) = 0 \/ pc \in {"paused", "exit"})
=============================================================================
