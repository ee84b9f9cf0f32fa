------------------------------ MODULE CleanUp ------------------------------
(***************************************************************************)
(* The registries of CML (core-cml/cleanup.sml): the list of clean-up      *)
(* hooks and one of the three lists of logged items (the channel, mailbox  *)
(* and server lists have the same code), guarded by the M-variable lockV.  *)
(*                                                                         *)
(* While CML is running, protect f x takes the lock, runs f and gives the  *)
(* lock back, also when f raises; before, one thread runs f directly.  A   *)
(* function body reads its list and writes it back in two steps, for it    *)
(* can be preempted in between.  logItem calls unlogItem, which is         *)
(* protected too.  unlogAll and exportFnCleanup do not take the lock.      *)
(***************************************************************************)
EXTENDS Naturals, Sequences, SequencesExt, Subsequence

CONSTANTS
    Threads, Names,
    Main,         \* the thread that runs before CML does
    NoThread,
    InitOps, Ops, \* the operations called before and while CML is running
    WhenLst,      \* WhenLst[x]: the when list the hook x is registered with
    ServerList,   \* whether items is serverList, which exportFnCleanup keeps
    MaxCalls      \* bound: calls of one thread

Whens == {"AtInit", "AtInitFn", "AtShutdown", "AtExit"}
NamedOps == {"add", "remove", "log", "unlog"}
Operations == NamedOps \cup {"unlogAll", "clean", "export"}

\* clean is called by doit and by an exported program once they are running
\* (run-cml-fn.sml:66, 70, export-fn-fn.sml:58, 62); exportFn refuses to run while CML is
\* (run-cml-fn.sml:84).
ASSUME CleanUpAssumption ==
    /\ Main \in Threads /\ NoThread \notin Threads
    /\ WhenLst \in [Names -> SUBSET Whens] /\ ServerList \in BOOLEAN
    /\ InitOps \subseteq Operations \ {"clean"} /\ Ops \subseteq Operations \ {"export"}

VARIABLES
    running,   \* Running.isRunning
    owner,     \* the thread that has taken lockV, or NoThread
    lockQ,     \* threads blocked in mTake lockV, oldest first
    thr,       \* thr[t]: the call t is in, see Frame
    hooks,     \* the hook list, newest first
    items,     \* chanList, mboxList or serverList, newest first
    calls,     \* calls[t]: history: completed and current calls of t
    overtaken  \* history: the threads about to write back an items list that
               \* unlogAll has emptied since they read it

vars == <<running, owner, lockQ, thr, hooks, items, calls, overtaken>>

None == "none"

\* A call: the function, its argument, where it is, whether it is logItem inside its call of
\* unlogItem, the list it has read, and for clean the cleaners it has still to apply.
Frame(op, x, when) ==
    [op |-> op, x |-> IF op \in NamedOps THEN x ELSE None,
     when |-> IF op = "clean" THEN when ELSE None,
     at |-> IF op \in {"unlogAll", "export"} THEN op ELSE "lock",
     inner |-> FALSE, read |-> <<>>, todo |-> <<>>]

Idle == [op |-> None, x |-> None, when |-> None, at |-> "idle",
         inner |-> FALSE, read |-> <<>>, todo |-> <<>>]

Init ==
    /\ running = FALSE
    /\ owner = NoThread /\ lockQ = <<>>
    /\ thr = [t \in Threads |-> Idle]
    /\ hooks = <<>> /\ items = <<>>
    /\ calls = [t \in Threads |-> 0]
    /\ overtaken = {}

\* t calls an operation from user code
call(t, op, x, when) ==
    /\ thr[t].at = "idle" /\ calls[t] < MaxCalls
    /\ IF running THEN op \in Ops ELSE t = Main /\ op \in InitOps
    /\ thr' = [thr EXCEPT ![t] = Frame(op, x, when)]
    /\ calls' = [calls EXCEPT ![t] = @ + 1]
    /\ UNCHANGED <<running, owner, lockQ, hooks, items, overtaken>>

\* RunCML.doit
doit ==
    /\ ~running /\ thr[Main].at = "idle"
    /\ running' = TRUE
    /\ UNCHANGED <<owner, lockQ, thr, hooks, items, calls, overtaken>>

\* Mutant: the lock does not exclude.
lockNever(t) ==
    /\ thr[t].at = "lock"
    /\ thr' = [thr EXCEPT ![t].at = "read"]
    /\ UNCHANGED <<running, owner, lockQ, hooks, items, calls, overtaken>>

\* lock: SV.mTake lockV, if CML is running
lock(t) ==
    /\ thr[t].at = "lock"
    /\ \/ /\ ~running
          /\ thr' = [thr EXCEPT ![t].at = "read"]
          /\ UNCHANGED <<owner, lockQ>>
       \/ /\ running /\ owner = NoThread
          /\ owner' = t
          /\ thr' = [thr EXCEPT ![t].at = "read"]
          /\ UNCHANGED lockQ
       \/ /\ running /\ owner # NoThread
          /\ lockQ' = Append(lockQ, t)
          /\ thr' = [thr EXCEPT ![t].at = "blocked"]
          /\ UNCHANGED owner
    /\ UNCHANGED <<running, hooks, items, calls, overtaken>>

\* what clean applies: the hooks of its time, the newest last at initialization
Applicable(l, when) ==
    LET s == Filter(l, {x \in Names : when \in WhenLst[x]})
    IN IF when \in {"AtInit", "AtInitFn"} THEN Reverse(s) ELSE s

\* The body reads its list.  addCleaner reads it again for a new name, removeCleaner returns NONE
\* and unlogItem raises Unlog for an unknown one; logItem first calls unlogItem; clean collects
\* the cleaners to apply, and goes on to reduce the list for AtInitFn only.
read(t) ==
    LET f == thr[t]
        found == f.x \in ToSet(hooks)
        logged == f.x \in ToSet(items) IN
    /\ f.at = "read"
    /\ thr' = [thr EXCEPT ![t] =
          CASE f.op = "add" -> [f EXCEPT !.at = IF found THEN "write" ELSE "reread", !.read = hooks]
            [] f.op = "remove" -> [f EXCEPT !.at = IF found THEN "write" ELSE "unlock", !.read = hooks]
            [] f.op = "log" /\ ~f.inner -> [f EXCEPT !.at = "lock", !.inner = TRUE]
            [] f.op = "unlog" \/ f.inner ->
                  [f EXCEPT !.at = IF logged THEN "write" ELSE "raise", !.read = items]
            [] f.op = "clean" -> [f EXCEPT !.at = IF f.when = "AtInitFn" THEN "reread" ELSE "unlock",
                                           !.todo = Applicable(hooks, f.when)]]
    /\ UNCHANGED <<running, owner, lockQ, hooks, items, calls, overtaken>>

\* the second read of a body: `!hooks' of addCleaner, the filter of clean, `!l' of logItem
reread(t) ==
    LET f == thr[t] IN
    /\ f.at = "reread"
    /\ thr' = [thr EXCEPT ![t].at = IF f.op = "clean" THEN "write" ELSE "cons",
                          ![t].read = IF f.op = "log" THEN items ELSE hooks]
    /\ UNCHANGED <<running, owner, lockQ, hooks, items, calls, overtaken>>

\* the body writes its list back, in `write' without an entry or some of them, and in `cons' with
\* a new entry
write(t) ==
    LET f == thr[t] IN
    /\ f.at \in {"write", "cons"}
    /\ thr' = [thr EXCEPT ![t].at = "unlock"]
    /\ \/ /\ f.at = "write" /\ f.op = "add"
          /\ hooks' = <<f.x>> \o RemoveFirst(f.read, f.x) /\ UNCHANGED items
       \/ /\ f.at = "write" /\ f.op = "remove"
          /\ hooks' = RemoveFirst(f.read, f.x) /\ UNCHANGED items
       \/ /\ f.at = "write" /\ f.op \in {"log", "unlog"}
          /\ items' = RemoveFirst(f.read, f.x) /\ UNCHANGED hooks
       \/ /\ f.at = "write" /\ f.op = "clean"   \* initFnPred
          /\ hooks' = Filter(f.read, {x \in Names : "AtExit" \in WhenLst[x]}) /\ UNCHANGED items
       \/ /\ f.at = "cons" /\ f.op = "add"
          /\ hooks' = <<f.x>> \o f.read /\ UNCHANGED items
       \/ /\ f.at = "cons" /\ f.op = "log"
          /\ items' = <<f.x>> \o f.read /\ UNCHANGED hooks
    /\ overtaken' = overtaken \ {t}
    /\ UNCHANGED <<running, owner, lockQ, calls>>

\* where a protected function returns, or raises, to: unlogItem to logItem, which handles Unlog;
\* clean goes on to the cleaners; the others to user code
Return(f) ==
    CASE f.inner -> [f EXCEPT !.at = "reread", !.inner = FALSE, !.read = <<>>]
      [] f.op = "clean" -> [f EXCEPT !.at = "apply", !.read = <<>>]
      [] OTHER -> Idle

\* Mutant: the handler of protect raises again without giving the lock back.
unlockOnReturn(t) ==
    /\ thr[t].at \in {"unlock", "raise"}
    /\ \/ /\ lockQ = <<>> \/ thr[t].at = "raise"
          /\ owner' = (IF thr[t].at = "raise" THEN owner ELSE NoThread) /\ lockQ' = lockQ
          /\ thr' = [thr EXCEPT ![t] = Return(thr[t])]
       \/ /\ lockQ # <<>> /\ thr[t].at = "unlock"
          /\ owner' = Head(lockQ) /\ lockQ' = Tail(lockQ)
          /\ thr' = [thr EXCEPT ![t] = Return(thr[t]), ![Head(lockQ)].at = "read"]
    /\ UNCHANGED <<running, hooks, items, calls, overtaken>>

\* unlock: SV.mPut (lockV, ()), and the oldest blocked thread takes the lock; after the body has
\* returned and, in the handler of protect, after it has raised
unlock(t) ==
    /\ thr[t].at \in {"unlock", "raise"}
    /\ \/ /\ lockQ = <<>>   \* always so before CML is running
          /\ owner' = NoThread /\ lockQ' = lockQ
          /\ thr' = [thr EXCEPT ![t] = Return(thr[t])]
       \/ /\ lockQ # <<>>
          /\ owner' = Head(lockQ) /\ lockQ' = Tail(lockQ)
          /\ thr' = [thr EXCEPT ![t] = Return(thr[t]), ![Head(lockQ)].at = "read"]
    /\ UNCHANGED <<running, hooks, items, calls, overtaken>>

\* doCleaner: the next cleaner runs in a thread of its own, whose calls are calls of other threads;
\* clean goes on when it has ended or after a second
doCleaner(t) ==
    LET f == thr[t] IN
    /\ f.at = "apply"
    /\ thr' = [thr EXCEPT ![t] = IF f.todo = <<>> THEN Idle ELSE [f EXCEPT !.todo = Tail(@)]]
    /\ UNCHANGED <<running, owner, lockQ, hooks, items, calls, overtaken>>

\* unlogAll: without the lock
unlogAll(t) ==
    /\ thr[t].at = "unlogAll"
    /\ thr' = [thr EXCEPT ![t] = Idle]
    /\ items' = <<>>
    /\ overtaken' = overtaken \cup {u \in Threads : /\ thr[u].at \in {"write", "cons"}
                                                    /\ thr[u].op \in {"log", "unlog"}}
    /\ UNCHANGED <<running, owner, lockQ, hooks, calls>>

\* exportFnCleanup: without the lock, one thread
exportFnCleanup(t) ==
    /\ thr[t].at = "export"
    /\ thr' = [thr EXCEPT ![t] = Idle]
    /\ items' = IF ServerList THEN items ELSE <<>>
    /\ hooks' = Filter(hooks, {x \in Names : WhenLst[x] \cap {"AtInitFn", "AtExit"} # {}})
    /\ UNCHANGED <<running, owner, lockQ, calls, overtaken>>

Step(t) ==
    \/ lock(t) \/ read(t) \/ reread(t) \/ write(t) \/ unlock(t)
    \/ doCleaner(t) \/ unlogAll(t) \/ exportFnCleanup(t)

Next ==
    \/ doit
    \/ \E t \in Threads :
        \/ \E op \in InitOps \cup Ops, x \in Names, when \in Whens : call(t, op, x, when)
        \/ Step(t)

Spec == Init /\ [][Next]_vars

\* the scheduler runs every thread that is not blocked (module Scheduler)
FairSpec == Spec /\ \A t \in Threads : WF_vars(Step(t))

-----------------------------------------------------------------------------
(* Properties.                                                              *)

\* t is in the body of a protected function, perhaps inside a call of another
Inside(t) == thr[t].inner \/ thr[t].at \in {"read", "reread", "write", "cons", "raise", "unlock"}

\* While CML runs, the lock belongs to the one thread that is in the body of a
\* protected function - given back also when the body raises, and before clean
\* applies the cleaners, which may call the operations themselves - and those
\* that found it taken are in its queue, once each.
LockHeld ==
    /\ \A t \in Threads : owner = t <=> running /\ Inside(t)
    /\ ToSet(lockQ) = {t \in Threads : thr[t].at = "blocked"} /\ IsInjective(lockQ)

\* What a thread is about to write back is based on the current list, unless
\* unlogAll, which takes no lock, has emptied it since; and clean has collected
\* all the cleaners that it is about to drop from the list.
WritesAreFresh ==
    \A t \in Threads :
        /\ thr[t].at \in {"write", "cons"} /\ t \notin overtaken =>
              thr[t].read = IF thr[t].op \in {"log", "unlog"} THEN items ELSE hooks
        /\ thr[t].op = "clean" /\ thr[t].at \in {"reread", "write"} =>
              thr[t].todo = Applicable(hooks, thr[t].when)

\* A name is registered at most once, so that removeCleaner and unlogItem,
\* which remove one entry, leave none.
NamesAreUnique ==
    \A l \in {hooks, items} : \A j, k \in DOMAIN l : l[j] = l[k] => j = k

\* No update of a registry is lost between the read and the write of a body,
\* because the body holds lockV, and so no name is ever registered twice.  The
\* one exception is unlogAll, which does not take lockV: an unlogItem that has
\* read the list before puts its other items back.
NoStaleWrite == WritesAreFresh /\ LockHeld /\ NamesAreUnique

\* Every call returns, clean also when it has cleaners to apply: nobody is left
\* waiting for lockV.
CallsReturn == \A t \in Threads : thr[t].at # "idle" ~> thr[t].at = "idle"
=============================================================================
