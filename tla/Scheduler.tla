----------------------------- MODULE Scheduler -----------------------------
(***************************************************************************)
(* The CML thread scheduler (core-cml/scheduler.sml) with the operations   *)
(* of thread.sml, the blocking pattern of channel.sml, and the two kernel  *)
(* continuations of glue/export-fn-fn.sml that run between threads.        *)
(*                                                                         *)
(* One CPU runs one continuation at a time.  A continuation is a user      *)
(* thread, or one of the kernel continuations:                             *)
(*   pollK      the scheduler hook: poll the OS, then dispatch;            *)
(*   pauseK     the pause hook: poll the OS, then dispatch, sleep until    *)
(*              the next signal, or give up and shut down;                 *)
(*   dispatchK  what is left of RunCML.doit after it spawned the root;     *)
(*   shutdownK  what is left of pauseK once it has decided to shut down.   *)
(*                                                                         *)
(* User code outside atomic regions does nothing the scheduler can see, so *)
(* it is not modelled; a region is entered by EnterAtomic and left by the  *)
(* operation chosen, and the timer signal may arrive before, inside and    *)
(* after it.                                                               *)
(***************************************************************************)
EXTENDS Naturals, Sequences, FiniteSets

CONSTANTS
    Threads,     \* the user threads
    Root,        \* the thread RunCML.doit spawns
    dummyTid,    \* the thread id of kernel continuations
    pollK, pauseK, dispatchK, shutdownK,
    MaxHooks     \* bound: hook continuations that may sit in the queues

Kernel == {pollK, pauseK, dispatchK, shutdownK}
Hooks == {pollK, pauseK}
Tids == Threads \cup {dummyTid}
Conts == Threads \cup Kernel

ASSUME SchedulerAssumption ==
    /\ Root \in Threads
    /\ dummyTid \notin Threads
    /\ Kernel \cap Threads = {}
    /\ pollK # pauseK /\ pollK # dispatchK /\ pollK # shutdownK
    /\ pauseK # dispatchK /\ pauseK # shutdownK /\ dispatchK # shutdownK
    /\ MaxHooks \in Nat

VARIABLES
    curTid,       \* the "var" register: id of the current thread
    curK,         \* the continuation that is running
    pc,           \* where it is: see PCs
    rdyQ1, rdyQ2, \* the primary and the secondary ready queue
    marked,       \* the thread ids whose done_comm flag is true
    atomicState,
    status,       \* what each user thread is doing: see Statuses
    joinQ,        \* joinQ[t]: the threads waiting on t's dead cvar
    due,          \* sleepers whose time or descriptor has come
    halted        \* the shutdown hook has been thrown to

vars == <<curTid, curK, pc, rdyQ1, rdyQ2, marked, atomicState, status,
          joinQ, due, halted>>

Statuses == {"unborn", "ready", "send", "recv", "os", "join", "dead"}

\* "out": outside an atomic region, or at the entry of a kernel
\* continuation; "in": inside a region; "notify": inside atomicCVarSet of
\* the dead cvar; "pausing": inside Signals.pause.
PCs == {"out", "in", "notify", "pausing"}

Entries == [tid : Tids, k : Conts]

Entry(t, k) == [tid |-> t, k |-> k]

TypeOK ==
    /\ curTid \in Tids /\ curK \in Conts /\ pc \in PCs
    /\ rdyQ1 \in Seq(Entries) /\ rdyQ2 \in Seq(Entries)
    /\ marked \subseteq Tids
    /\ atomicState \in {"NonAtomic", "Atomic", "SignalPending"}
    /\ status \in [Threads -> Statuses]
    /\ joinQ \in [Threads -> Seq(Threads)]
    /\ due \subseteq Threads
    /\ halted \in BOOLEAN

\* RunCML.doit after CML.spawn: the root thread runs, and the rest of doit
\* waits in the queue under the dummy id, which spawn has marked.
Init ==
    /\ curTid = Root /\ curK = Root /\ pc = "out"
    /\ rdyQ1 = <<Entry(dummyTid, dispatchK)>> /\ rdyQ2 = <<>>
    /\ marked = {dummyTid}
    /\ atomicState = "NonAtomic"
    /\ status = [t \in Threads |-> IF t = Root THEN "ready" ELSE "unborn"]
    /\ joinQ = [t \in Threads |-> <<>>]
    /\ due = {}
    /\ halted = FALSE

-----------------------------------------------------------------------------
(* Leaving an atomic region.  The argument q1 is rdyQ1 after whatever the   *)
(* operation has enqueued itself.                                           *)

enqueue(q, t) == Append(q, Entry(t, t))

dispatchSchedulerHook == curK' = pollK

\* dequeue1 and dequeue2: the next entry, or the pause hook if there is none
dequeued(q1) ==
    IF q1 # <<>> THEN Head(q1)
    ELSE IF rdyQ2 # <<>> THEN Head(rdyQ2)
    ELSE Entry(dummyTid, pauseK)

\* Mutant: the dispatcher forgets to leave the atomic state.
atomicDispatchStays(q1) ==
    /\ pc' = "out"
    /\ curTid' = dequeued(q1).tid
    /\ curK' = dequeued(q1).k
    /\ rdyQ1' = IF q1 # <<>> THEN Tail(q1) ELSE q1
    /\ rdyQ2' = IF q1 = <<>> /\ rdyQ2 # <<>> THEN Tail(rdyQ2) ELSE rdyQ2
    /\ UNCHANGED atomicState

atomicDispatch(q1) ==
    /\ pc' = "out"
    /\ \/ /\ atomicState = "SignalPending"
          /\ dispatchSchedulerHook
          /\ rdyQ1' = q1
          /\ UNCHANGED <<curTid, rdyQ2, atomicState>>
       \/ /\ atomicState # "SignalPending"
          /\ curTid' = dequeued(q1).tid
          /\ curK' = dequeued(q1).k
          /\ rdyQ1' = IF q1 # <<>> THEN Tail(q1) ELSE q1
          /\ rdyQ2' = IF q1 = <<>> /\ rdyQ2 # <<>> THEN Tail(rdyQ2) ELSE rdyQ2
          /\ atomicState' = "NonAtomic"

\* atomicEnd executed while t is the current thread
atomicEnd(t, q1) ==
    /\ pc' = "out"
    /\ curTid' = t
    /\ UNCHANGED rdyQ2
    /\ \/ /\ atomicState = "SignalPending"
          /\ rdyQ1' = enqueue(q1, t)
          /\ dispatchSchedulerHook
          /\ UNCHANGED atomicState
       \/ /\ atomicState # "SignalPending"
          /\ rdyQ1' = q1
          /\ curK' = t
          /\ atomicState' = "NonAtomic"

\* atomicSwitchTo executed while s is the current thread: t resumes
atomicSwitchTo(t, s) ==
    /\ pc' = "out"
    /\ UNCHANGED rdyQ2
    /\ \/ /\ atomicState = "SignalPending"
          /\ rdyQ1' = enqueue(enqueue(rdyQ1, t), s)
          /\ curTid' = s
          /\ dispatchSchedulerHook
          /\ UNCHANGED <<atomicState, marked>>
       \/ /\ atomicState # "SignalPending"
          /\ marked' = marked \cup {s}
          /\ rdyQ1' = enqueue(rdyQ1, s)
          /\ curTid' = t
          /\ curK' = t
          /\ atomicState' = "NonAtomic"

-----------------------------------------------------------------------------
(* Operations of user threads.                                              *)

Running(t) == ~halted /\ curK = t

EnterAtomic(t) ==
    /\ Running(t) /\ pc = "out"
    /\ atomicState' = "Atomic" /\ pc' = "in"
    /\ UNCHANGED <<curTid, curK, rdyQ1, rdyQ2, marked, status, joinQ, due, halted>>

\* a region that only looks: a failed poll, a cvar that is already set
Leave(t) ==
    /\ Running(t) /\ pc = "in"
    /\ atomicEnd(t, rdyQ1)
    /\ UNCHANGED <<marked, status, joinQ, due, halted>>

\* the parent is marked and enqueued; the child runs at once
spawn(t, c) ==
    /\ Running(t) /\ pc = "in" /\ status[c] = "unborn"
    /\ status' = [status EXCEPT ![c] = "ready"]
    /\ marked' = marked \cup {t}
    /\ atomicEnd(c, enqueue(rdyQ1, t))
    /\ UNCHANGED <<joinQ, due, halted>>

yield(t) ==
    /\ Running(t) /\ pc = "in"
    /\ marked' = marked \cup {t}
    /\ atomicDispatch(enqueue(rdyQ1, t))
    /\ UNCHANGED <<status, joinQ, due, halted>>

\* exit, or a thread function that returns: the dead cvar is set ...
exit(t) ==
    /\ Running(t) /\ pc = "in"
    /\ status' = [status EXCEPT ![t] = "dead"]
    /\ pc' = "notify"
    /\ UNCHANGED <<curTid, curK, rdyQ1, rdyQ2, marked, atomicState, joinQ, due, halted>>

\* ... atomicCVarSet enqueues its waiters, oldest first, without marking ...
notifyJoiner(t) ==
    /\ Running(t) /\ pc = "notify" /\ joinQ[t] # <<>>
    /\ rdyQ1' = enqueue(rdyQ1, Head(joinQ[t]))
    /\ status' = [status EXCEPT ![Head(joinQ[t])] = "ready"]
    /\ joinQ' = [joinQ EXCEPT ![t] = Tail(@)]
    /\ UNCHANGED <<curTid, curK, pc, rdyQ2, marked, atomicState, due, halted>>

\* ... and the thread never comes back.
notifyAndDispatch(t) ==
    /\ Running(t) /\ pc = "notify" /\ joinQ[t] = <<>>
    /\ atomicDispatch(rdyQ1)
    /\ UNCHANGED <<marked, status, joinQ, due, halted>>

\* Mutant: the state of the dead cvar is not looked at.
joinBlockBlindly(t, u) ==
    /\ Running(t) /\ pc = "in"
    /\ status[u] # "unborn"
    /\ status' = [status EXCEPT ![t] = "join"]
    /\ joinQ' = [joinQ EXCEPT ![u] = Append(@, t)]
    /\ atomicDispatch(rdyQ1)
    /\ UNCHANGED <<marked, due, halted>>

\* sync (joinEvt u) while u is alive (Leave is the other case)
joinBlock(t, u) ==
    /\ Running(t) /\ pc = "in"
    /\ status[u] \notin {"unborn", "dead"}
    /\ status' = [status EXCEPT ![t] = "join"]
    /\ joinQ' = [joinQ EXCEPT ![u] = Append(@, t)]
    /\ atomicDispatch(rdyQ1)
    /\ UNCHANGED <<marked, due, halted>>

\* block on a timeout or a descriptor: nothing but a poll makes it ready
sleepOS(t) ==
    /\ Running(t) /\ pc = "in"
    /\ status' = [status EXCEPT ![t] = "os"]
    /\ atomicDispatch(rdyQ1)
    /\ UNCHANGED <<marked, joinQ, due, halted>>

sendBlock(t) ==
    /\ Running(t) /\ pc = "in"
    /\ \A u \in Threads : status[u] # "recv"
    /\ status' = [status EXCEPT ![t] = "send"]
    /\ atomicDispatch(rdyQ1)
    /\ UNCHANGED <<marked, joinQ, due, halted>>

recvBlock(t) ==
    /\ Running(t) /\ pc = "in"
    /\ \A u \in Threads : status[u] # "send"
    /\ status' = [status EXCEPT ![t] = "recv"]
    /\ atomicDispatch(rdyQ1)
    /\ UNCHANGED <<marked, joinQ, due, halted>>

\* the sender is marked and enqueued, the receiver leaves the region
sendToWaiting(t, r) ==
    /\ Running(t) /\ pc = "in" /\ status[r] = "recv"
    /\ status' = [status EXCEPT ![r] = "ready"]
    /\ marked' = marked \cup {t}
    /\ atomicEnd(r, enqueue(rdyQ1, t))
    /\ UNCHANGED <<joinQ, due, halted>>

\* the blocked sender s is resumed inside the region and switches back to t
recvFromWaiting(t, s) ==
    /\ Running(t) /\ pc = "in" /\ status[s] = "send"
    /\ status' = [status EXCEPT ![s] = "ready"]
    /\ atomicSwitchTo(t, s)
    /\ UNCHANGED <<joinQ, due, halted>>

-----------------------------------------------------------------------------
(* The timer signal and the kernel continuations.                           *)

HooksIn(q) == Cardinality({i \in DOMAIN q : q[i].k \in Hooks})

\* Bound: a hook is preempted at its entry only while the queues hold fewer
\* than MaxHooks hook continuations (0: never).
HookBound == curK \in Hooks => HooksIn(rdyQ1) + HooksIn(rdyQ2) < MaxHooks

\* Mutant: promote copies the head of rdyQ2 without removing it.
preemptCopies ==
    LET e == Entry(curTid, curK) IN
    \/ /\ curTid \in marked
       /\ marked' = marked \ {curTid}
       /\ rdyQ1' = IF rdyQ2 # <<>> THEN Append(Append(rdyQ1, Head(rdyQ2)), e)
                   ELSE Append(rdyQ1, e)
       /\ UNCHANGED rdyQ2
    \/ /\ curTid \notin marked
       /\ rdyQ2' = Append(rdyQ2, e)
       /\ UNCHANGED <<marked, rdyQ1>>

\* Mutant: threads that communicate are preferred for ever.
preemptNoPromote ==
    \/ /\ curTid \in marked
       /\ marked' = marked \ {curTid}
       /\ rdyQ1' = Append(rdyQ1, Entry(curTid, curK))
       /\ UNCHANGED rdyQ2
    \/ /\ curTid \notin marked
       /\ rdyQ2' = Append(rdyQ2, Entry(curTid, curK))
       /\ UNCHANGED <<marked, rdyQ1>>

\* alrmHandler in state NonAtomic: preempt the current continuation
preempt ==
    LET e == Entry(curTid, curK) IN
    \/ /\ curTid \in marked
       /\ marked' = marked \ {curTid}
       /\ rdyQ1' = IF rdyQ2 # <<>> THEN Append(Append(rdyQ1, Head(rdyQ2)), e)
                   ELSE Append(rdyQ1, e)
       /\ rdyQ2' = IF rdyQ2 # <<>> THEN Tail(rdyQ2) ELSE rdyQ2
    \/ /\ curTid \notin marked
       /\ rdyQ2' = Append(rdyQ2, e)
       /\ UNCHANGED <<marked, rdyQ1>>

alrmPreempts ==
    /\ ~halted /\ atomicState = "NonAtomic"
    /\ HookBound
    /\ preempt
    /\ dispatchSchedulerHook
    /\ UNCHANGED <<curTid, pc, atomicState, status, joinQ, due, halted>>

alrmPends ==
    /\ ~halted /\ atomicState = "Atomic" /\ pc # "pausing"
    /\ atomicState' = "SignalPending"
    /\ UNCHANGED <<curTid, curK, pc, rdyQ1, rdyQ2, marked, status, joinQ, due, halted>>

\* the atomicBegin with which every kernel continuation but shutdownK begins
hookBegin ==
    /\ ~halted /\ curK \in {pollK, pauseK, dispatchK} /\ pc = "out"
    /\ atomicState' = "Atomic" /\ pc' = "in"
    /\ UNCHANGED <<curTid, curK, rdyQ1, rdyQ2, marked, status, joinQ, due, halted>>

\* pollOS enqueues every sleeper whose condition holds
pollWakes(t) ==
    /\ ~halted /\ curK \in Hooks /\ pc = "in" /\ t \in due
    /\ marked' = marked \cup {t}
    /\ rdyQ1' = enqueue(rdyQ1, t)
    /\ status' = [status EXCEPT ![t] = "ready"]
    /\ due' = due \ {t}
    /\ UNCHANGED <<curTid, curK, pc, rdyQ2, atomicState, joinQ, halted>>

Sleepers == {t \in Threads : status[t] = "os"}

\* Mutant: the scheduler hook dispatches without waiting for its poll.
hookDispatchEarly ==
    /\ ~halted /\ pc = "in"
    /\ curK \in {dispatchK, pollK} \/ (curK = pauseK /\ rdyQ1 # <<>>)
    /\ atomicDispatch(rdyQ1)
    /\ UNCHANGED <<marked, status, joinQ, due, halted>>

hookDispatch ==
    /\ ~halted /\ pc = "in"
    /\ \/ curK = dispatchK
       \/ curK = pollK /\ due = {}
       \/ curK = pauseK /\ due = {} /\ rdyQ1 # <<>>
    /\ atomicDispatch(rdyQ1)
    /\ UNCHANGED <<marked, status, joinQ, due, halted>>

\* pauseK with an empty rdyQ1, but G.pause finds somebody to wait for
pause ==
    /\ ~halted /\ curK = pauseK /\ pc = "in" /\ due = {}
    /\ rdyQ1 = <<>> /\ Sleepers # {}
    /\ pc' = "pausing"
    /\ UNCHANGED <<curTid, curK, rdyQ1, rdyQ2, marked, atomicState, status, joinQ, due, halted>>

\* the timer signal ends Signals.pause; atomicDispatch finds it pending
pauseReturns ==
    /\ ~halted /\ pc = "pausing"
    /\ atomicState' = "SignalPending" /\ pc' = "out"
    /\ dispatchSchedulerHook
    /\ UNCHANGED <<curTid, rdyQ1, rdyQ2, marked, status, joinQ, due, halted>>

\* pauseK with nothing to wait for: atomicEnd, then throw to shutdownHook.
\* With a signal pending the throw itself is put in the ready queue.
pauseGivesUp ==
    /\ ~halted /\ curK = pauseK /\ pc = "in" /\ due = {}
    /\ rdyQ1 = <<>> /\ Sleepers = {}
    /\ pc' = "out"
    /\ \/ /\ atomicState = "SignalPending"
          /\ rdyQ1' = Append(rdyQ1, Entry(curTid, shutdownK))
          /\ dispatchSchedulerHook
          /\ UNCHANGED <<atomicState, halted>>
       \/ /\ atomicState # "SignalPending"
          /\ atomicState' = "NonAtomic" /\ halted' = TRUE
          /\ UNCHANGED <<rdyQ1, curK>>
    /\ UNCHANGED <<curTid, rdyQ2, marked, status, joinQ, due>>

shutdown ==
    /\ ~halted /\ curK = shutdownK /\ pc = "out"
    /\ halted' = TRUE
    /\ UNCHANGED <<curTid, curK, pc, rdyQ1, rdyQ2, marked, atomicState, status, joinQ, due>>

\* The world outside: a sleeper's condition becomes true.  While a hook is
\* between its atomicBegin and the end of its poll this is left for the
\* next poll, as a condition that turns true behind the poll's back is.
timePasses(t) ==
    /\ ~halted /\ t \in Sleepers \ due
    /\ ~(curK \in Hooks /\ pc = "in")
    /\ due' = due \cup {t}
    /\ UNCHANGED <<curTid, curK, pc, rdyQ1, rdyQ2, marked, atomicState, status, joinQ, halted>>

\* CML has shut down; doit returns to its caller.
Terminated == halted /\ UNCHANGED vars

ThreadStep(t) ==
    \/ EnterAtomic(t) \/ Leave(t) \/ yield(t) \/ exit(t)
    \/ notifyJoiner(t) \/ notifyAndDispatch(t)
    \/ sleepOS(t) \/ sendBlock(t) \/ recvBlock(t)
    \/ \E u \in Threads :
          \/ spawn(t, u) \/ joinBlock(t, u)
          \/ sendToWaiting(t, u) \/ recvFromWaiting(t, u)

KernelStep ==
    \/ hookBegin \/ hookDispatch
    \/ pause \/ pauseReturns \/ pauseGivesUp \/ shutdown
    \/ \E t \in Threads : pollWakes(t)

Next ==
    \/ \E t \in Threads : ThreadStep(t) \/ timePasses(t)
    \/ alrmPreempts \/ alrmPends
    \/ KernelStep
    \/ Terminated

Spec == Init /\ [][Next]_vars

\* What the machine guarantees.  Kernel code and code inside an atomic
\* region runs to the end of the region; the interval timer keeps firing.
\* The quantum is longer than a poll, so a hook that keeps being invoked is
\* not hit by the signal every time; and a signal that keeps coming does not
\* always find a given thread inside a region (the two strong parts).
\* Nothing makes a user thread call CML again, nor a descriptor ready.
RegionStep(t) == pc # "out" /\ ThreadStep(t)

Fairness ==
    /\ WF_vars(KernelStep)
    /\ \A t \in Threads : WF_vars(RegionStep(t))
    /\ SF_vars(atomicState = "Atomic" /\ hookDispatch)
    /\ \A t \in Threads : SF_vars(curK = t /\ alrmPreempts)

FairSpec == Spec /\ Fairness

-----------------------------------------------------------------------------
(* Properties.                                                              *)

Places(t) ==
    {<<1, i>> : i \in {i \in DOMAIN rdyQ1 : rdyQ1[i].k = t}} \cup
    {<<2, i>> : i \in {i \in DOMAIN rdyQ2 : rdyQ2[i].k = t}}

\* A thread that can run is in exactly one place - the processor or one slot
\* of one ready queue - and a thread that cannot run is in none: no step of
\* preempt, promote, atomicSwitchTo or the dispatchers loses a continuation
\* or resumes one twice.
OneContinuation ==
    \A t \in Threads :
        /\ curK = t => Places(t) = {}
        /\ \A p, q \in Places(t) : p = q
        /\ status[t] = "ready" <=> Places(t) # {} \/ (curK = t /\ pc # "notify")

\* getCurThread() answers the thread whose code is running, so that a block
\* or an exit never parks somebody else's id; and a queue entry of a user
\* continuation carries that thread's own id.  (Hooks run under stale ids.)
RegisterMatches ==
    /\ curK \in Threads => curTid = curK
    /\ \A q \in {rdyQ1, rdyQ2} : \A i \in DOMAIN q :
          q[i].k \in Threads => q[i].tid = q[i].k

\* The atomic region is entered and left exactly once around every operation
\* of channel.sml, thread.sml and the hooks: user code never runs inside one,
\* and the state Atomic is never seen outside one.
AtomicDiscipline ==
    /\ pc # "out" => atomicState # "NonAtomic"
    /\ pc = "out" => atomicState # "Atomic"
    /\ pc = "out" /\ curK \notin Hooks => atomicState = "NonAtomic"

\* A thread blocked on another's dead cvar is in exactly one cvar, and that
\* cvar belongs to a thread that is alive or is setting it right now: nobody
\* joins a thread that has died without being woken.
JoinersAreHeard ==
    /\ \A t \in Threads :
        status[t] = "join" <=>
            \E u \in Threads :
                /\ \E i \in DOMAIN joinQ[u] : joinQ[u][i] = t
                /\ status[u] # "dead" \/ (curK = u /\ pc = "notify")
    /\ \A u, v \in Threads : \A i \in DOMAIN joinQ[u], j \in DOMAIN joinQ[v] :
        joinQ[u][i] = joinQ[v][j] => u = v /\ i = j

\* A sleeper whose time has come is made ready (unless CML has shut down).
SleepersWake ==
    \A t \in Threads : t \in due ~> (t \notin due \/ halted)

\* Two-level scheduling does not starve: a ready thread gets the processor,
\* also one that waits in rdyQ2 behind threads that keep communicating.
NoStarvation ==
    \A t \in Threads : status[t] = "ready" ~> (curK = t \/ halted)
=============================================================================
