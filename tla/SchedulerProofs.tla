-------------------------- MODULE SchedulerProofs --------------------------
(***************************************************************************)
(* Proofs about the scheduler for any set of threads and any bound.        *)
(***************************************************************************)
EXTENDS Scheduler, TLAPS

\* k is one of the continuations in q
In(q, k) == \E i \in 1 .. Len(q) : q[i].k = k

\* no user thread is in q twice, and each is there under its own id
Proper(q) ==
    /\ q \in Seq(Entries)
    /\ \A i, j \in 1 .. Len(q) : q[i].k = q[j].k /\ q[i].k \in Threads => i = j
    /\ \A i \in 1 .. Len(q) : q[i].k \in Threads => q[i].tid = q[i].k

\* The ready queues q1 and q2 and the processor, which c holds, share out the
\* threads that are ready according to st.
Held(q1, q2, st, c) ==
    /\ Proper(q1) /\ Proper(q2)
    /\ \A x \in Threads :
          /\ ~(In(q1, x) /\ In(q2, x))
          /\ x = c => ~In(q1, x) /\ ~In(q2, x)
          /\ st[x] = "ready" <=> In(q1, x) \/ In(q2, x) \/ x = c

\* Appending an entry adds its continuation and nothing else.
LEMMA AppendIn ==
    ASSUME NEW q \in Seq(Entries), NEW e \in Entries
    PROVE  /\ Append(q, e) \in Seq(Entries)
           /\ \A k : In(Append(q, e), k) <=> In(q, k) \/ e.k = k
<1>1. Append(q, e) \in Seq(Entries) /\ Len(Append(q, e)) = Len(q) + 1
  OBVIOUS
<1>2. \A i \in 1 .. Len(q) : Append(q, e)[i] = q[i]
  OBVIOUS
<1>3. Append(q, e)[Len(q) + 1] = e
  OBVIOUS
<1>4. Len(q) \in Nat
  OBVIOUS
<1>5. ASSUME NEW k PROVE In(Append(q, e), k) <=> In(q, k) \/ e.k = k
  BY <1>1, <1>2, <1>3, <1>4 DEF In
<1> QED
  BY <1>1, <1>5

\* Appending a thread that is not yet in the queue, under its own id, or any
\* kernel continuation, leaves the queue proper.
LEMMA AppendProper ==
    ASSUME NEW q, Proper(q), NEW e \in Entries,
           e.k \in Threads => ~In(q, e.k) /\ e.tid = e.k
    PROVE  Proper(Append(q, e))
<1>1. q \in Seq(Entries) /\ Len(q) \in Nat
  BY DEF Proper
<1>2. Append(q, e) \in Seq(Entries) /\ Len(Append(q, e)) = Len(q) + 1
  BY <1>1
<1>3. \A i \in 1 .. Len(q) : Append(q, e)[i] = q[i]
  BY <1>1
<1>4. Append(q, e)[Len(q) + 1] = e
  BY <1>1
<1> QED
  BY <1>1, <1>2, <1>3, <1>4 DEF Proper, In

\* Removing the head of a proper queue removes that thread.
LEMMA TailProper ==
    ASSUME NEW q, Proper(q), q # <<>>
    PROVE  /\ Proper(Tail(q))
           /\ Head(q) \in Entries
           /\ Head(q).k \in Threads => Head(q).tid = Head(q).k
           /\ \A x \in Threads : In(Tail(q), x) <=> In(q, x) /\ x # Head(q).k
<1>1. q \in Seq(Entries) /\ Len(q) \in Nat /\ Len(q) > 0
  BY DEF Proper
<1>2. Tail(q) \in Seq(Entries) /\ Len(Tail(q)) = Len(q) - 1
  BY <1>1
<1>3. \A i \in 1 .. Len(q) - 1 : Tail(q)[i] = q[i + 1]
  BY <1>1
<1>4. Head(q) = q[1] /\ q[1] \in Entries
  BY <1>1
<1>5. Proper(Tail(q))
  BY <1>1, <1>2, <1>3 DEF Proper
<1>6. Head(q).k \in Threads => Head(q).tid = Head(q).k
  BY <1>1, <1>4 DEF Proper
<1>7. ASSUME NEW x \in Threads PROVE In(Tail(q), x) <=> In(q, x) /\ x # Head(q).k
  <2>1. ASSUME In(Tail(q), x) PROVE In(q, x) /\ x # Head(q).k
    <3>1. PICK i \in 1 .. Len(q) - 1 : Tail(q)[i].k = x
      BY <1>2, <2>1 DEF In
    <3>2. q[i + 1].k = x /\ i + 1 \in 1 .. Len(q) /\ i + 1 # 1
      BY <1>1, <1>3, <3>1
    <3> QED
      BY <1>1, <1>4, <3>2 DEF In, Proper
  <2>2. ASSUME In(q, x), x # Head(q).k PROVE In(Tail(q), x)
    <3>1. PICK i \in 1 .. Len(q) : q[i].k = x
      BY <2>2 DEF In
    <3>2. i # 1 /\ i - 1 \in 1 .. Len(q) - 1
      BY <1>1, <1>4, <2>2, <3>1
    <3>3. Tail(q)[i - 1] = q[i]
      BY <1>1, <1>3, <3>2
    <3> QED
      BY <1>2, <3>1, <3>2, <3>3 DEF In
  <2> QED
    BY <2>1, <2>2
<1> QED
  BY <1>4, <1>5, <1>6, <1>7

-----------------------------------------------------------------------------
(* How the elementary moves keep Held.                                      *)

\* Which kernel continuation holds the processor makes no difference.
LEMMA HeldKernel ==
    ASSUME NEW q1, NEW q2, NEW st, NEW c, NEW d,
           Held(q1, q2, st, c), c \notin Threads, d \notin Threads
    PROVE  Held(q1, q2, st, d)
BY DEF Held

\* The thread that holds the processor goes to the rear of the first queue.
LEMMA HeldEnqueueSelf ==
    ASSUME NEW q1, NEW q2, NEW st, NEW t \in Threads, NEW d,
           Held(q1, q2, st, t), d \notin Threads
    PROVE  Held(enqueue(q1, t), q2, st, d)
<1> DEFINE e == Entry(t, t)
<1>1. e \in Entries /\ e.k = t /\ e.tid = t
  BY DEF Entry, Entries, Tids, Conts
<1>2. Proper(q1) /\ ~In(q1, t) /\ q1 \in Seq(Entries)
  BY DEF Held, Proper
<1>3. Proper(Append(q1, e))
  BY <1>1, <1>2, AppendProper
<1>4. \A k : In(Append(q1, e), k) <=> In(q1, k) \/ k = t
  BY <1>1, <1>2, AppendIn
<1> QED
  BY <1>3, <1>4 DEF Held, enqueue

\* A blocked thread is made ready at the rear of the first queue.
LEMMA HeldEnqueueOther ==
    ASSUME NEW q1, NEW q2, NEW st \in [Threads -> Statuses], NEW c,
           NEW u \in Threads,
           Held(q1, q2, st, c), st[u] # "ready"
    PROVE  Held(enqueue(q1, u), q2, [st EXCEPT ![u] = "ready"], c)
<1> DEFINE e == Entry(u, u)
<1>1. e \in Entries /\ e.k = u /\ e.tid = u
  BY DEF Entry, Entries, Tids, Conts
<1>2. Proper(q1) /\ ~In(q1, u) /\ ~In(q2, u) /\ u # c /\ q1 \in Seq(Entries)
  BY DEF Held, Proper
<1>3. Proper(Append(q1, e))
  BY <1>1, <1>2, AppendProper
<1>4. \A k : In(Append(q1, e), k) <=> In(q1, k) \/ k = u
  BY <1>1, <1>2, AppendIn
<1> QED
  BY <1>2, <1>3, <1>4 DEF Held, enqueue

\* A blocked thread is given the processor directly.
LEMMA HeldResume ==
    ASSUME NEW q1, NEW q2, NEW st \in [Threads -> Statuses], NEW c,
           NEW u \in Threads,
           Held(q1, q2, st, c), c \notin Threads, st[u] # "ready"
    PROVE  Held(q1, q2, [st EXCEPT ![u] = "ready"], u)
BY DEF Held

\* The running thread blocks or dies.
LEMMA HeldBlock ==
    ASSUME NEW q1, NEW q2, NEW st \in [Threads -> Statuses], NEW t \in Threads,
           NEW s, NEW d,
           Held(q1, q2, st, t), s # "ready", d \notin Threads
    PROVE  Held(q1, q2, [st EXCEPT ![t] = s], d)
BY DEF Held

\* What is known after an atomic region has been left.
Left ==
    /\ pc' = "out"
    /\ curK' \in Conts /\ curTid' \in Tids
    /\ curK' \in Threads => curTid' = curK'
    /\ \/ atomicState' = "SignalPending" /\ curK' = pollK
       \/ atomicState' = "NonAtomic"

\* The scheduler's own continuations are not threads.
LEMMA KernelNotThread == \A k \in Kernel : k \notin Threads
BY SchedulerAssumption

\* atomicDispatch gives the processor to the next entry.
LEMMA HeldDispatch ==
    ASSUME NEW q1, NEW st, NEW c, Held(q1, rdyQ2, st, c), c \notin Threads,
           curTid \in Tids, atomicDispatch(q1)
    PROVE  Held(rdyQ1', rdyQ2', st, curK') /\ Left
<1>0. pollK \in Kernel /\ pollK \notin Threads /\ pauseK \in Kernel /\ pauseK \notin Threads
  BY KernelNotThread DEF Kernel
<1>1. CASE atomicState = "SignalPending"
  <2>1. rdyQ1' = q1 /\ rdyQ2' = rdyQ2 /\ curK' = pollK /\ curTid' = curTid
        /\ pc' = "out" /\ atomicState' = "SignalPending"
    BY <1>1 DEF atomicDispatch, dispatchSchedulerHook
  <2>2. Held(q1, rdyQ2, st, pollK)
    BY <1>0, HeldKernel
  <2> QED
    BY <1>0, <2>1, <2>2 DEF Left, Conts
<1>2. CASE atomicState # "SignalPending"
  <2>0. pc' = "out" /\ atomicState' = "NonAtomic"
        /\ curTid' = dequeued(q1).tid /\ curK' = dequeued(q1).k
        /\ rdyQ1' = (IF q1 # <<>> THEN Tail(q1) ELSE q1)
        /\ rdyQ2' = (IF q1 = <<>> /\ rdyQ2 # <<>> THEN Tail(rdyQ2) ELSE rdyQ2)
    BY <1>2 DEF atomicDispatch
  <2>1. CASE q1 # <<>>
    <3>1. Proper(q1)
      BY DEF Held
    <3>2. /\ Proper(Tail(q1)) /\ Head(q1) \in Entries
          /\ Head(q1).k \in Threads => Head(q1).tid = Head(q1).k
          /\ \A x \in Threads : In(Tail(q1), x) <=> In(q1, x) /\ x # Head(q1).k
      BY <2>1, <3>1, TailProper
    <3>3. Head(q1).k \in Threads => In(q1, Head(q1).k)
      BY <2>1, <3>1 DEF Proper, In
    <3>4. rdyQ1' = Tail(q1) /\ rdyQ2' = rdyQ2 /\ curK' = Head(q1).k /\ curTid' = Head(q1).tid
      BY <2>0, <2>1 DEF dequeued
    <3>5. Held(Tail(q1), rdyQ2, st, Head(q1).k)
      BY <3>2, <3>3 DEF Held
    <3> QED
      BY <2>0, <3>2, <3>4, <3>5 DEF Left, Entries
  <2>2. CASE q1 = <<>> /\ rdyQ2 # <<>>
    <3>1. Proper(rdyQ2)
      BY DEF Held
    <3>2. /\ Proper(Tail(rdyQ2)) /\ Head(rdyQ2) \in Entries
          /\ Head(rdyQ2).k \in Threads => Head(rdyQ2).tid = Head(rdyQ2).k
          /\ \A x \in Threads : In(Tail(rdyQ2), x) <=> In(rdyQ2, x) /\ x # Head(rdyQ2).k
      BY <2>2, <3>1, TailProper
    <3>3. Head(rdyQ2).k \in Threads => In(rdyQ2, Head(rdyQ2).k)
      BY <2>2, <3>1 DEF Proper, In
    <3>4. rdyQ1' = q1 /\ rdyQ2' = Tail(rdyQ2) /\ curK' = Head(rdyQ2).k /\ curTid' = Head(rdyQ2).tid
      BY <2>0, <2>2 DEF dequeued
    <3>5. Held(q1, Tail(rdyQ2), st, Head(rdyQ2).k)
      BY <3>2, <3>3 DEF Held
    <3> QED
      BY <2>0, <3>2, <3>4, <3>5 DEF Left, Entries
  <2>3. CASE q1 = <<>> /\ rdyQ2 = <<>>
    <3>1. rdyQ1' = q1 /\ rdyQ2' = rdyQ2 /\ curK' = pauseK /\ curTid' = dummyTid
      BY <2>0, <2>3 DEF dequeued, Entry
    <3>2. Held(q1, rdyQ2, st, pauseK)
      BY <1>0, HeldKernel
    <3> QED
      BY <1>0, <2>0, <3>1, <3>2 DEF Left, Conts, Tids
  <2> QED
    BY <2>1, <2>2, <2>3
<1> QED
  BY <1>1, <1>2

\* atomicEnd resumes t or sends it to the queue.
LEMMA HeldEnd ==
    ASSUME NEW q1, NEW st, NEW t \in Threads, Held(q1, rdyQ2, st, t),
           atomicEnd(t, q1)
    PROVE  Held(rdyQ1', rdyQ2', st, curK') /\ Left
<1>0. pollK \in Kernel /\ pollK \notin Threads
  BY KernelNotThread DEF Kernel
<1>1. CASE atomicState = "SignalPending"
  <2>1. rdyQ1' = enqueue(q1, t) /\ rdyQ2' = rdyQ2 /\ curK' = pollK /\ curTid' = t
        /\ pc' = "out" /\ atomicState' = "SignalPending"
    BY <1>1 DEF atomicEnd, dispatchSchedulerHook
  <2>2. Held(enqueue(q1, t), rdyQ2, st, pollK)
    BY <1>0, HeldEnqueueSelf
  <2> QED
    BY <1>0, <2>1, <2>2 DEF Left, Conts, Tids
<1>2. CASE atomicState # "SignalPending"
  BY <1>2 DEF atomicEnd, Left, Conts, Tids
<1> QED
  BY <1>1, <1>2

\* atomicSwitchTo: the sender s, which was blocked, becomes ready, and t goes
\* on running or both are enqueued.
LEMMA HeldSwitch ==
    ASSUME NEW st \in [Threads -> Statuses], NEW t \in Threads, NEW s \in Threads,
           Held(rdyQ1, rdyQ2, st, t), st[s] # "ready", atomicSwitchTo(t, s)
    PROVE  Held(rdyQ1', rdyQ2', [st EXCEPT ![s] = "ready"], curK') /\ Left
<1>0. pollK \in Kernel /\ pollK \notin Threads
  BY KernelNotThread DEF Kernel
<1>1. CASE atomicState = "SignalPending"
  <2>1. rdyQ1' = enqueue(enqueue(rdyQ1, t), s) /\ rdyQ2' = rdyQ2 /\ curK' = pollK
        /\ curTid' = s /\ pc' = "out" /\ atomicState' = "SignalPending"
    BY <1>1 DEF atomicSwitchTo, dispatchSchedulerHook
  <2>2. Held(enqueue(rdyQ1, t), rdyQ2, st, pollK)
    BY <1>0, HeldEnqueueSelf
  <2>3. Held(enqueue(enqueue(rdyQ1, t), s), rdyQ2, [st EXCEPT ![s] = "ready"], pollK)
    BY <2>2, HeldEnqueueOther
  <2> QED
    BY <1>0, <2>1, <2>3 DEF Left, Conts, Tids
<1>2. CASE atomicState # "SignalPending"
  <2>1. rdyQ1' = enqueue(rdyQ1, s) /\ rdyQ2' = rdyQ2 /\ curK' = t
        /\ curTid' = t /\ pc' = "out" /\ atomicState' = "NonAtomic"
    BY <1>2 DEF atomicSwitchTo
  <2>2. Held(enqueue(rdyQ1, s), rdyQ2, [st EXCEPT ![s] = "ready"], t)
    BY HeldEnqueueOther
  <2> QED
    BY <2>1, <2>2 DEF Left, Conts, Tids
<1> QED
  BY <1>1, <1>2

\* A kernel continuation is put at the rear of a queue.
LEMMA HeldEnqueueKernel ==
    ASSUME NEW q1, NEW q2, NEW st, NEW c, NEW e \in Entries,
           Held(q1, q2, st, c), e.k \notin Threads
    PROVE  /\ Held(Append(q1, e), q2, st, c)
           /\ Held(q1, Append(q2, e), st, c)
<1>1. q1 \in Seq(Entries) /\ q2 \in Seq(Entries) /\ Proper(q1) /\ Proper(q2)
  BY DEF Held, Proper
<1>2. Proper(Append(q1, e)) /\ Proper(Append(q2, e))
  BY <1>1, AppendProper
<1>3. \A x \in Threads : /\ In(Append(q1, e), x) <=> In(q1, x)
                         /\ In(Append(q2, e), x) <=> In(q2, x)
  BY <1>1, AppendIn
<1> QED
  BY <1>2, <1>3 DEF Held

\* promote moves the head of the second queue to the rear of the first.
LEMMA HeldPromote ==
    ASSUME NEW q1, NEW q2, NEW st, NEW c, Held(q1, q2, st, c), q2 # <<>>
    PROVE  Held(Append(q1, Head(q2)), Tail(q2), st, c)
<1> DEFINE e == Head(q2)
<1>1. q1 \in Seq(Entries) /\ q2 \in Seq(Entries) /\ Proper(q1) /\ Proper(q2)
  BY DEF Held, Proper
<1>2. /\ Proper(Tail(q2)) /\ e \in Entries
      /\ e.k \in Threads => e.tid = e.k
      /\ \A x \in Threads : In(Tail(q2), x) <=> In(q2, x) /\ x # e.k
  BY <1>1, TailProper
<1>3. e.k \in Threads => In(q2, e.k)
  BY <1>1 DEF In
<1>4. e.k \in Threads => ~In(q1, e.k) /\ e.k # c
  BY <1>3 DEF Held
<1>5. Proper(Append(q1, e))
  BY <1>1, <1>2, <1>4, AppendProper
<1>6. \A k : In(Append(q1, e), k) <=> In(q1, k) \/ e.k = k
  BY <1>1, <1>2, AppendIn
<1> QED
  BY <1>2, <1>3, <1>4, <1>5, <1>6 DEF Held

\* The continuation that holds the processor - a thread under its own id, or
\* a kernel continuation - goes to the rear of one of the queues.
LEMMA HeldRequeue ==
    ASSUME NEW q1, NEW q2, NEW st, NEW c, NEW d, NEW e \in Entries,
           Held(q1, q2, st, c), e.k = c, c \in Threads => e.tid = c,
           d \notin Threads
    PROVE  /\ Held(Append(q1, e), q2, st, d)
           /\ Held(q1, Append(q2, e), st, d)
<1>1. q1 \in Seq(Entries) /\ q2 \in Seq(Entries) /\ Proper(q1) /\ Proper(q2)
  BY DEF Held, Proper
<1>2. c \in Threads => ~In(q1, c) /\ ~In(q2, c)
  BY DEF Held
<1>3. Proper(Append(q1, e)) /\ Proper(Append(q2, e))
  BY <1>1, <1>2, AppendProper
<1>4. \A x \in Threads : /\ In(Append(q1, e), x) <=> In(q1, x) \/ c = x
                         /\ In(Append(q2, e), x) <=> In(q2, x) \/ c = x
  BY <1>1, AppendIn
<1> QED
  BY <1>2, <1>3, <1>4 DEF Held

-----------------------------------------------------------------------------
(* The inductive invariant.                                                 *)

\* who holds the processor, as far as readiness goes: a thread that is
\* setting its dead cvar is no longer ready
Holder == IF pc = "notify" THEN pollK ELSE curK

RunsOwnId == curK \in Threads => curTid = curK

PcInv ==
    /\ pc = "notify" => curK \in Threads /\ status[curK] = "dead"
    /\ pc = "pausing" => curK = pauseK

SleepInv == \A t \in due : status[t] = "os"

\* the threads in the dead cvars are those that join, each in one place, and
\* a cvar that has waiters has not been set
JoinInv ==
    /\ \A u \in Threads : \A i \in 1 .. Len(joinQ[u]) : status[joinQ[u][i]] = "join"
    /\ \A u, v \in Threads : \A i \in 1 .. Len(joinQ[u]), j \in 1 .. Len(joinQ[v]) :
          joinQ[u][i] = joinQ[v][j] => u = v /\ i = j
    /\ \A t \in Threads : status[t] = "join" =>
          \E u \in Threads : \E i \in 1 .. Len(joinQ[u]) : joinQ[u][i] = t
    /\ \A u \in Threads : joinQ[u] # <<>> => status[u] # "dead" \/ (curK = u /\ pc = "notify")

IInv ==
    /\ TypeOK
    /\ Held(rdyQ1, rdyQ2, status, Holder)
    /\ RunsOwnId
    /\ AtomicDiscipline
    /\ PcInv
    /\ SleepInv
    /\ JoinInv

\* The invariant holds initially.
LEMMA InitInv == Init => IInv
<1> SUFFICES ASSUME Init PROVE IInv
  OBVIOUS
<1>0. /\ Root \in Threads /\ dispatchK \in Kernel /\ dispatchK \notin Threads
      /\ Entry(dummyTid, dispatchK) \in Entries
      /\ Entry(dummyTid, dispatchK).k = dispatchK
  BY SchedulerAssumption, KernelNotThread DEF Entry, Entries, Tids, Conts, Kernel
<1>1. TypeOK
  <2>1. curTid \in Tids /\ curK \in Conts /\ pc \in PCs /\ marked \subseteq Tids
    BY <1>0 DEF Init, Tids, Conts, PCs
  <2>2. rdyQ1 \in Seq(Entries) /\ rdyQ2 \in Seq(Entries)
    BY <1>0 DEF Init
  <2>3. status \in [Threads -> Statuses]
    BY DEF Init, Statuses
  <2>4. joinQ \in [Threads -> Seq(Threads)]
    BY DEF Init
  <2>5. /\ atomicState \in {"NonAtomic", "Atomic", "SignalPending"}
        /\ due \subseteq Threads /\ halted \in BOOLEAN
    BY DEF Init
  <2> QED
    BY <2>1, <2>2, <2>3, <2>4, <2>5 DEF TypeOK
<1>2. Proper(rdyQ1) /\ Proper(rdyQ2)
  BY <1>0 DEF Init, Proper
<1>3. \A x \in Threads : ~In(rdyQ1, x) /\ ~In(rdyQ2, x)
  BY <1>0 DEF Init, In
<1>4. Held(rdyQ1, rdyQ2, status, Holder)
  BY <1>0, <1>2, <1>3 DEF Init, Held, Holder
<1>5. RunsOwnId /\ AtomicDiscipline /\ PcInv /\ SleepInv /\ JoinInv
  BY <1>0 DEF Init, RunsOwnId, AtomicDiscipline, PcInv, SleepInv, JoinInv
<1> QED
  BY <1>1, <1>4, <1>5 DEF IInv

-----------------------------------------------------------------------------
(* The invariant is inductive.                                              *)

\* What a step that leaves an atomic region establishes.
LEMMA AfterLeft ==
    ASSUME TypeOK, Left, Held(rdyQ1', rdyQ2', status', curK'),
           marked' \subseteq Tids, status' \in [Threads -> Statuses],
           joinQ' \in [Threads -> Seq(Threads)], due' \subseteq Threads,
           halted' = halted
    PROVE  /\ TypeOK' /\ Held(rdyQ1, rdyQ2, status, Holder)' /\ RunsOwnId'
           /\ AtomicDiscipline' /\ PcInv'
<1>1. rdyQ1' \in Seq(Entries) /\ rdyQ2' \in Seq(Entries)
  BY DEF Held, Proper
<1>2. /\ pc' = "out" /\ pc' \in PCs /\ curK' \in Conts /\ curTid' \in Tids
      /\ atomicState' \in {"NonAtomic", "Atomic", "SignalPending"}
  BY DEF Left, PCs
<1>3. halted' \in BOOLEAN
  BY DEF TypeOK
<1>4. TypeOK'
  BY <1>1, <1>2, <1>3 DEF TypeOK
<1>5. Holder' = curK'
  BY <1>2 DEF Holder
<1>6. RunsOwnId' /\ AtomicDiscipline' /\ PcInv'
  BY DEF Left, RunsOwnId, AtomicDiscipline, PcInv, Hooks
<1> QED
  BY <1>4, <1>5, <1>6

\* A step that touches no dead cvar and no thread that joins.
LEMMA JoinKept ==
    ASSUME JoinInv, pc # "notify", joinQ' = joinQ,
           \A x \in Threads : /\ status'[x] = "join" <=> status[x] = "join"
                              /\ status'[x] = "dead" => status[x] = "dead",
           joinQ \in [Threads -> Seq(Threads)]
    PROVE  JoinInv'
<1>1. \A u \in Threads : \A i \in 1 .. Len(joinQ[u]) : joinQ[u][i] \in Threads
  OBVIOUS
<1> QED
  BY <1>1 DEF JoinInv

\* A sleeper stays a sleeper as long as due and the sleepers are left alone.
LEMMA SleepKept ==
    ASSUME SleepInv, due \subseteq Threads, due' = due,
           \A x \in Threads : status[x] = "os" => status'[x] = "os"
    PROVE  SleepInv'
BY DEF SleepInv

\* What is known when a user thread is inside an atomic region.
LEMMA InRegion ==
    ASSUME IInv, NEW t \in Threads, Running(t), pc = "in"
    PROVE  /\ curTid = t /\ curTid \in Tids /\ status[t] = "ready"
           /\ Held(rdyQ1, rdyQ2, status, t)
           /\ status \in [Threads -> Statuses] /\ joinQ \in [Threads -> Seq(Threads)]
           /\ marked \subseteq Tids /\ marked \cup {t} \subseteq Tids
           /\ due \subseteq Threads
           /\ pollK \notin Threads
<1>1. pollK \notin Threads
  BY KernelNotThread DEF Kernel
<1>2. Holder = t /\ curK = t
  BY DEF Running, Holder
<1>3. Held(rdyQ1, rdyQ2, status, t)
  BY <1>2 DEF IInv
<1> QED
  BY <1>1, <1>2, <1>3 DEF IInv, TypeOK, RunsOwnId, Held, Tids

\* A thread enters an atomic region.
LEMMA EnterAtomicInv ==
    ASSUME IInv, NEW t \in Threads, EnterAtomic(t) PROVE IInv'
<1>1. TypeOK'
  BY DEF IInv, TypeOK, EnterAtomic, PCs
<1>2. Held(rdyQ1, rdyQ2, status, Holder)'
  BY DEF IInv, EnterAtomic, Holder
<1>3. RunsOwnId' /\ AtomicDiscipline' /\ PcInv' /\ SleepInv'
  BY DEF IInv, EnterAtomic, RunsOwnId, AtomicDiscipline, PcInv, SleepInv
<1>4. JoinInv'
  BY JoinKept DEF IInv, EnterAtomic, TypeOK
<1> QED
  BY <1>1, <1>2, <1>3, <1>4 DEF IInv

\* A thread leaves a region in which it has changed nothing.
LEMMA LeaveInv ==
    ASSUME IInv, NEW t \in Threads, Leave(t) PROVE IInv'
<1>1. Running(t) /\ pc = "in" /\ atomicEnd(t, rdyQ1)
      /\ UNCHANGED <<marked, status, joinQ, due, halted>>
  BY DEF Leave
<1>2. Held(rdyQ1', rdyQ2', status', curK') /\ Left
  BY <1>1, InRegion, HeldEnd
<1>3. /\ TypeOK' /\ Held(rdyQ1, rdyQ2, status, Holder)' /\ RunsOwnId'
      /\ AtomicDiscipline' /\ PcInv'
  BY <1>1, <1>2, InRegion, AfterLeft DEF IInv
<1>4. JoinInv' /\ SleepInv'
  BY <1>1, InRegion, JoinKept, SleepKept DEF IInv
<1> QED
  BY <1>3, <1>4 DEF IInv

\* spawn: the parent is enqueued, the child gets the processor.
LEMMA SpawnInv ==
    ASSUME IInv, NEW t \in Threads, NEW c \in Threads, spawn(t, c) PROVE IInv'
<1>1. /\ Running(t) /\ pc = "in" /\ status[c] = "unborn"
      /\ status' = [status EXCEPT ![c] = "ready"] /\ marked' = marked \cup {t}
      /\ atomicEnd(c, enqueue(rdyQ1, t)) /\ UNCHANGED <<joinQ, due, halted>>
  BY DEF spawn
<1>2. Held(enqueue(rdyQ1, t), rdyQ2, status, pollK)
  BY <1>1, InRegion, HeldEnqueueSelf
<1>3. Held(enqueue(rdyQ1, t), rdyQ2, status', c)
  BY <1>1, <1>2, InRegion, HeldResume
<1>4. Held(rdyQ1', rdyQ2', status', curK') /\ Left
  BY <1>1, <1>3, HeldEnd
<1>5. status' \in [Threads -> Statuses]
  BY <1>1, InRegion DEF Statuses
<1>6. /\ TypeOK' /\ Held(rdyQ1, rdyQ2, status, Holder)' /\ RunsOwnId'
      /\ AtomicDiscipline' /\ PcInv'
  BY <1>1, <1>4, <1>5, InRegion, AfterLeft DEF IInv
<1>7. \A x \in Threads : status'[x] = IF x = c THEN "ready" ELSE status[x]
  BY <1>1, InRegion
<1>8. JoinInv' /\ SleepInv'
  BY <1>1, <1>7, InRegion, JoinKept, SleepKept DEF IInv
<1> QED
  BY <1>6, <1>8 DEF IInv

\* yield: the thread goes to the rear of the first queue.
LEMMA YieldInv ==
    ASSUME IInv, NEW t \in Threads, yield(t) PROVE IInv'
<1>1. /\ Running(t) /\ pc = "in" /\ marked' = marked \cup {t}
      /\ atomicDispatch(enqueue(rdyQ1, t)) /\ UNCHANGED <<status, joinQ, due, halted>>
  BY DEF yield
<1>2. Held(enqueue(rdyQ1, t), rdyQ2, status, pollK)
  BY <1>1, InRegion, HeldEnqueueSelf
<1>3. Held(rdyQ1', rdyQ2', status', curK') /\ Left
  BY <1>1, <1>2, InRegion, HeldDispatch
<1>4. /\ TypeOK' /\ Held(rdyQ1, rdyQ2, status, Holder)' /\ RunsOwnId'
      /\ AtomicDiscipline' /\ PcInv'
  BY <1>1, <1>3, InRegion, AfterLeft DEF IInv
<1>5. JoinInv' /\ SleepInv'
  BY <1>1, InRegion, JoinKept, SleepKept DEF IInv
<1> QED
  BY <1>4, <1>5 DEF IInv

\* exit: the thread stops being ready and starts to set its dead cvar.
LEMMA ExitInv ==
    ASSUME IInv, NEW t \in Threads, exit(t) PROVE IInv'
<1>1. /\ Running(t) /\ pc = "in" /\ curK = t
      /\ status' = [status EXCEPT ![t] = "dead"] /\ pc' = "notify"
      /\ UNCHANGED <<curTid, curK, rdyQ1, rdyQ2, marked, atomicState, joinQ, due, halted>>
  BY DEF exit, Running
<1>2. Held(rdyQ1, rdyQ2, status, Holder)'
  BY <1>1, InRegion, HeldBlock DEF Holder
<1>3. status' \in [Threads -> Statuses]
  BY <1>1, InRegion DEF Statuses
<1>4. TypeOK'
  BY <1>1, <1>3 DEF IInv, TypeOK, PCs
<1>5. \A x \in Threads : status'[x] = IF x = t THEN "dead" ELSE status[x]
  BY <1>1, InRegion
<1>6. RunsOwnId' /\ AtomicDiscipline' /\ PcInv'
  BY <1>1, <1>5 DEF IInv, RunsOwnId, AtomicDiscipline, PcInv
<1>7. SleepInv'
  BY <1>1, <1>5, InRegion, SleepKept DEF IInv
<1>8. \A u \in Threads : \A i \in 1 .. Len(joinQ[u]) : joinQ[u][i] \in Threads
  BY <1>1, InRegion
<1>9. JoinInv'
  BY <1>1, <1>5, <1>8, InRegion DEF IInv, JoinInv
<1> QED
  BY <1>2, <1>4, <1>6, <1>7, <1>9 DEF IInv

\* atomicCVarSet makes the oldest waiter of the dead cvar ready.
LEMMA NotifyJoinerInv ==
    ASSUME IInv, NEW t \in Threads, notifyJoiner(t) PROVE IInv'
<1> DEFINE w == Head(joinQ[t])
<1>1. /\ ~halted /\ curK = t /\ pc = "notify" /\ joinQ[t] # <<>>
      /\ rdyQ1' = enqueue(rdyQ1, w)
      /\ status' = [status EXCEPT ![w] = "ready"]
      /\ joinQ' = [joinQ EXCEPT ![t] = Tail(joinQ[t])]
      /\ UNCHANGED <<curTid, curK, pc, rdyQ2, marked, atomicState, due, halted>>
  BY DEF notifyJoiner, Running
<1>2. /\ status \in [Threads -> Statuses] /\ joinQ \in [Threads -> Seq(Threads)]
      /\ due \subseteq Threads
  BY DEF IInv, TypeOK
<1>3. joinQ[t] \in Seq(Threads) /\ Len(joinQ[t]) \in Nat /\ Len(joinQ[t]) > 0
      /\ w = joinQ[t][1] /\ w \in Threads
  BY <1>1, <1>2
<1>4. status[w] = "join"
  BY <1>3 DEF IInv, JoinInv
<1>5. Holder = pollK /\ Holder' = pollK
  BY <1>1 DEF Holder
<1>6. Held(enqueue(rdyQ1, w), rdyQ2, [status EXCEPT ![w] = "ready"], pollK)
  BY <1>2, <1>3, <1>4, <1>5, HeldEnqueueOther DEF IInv
<1>7. Held(rdyQ1, rdyQ2, status, Holder)'
  BY <1>1, <1>5, <1>6
<1>8. status' \in [Threads -> Statuses] /\ rdyQ1' \in Seq(Entries)
  BY <1>1, <1>2, <1>7 DEF Held, Proper, Statuses
<1>9. joinQ' \in [Threads -> Seq(Threads)]
  BY <1>1, <1>2, <1>3
<1>10. TypeOK'
  BY <1>1, <1>8, <1>9 DEF IInv, TypeOK
<1>11. \A x \in Threads : status'[x] = IF x = w THEN "ready" ELSE status[x]
  BY <1>1, <1>2
<1>12. RunsOwnId' /\ AtomicDiscipline' /\ PcInv'
  BY <1>1, <1>4, <1>11 DEF IInv, RunsOwnId, AtomicDiscipline, PcInv
<1>13. SleepInv'
  BY <1>1, <1>2, <1>4, <1>11, SleepKept DEF IInv
<1>14. /\ \A u \in Threads : u # t => joinQ'[u] = joinQ[u]
       /\ joinQ'[t] = Tail(joinQ[t]) /\ Len(joinQ'[t]) = Len(joinQ[t]) - 1
       /\ \A i \in 1 .. Len(joinQ[t]) - 1 : joinQ'[t][i] = joinQ[t][i + 1]
  BY <1>1, <1>2, <1>3
<1>15. \A u \in Threads : \A i \in 1 .. Len(joinQ[u]) : joinQ[u][i] \in Threads
  BY <1>2
<1>16. \A u \in Threads, i \in Nat : i \in 1 .. Len(joinQ'[u]) =>
          \E j \in 1 .. Len(joinQ[u]) :
             /\ joinQ'[u][i] = joinQ[u][j]
             /\ j = IF u = t THEN i + 1 ELSE i
  <2> SUFFICES ASSUME NEW u \in Threads, NEW i \in Nat, i \in 1 .. Len(joinQ'[u])
               PROVE  \E j \in 1 .. Len(joinQ[u]) :
                         /\ joinQ'[u][i] = joinQ[u][j]
                         /\ j = IF u = t THEN i + 1 ELSE i
    OBVIOUS
  <2>1. CASE u = t
    <3>1. i \in 1 .. Len(joinQ[t]) - 1 /\ i + 1 \in 1 .. Len(joinQ[t])
      <4>1. i \in 1 .. Len(joinQ[t]) - 1
        BY <1>14, <2>1, Zenon
      <4>2. Len(joinQ[t]) \in Nat
        BY <1>3
      <4> QED
        BY <4>1, <4>2
    <3>2. joinQ'[t][i] = joinQ[t][i + 1]
      BY <1>14, <3>1
    <3> QED
      BY <2>1, <3>1, <3>2
  <2>2. CASE u # t
    BY <1>14, <2>2
  <2> QED
    BY <2>1, <2>2
<1>17. \A u \in Threads : \A i \in 1 .. Len(joinQ'[u]) : status'[joinQ'[u][i]] = "join"
  <2> SUFFICES ASSUME NEW u \in Threads, NEW i \in 1 .. Len(joinQ'[u])
               PROVE  status'[joinQ'[u][i]] = "join"
    OBVIOUS
  <2>1. i \in Nat
    BY <1>9
  <2>2. PICK j \in 1 .. Len(joinQ[u]) : /\ joinQ'[u][i] = joinQ[u][j]
                                        /\ j = IF u = t THEN i + 1 ELSE i
    BY <1>16, <2>1
  <2>3. joinQ[u][j] # w
    <3>1. joinQ[u][j] = joinQ[t][1] => u = t /\ j = 1
      BY <1>3 DEF IInv, JoinInv
    <3>2. u = t => j = i + 1 /\ i # 0
      BY <2>2
    <3> QED
      BY <1>3, <2>1, <3>1, <3>2
  <2>4. status[joinQ[u][j]] = "join"
    BY DEF IInv, JoinInv
  <2> QED
    BY <1>11, <1>15, <2>2, <2>3, <2>4
<1>18. \A u, v \in Threads : \A i \in 1 .. Len(joinQ'[u]), j \in 1 .. Len(joinQ'[v]) :
          joinQ'[u][i] = joinQ'[v][j] => u = v /\ i = j
  <2> SUFFICES ASSUME NEW u \in Threads, NEW v \in Threads,
                      NEW i \in 1 .. Len(joinQ'[u]), NEW j \in 1 .. Len(joinQ'[v]),
                      joinQ'[u][i] = joinQ'[v][j]
               PROVE  u = v /\ i = j
    OBVIOUS
  <2>1. i \in Nat /\ j \in Nat
    BY <1>9
  <2>2. PICK k \in 1 .. Len(joinQ[u]) : /\ joinQ'[u][i] = joinQ[u][k]
                                        /\ k = IF u = t THEN i + 1 ELSE i
    BY <1>16, <2>1
  <2>3. PICK l \in 1 .. Len(joinQ[v]) : /\ joinQ'[v][j] = joinQ[v][l]
                                        /\ l = IF v = t THEN j + 1 ELSE j
    BY <1>16, <2>1
  <2>4. u = v /\ k = l
    <3>1. joinQ[u][k] = joinQ[v][l]
      BY <2>2, <2>3
    <3>2. \A a, b \in Threads : \A m \in 1 .. Len(joinQ[a]), n \in 1 .. Len(joinQ[b]) :
             joinQ[a][m] = joinQ[b][n] => a = b /\ m = n
      BY DEF IInv, JoinInv
    <3> QED
      BY <3>1, <3>2
  <2> QED
    BY <2>1, <2>2, <2>3, <2>4
<1>19. ASSUME NEW x \in Threads, status'[x] = "join"
       PROVE  \E u \in Threads : \E i \in 1 .. Len(joinQ'[u]) : joinQ'[u][i] = x
  <2>1. x # w /\ status[x] = "join"
    BY <1>11, <1>19
  <2>2. PICK u \in Threads : \E i \in 1 .. Len(joinQ[u]) : joinQ[u][i] = x
    BY <2>1 DEF IInv, JoinInv
  <2>3. PICK i \in 1 .. Len(joinQ[u]) : joinQ[u][i] = x
    BY <2>2
  <2>4. CASE u # t
    BY <1>14, <2>3, <2>4
  <2>5. CASE u = t
    <3>1. i # 1 /\ i - 1 \in 1 .. Len(joinQ[t]) - 1 /\ (i - 1) + 1 = i
      BY <1>3, <2>1, <2>3, <2>5
    <3>2. joinQ'[t][i - 1] = x
      BY <1>14, <2>3, <2>5, <3>1
    <3> QED
      BY <1>14, <3>1, <3>2
  <2> QED
    BY <2>4, <2>5
<1>20. \A u \in Threads : joinQ'[u] # <<>> =>
          status'[u] # "dead" \/ (curK' = u /\ pc' = "notify")
  <2>1. \A u \in Threads : u # t /\ joinQ[u] # <<>> => status[u] # "dead"
    BY <1>1 DEF IInv, JoinInv
  <2> QED
    BY <1>1, <1>11, <1>14, <2>1
<1>21. JoinInv'
  BY <1>17, <1>18, <1>19, <1>20 DEF JoinInv
<1> QED
  BY <1>7, <1>10, <1>12, <1>13, <1>21 DEF IInv

\* The dying thread gives the processor away for good.
LEMMA NotifyAndDispatchInv ==
    ASSUME IInv, NEW t \in Threads, notifyAndDispatch(t) PROVE IInv'
<1>1. /\ curK = t /\ pc = "notify" /\ joinQ[t] = <<>> /\ atomicDispatch(rdyQ1)
      /\ UNCHANGED <<marked, status, joinQ, due, halted>>
  BY DEF notifyAndDispatch, Running
<1>2. Held(rdyQ1, rdyQ2, status, pollK) /\ pollK \notin Threads /\ curTid \in Tids
  BY <1>1, KernelNotThread DEF IInv, Holder, Kernel, TypeOK
<1>3. Held(rdyQ1', rdyQ2', status', curK') /\ Left
  BY <1>1, <1>2, HeldDispatch
<1>4. /\ TypeOK' /\ Held(rdyQ1, rdyQ2, status, Holder)' /\ RunsOwnId'
      /\ AtomicDiscipline' /\ PcInv'
  <2>1. /\ marked' \subseteq Tids /\ status' \in [Threads -> Statuses]
        /\ joinQ' \in [Threads -> Seq(Threads)] /\ due' \subseteq Threads
    BY <1>1 DEF IInv, TypeOK
  <2> QED
    BY <1>1, <1>3, <2>1, AfterLeft DEF IInv
<1>5. SleepInv'
  BY <1>1, SleepKept DEF IInv, TypeOK
<1>6. JoinInv'
  BY <1>1 DEF IInv, JoinInv
<1> QED
  BY <1>4, <1>5, <1>6 DEF IInv

\* joinBlock: the thread joins a thread that is alive.
LEMMA JoinBlockInv ==
    ASSUME IInv, NEW t \in Threads, NEW u \in Threads, joinBlock(t, u) PROVE IInv'
<1>1. /\ Running(t) /\ pc = "in" /\ status[u] # "dead"
      /\ status' = [status EXCEPT ![t] = "join"]
      /\ joinQ' = [joinQ EXCEPT ![u] = Append(joinQ[u], t)]
      /\ atomicDispatch(rdyQ1) /\ UNCHANGED <<marked, due, halted>>
  BY DEF joinBlock
<1>2. /\ curTid \in Tids /\ status[t] = "ready"
      /\ status \in [Threads -> Statuses] /\ joinQ \in [Threads -> Seq(Threads)]
      /\ marked \subseteq Tids /\ due \subseteq Threads /\ pollK \notin Threads
  BY <1>1, InRegion
<1>3. Held(rdyQ1, rdyQ2, status', pollK)
  BY <1>1, InRegion, HeldBlock
<1>4. Held(rdyQ1', rdyQ2', status', curK') /\ Left
  BY <1>1, <1>2, <1>3, HeldDispatch
<1>5. status' \in [Threads -> Statuses] /\ joinQ' \in [Threads -> Seq(Threads)]
  BY <1>1, <1>2 DEF Statuses
<1>6. /\ TypeOK' /\ Held(rdyQ1, rdyQ2, status, Holder)' /\ RunsOwnId'
      /\ AtomicDiscipline' /\ PcInv'
  BY <1>1, <1>2, <1>4, <1>5, AfterLeft DEF IInv
<1>7. \A x \in Threads : status'[x] = IF x = t THEN "join" ELSE status[x]
  BY <1>1, <1>2
<1>8. SleepInv'
  BY <1>1, <1>2, <1>7, SleepKept DEF IInv
<1>9. /\ \A v \in Threads : v # u => joinQ'[v] = joinQ[v]
      /\ joinQ[u] \in Seq(Threads) /\ Len(joinQ[u]) \in Nat
      /\ Len(joinQ'[u]) = Len(joinQ[u]) + 1
      /\ joinQ'[u][Len(joinQ[u]) + 1] = t
      /\ \A i \in 1 .. Len(joinQ[u]) : joinQ'[u][i] = joinQ[u][i]
  BY <1>1, <1>2
<1>10. \A v \in Threads : \A i \in 1 .. Len(joinQ[v]) :
          joinQ[v][i] \in Threads /\ joinQ[v][i] # t /\ status[joinQ[v][i]] = "join"
  BY <1>2 DEF IInv, JoinInv
\* an entry of a new cvar is an old entry or the new one
<1>11. \A v \in Threads : \A i \in 1 .. Len(joinQ'[v]) :
          \/ i \in 1 .. Len(joinQ[v]) /\ joinQ'[v][i] = joinQ[v][i]
          \/ v = u /\ i = Len(joinQ[u]) + 1 /\ joinQ'[v][i] = t
  <2> SUFFICES ASSUME NEW v \in Threads, NEW i \in 1 .. Len(joinQ'[v])
               PROVE  \/ i \in 1 .. Len(joinQ[v]) /\ joinQ'[v][i] = joinQ[v][i]
                      \/ v = u /\ i = Len(joinQ[u]) + 1 /\ joinQ'[v][i] = t
    OBVIOUS
  <2>1. CASE v = u
    BY <1>9, <2>1
  <2>2. CASE v # u
    BY <1>9, <2>2
  <2> QED
    BY <2>1, <2>2
<1>12. \A v \in Threads : \A i \in 1 .. Len(joinQ'[v]) : status'[joinQ'[v][i]] = "join"
  BY <1>7, <1>10, <1>11
<1>13. \A v, x \in Threads : \A i \in 1 .. Len(joinQ'[v]), j \in 1 .. Len(joinQ'[x]) :
          joinQ'[v][i] = joinQ'[x][j] => v = x /\ i = j
  <2> SUFFICES ASSUME NEW v \in Threads, NEW x \in Threads,
                      NEW i \in 1 .. Len(joinQ'[v]), NEW j \in 1 .. Len(joinQ'[x]),
                      joinQ'[v][i] = joinQ'[x][j]
               PROVE  v = x /\ i = j
    OBVIOUS
  <2>1. CASE joinQ'[v][i] = t
    <3>1. v = u /\ i = Len(joinQ[u]) + 1
      BY <1>10, <1>11, <2>1
    <3>2. x = u /\ j = Len(joinQ[u]) + 1
      BY <1>10, <1>11, <2>1
    <3> QED
      BY <3>1, <3>2
  <2>2. CASE joinQ'[v][i] # t
    <3>1. i \in 1 .. Len(joinQ[v]) /\ joinQ'[v][i] = joinQ[v][i]
      BY <1>11, <2>2
    <3>2. j \in 1 .. Len(joinQ[x]) /\ joinQ'[x][j] = joinQ[x][j]
      BY <1>11, <2>2
    <3>3. joinQ[v][i] = joinQ[x][j]
      BY <3>1, <3>2
    <3> QED
      BY <3>1, <3>2, <3>3 DEF IInv, JoinInv
  <2> QED
    BY <2>1, <2>2
<1>14. ASSUME NEW x \in Threads, status'[x] = "join"
       PROVE  \E v \in Threads : \E i \in 1 .. Len(joinQ'[v]) : joinQ'[v][i] = x
  <2>1. CASE x = t
    <3>1. Len(joinQ[u]) + 1 \in 1 .. Len(joinQ'[u])
      BY <1>9
    <3> QED
      BY <1>9, <2>1, <3>1
  <2>2. CASE x # t
    <3>1. PICK v \in Threads : \E i \in 1 .. Len(joinQ[v]) : joinQ[v][i] = x
      BY <1>7, <1>14, <2>2 DEF IInv, JoinInv
    <3>2. PICK i \in 1 .. Len(joinQ[v]) : joinQ[v][i] = x
      BY <3>1
    <3>3. i \in 1 .. Len(joinQ'[v]) /\ joinQ'[v][i] = x
      BY <1>9, <3>2
    <3> QED
      BY <3>3
  <2> QED
    BY <2>1, <2>2
<1>15. \A v \in Threads : joinQ'[v] # <<>> =>
          status'[v] # "dead" \/ (curK' = v /\ pc' = "notify")
  <2>1. \A v \in Threads : joinQ[v] # <<>> => status[v] # "dead"
    BY <1>1 DEF IInv, JoinInv
  <2> QED
    BY <1>1, <1>7, <1>9, <2>1
<1>16. JoinInv'
  BY <1>12, <1>13, <1>14, <1>15 DEF JoinInv
<1> QED
  BY <1>6, <1>8, <1>16 DEF IInv

\* A thread blocks in the operating system or on a channel.
LEMMA BlockInv ==
    ASSUME IInv, NEW t \in Threads, sleepOS(t) \/ sendBlock(t) \/ recvBlock(t)
    PROVE  IInv'
<1>1. PICK s \in {"os", "send", "recv"} : status' = [status EXCEPT ![t] = s]
  BY DEF sleepOS, sendBlock, recvBlock
<1>2. /\ Running(t) /\ pc = "in" /\ atomicDispatch(rdyQ1)
      /\ UNCHANGED <<marked, joinQ, due, halted>>
  BY DEF sleepOS, sendBlock, recvBlock
<1>3. /\ curTid \in Tids /\ status[t] = "ready"
      /\ status \in [Threads -> Statuses] /\ joinQ \in [Threads -> Seq(Threads)]
      /\ marked \subseteq Tids /\ due \subseteq Threads /\ pollK \notin Threads
  BY <1>2, InRegion
<1>4. Held(rdyQ1, rdyQ2, status', pollK)
  BY <1>1, <1>2, InRegion, HeldBlock
<1>5. Held(rdyQ1', rdyQ2', status', curK') /\ Left
  BY <1>2, <1>3, <1>4, HeldDispatch
<1>6. status' \in [Threads -> Statuses]
  BY <1>1, <1>3 DEF Statuses
<1>7. /\ TypeOK' /\ Held(rdyQ1, rdyQ2, status, Holder)' /\ RunsOwnId'
      /\ AtomicDiscipline' /\ PcInv'
  BY <1>2, <1>3, <1>5, <1>6, AfterLeft DEF IInv
<1>8. \A x \in Threads : status'[x] = IF x = t THEN s ELSE status[x]
  BY <1>1, <1>3
<1>9. SleepInv' /\ JoinInv'
  BY <1>2, <1>3, <1>8, SleepKept, JoinKept DEF IInv
<1> QED
  BY <1>7, <1>9 DEF IInv

\* send finds a receiver: the sender is enqueued, the receiver goes on.
LEMMA SendToWaitingInv ==
    ASSUME IInv, NEW t \in Threads, NEW r \in Threads, sendToWaiting(t, r)
    PROVE  IInv'
<1>1. /\ Running(t) /\ pc = "in" /\ status[r] = "recv"
      /\ status' = [status EXCEPT ![r] = "ready"] /\ marked' = marked \cup {t}
      /\ atomicEnd(r, enqueue(rdyQ1, t)) /\ UNCHANGED <<joinQ, due, halted>>
  BY DEF sendToWaiting
<1>2. Held(enqueue(rdyQ1, t), rdyQ2, status, pollK)
  BY <1>1, InRegion, HeldEnqueueSelf
<1>3. Held(enqueue(rdyQ1, t), rdyQ2, status', r)
  BY <1>1, <1>2, InRegion, HeldResume
<1>4. Held(rdyQ1', rdyQ2', status', curK') /\ Left
  BY <1>1, <1>3, HeldEnd
<1>5. status' \in [Threads -> Statuses]
  BY <1>1, InRegion DEF Statuses
<1>6. /\ TypeOK' /\ Held(rdyQ1, rdyQ2, status, Holder)' /\ RunsOwnId'
      /\ AtomicDiscipline' /\ PcInv'
  BY <1>1, <1>4, <1>5, InRegion, AfterLeft DEF IInv
<1>7. \A x \in Threads : status'[x] = IF x = r THEN "ready" ELSE status[x]
  BY <1>1, InRegion
<1>8. JoinInv' /\ SleepInv'
  BY <1>1, <1>7, InRegion, JoinKept, SleepKept DEF IInv
<1> QED
  BY <1>6, <1>8 DEF IInv

\* recv finds a sender, which switches back to the receiver.
LEMMA RecvFromWaitingInv ==
    ASSUME IInv, NEW t \in Threads, NEW s \in Threads, recvFromWaiting(t, s)
    PROVE  IInv'
<1>1. /\ Running(t) /\ pc = "in" /\ status[s] = "send"
      /\ status' = [status EXCEPT ![s] = "ready"]
      /\ atomicSwitchTo(t, s) /\ UNCHANGED <<joinQ, due, halted>>
  BY DEF recvFromWaiting
<1>2. Held(rdyQ1', rdyQ2', status', curK') /\ Left
  BY <1>1, InRegion, HeldSwitch
<1>3. status' \in [Threads -> Statuses] /\ marked' \subseteq Tids
  BY <1>1, InRegion DEF Statuses, atomicSwitchTo, Tids
<1>4. /\ TypeOK' /\ Held(rdyQ1, rdyQ2, status, Holder)' /\ RunsOwnId'
      /\ AtomicDiscipline' /\ PcInv'
  BY <1>1, <1>2, <1>3, InRegion, AfterLeft DEF IInv
<1>5. \A x \in Threads : status'[x] = IF x = s THEN "ready" ELSE status[x]
  BY <1>1, InRegion
<1>6. JoinInv' /\ SleepInv'
  BY <1>1, <1>5, InRegion, JoinKept, SleepKept DEF IInv
<1> QED
  BY <1>4, <1>6 DEF IInv

\* The timer signal outside atomic regions: the current continuation, user
\* thread or hook, moves to one of the queues.
LEMMA AlrmPreemptsInv ==
    ASSUME IInv, alrmPreempts PROVE IInv'
<1> DEFINE e == Entry(curTid, curK)
<1>1. /\ atomicState = "NonAtomic" /\ preempt /\ curK' = pollK
      /\ UNCHANGED <<curTid, pc, atomicState, status, joinQ, due, halted>>
  BY DEF alrmPreempts, dispatchSchedulerHook
<1>2. pc = "out"
  BY <1>1 DEF IInv, AtomicDiscipline, TypeOK, PCs
<1>3. Held(rdyQ1, rdyQ2, status, curK) /\ Holder' = pollK
  BY <1>1, <1>2 DEF IInv, Holder
<1>4. pollK \in Kernel /\ pollK \notin Threads /\ pollK \in Conts
  BY KernelNotThread DEF Kernel, Conts
<1>5. e \in Entries /\ e.k = curK /\ (curK \in Threads => e.tid = curK)
  BY DEF IInv, TypeOK, RunsOwnId, Entry, Entries
<1>6. Held(rdyQ1', rdyQ2', status, pollK)
  <2>1. CASE curTid \notin marked
    <3>1. rdyQ2' = Append(rdyQ2, e) /\ rdyQ1' = rdyQ1
      BY <1>1, <2>1 DEF preempt
    <3> QED
      BY <1>3, <1>4, <1>5, <3>1, HeldRequeue
  <2>2. CASE curTid \in marked /\ rdyQ2 = <<>>
    <3>1. rdyQ1' = Append(rdyQ1, e) /\ rdyQ2' = rdyQ2
      BY <1>1, <2>2 DEF preempt
    <3> QED
      BY <1>3, <1>4, <1>5, <3>1, HeldRequeue
  <2>3. CASE curTid \in marked /\ rdyQ2 # <<>>
    <3>1. /\ rdyQ1' = Append(Append(rdyQ1, Head(rdyQ2)), e)
          /\ rdyQ2' = Tail(rdyQ2)
      BY <1>1, <2>3 DEF preempt
    <3>2. Held(Append(rdyQ1, Head(rdyQ2)), Tail(rdyQ2), status, curK)
      BY <1>3, <2>3, HeldPromote
    <3> QED
      BY <1>4, <1>5, <3>1, <3>2, HeldRequeue
  <2> QED
    BY <2>1, <2>2, <2>3
<1>7. rdyQ1' \in Seq(Entries) /\ rdyQ2' \in Seq(Entries)
  BY <1>6 DEF Held, Proper
<1>8. marked' \subseteq Tids
  BY <1>1 DEF IInv, TypeOK, preempt
<1>9. TypeOK'
  BY <1>1, <1>4, <1>7, <1>8 DEF IInv, TypeOK
<1>10. RunsOwnId' /\ AtomicDiscipline' /\ PcInv'
  BY <1>1, <1>2, <1>4 DEF IInv, RunsOwnId, AtomicDiscipline, PcInv
<1>11. JoinInv' /\ SleepInv'
  BY <1>1, <1>2, JoinKept, SleepKept DEF IInv, TypeOK
<1> QED
  BY <1>1, <1>3, <1>6, <1>9, <1>10, <1>11 DEF IInv

\* The steps that move no continuation: the signal in a region, the entry of
\* a hook, Signals.pause, shutdown and the passing of time.
LEMMA QuietInv ==
    ASSUME IInv,
           \/ alrmPends \/ hookBegin \/ pause \/ shutdown
           \/ \E t \in Threads : timePasses(t)
    PROVE  IInv'
<1>0. /\ UNCHANGED <<curTid, curK, rdyQ1, rdyQ2, marked, status, joinQ>>
      /\ pc' \in {pc, "in", "pausing"} /\ (pc = "notify" => pc' = pc)
      /\ pc' = "pausing" => pc = "pausing" \/ curK = pauseK
      /\ atomicState' \in {atomicState, "Atomic", "SignalPending"}
  BY DEF alrmPends, hookBegin, pause, shutdown, timePasses
<1>1. Held(rdyQ1, rdyQ2, status, Holder)'
  BY <1>0 DEF IInv, Holder
<1>2. halted' \in BOOLEAN
  BY DEF IInv, TypeOK, alrmPends, hookBegin, pause, shutdown, timePasses
<1>3. due' \subseteq Threads /\ SleepInv'
  BY DEF IInv, TypeOK, SleepInv, Sleepers, alrmPends, hookBegin, pause, shutdown, timePasses
<1>4. TypeOK'
  BY <1>0, <1>2, <1>3 DEF IInv, TypeOK, PCs
<1>5. RunsOwnId' /\ PcInv'
  BY <1>0 DEF IInv, RunsOwnId, PcInv
<1>6. AtomicDiscipline'
  BY DEF IInv, AtomicDiscipline, alrmPends, hookBegin, pause, shutdown, timePasses
<1>7. JoinInv'
  BY <1>0 DEF IInv, JoinInv
<1> QED
  BY <1>1, <1>3, <1>4, <1>5, <1>6, <1>7 DEF IInv

\* What is known while a kernel continuation has the processor.
LEMMA InKernel ==
    ASSUME IInv, curK \in Kernel
    PROVE  /\ pc # "notify" /\ curK \notin Threads /\ Held(rdyQ1, rdyQ2, status, curK)
           /\ curTid \in Tids /\ status \in [Threads -> Statuses]
           /\ joinQ \in [Threads -> Seq(Threads)]
           /\ marked \subseteq Tids /\ due \subseteq Threads /\ halted \in BOOLEAN
<1>1. curK \notin Threads
  BY KernelNotThread
<1>2. pc # "notify"
  BY <1>1 DEF IInv, PcInv
<1> QED
  BY <1>1, <1>2 DEF IInv, TypeOK, Holder

\* A poll makes a sleeper ready.
LEMMA PollWakesInv ==
    ASSUME IInv, NEW t \in Threads, pollWakes(t) PROVE IInv'
<1>1. /\ curK \in Hooks /\ pc = "in" /\ t \in due
      /\ marked' = marked \cup {t} /\ rdyQ1' = enqueue(rdyQ1, t)
      /\ status' = [status EXCEPT ![t] = "ready"] /\ due' = due \ {t}
      /\ UNCHANGED <<curTid, curK, pc, rdyQ2, atomicState, joinQ, halted>>
  BY DEF pollWakes
<1>2. curK \in Kernel /\ status[t] = "os"
  BY <1>1 DEF Hooks, Kernel, IInv, SleepInv
<1>3. /\ Held(rdyQ1, rdyQ2, status, curK) /\ status \in [Threads -> Statuses]
      /\ joinQ \in [Threads -> Seq(Threads)]
      /\ marked \subseteq Tids /\ due \subseteq Threads /\ curK \notin Threads
  BY <1>2, InKernel
<1>4. Held(rdyQ1', rdyQ2', status', curK')
  BY <1>1, <1>2, <1>3, HeldEnqueueOther
<1>5. Holder' = curK'
  BY <1>1 DEF Holder
<1>6. status' \in [Threads -> Statuses] /\ rdyQ1' \in Seq(Entries)
  BY <1>1, <1>3, <1>4 DEF Held, Proper, Statuses
<1>7. marked' \subseteq Tids /\ due' \subseteq Threads
  BY <1>1, <1>3 DEF Tids
<1>8. TypeOK'
  BY <1>1, <1>6, <1>7 DEF IInv, TypeOK
<1>9. RunsOwnId' /\ AtomicDiscipline' /\ PcInv'
  BY <1>1 DEF IInv, RunsOwnId, AtomicDiscipline, PcInv
<1>10. \A x \in Threads : status'[x] = IF x = t THEN "ready" ELSE status[x]
  BY <1>1, <1>3
<1>11. SleepInv'
  BY <1>1, <1>3, <1>10 DEF IInv, SleepInv
<1>12. JoinInv'
  BY <1>1, <1>2, <1>3, <1>10, JoinKept DEF IInv
<1> QED
  BY <1>4, <1>5, <1>8, <1>9, <1>11, <1>12 DEF IInv

\* A kernel continuation dispatches.
LEMMA HookDispatchInv ==
    ASSUME IInv, hookDispatch PROVE IInv'
<1>1. /\ curK \in Kernel /\ atomicDispatch(rdyQ1)
      /\ UNCHANGED <<marked, status, joinQ, due, halted>>
  BY DEF hookDispatch, Kernel
<1>2. Held(rdyQ1', rdyQ2', status', curK') /\ Left
  BY <1>1, InKernel, HeldDispatch
<1>3. /\ TypeOK' /\ Held(rdyQ1, rdyQ2, status, Holder)' /\ RunsOwnId'
      /\ AtomicDiscipline' /\ PcInv'
  BY <1>1, <1>2, InKernel, AfterLeft DEF IInv
<1>4. JoinInv' /\ SleepInv'
  BY <1>1, InKernel, JoinKept, SleepKept DEF IInv
<1> QED
  BY <1>3, <1>4 DEF IInv

\* The signal ends Signals.pause.
LEMMA PauseReturnsInv ==
    ASSUME IInv, pauseReturns PROVE IInv'
<1>1. /\ pc = "pausing" /\ atomicState' = "SignalPending" /\ pc' = "out"
      /\ curK' = pollK
      /\ UNCHANGED <<curTid, rdyQ1, rdyQ2, marked, status, joinQ, due, halted>>
  BY DEF pauseReturns, dispatchSchedulerHook
<1>2. curK \in Kernel /\ pollK \in Kernel /\ pollK \notin Threads
  BY <1>1, KernelNotThread DEF IInv, PcInv, Kernel
<1>3. Held(rdyQ1', rdyQ2', status', curK')
  BY <1>1, <1>2, InKernel, HeldKernel
<1>4. Left
  BY <1>1, <1>2, InKernel DEF Left, Conts
<1>5. /\ TypeOK' /\ Held(rdyQ1, rdyQ2, status, Holder)' /\ RunsOwnId'
      /\ AtomicDiscipline' /\ PcInv'
  BY <1>1, <1>2, <1>3, <1>4, InKernel, AfterLeft DEF IInv
<1>6. JoinInv' /\ SleepInv'
  BY <1>1, <1>2, InKernel, JoinKept, SleepKept DEF IInv
<1> QED
  BY <1>5, <1>6 DEF IInv

\* pauseK gives up: it halts, or a signal sends its end to the queue.
LEMMA PauseGivesUpInv ==
    ASSUME IInv, pauseGivesUp PROVE IInv'
<1> DEFINE e == Entry(curTid, shutdownK)
<1>1. /\ curK = pauseK /\ pc = "in" /\ pc' = "out"
      /\ UNCHANGED <<curTid, rdyQ2, marked, status, joinQ, due>>
  BY DEF pauseGivesUp
<1>2. /\ curK \in Kernel /\ pollK \in Kernel /\ pollK \notin Threads
      /\ shutdownK \in Kernel /\ shutdownK \notin Threads
  BY <1>1, KernelNotThread DEF Kernel
<1>3. JoinInv' /\ SleepInv'
  BY <1>1, <1>2, InKernel, JoinKept, SleepKept DEF IInv
<1>4. CASE atomicState = "SignalPending"
  <2>1. /\ rdyQ1' = Append(rdyQ1, e) /\ curK' = pollK
        /\ atomicState' = "SignalPending" /\ halted' = halted
    BY <1>4 DEF pauseGivesUp, dispatchSchedulerHook
  <2>2. e \in Entries /\ e.k = shutdownK
    BY <1>2, InKernel DEF Entry, Entries, Conts
  <2>3. Held(Append(rdyQ1, e), rdyQ2, status, curK)
    BY <1>2, <2>2, InKernel, HeldEnqueueKernel
  <2>4. Held(rdyQ1', rdyQ2', status', curK')
    BY <1>1, <1>2, <2>1, <2>3, InKernel, HeldKernel
  <2>5. Left
    BY <1>1, <1>2, <2>1, InKernel DEF Left, Conts
  <2>6. /\ TypeOK' /\ Held(rdyQ1, rdyQ2, status, Holder)' /\ RunsOwnId'
        /\ AtomicDiscipline' /\ PcInv'
    BY <1>1, <1>2, <2>1, <2>4, <2>5, InKernel, AfterLeft DEF IInv
  <2> QED
    BY <1>3, <2>6 DEF IInv
<1>5. CASE atomicState # "SignalPending"
  <2>1. atomicState' = "NonAtomic" /\ halted' = TRUE /\ rdyQ1' = rdyQ1 /\ curK' = curK
    BY <1>5 DEF pauseGivesUp
  <2>2. TypeOK'
    BY <1>1, <2>1 DEF IInv, TypeOK, PCs
  <2>3. Held(rdyQ1, rdyQ2, status, Holder)'
    BY <1>1, <2>1 DEF IInv, Holder
  <2>4. RunsOwnId' /\ AtomicDiscipline' /\ PcInv'
    BY <1>1, <2>1 DEF IInv, RunsOwnId, AtomicDiscipline, PcInv
  <2> QED
    BY <1>3, <2>2, <2>3, <2>4 DEF IInv
<1> QED
  BY <1>4, <1>5

\* Every step keeps the invariant.
LEMMA NextInv == IInv /\ [Next]_vars => IInv'
<1> SUFFICES ASSUME IInv, [Next]_vars PROVE IInv'
  OBVIOUS
<1>1. ASSUME NEW t \in Threads, ThreadStep(t) PROVE IInv'
  <2>1. ASSUME NEW u \in Threads,
               \/ spawn(t, u) \/ joinBlock(t, u)
               \/ sendToWaiting(t, u) \/ recvFromWaiting(t, u)
        PROVE  IInv'
    BY <2>1, SpawnInv, JoinBlockInv, SendToWaitingInv, RecvFromWaitingInv
  <2> QED
    BY <1>1, <2>1, EnterAtomicInv, LeaveInv, YieldInv, ExitInv, NotifyJoinerInv,
       NotifyAndDispatchInv, BlockInv DEF ThreadStep
<1>2. ASSUME KernelStep PROVE IInv'
  BY <1>2, QuietInv, HookDispatchInv, PauseReturnsInv, PauseGivesUpInv,
     PollWakesInv DEF KernelStep
<1>3. CASE UNCHANGED vars
  BY <1>3 DEF IInv, vars, TypeOK, Holder, RunsOwnId, AtomicDiscipline, PcInv,
     SleepInv, JoinInv
<1> QED
  BY <1>1, <1>2, <1>3, QuietInv, AlrmPreemptsInv DEF Next, Terminated

-----------------------------------------------------------------------------
(* The theorems.                                                            *)

\* The inductive invariant holds in every reachable state.
THEOREM Invariance == Spec => []IInv
<1>1. Init => IInv
  BY InitInv
<1>2. IInv /\ [Next]_vars => IInv'
  BY NextInv
<1> QED
  BY <1>1, <1>2, PTL DEF Spec

\* Every variable keeps its type, for any set of threads.
THEOREM TypeCorrect == Spec => []TypeOK
<1>1. IInv => TypeOK
  BY DEF IInv
<1> QED
  BY <1>1, Invariance, PTL

\* The atomic region is entered and left exactly once around every operation.
THEOREM RegionsBalanced == Spec => []AtomicDiscipline
<1>1. IInv => AtomicDiscipline
  BY DEF IInv
<1> QED
  BY <1>1, Invariance, PTL

\* getCurThread answers the running thread, and queue entries carry the id of
\* the thread they resume.
THEOREM RegisterCorrect == Spec => []RegisterMatches
<1>1. IInv => RegisterMatches
  <2> SUFFICES ASSUME IInv PROVE RegisterMatches
    OBVIOUS
  <2>1. Proper(rdyQ1) /\ Proper(rdyQ2)
    BY DEF IInv, Held
  <2>2. /\ DOMAIN rdyQ1 = 1 .. Len(rdyQ1) /\ DOMAIN rdyQ2 = 1 .. Len(rdyQ2)
    BY <2>1 DEF Proper
  <2>3. curK \in Threads => curTid = curK
    BY DEF IInv, RunsOwnId
  <2> QED
    BY <2>1, <2>2, <2>3 DEF Proper, RegisterMatches
<1> QED
  BY <1>1, Invariance, PTL

\* No thread is lost and none is resumed twice: a ready thread has exactly
\* one place, the processor or one slot of one ready queue, for any number of
\* threads and whatever the timer signal interrupts.
THEOREM NoThreadLost == Spec => []OneContinuation
<1>1. IInv => OneContinuation
  <2> SUFFICES ASSUME IInv, NEW t \in Threads
               PROVE  /\ curK = t => Places(t) = {}
                      /\ \A p, q \in Places(t) : p = q
                      /\ status[t] = "ready" <=>
                            Places(t) # {} \/ (curK = t /\ pc # "notify")
    BY DEF OneContinuation
  <2>1. Proper(rdyQ1) /\ Proper(rdyQ2) /\ Held(rdyQ1, rdyQ2, status, Holder)
    BY DEF IInv, Held
  <2>2. DOMAIN rdyQ1 = 1 .. Len(rdyQ1) /\ DOMAIN rdyQ2 = 1 .. Len(rdyQ2)
    BY <2>1 DEF Proper
  <2>3. \A p : p \in Places(t) <=>
           \/ \E i \in 1 .. Len(rdyQ1) : rdyQ1[i].k = t /\ p = <<1, i>>
           \/ \E i \in 1 .. Len(rdyQ2) : rdyQ2[i].k = t /\ p = <<2, i>>
    BY <2>2 DEF Places
  <2>4. Places(t) # {} <=> In(rdyQ1, t) \/ In(rdyQ2, t)
    BY <2>3 DEF In
  <2>5. pollK \notin Threads
    BY KernelNotThread DEF Kernel
  <2>6. Holder = t <=> curK = t /\ pc # "notify"
    BY <2>5 DEF Holder
  <2>7. curK = t => ~In(rdyQ1, t) /\ ~In(rdyQ2, t)
    <3>1. CASE pc = "notify"
      BY <2>1, <3>1 DEF Held, IInv, PcInv
    <3>2. CASE pc # "notify"
      BY <2>1, <2>6, <3>2 DEF Held
    <3> QED
      BY <3>1, <3>2
  <2>8. status[t] = "ready" <=> In(rdyQ1, t) \/ In(rdyQ2, t) \/ t = Holder
    BY <2>1 DEF Held
  <2>9. ASSUME NEW p \in Places(t), NEW q \in Places(t) PROVE p = q
    <3>1. ~(In(rdyQ1, t) /\ In(rdyQ2, t))
      BY <2>1 DEF Held
    <3>2. CASE In(rdyQ1, t)
      <4>1. PICK i \in 1 .. Len(rdyQ1) : rdyQ1[i].k = t /\ p = <<1, i>>
        BY <2>3, <3>1, <3>2 DEF In
      <4>2. PICK j \in 1 .. Len(rdyQ1) : rdyQ1[j].k = t /\ q = <<1, j>>
        BY <2>3, <3>1, <3>2 DEF In
      <4> QED
        BY <2>1, <4>1, <4>2 DEF Proper
    <3>3. CASE ~In(rdyQ1, t)
      <4>1. PICK i \in 1 .. Len(rdyQ2) : rdyQ2[i].k = t /\ p = <<2, i>>
        BY <2>3, <3>3 DEF In
      <4>2. PICK j \in 1 .. Len(rdyQ2) : rdyQ2[j].k = t /\ q = <<2, j>>
        BY <2>3, <3>3 DEF In
      <4> QED
        BY <2>1, <4>1, <4>2 DEF Proper
    <3> QED
      BY <3>2, <3>3
  <2> QED
    BY <2>4, <2>6, <2>7, <2>8, <2>9
<1> QED
  BY <1>1, Invariance, PTL

\* A thread blocked in a join sits in exactly the dead cvar of a thread that
\* is alive, or that is waking its joiners at this moment.
THEOREM JoinersWoken == Spec => []JoinersAreHeard
<1>1. IInv => JoinersAreHeard
  <2> SUFFICES ASSUME IInv PROVE JoinersAreHeard
    OBVIOUS
  <2>1. \A u \in Threads : joinQ[u] \in Seq(Threads)
    BY DEF IInv, TypeOK
  <2>2. \A u \in Threads : DOMAIN joinQ[u] = 1 .. Len(joinQ[u])
    BY <2>1
  <2>3. ASSUME NEW t \in Threads, status[t] = "join"
        PROVE  \E u \in Threads :
                  /\ \E i \in DOMAIN joinQ[u] : joinQ[u][i] = t
                  /\ status[u] # "dead" \/ (curK = u /\ pc = "notify")
    <3>1. PICK u \in Threads : \E i \in 1 .. Len(joinQ[u]) : joinQ[u][i] = t
      BY <2>3 DEF IInv, JoinInv
    <3>2. joinQ[u] # <<>>
      BY <2>1, <3>1
    <3> QED
      BY <2>2, <3>1, <3>2 DEF IInv, JoinInv
  <2>4. ASSUME NEW t \in Threads, NEW u \in Threads,
               \E i \in DOMAIN joinQ[u] : joinQ[u][i] = t
        PROVE  status[t] = "join"
    BY <2>2, <2>4 DEF IInv, JoinInv
  <2>5. \A u, v \in Threads : \A i \in DOMAIN joinQ[u], j \in DOMAIN joinQ[v] :
           joinQ[u][i] = joinQ[v][j] => u = v /\ i = j
    BY <2>2 DEF IInv, JoinInv
  <2> QED
    BY <2>3, <2>4, <2>5 DEF JoinersAreHeard
<1> QED
  BY <1>1, Invariance, PTL
=============================================================================
