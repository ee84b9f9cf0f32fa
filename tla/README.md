# A TLA+ model of Standard ML of New Jersey's run-time system and of Concurrent ML

The repository holds the SML/NJ compiler, its run-time system, the compilation
manager CM, libraries and tools.  Most of it is sequential translation.  Two
parts are correct or not by the order in which things happen:

* the *run-time system* in C (`src/runtime`): a generational copying collector
  under a mutator that it moves objects away from, the memory behind it,
  signals that arrive at any instruction, C functions that hold ML pointers the
  collector does not know, interpreters that build literals while the heap is
  collected under them, and heap images that are written by one process and
  loaded by another;
* *Concurrent ML* (CML, `src/libraries/cml/src`): a preemptive thread system
  written with first-class continuations, with synchronous channels,
  first-class events, negative acknowledgements, synchronous variables,
  barriers, and hooks that connect it to the operating system.

The project models both.  They meet at the signals: the timer signal whose
handler preempts CML threads is delivered by the run loop of the run-time
system (`Signals`), and its handler is the `alrmPreempts` and `alrmPends` of
`Scheduler`.

## 1. Inventory

### Run-time system (paths relative to `src/runtime`)

| Part | State | Operations | What is hard | What makes it correct |
|---|---|---|---|---|
| Collector (`gc/minor-gc.c`, `major-gc.c`, `call-gc.c`, `ml-objects.c`, `check-heap.c`) | objects in arenas of up to 14 generations, store list, card marks, weak list | allocate, store, `InvokeGC` at any level | an old object refers to a young one only through the store list or a card; weak pointers met before or after their referent | what the mutator reaches survives unchanged; what it does not is reclaimed |
| Arenas and memory (`gc/flip.c`, `gc-util.c`, `call-gc.c`, `memory/`, `bibop.h`) | sizes and bases of to- and from-spaces, cached memory objects, the two-level page table | `Flip`, `NewGeneration`, `FreeGeneration`, `TrimHeap`, `MarkRegion` | the size of a to-space is fixed before it is known what survives | no arena overflows; every address finds its arena; no memory lost or used twice |
| Big objects (`gc/big-objects.c`) | regions of pages, free and used descriptors in lists | allocate, free and merge | code labels point into the middle of an object | descriptors tile their regions |
| Signals and run loop (`kernel/run-ml.c`, `mach-dep/unix-signal.c`, `signal-util.c`, `AMD64.prim.asm`) | counters of received and handled signals, three flags, the heap limit, signal states and mask | one action per request of `RunML`, the C handler, entry to and exit from ML | a signal between any two steps | one handler at a time, no signal forgotten, interrupted code goes on where it was |
| C libraries (`c-libs/`, Unix and Windows), boot loader (`kernel/boot.c`, `main.c`) | C variables, space in the allocation arena, `errno`, malloced blocks | some 350 functions that ML code calls | any allocation may collect; any system call may fail, half-way | no stale pointer, the right error, no leak, no overflow |
| Literals (`gc/build-literals-v2.c`, `-v3.c`, `old-literals.c`) | stack, saved values, space counter | one per instruction of the byte code | values in C variables across collections; short and wide encodings written by the compiler and read in C | the literal is the one the compiler meant |
| Heap images (`gc/export-heap.c`, `import-heap.c`, `heap-in-util.c`, `heap-out-util.c`, `writer.c`, `c-globals-tbl.c`) | heap, export table, file | scan, write, repair, read, relocate | a write may fail in the middle; addresses mean something else in the other process | the loaded heap means what the saved one did; a torn image is refused |

### Concurrent ML (paths relative to `src/libraries/cml/src`)

| Part | State | Operations | What is hard | What makes it correct |
|---|---|---|---|---|
| Scheduler (`core-cml/scheduler.sml`) | two ready queues, atomic state, current-thread register, done-comm marks, hooks, cached clock | enqueue, dispatch, switch, yield, preempt, promote, enter and leave a region | a timer signal between any two steps, or pending inside a region | every thread's continuation is in exactly one place; regions are balanced; no ready thread starves |
| Threads (`thread.sml`) | one "dead" condition variable per thread | spawn, exit, join, yield | a join that races an exit | every joiner is woken |
| Hooks (`glue/export-fn-fn.sml`, `Unix/unix-glue.sml`) | - | pollK, pauseK | they run between threads and are preemptible at their entry | sleepers are woken; shutdown only when nothing can run |
| Channels (`channel.sml`) | two queues of waiting transactions, a priority | send, recv, their events and polls, lazy clean-up | queue entries whose transaction was cancelled elsewhere | no missed and no double rendezvous |
| Events (`event.sml`) | per synchronization: transaction id, commit flags, flag sets; condition variables | force, sync, select, withNack | one commit cancels many offers and sets nacks, which wake threads whose commits set more nacks, all in one region | commits in matched pairs; a nack exactly for the losers |
| Queues (`queue.sml`) | front and rear list | enqueue, dequeue, next, reset, remove, and the clean-ups of `channel.sml` | destructive clean-up of two lists in several orders | FIFO order of the live entries |
| Synchronous variables (`sync-var.sml`) | cell contents, queue of waiters | put, get, take, swap, events and polls | a put is relayed from waiter to waiter in one region | no lost wake-up, values conserved |
| Barriers (`barrier.sml`) | two counters, waiting list, status per enrollment | enroll, wait, resign | counters, list and statuses change separately over many rounds; an update may raise; members resign in the middle of a round | all members pass together, nobody is left behind |
| Registries (`cleanup.sml`) | hook list, three lists of logged items, an M-variable as lock | addCleaner, removeCleaner, log, unlog, unlogAll, clean, exportFnCleanup | read-modify-write with preemption in between; nested locking; bodies that raise; unlogAll, which takes no lock | no lost update, every call returns |
| Mailboxes (`mailbox.sml`), time-outs (`timeout.sml`), start-up (`glue/run-cml-fn.sml`), I/O and process managers, multicast and RPC | see section 5 | | | |

How they interact.  Every CML operation that blocks or wakes a thread runs in
an atomic region of the scheduler.  A region is exclusive because CML runs on
one processor and the timer handler does nothing but set a flag while a region
is open.  Channels, variables, time-outs and condition variables share the
*transaction id*: a reference cell that holds the blocked thread, and CANCEL
once any one event of its choice is committed.  ML code leaves to the run loop
with a request; the run loop collects, calls a C function, or starts an ML
signal handler, and enters ML again.  C functions, the literal builders and the
boot loader call the allocation functions of `ml-objects.c`, which call the
collector; the collector calls `Flip`, `NewGeneration` and the big-object
allocator; export and import work on the heap the collector leaves.

`PROJECT.json` lists all components, modelled or not, and the hazards: the
points of the code where an order of steps, a stale value, a failing call or a
boundary could go wrong, each with the properties that cover it.

## 2. Modules

| Module | Models | State and actions |
|---|---|---|
| `GcHeap` | `card-map.h`, `ml-objtypes.h`, the parts of `gc.h` both collectors use | cells with generation, arena, age, tag and fields; forwarding, cards |
| `MinorGC` over `GcHeap` | `minor-gc.c` | what a minor collection does to a heap, as operators: roots, store list, sweep, weak pointers |
| `MajorGC` over `MinorGC` | `major-gc.c` | the collection of generations 1 to n: cards, the sweeps of every arena, big objects and labels, special objects |
| `Collector` over `MajorGC` | `call-gc.c`, `ml-objects.c`, `check-heap.c`, and the mutator (external) | one action per kind of allocation, `Store`, `Load`, `Clear`, `InvokeGC`, `ML_AllocArrayData`.  A collection is one step: nothing else runs meanwhile |
| `HeapSpace` | `flip.c`, `gc-util.c`, `call-gc.c`, `ml-objects.c`, `memory/`, `bibop.h` | objects are amounts of space, what survives is arbitrary; sizes, memory objects and page table are those of the code |
| `Signals` | `run-ml.c`, `unix-signal.c`, `signal-util.c`, `ml-signals.h`, the entry and exit code of `AMD64.prim.asm` | one action per request and per step between which a signal matters; `Send` and the steps of ML code are external |
| `CFun` | the discipline of a C function: ML pointers, allocation, checks, system calls, malloc, `errno` | a small machine that runs a C function given as a program |
| `PosixFuns`, `SocketFuns`, `RuntimeFuns`, `Win32Funs`, `BootFuns` | the bodies of the C functions, one definition each, as programs of `CFun` | calls, branches, loops and early returns of the source; of the data only pointers, sizes and blocks |
| `LiteralCode` | the encoders of `src/compiler/CPS/main/literals.sml` and the decoders of `build-literals-v2.c`, `-v3.c`, `old-literals.c` | instructions as byte sequences |
| `Literals` over `LiteralCode` | the three interpreters with their roots, space counters and collections | one action per group of instructions |
| `LiteralSpec` | abstract: a stack machine without a heap | |
| `CGlobals`, `BigObjects`, `HeapExport`, `HeapImport`, `HeapImage` (each extends the one before) | `c-globals-tbl.c`, `addr-hash.c`; `big-objects.c`; `export-heap.c`, `heap-out-util.c`, `writer.c`; `import-heap.c`, `heap-in-util.c`; the program and its successor | allocation and release of code objects, a store, `ExportImage` in the pieces between which a write fails, reading and relocation |
| `Scheduler` | `scheduler.sml`, `thread.sml`, the hooks, and how channels, time-outs and events block and wake | one action per operation, one for the signal outside (`alrmPreempts`) and inside (`alrmPends`) a region, one per step of the hooks |
| `Event` | `event.sml` and `channel.sml` | `force`, `syncReady`, `syncBlock`, `send`, `recv`, `timeoutFires`; the steps of a region that commits are on an agenda, because setting nacks and transferring control affect each other |
| `Rendezvous` | abstract: a step decides one send and one receive together, or one event that needs no partner | |
| `Queue` | `queue.sml` and the clean-ups of `channel.sml` | front and rear lists; a cancellation may fall between the poll and the dequeue of a region; `remove` takes any predicate |
| `LiveQueue` | abstract: a FIFO queue from which cancelled items vanish at once | |
| `SyncVar` | `sync-var.sml` | put, take, swap, block, cancel, and the resumption of each kind of waiter |
| `Barrier` | `barrier.sml` | enroll, waitBlock, waitLast, waitFails, resign; beside the code's counters, list and statuses, who is blocked since which round and what a wait returned |
| `CleanUp` | `cleanup.sml` | the call each thread is in; lock, read, second read, write, unlock (after a return or an exception) and the cleaners are separate steps; `unlogAll` and `exportFnCleanup` take no lock |
| `Subsequence` | what a clean-up, a poll or a removal leaves of a list | `Filter(s, A)`: what is left of a sequence, defined by positions and without recursion |
| `SchedulerProofs`, `SyncVarProofs`, `BarrierProofs`, `SignalsProofs`, `CleanUpProofs`, `QueueProofs`, `EventProofs` | theorems | |
| `SubsequenceProofs` | lemmas on filtered, reversed and concatenated sequences for the last three | |
| `MC...` | constants for TLC | |

Abstractions to know of.

* *Collector.*  An object is a cell, an address the number of a cell; a pointer
  into an arena is enough to know generation and arena, as the BIBOP says
  (`HeapSpace` shows that it does say so).  Raw data is not kept.  A birth
  number that copies keep serves the properties only.  `lost` records that a
  collection met a case for which the code has none (section 6); what the heap
  is worth then is left open.
* *HeapSpace.*  Sizes are in units of a few pages; the arithmetic of `Flip`,
  the rounding to pages and the order of the updates are the code's.  The page
  table is that of a 64-bit build.  `crowded` is a history variable: the arenas
  in which a large object has taken the room of new space since the last
  collection.
* *Signals.*  The heap is a counter of free units; ML code is a task that
  counts its steps, and a handler that may return to any task.  The counters
  are unbounded; each of a bounded number of signals is sent once.
* *CFun.*  What a function computes is left out.  A function's check for space
  is in words, with the numbers of the code; lists have one of four lengths on
  both sides of every check.
* *Literals.*  Sizes are scaled down, and nothing is assumed of the number of
  saved values: both a saved array larger than a small object and a root record
  larger than the buffer occur.  `SpaceAssumption` states what the code's own
  numbers satisfy.  Numbers in literals are pairs, so that the 64-bit forms are
  there although TLC's integers have 32 bits; the widest have 63 bits.  Where
  the C code has undefined behaviour (stale byte code, a write past the buffer)
  the model stops.
* *Heap images.*  An arena is a sequence of words, a word an immediate, a
  pointer or raw; addresses of the two processes overlap on purpose.  The heap
  exported is the one its two leading collections leave.  Each write of an
  image fails or succeeds, whether the code looks at its result or not, and the
  end of the file may never be flushed; a read past the end is
  an error only where the code looks at the result.
* *CML.*  Data is left out of channels (a rendezvous is a pair of base events)
  and kept in `SyncVar`, where every put and swap brings a value of its own.
  In `Event` a poll sees a queue without its cancelled entries; that the lazy
  clean-ups amount to this is what `Queue` shows.  `Event` works on the list of
  base events and nack sets that `collect` computes; wrappers and guards are
  user code.  The clock is abstract: a sleeper is due or not.  The random
  choice among enabled events with highest priority is nondeterministic.

Definitions named after a mapped definition with a suffix and headed "Mutant"
are deliberate mistakes, not part of the specifications: they document that a
property would notice the mistake.

## 3. What TLC checks

Bounds are CONSTANTS and named: `MaxAlloc`, `MaxOps`, `MaxGC`, `MaxHeap`
(mutator and collections), `NumPages` (memory), `MaxSigs`, `MaxFill`,
`MaxCalls` (signals sent, allocations, calls of the run-time system),
`MaxInstrs`, `MaxDepth`, `MaxOuter`, `Saveds` (literal programs), `MaxCode`, `MaxObjs`,
`MaxExports`, `MaxTorn`, `MaxGarbage` (images; what is taken for the number of externs if that was not read), `MaxHooks` (hook continuations in the queues), `MaxSync`
(synchronizations per thread), `MaxNacks`, `MaxQ` (items in a variable's
queue), `MaxRounds` (barrier rounds).

| Run | Instance | Shows |
|---|---|---|
| `gc` | 3 generations, 2 cells per card, 2 registers, 2 allocations over an array of any generation, a store, load or lost register, 2 collections | `GcPreserves`: a collection is invisible to the mutator; `RememberedSet`, `WeakExact`, `FullGcReclaims`; `NoDie`: no `Die`, failed assertion or heap that `check-heap.c` rejects.  Three generations give an object two promotions, and a card with two cells one that is young for the sake of its neighbour.  A collection that is `lost` is excepted (section 6) |
| `heapSpace` | 3 generations, 2 arenas, 24 pages, 4 collections, any survivors, memory that may run out, large objects of more than twice the size of new space | `SpaceSuffices` (no arena overflows, and the next minor collection has room, but in an arena that is `crowded`), `BibopCovers`, `MemoryOwned`.  Four collections are what it takes to cache a from-space, reuse it and give it back |
| `signals` | one system signal and the collector's, 2 tasks, 2 signals | `NoSpin`, `OneHandler`, `NoLostWork`, and `SignalsHandled` under fairness.  The second signal arrives while the first is pending, chosen, handled or paused for |
| `cfuns` | all C functions, the least and an ample amount of space, lists of 1, 145, 400 and 2000 elements, C types nested to `TypeDepth` 2, call-backs into ML with types to `CallbackDepth` 1 | `NoStaleUse`, `ErrnoExact`, `NoLeak`, `FitsReserve`, along every branch, failure and collection, but for the functions the cfg names as exceptions (section 6) |
| `literals` | programs of up to 5 instructions for a stack of 3 and 2 or 5 saved values, all three versions, a heap of 12 words with a buffer of 6, small objects of up to 4 | `CodecExact` (in versions 2 and 3 decoding is the inverse of encoding, at every boundary between the forms of 1, 2, 4 and 8 bytes), `RootsAreLive`, `Fits`, and each interpreter implements `LiteralSpec`; the exceptions are `m.bare`, `m.over` and `m.manyRoots` (section 6) |
| `image` | 2 generations, 4 operations on code objects and 2 other objects, 2 exports, tables that have to grow | `RoundTrip`, `ImportRemembers`, `BigObjectsTile`, and, with any write failing for heaps of up to 2 objects (`MaxTorn`), `ExportRestores`, `TornRefused`.  Four operations are what it takes for a freed object to meet a free neighbour below, above and on both sides |
| `scheduler` | 2 threads, one preempted hook, fair | `OneContinuation`, `AtomicDiscipline`, `JoinersAreHeard` under a signal at every point; `SleepersWake`, `NoStarvation`; deadlock is checked too: the model stops nowhere.  The safety part is proved for any number of threads |
| `event` | 3 threads, 2 channels, 2 synchronizations each, 2 programs | the programs mix choices in both directions, time-outs, direct operations and nested `withNack`s whose nacks other threads wait for: `MatchedCommits` (with no failure, and live exactly when blocked), `NoMissedRendezvous` (and offers stand until decided), `NackExact`, and `Event` implements `Rendezvous` |
| `syncVar` | 3 threads, 3 values, 4 queue items, symmetric | `NoWaiterOnFull`, `Conservation`: three waiters of mixed kinds behind one put, cancelled and double items among them |
| `barrier` | 4 enrollments, 3 rounds | `PassTogether`: `NobodyLeftBehind` (a blocked thread is blocked in the current round, and a member has still to come, but for the resignation named `abandoned`), `RoundIsWhole` (nobody goes on before everybody has come, and then all do, with one result) |
| `cleanup` | 2 threads, 2 names, 3 calls each | `NoStaleWrite` (no update lost, but for what an `unlogAll` has overtaken; the lock held; names unique) and `CallsReturn` for the operations that take the lock once |
| `queue` | 5 items, symmetric | `Queue` implements `LiveQueue`, a thread that blocks sweeps the cancelled entries before it, a dequeue meets the item its poll saw or raises Match because just that item was cancelled (`DequeueMeetsPoll`), and a removal takes one matching item |

Runs with `CHECK_DEADLOCK FALSE` are those whose actors run out of bounded
work or may legitimately stop.  In `cfuns` and `scheduler` a deadlock is an
error: a C function always returns, and the scheduler always has a step.

**Fairness.**  `Scheduler`: kernel code and the code of a region go on to
their next step (weak fairness); a hook that keeps polling is now and then not
interrupted by a signal (strong fairness of `hookDispatch` without a pending
signal) - with a poll longer than the time quantum the code gives no such
guarantee, and the hazard list says so; the timer preempts each running thread
again and again (strong fairness of `alrmPreempts`), which is what the
interval timer is for.  Nothing is assumed of user code: a thread need not
ever enter a region again.  `CleanUp`: every thread that is not blocked goes
on, which `NoStarvation` justifies.  `Signals`: the program runs on (weak
fairness of everything but the arrival of signals), and an ML handler is left
in the end (strong fairness of `HandlerReturns`), since handlers are ML code
that the Basis wraps so that they end in a throw.

## 4. What is proved

All theorems hold for every value of the constants under the ASSUMEs of the
modules: ids and continuations are distinct, the empty value is no value, the
set of enrollments is finite, there is at least one system signal.  Each
follows the pattern `Init => IInv`, `IInv /\ [Next]_vars => IInv'`, with one
lemma per action.

* **`SchedulerProofs`** (`TypeCorrect`, `RegionsBalanced`, `RegisterCorrect`,
  `NoThreadLost`, `JoinersWoken`).  `OneContinuation` is not inductive: it
  counts places, and a step that moves a thread from one queue to the
  processor must know that it was there once and under its own id.  The
  invariant therefore says that both queues are *proper* (no user thread
  twice, each under its own id) and that the two queues and the processor
  *share out* the ready threads (`Held`).  `JoinersWoken` needs in addition
  that a thread is in at most one join list, and that nobody joins a thread
  after it has begun to notify.
* **`SyncVarProofs`** (`TypeCorrect`, `NoLostWakeup`, `QueueTracksWaiters`,
  `RelaysAreCurrent`, `ValuesConserved`).  `Conservation` needs to know that a
  value brought by a waiting swap is not in use: `Reserved` and `CurReserved`
  say that every value is fresh, has been in the cell, or belongs to exactly
  one waiting or resumed swap.  `RelayProps` describes a relay once: what is
  left of the queue is a suffix with the same operations and values.
* **`BarrierProofs`** (`TypeCorrect`, `CountersCorrect`, `NobodyPassedBy`:
  `NobodyLeftBehind`, `MembersPassTogether`: `PassTogether`).  The properties
  speak of the blocked threads, the code decides by its counters: the invariant
  joins them by `CountsAgree` (list, statuses and blocked threads agree, the
  counters count them), and the work is in the cardinalities.
  `PassTogether` is an action property: `nWaiting + 1 = nEnrolled` implies
  that the blocked threads are all members but the one that has come.
* **`SignalsProofs`** (`TypeCorrect`, `HandlersExclusive`, `WorkPreserved`,
  `HandledWasReceived`).  The invariant adds to the types and the two safety
  properties that a request is made only by the code that may make it
  (`RequestsFit`: SIG_RETURN by a handler, SIG_RESUME by `sigh_resume`), and
  that a signal is not handled more often than received, also between
  `ChooseSignal` and the recording of its choice (`CountsFit`).  `ScanEnds`
  states `NoSpin`: the scan of `ChooseSignal` ends only if the counters of some
  signal differ, but what sends the run loop there is the difference of the two
  summary counters.  The proof counts the occurrences that wait, as pairs of a
  signal and a number (`Waiting`): the summary counters are apart by the
  cardinality of that set (`Counted`), which takes the place of a sum over the
  signals.
* **`CleanUpProofs`** (`Invariance`, `RegistriesSafe`: `NoStaleWrite`), for any
  calls, `unlogAll` among them.  The invariant adds to the lock (`LockHeld`)
  what is true of each thread by itself (`Local`): the shape of its call at
  each step (`Shape`; a nested `unlogItem` cannot pass the lock while CML
  runs), which calls an `unlogAll` can have overtaken and that an overtaken one
  is an `unlogItem`, which only removes (`Overtook`), that the name is gone when
  it is added (`NewName`), and that what it has read is current (`Fresh`); and
  that there is one thread before CML runs (`OneThread`).  It holds of the three
  log operations too, which the run leaves out while CML runs because they
  deadlock.
* **`QueueProofs`** (`QueueImplements`: `Implements`, that is, `Queue` implements
  `LiveQueue`, sweeps, dequeues what the poll saw and removes one item; of
  these `PollsAreMet`: `DequeueMeetsPoll`).  The abstract queue is the live items of
  `front \o Reverse(rear)`.  Every operation is shown to be its abstract
  counterpart or a stutter, a dequeue that raises Match among them; the lemmas
  of `SubsequenceProofs` say how a filter passes through `\o`, `Reverse`, `Head`
  and `Tail`.  The invariant says that an item is in one place (`Once`) and that
  the item a poll has found stays at the head of front, cancelled or not
  (`PollStands`).
* **`EventProofs`** (`Invariance`, `NoneMissed`: `NoMissedRendezvous`,
  `NacksExact`: `NackExact`, `CommitsMatched`, `CVarsSetOnce`), for any
  threads, channels, bounds and programs, and, for Separate programs (below),
  `PartnersStand`, `AllMatched`: `MatchedCommits`, and `EventRefines`:
  `Implements`.  The properties speak of the states
  between atomic regions; `IInv` extends them to the inside of a region, whose
  remaining work is the agenda: a nack counts as set when it is on the agenda,
  a synchronization as decided when its `doFn` is, a waiter that left its
  condition variable is on the agenda instead (`NacksOK`, `Decided`,
  `StandOK`).  The agenda is orderly: the `doFn` comes last and no condition
  variable is listed twice.  Every entry of a queue is an offer of a
  synchronization that got through `sync` (`QueuesOK`), so a synchronization
  that begins is nowhere yet.  A decision adds to the agenda exactly what
  `chkCVars` returns; lemma `Decides` shows once, for `sync`, the direct
  operations, a wake-up and both sides of a rendezvous, that nacks stay exact.
  `CVarsSetOnce`: the error of `atomicCVarSet` is unreachable.
  `CommitsMatched` is `NoFailure => MatchedCommits`: that no `doFn` fails does
  not hold of all programs (section 6).
  *Separate programs.*  `extRdy` sets the nacks of a decision before its `doFn`
  dequeues the partner that the poll saw, so the partner must not be waiting
  for one of those nacks, nor for one that the waiters woken by them set in
  turn.  `Separate(p)` (module `Event`) says this of the text of a program: for
  each send or receive there is a set of nacks, closed under the cascade
  (`Cascade`), that holds all it sets and none that a possible partner waits
  for.  The second invariant, `SInv`, follows a region from the decision to the
  `doFn`: every task left is within such a set, and the partner, still live,
  waits for none of its nacks (`Within`, `Stands`).  It needs that every
  synchronization is one of the program with its nack events resolved
  (`Programmed`), that a waiter is on the agenda only after its condition
  variable was set (`Nacking`), and that a set one belongs to a synchronization
  (`Known`).  Hence `AllMatched`: no `doFn` fails, and commits are matched
  without condition.
  *Refinement.*  `EventRefines`: each step changes `LogBar`, the log in which
  the pending decision counts as committed, as `Rendezvous` says, or leaves it
  alone.  `syncReady` and the direct operations that find a partner are a
  `Meet`; `doSet` and the `doFn`s are stutters; a waiter woken in the middle of
  a region is decided `Alone`, which is shown by swapping its commit with the
  two of the pending decision (`CommitSwap`, `DoneSwap`) - possible only
  because, by `SInv`, it is not one of the two - and by finding the loss that
  its nack reports in the mapped log, where the pending decision already counts
  (`SetSoundsPending`).
  The run `event` evaluates `Separate` for its programs (`ProgramsSeparate` in
  `MCEvent`), among them the one whose commits cascade.
  `EventAssumption` says that programs are well typed (what a thread may pass
  to `send`, `recv` and `sync`), and that channels and condition variables are
  different objects.

The type invariants, `RegisterMatches`, `CountsAgree`, `BlockedIsQueued`, `RelayCarriesContents` and `CountsFit` are proved and not
checked by a run of their own.

Where a proof needs an induction over data it uses the cardinality of a set or
the least element of a set of numbers instead, and lists are taken apart by
`Filter`, which is defined by positions; the library's induction theorems have
an operator as a parameter and cannot be used.

Only model-checked: the liveness properties (fairness is beyond the prover);
everything about the collector, the heap, the literals and the images,
whose definitions are RECURSIVE operators over generations, objects or
programs, so that every statement about them is an induction over data; and the
C functions, where each property is a statement about several hundred particular
programs.

## 5. What is not modelled

*Run-time system.*  `blast-gc.c`, `blast-in.c` and `blast-out.c` (the
relocation of heap images applied to one value, with a collector of its own:
`BlastGC_SweepToSpace` leaves out the mixed arena, where the headers of all
strings, vectors and arrays are, and `BlastGC_AssignLits` gives up on a value
that refers to code, so what the code does now could be shown right for
records, pairs and references only);
the memory back ends for Mach and Windows and the one-level BIBOP of 32-bit
machines; the assembly code but for its effect on the signal flags (on the
AMD64; see section 6 for the ARM64); the conversion of faults to requests,
timers, statistics, debugging output and the unsupported machines; the values
that C functions compute; the in-memory writer; the stand-alone heap-to-object
tool; `dtoa.c`, which is third-party code.

*CML.*  Mailboxes, the sorted queue of time-outs with real deadlines, the life
cycle of `doit` (a second run, `exportFn`), the I/O and process managers, the
polling forms `sendPoll` and `recvPoll`, the stream I/O layer and the
libraries on top.

*The rest.*  The compiler but for its encoder of literals, MLRISC, CM, the
Basis and the tools: translators or wrappers without concurrent state, with
the exceptions named in the plan.

## 6. Observations

What the code does that a reader would not expect, met while modelling.  Where
a property is restricted because of it, the restriction is named: the run then
shows that the property holds everywhere else.

### Excepted from a property

* **C functions** (`KnownStale`, `KnownErrno`, `KnownLeak`, `KnownReserve` in
  `MCCFun.cfg`; the functions are modelled, TLC runs them, and without the
  exception reports each of them).
  - `ML_CStringList` checks for space without counting string headers, does not
    check again after it collects, and a long string makes it collect while
    the list is only in C variables: `environ`, `argv`, `raw_argv`, `getgrgid`,
    `getgrnam`, the `NetDB` functions.
  - `exec`, `execp`, `exece` use the path and the lists after `ML_AllocRaw`, and
    `exece` sizes one array for the arguments only.  `getgroups` and the host
    entries build lists of unforeseen length.
  - `getgr*` and `getpw*` raise the error in `errno` when an entry is not found,
    where no call has set it.
  - `readlink` leaks its buffer when the call fails, `poll` its array on a
    time-out.
  - C calls: `word_CtoML` and `ml_c_call` use ML pointers after a collection.
  - Boot: `BuildFileList` builds names and list without a check;
    `LoadBinFile` keeps values that are no roots across `llvm_codegen`
    (`boot.c:743`), and `_ml_CodeGen_generate` uses its source after
    `ML_AllocRaw`.
  - Windows: the registry and DDE calls return their error instead of setting
    the one `GetLastError` gives; paths and variables that are too long raise a
    left-over error; `query_value_*` use the name after `ML_AllocRaw`, and the
    multi-string case loses its list and a block; `get_file_time` may return
    an unset variable; `create_process_redirect_handles` leaks pipe ends.
* **`crowded`** in `HeapSpace`.  `ML_AllocArrayData` with a boxed initial
  value, `ML_AllocVector` and `PushString` of `build-literals-v3.c` put a large
  object in the first generation if it fits, not if it leaves room for all of
  new space, so the next minor collection may run past the arena.  The run
  reaches this, and `SpaceSuffices` excepts the arenas in which it has happened.
* **`m.bare`**, **`m.over`** and **`m.manyRoots`** in `Literals`.  When version
  2's saved array is large and does not fit in the first generation,
  `ML_AllocArrayData` collects with its own argument as the only root
  (`ml-objects.c:303-309`), and `code` is stale (`build-literals-v2.c:508`).
  The space counter of version 3 is unsigned (`build-literals-v3.c:136`): after
  the header of a large string passed the limit it wraps and the check
  succeeds.  Its root record is written unchecked (`build-literals-v3.c:87-104`)
  and passes the buffer when there are more saved values and stack entries than
  the buffer has words.
* **`lost`** in `Collector`.  `MajorGC_FwdSpecial` (`major-gc.c:942`) and
  `ScanWeakPtrs` have no case for mixed and code objects, which a weak pointer
  may name, and the copy of the weak pointer is left unfilled; `ScanStoreList`
  of `minor-gc.c:196-211` casts the first page of a code object's region to its
  header instead of reading the header from it.
* **`overtaken`** in `CleanUp`.  The exported `unlogAll` (`cleanup.sml:155`)
  takes no lock: an `unlogItem` that has read the list before puts its other
  items back.
* **`abandoned`** in `Barrier`.  `resign` does not release the barrier when the
  last thread that is not waiting resigns (`barrier.sml:98-101`), although
  `wait` is to wait until all of the enrolled threads are waiting
  (`barrier.mldoc:73-75`).
* **`Tainted`** in `HeapImage`.  `ScanHeap` of `export-heap.c` never stores the
  mixed arena's `needsRepair`, so what an export leaves there depends on an
  uninitialised field (a nondeterministic choice in the model), and a later
  export may reuse an index of the earlier table.  Also, when the headers
  cannot be written (`export-heap.c:118-122`) `ExportImage` returns without
  repairing the heap; `ExportRestores` speaks of exports that got further.
  A C address that nobody registered (`c-globals-tbl.c:226-229`) is unit in the
  image, and `RoundTrip` says so.
* **`misread`** in `HeapImage`.  `HeapIO_WriteExterns` returns -1 where
  `ExportImage` compares with `FAILURE` (`export-heap.c:144-147`), so the writing
  goes on, and `HeapIO_ReadExterns` ignores the results of its reads
  (`heap-in-util.c:37, 43`).  A file that is cut short there is refused by a
  later read; an image in memory that ends within the names of its extern table
  may be taken for one with other names, and `TornRefused` excepts it.

### Of Concurrent ML

* `pauseK` is not in a region at its entry.  A signal there files the hook as a
  thread; resumed later, it looks at `rdyQ1` only and throws to the shutdown
  hook while a thread is ready in `rdyQ2` (`glue/export-fn-fn.sml:35`).  The
  instance of `scheduler` contains this case (`MaxHooks = 1`).
* `extRdy` sets the negative acknowledgements *between* polling and using the
  entry that was polled (`event.sml:407-413`).  If the partner also waits for
  that nack, its entry is cancelled before it is dequeued; the non-exhaustive
  `getIdFromTrans` raises inside the region.  `NoFailure` (in
  `MatchedCommits`) fails for a program with a client whose nack its own
  server waits for: one thread offers a send on `c1` and a time-out, a withNack
  around the time-out only, and the other a receive on `c1` and that nack
  (`failure = "Match"` as soon as the first commits to its send).  Such a
  program is not `Separate`; for those that are, section 4 proves that this
  cannot happen.
* `logChannel`, `logMailbox` and `logServer` take `lockV` twice when CML is
  running (`cleanup.sml:158-180`) and block for ever; `MCCleanUp` logs only
  before CML runs.
* `Q.remove` searches the rear list newest first, so with several matching
  items it is not "the first item that satisfies the predicate"
  (`queue.sml:41`); `RemovesOne`, a part of `Implements`, claims that some
  matching item is removed.  Nothing in CML calls it.

### Of the run-time system, elsewhere

* Collector: `obj-info.c:31` and `BlastGC_ForwardBigObj` cast the first page of
  a region to its header, as `ScanStoreList` does (above).
  `StringArenaNeedsGC` (`call-gc.c:239`) has its condition inverted.
  `ML_SysConstList` adds words to bytes (`ml-objects.c:444`).
* Memory: an arena that shrinks to nothing loses its base before
  `FreeGeneration`, which leaves its pages in the BIBOP; `TrimHeap` shrinks an
  arena without unmarking them.  `BibopCovers` therefore speaks of the pages of
  active arenas only.  `SetVMCache` accepts one level too many.
* Signals: `RunML` calls `ChooseSignal` with signals unmasked, against its
  comment, and an assertion there counts slots instead of signals;
  `PauseUntilSignal` may miss a wake-up, as a FIXME says (`SignalsHandled`
  excepts a pause).  On the ARM64 the `csel` of `restoreregs` is inverted, the
  pending flag is not set, and `GCSignal` may lose an increment of the C
  handler: `Signals` models the AMD64.  A signal that is disabled with
  occurrences pending meets the Basis's "inconsistent state".
* Images: `writer.c` ignores the result of `fflush`; the comment of `ml-heap-image.h` has region records
  after the generation descriptors, `WriteHeap` writes them first.  `BlastOut`
  ignores the error of `BlastGC`, whose sweep leaves out the mixed arena.
* Literals: the vectors of version 3 end at 512 fields; version 2's `REAL64` allocates without pushing; versions 1
  and 2 overflow for an object larger than new space (FIXMEs say so); the
  reservations of version 1's raw data are those of a 32-bit build; the
  compiler never emits the short form of 32-bit integers (`encINT32`).
* Small ones: `ReadBinFile` (`boot.c:304`) compares the result of `fread` with
  -1, so a truncated bin file goes unnoticed; when the list of bin files cannot
  be opened `BootML` goes on with an empty one; `fcntl_gfl` uses `F_GETFD`;
  `setNBIO` swaps the arguments of `fcntl`; `tcgetpgrp` does not raise its
  error; `StopGCTimer` should compare with `>=`; `isRuntimeOption` leaves its
  argument behind the terminating NUL when there is no `=`.

## 7. Plan

In order of importance:

1. done: the run-time system's collector, memory, signals, C functions,
   literals and images; of CML `Scheduler`, `Event` over `Rendezvous`, `Queue`
   over `LiveQueue`, `SyncVar`, `Barrier`, `CleanUp`; the proofs of section 4.
2. `blast-out.c` and `blast-in.c` on top of `HeapExport` and `HeapImport`; a
   larger instance of `Collector` with two card-marking rounds.
3. `Mailbox`: buffered channels, as a refinement of a FIFO buffer; the polls
   of channels as actions of `Event`.
4. `TimeOut`: the sorted queue, deadlines, cancelled entries and the cached
   clock; property: nobody is woken early or twice.
5. `RunCML`: `doit`, shutdown, reset and a second `doit`; `IOManager` and
   `ProcManager`, composed with the hooks of `Scheduler`.
6. `Multicast` and `SimpleRPC` on top of `Rendezvous`; CM's task queues
   (`src/cm/concur`).
7. Proofs: the safety properties of the CML modules that a run checks are
   all proved.  Left are the memory of `HeapSpace` (`MemoryOwned`,
   `BibopCovers`) and the big-object lists of `BigObjects`, which would need
   recursive functions in place of operators, with their recursion equations
   proved from the definition.
