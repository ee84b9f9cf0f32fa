-------------------------------- MODULE CFun --------------------------------
(***************************************************************************)
(* The discipline of the C functions that ML code calls (REQ_CALLC).  Such *)
(* a function holds ML values in C variables the collector knows nothing   *)
(* about, allocates small objects without checking for space, raises the   *)
(* error of the last system call that failed, and uses malloc.             *)
(*                                                                         *)
(* A C function is a program: a sequence of the instructions below, which  *)
(* keep its calls, branches, loops and early returns, and of its data only *)
(* the C variables that hold ML pointers, the sizes of what it allocates   *)
(* and the blocks it owns.  The bodies are in PosixFuns, SocketFuns,       *)
(* RuntimeFuns, Win32Funs and BootFuns.                                    *)
(***************************************************************************)
EXTENDS Integers, Sequences, SequencesExt

Reserve == 1024 + 1152     \* words: 8*ONE_K bytes, and HEAP_BUF_SZ above the limit
NewSpace == 16384          \* words of the smallest allocation space
SMALL_OBJ_SZW == 512
Rooms == {Reserve, 3990}   \* words there are when a function is called: the least, and more
Lens == <<1, 145, 400, 2000>>   \* lengths of a list of any length, on both sides of its checks

(***************************************************************************)
(* Instructions: op, the variable it sets or the name of the call or the   *)
(* block, the ML pointers it uses, a number, and sub-programs.             *)
(***************************************************************************)
Instr(op, v, vs, n, ps) == [op |-> op, v |-> v, vs |-> vs, n |-> n, ps |-> ps]

Uses(vs) == Instr("use", "", vs, 0, <<>>)          \* read or write through each of vs
Use(v) == Uses({v})
REC_SEL(v, u) == Instr("fetch", v, {u}, 0, <<>>)   \* v = a pointer in the object u
Uninit(v) == Instr("uninit", v, {}, 0, <<>>)       \* v is declared and not set
Const(v) == Instr("const", v, {}, 0, <<>>)         \* v = a pointer not into the heap
Small(v, n, vs) == Instr("small", v, vs, n, <<>>)  \* v = n words of new space
Big(v) == Instr("big", v, {}, 0, <<>>)             \* v = a large object: may collect
CheckGC(n, keep) == Instr("check", "", keep, n, <<>>)   \* if NeedGC(n words), InvokeGC
Alt(ps) == Instr("alt", "", {}, 0, ps)             \* one of the branches
If(p, q) == Alt(<<p, q>>)
IfErrno(c, p, q) == Instr("test", c, {}, 0, <<p, q>>)
Loop(n, p) == Instr("loop", "", {}, n, <<p>>)      \* at most n times
Sys(c, ok, fail) == Instr("sys", c, {}, 0, <<ok, fail>>)
MALLOC(b, fail) == Instr("malloc", b, {}, 0, <<fail>>)
FREE(b) == Instr("free", b, {}, 0, <<>>)
Acquire(b) == Instr("malloc", b, {}, 0, <<>>)      \* b belongs to the function from here on
SetErrno(c) == Instr("errno", c, {}, 0, <<>>)
RaiseThen(c, p) == Instr("raise", c, {}, 0, <<p>>) \* p runs before the return
RAISE_SYSERR(c) == RaiseThen(c, <<>>)              \* c: the call whose error is meant
RAISE_ERROR == RAISE_SYSERR("message")
Return == Instr("return", "", {}, 0, <<>>)
ReturnVal(v) == Instr("return", v, {v}, 0, <<>>)
Exit == Instr("exit", "", {}, 0, <<>>)             \* the process ends

\* CHK_RETURN and its variants
Chk(c) == Sys(c, <<>>, <<RAISE_SYSERR(c)>>)
CHK_RETURN(c) == Sys(c, <<Return>>, <<RAISE_SYSERR(c)>>)

\* the allocation functions (gc/ml-objects.c, ml-objects.h)
REC_ALLOC(v, vs, n) == Small(v, n + 1, vs)
LIST_cons(l, v) == REC_ALLOC(l, {v, l}, 2)
OPTION_SOME(v, u) == REC_ALLOC(v, {u}, 1)
SYSWORD_ALLOC(v) == Small(v, 2, {})
SEQHDR_ALLOC(v, data) == Small(v, 3, {data})
ML_AllocRaw(v) ==
    Alt(<<<<Small(v, 2, {})>>, <<Small(v, SMALL_OBJ_SZW + 1, {})>>, <<Big(v)>>>>)
ML_AllocString(v) == Alt(<<<<ML_AllocRaw(v), SEQHDR_ALLOC(v, v)>>>>)
ML_CString(v) == Alt(<<<<Const(v)>>, <<ML_AllocRaw(v), SEQHDR_ALLOC(v, v)>>>>)
\* a string the C code bounds to fewer than 512 bytes
ShortString(v) == Alt(<<<<Small(v, 65, {}), SEQHDR_ALLOC(v, v)>>>>)
\* a C structure, of at most MAX_SOCK_ADDR_SZB bytes in every call
ML_CData(v) == If(<<Const(v)>>, <<Small(v, 129, {})>>)

\* a list of any length, with n words for each element, made without a check for space
ListOf(v, n) == Alt(<<<<Const(v)>>>> \o [i \in DOMAIN Lens |-> <<Small(v, n * Lens[i], {})>>])

\* there is a check for the cons cells and the short strings, not for the headers of
\* the strings; a long string may collect
ML_CStringList(v) ==
    LET Strings(n) == <<CheckGC(7 * n, {}), Small(v, 10 * n, {})>> IN
    Alt(<<<<Alt(<<<<Const(v)>>>> \o [i \in DOMAIN Lens |-> Strings(Lens[i])]),
            Loop(1, <<Big("s"), SEQHDR_ALLOC("s", "s"), LIST_cons(v, "s")>>)>>>>)

ConstName == Alt(<<<<Small("name", 3, {}), SEQHDR_ALLOC("name", "name")>>>>)
ML_SysConst(v) == Alt(<<<<ConstName, REC_ALLOC(v, {"name"}, 2)>>>>)

\* one constant at a time, collecting with the list as a root when needed
ML_SysConstList(v) ==
    Alt(<<<<Const(v),
            Loop(20, <<CheckGC(10, {v}), ConstName, REC_ALLOC("c", {"name"}, 2), LIST_cons(v, "c")>>)>>>>)

\* RaiseSysError: the option, the message, the position and the exception
RaiseSysError ==
    <<If(<<Const("syserror")>>, <<Small("syserror", 2, {})>>),
      ShortString("s"), ShortString("atMsg"), REC_ALLOC("atStk", {"atMsg"}, 2),
      REC_ALLOC("arg", {"s", "syserror"}, 2), REC_ALLOC("exn", {"arg", "atStk"}, 3)>>

InvokeGC(keep) == CheckGC(NewSpace, keep)

-----------------------------------------------------------------------------
CONSTANT Funs     \* Funs[f] is the program of the C function f

VARIABLES
    fn,      \* the C function that runs, or "ML"
    code,    \* what is left of its program
    held,    \* its variables that hold ML pointers
    stale,   \* those among them that a collection did not update
    room,    \* words of new space it can still allocate
    blocks,  \* what it has malloced and not freed
    errno    \* the last system call that failed, or "old"

vars == <<fn, code, held, stale, room, blocks, errno>>

Init ==
    /\ fn = "ML" /\ code = <<>> /\ held = {} /\ stale = {}
    /\ room = 0 /\ blocks = {} /\ errno = "old"

\* Mutant: the function is called with the space above the limit only.
CallNoReserve(f) ==
    /\ fn = "ML"
    /\ fn' = f /\ code' = Funs[f]
    /\ held' = {"arg"} /\ room' = 1152
    /\ UNCHANGED <<stale, blocks, errno>>

\* REQ_CALLC: there are at least 8K bytes before the function is called
Call(f) ==
    /\ fn = "ML"
    /\ fn' = f /\ code' = Funs[f]
    /\ held' = {"arg"} /\ room' \in Rooms
    /\ UNCHANGED <<stale, blocks, errno>>

At(op) == code # <<>> /\ Head(code).op = op
The == Head(code)
Then(p) == code' = p \o Tail(code) /\ fn' = fn

\* variable v gets a valid pointer
Sets(v) == held' = held \cup {v} /\ stale' = stale \ {v}

\* a collection: the words of the roots in keep are updated, no others
Collects(keep) == stale' = held \ keep /\ room' = NewSpace

Take(n) == room' = IF room < n THEN -1 ELSE room - n

DoUse == At("use") /\ Then(<<>>) /\ UNCHANGED <<held, stale, room, blocks, errno>>

DoFetch ==
    /\ At("fetch") /\ Then(<<>>) /\ Sets(The.v) /\ UNCHANGED <<room, blocks, errno>>

DoConst ==
    /\ At("const") /\ Then(<<>>)
    /\ held' = held \ {The.v} /\ stale' = stale \ {The.v}
    /\ UNCHANGED <<room, blocks, errno>>

DoUninit ==
    /\ At("uninit") /\ Then(<<>>)
    /\ held' = held \cup {The.v} /\ stale' = stale \cup {The.v}
    /\ UNCHANGED <<room, blocks, errno>>

DoSmall == At("small") /\ Then(<<>>) /\ Sets(The.v) /\ Take(The.n) /\ UNCHANGED <<blocks, errno>>

\* a large object goes to the first generation, after a collection if that is full
DoBig ==
    /\ At("big") /\ Then(<<>>)
    /\ held' = held \cup {The.v}
    /\ \/ stale' = stale \ {The.v} /\ room' = room
       \/ stale' = held \ {The.v} /\ room' = NewSpace
    /\ UNCHANGED <<blocks, errno>>

\* NeedGC looks at the limit, below which HEAP_BUF_SZ words are kept
DoCheck ==
    /\ At("check") /\ Then(<<>>)
    /\ IF room - 1152 <= The.n THEN Collects(The.vs) ELSE UNCHANGED <<stale, room>>
    /\ UNCHANGED <<held, blocks, errno>>

DoAlt ==
    /\ At("alt")
    /\ \E i \in DOMAIN The.ps : Then(The.ps[i])
    /\ UNCHANGED <<held, stale, room, blocks, errno>>

DoLoop ==
    /\ At("loop")
    /\ \/ Then(<<>>)
       \/ The.n > 0 /\ Then(Append(The.ps[1], Loop(The.n - 1, The.ps[1])))
    /\ UNCHANGED <<held, stale, room, blocks, errno>>

DoSys ==
    /\ At("sys")
    /\ \/ Then(The.ps[1]) /\ errno' = errno
       \/ Then(The.ps[2]) /\ errno' = The.v
    /\ UNCHANGED <<held, stale, room, blocks>>

DoMalloc ==
    /\ At("malloc")
    /\ \/ Then(<<>>) /\ blocks' = blocks \cup {The.v} /\ errno' = errno
       \/ The.ps # <<>> /\ Then(The.ps[1]) /\ blocks' = blocks /\ errno' = "malloc"
    /\ UNCHANGED <<held, stale, room>>

DoFree ==
    /\ At("free") /\ Then(<<>>) /\ blocks' = blocks \ {The.v}
    /\ UNCHANGED <<held, stale, room, errno>>

DoErrno == At("errno") /\ Then(<<>>) /\ errno' = The.v /\ UNCHANGED <<held, stale, room, blocks>>

DoTest ==
    /\ At("test")
    /\ Then(The.ps[IF errno = The.v THEN 1 ELSE 2])
    /\ UNCHANGED <<held, stale, room, blocks, errno>>

DoRaise ==
    /\ At("raise")
    /\ fn' = fn /\ code' = RaiseSysError \o The.ps[1] \o <<ReturnVal("exn")>>
    /\ UNCHANGED <<held, stale, room, blocks, errno>>

\* back to ML, or to the start of another process
DoReturn ==
    /\ At("return") \/ At("exit")
    /\ fn' = "ML" /\ code' = <<>> /\ held' = {} /\ stale' = {} /\ room' = 0
    /\ blocks' = {} /\ errno' = "old"

Next ==
    \/ \E f \in DOMAIN Funs : Call(f)
    \/ DoUse \/ DoFetch \/ DoConst \/ DoUninit \/ DoSmall \/ DoBig \/ DoCheck
    \/ DoAlt \/ DoLoop \/ DoSys \/ DoMalloc \/ DoFree \/ DoErrno \/ DoTest \/ DoRaise \/ DoReturn

Spec == Init /\ [][Next]_vars

-----------------------------------------------------------------------------
\* Functions in which the code itself breaks a rule; the README describes each.
CONSTANTS KnownStale, KnownErrno, KnownLeak, KnownReserve

(***************************************************************************)
(* No C function reads or writes through, stores, or returns an ML pointer *)
(* it took before a collection and the collection did not update, or one   *)
(* it never set.                                                           *)
(***************************************************************************)
NoStaleUse == fn \notin KnownStale /\ code # <<>> => Head(code).vs \cap stale = {}

(***************************************************************************)
(* When a function raises SysErr for the failure of a system call, errno   *)
(* is still the error of that call: no later call, retry or clean-up has   *)
(* replaced it, and it is never left over from before the function ran.    *)
(***************************************************************************)
ErrnoExact ==
    fn \notin KnownErrno /\ At("raise") /\ The.v # "message" => errno = The.v

(***************************************************************************)
(* A function that returns, normally or by raising an exception, has freed *)
(* every block it malloced and did not hand over.                          *)
(***************************************************************************)
NoLeak == fn \notin KnownLeak /\ At("return") => blocks = {}

(***************************************************************************)
(* What a function allocates without a check fits in the space that        *)
(* REQ_CALLC reserved for it, or that its last check made.                 *)
(***************************************************************************)
FitsReserve == fn \notin KnownReserve => room >= 0

=============================================================================
