------------------------------ MODULE SyncVar ------------------------------
(***************************************************************************)
(* One synchronous variable (sync-var.sml): an I-variable when the only    *)
(* operation besides put is "get", an M-variable with "take" and "swap".   *)
(*                                                                         *)
(* A thread that finds the cell empty leaves an item in readQ.  The thread *)
(* that fills the cell switches to the first live waiter without leaving   *)
(* the atomic region; that waiter takes or replaces the contents, or       *)
(* relays them to the next waiter, and so on: `cur' is the waiter whose    *)
(* continuation runs inside the region.  A waiter that blocked in a choice *)
(* may be cancelled by another event and leaves stale items behind.        *)
(***************************************************************************)
EXTENDS Naturals, Sequences

CONSTANTS
    Threads,
    Values,    \* bound: every put and swap brings a value of its own
    NONE,      \* the empty cell
    Ops,       \* the reading operations: a subset of {"get", "take", "swap"}
    NoOne,     \* no waiter is being resumed
    MaxQ       \* bound: items in readQ; Q.enqueue removes no stale ones

ASSUME SyncVarAssumption ==
    /\ NONE \notin Values
    /\ Ops \subseteq {"get", "take", "swap"}
    /\ NoOne \notin [t : Threads, op : Ops, new : Values \cup {NONE}]
    /\ MaxQ \in Nat

VARIABLES
    value,     \* contents of the cell
    readQ,     \* waiting items, oldest first, cancelled ones included
    waiting,   \* waiting[t]: t's transaction id holds TRANS
    choice,    \* choice[t]: t's last transaction belongs to a choice of events
    cur,       \* the item whose continuation runs in the region, or NoOne
    msg,       \* the value it was resumed with
    fresh,     \* values not yet brought by a put or a swap
    placed,    \* history: values that have been in the cell
    taken      \* history: how often each value was removed from the cell

vars == <<value, readQ, waiting, choice, cur, msg, fresh, placed, taken>>

\* new is the value a swap brings, NONE for the other operations
Items == [t : Threads, op : Ops, new : Values \cup {NONE}]
QItems == [t : Threads, op : Ops, new : Values \cup {NONE}, dead : BOOLEAN]

Plain(x) == [t |-> x.t, op |-> x.op, new |-> x.new]

Init ==
    /\ value = NONE
    /\ readQ = <<>>
    /\ waiting = [t \in Threads |-> FALSE]
    /\ choice = [t \in Threads |-> FALSE]
    /\ cur = NoOne
    /\ msg = NONE
    /\ fresh = Values
    /\ placed = {}
    /\ taken = [x \in Values |-> 0]

-----------------------------------------------------------------------------

\* the items of t are cancelled with its transaction id
Cancelled(q, t) == [k \in DOMAIN q |-> [q[k] EXCEPT !.dead = @ \/ q[k].t = t]]

NoLive(q) == \A k \in DOMAIN q : q[k].dead
FirstLive(q, k) == k \in DOMAIN q /\ ~q[k].dead /\ \A j \in 1 .. k - 1 : q[j].dead

\* leave the region
Leave == cur' = NoOne /\ msg' = NONE

\* cleanAndRemove, getIdFromTrans, and the switch to the waiter removed; the
\* region is left when nobody waits
relayMsg(v) ==
    \/ /\ NoLive(readQ)
       /\ Leave
       /\ UNCHANGED <<readQ, waiting, choice>>
    \/ \E k \in DOMAIN readQ :
          /\ FirstLive(readQ, k)
          /\ cur' = Plain(readQ[k])
          /\ msg' = v
          /\ readQ' = Cancelled(SubSeq(readQ, k + 1, Len(readQ)), readQ[k].t)
          /\ waiting' = [waiting EXCEPT ![readQ[k].t] = FALSE]
          /\ UNCHANGED choice

\* t executes an operation: no region is open and t is not blocked
Runs(t) == cur = NoOne /\ ~waiting[t]

\* iPut, mPut on an empty cell (on a full one they raise Put)
put(t, x) ==
    /\ Runs(t) /\ value = NONE /\ x \in fresh
    /\ value' = x
    /\ fresh' = fresh \ {x}
    /\ placed' = placed \cup {x}
    /\ relayMsg(x)
    /\ UNCHANGED taken

\* iGet, mGet and their events on a full cell only read it; mTake, mTakePoll
\* and mTakeEvt empty it
take(t) ==
    /\ Runs(t) /\ value # NONE /\ "take" \in Ops
    /\ taken' = [taken EXCEPT ![value] = @ + 1]
    /\ value' = NONE
    /\ UNCHANGED <<readQ, waiting, choice, cur, msg, fresh, placed>>

\* mSwap and mSwapEvt on a full cell
swap(t, x) ==
    /\ Runs(t) /\ value # NONE /\ "swap" \in Ops /\ x \in fresh
    /\ taken' = [taken EXCEPT ![value] = @ + 1]
    /\ value' = x
    /\ fresh' = fresh \ {x}
    /\ placed' = placed \cup {x}
    /\ UNCHANGED <<readQ, waiting, choice, cur, msg>>

Waiter(t, op, x) == [t |-> t, op |-> op, new |-> x, dead |-> FALSE]

\* any reading operation on an empty cell blocks; inChoice tells an event
\* that shares its transaction id with other events from a direct operation
block(t, op, inChoice) ==
    /\ Runs(t) /\ value = NONE /\ op \in Ops
    /\ Len(readQ) < MaxQ
    /\ \E x \in IF op = "swap" THEN fresh ELSE {NONE} :
          /\ readQ' = Append(readQ, Waiter(t, op, x))
          /\ fresh' = fresh \ {x}
    /\ waiting' = [waiting EXCEPT ![t] = TRUE]
    /\ choice' = [choice EXCEPT ![t] = inChoice]
    /\ UNCHANGED <<value, cur, msg, placed, taken>>

\* a choice of two events on this variable ("the unlikely event that a single
\* thread executes a choice of multiple gets on the same variable")
blockTwice(t, op1, op2) ==
    /\ Runs(t) /\ value = NONE /\ {op1, op2} \subseteq Ops \ {"swap"}
    /\ Len(readQ) + 1 < MaxQ
    /\ readQ' = Append(Append(readQ, Waiter(t, op1, NONE)), Waiter(t, op2, NONE))
    /\ waiting' = [waiting EXCEPT ![t] = TRUE]
    /\ choice' = [choice EXCEPT ![t] = TRUE]
    /\ UNCHANGED <<value, cur, msg, fresh, placed, taken>>

\* another event of t's choice commits: a time-out, a rendezvous, a nack; in
\* a relay, the clean-up action of a resumed choice may set a nack t waits for
cancel(t) ==
    /\ waiting[t] /\ choice[t]
    /\ cur # NoOne => choice[cur.t]
    /\ readQ' = Cancelled(readQ, t)
    /\ waiting' = [waiting EXCEPT ![t] = FALSE]
    /\ choice' = [choice EXCEPT ![t] = FALSE]
    /\ UNCHANGED <<value, cur, msg, fresh, placed, taken>>

-----------------------------------------------------------------------------
(* The continuation of a resumed waiter, up to the end of the region or the *)
(* switch to the next waiter.                                               *)

\* Mutant: a get that is resumed leaves the region without relaying.
resumeGetKeeps ==
    /\ cur # NoOne /\ cur.op = "get"
    /\ Leave
    /\ UNCHANGED <<value, readQ, waiting, choice, fresh, placed, taken>>

resumeGet ==
    /\ cur # NoOne /\ cur.op = "get"
    /\ relayMsg(msg)
    /\ UNCHANGED <<value, fresh, placed, taken>>

\* Mutant: a take that is resumed does not empty the cell.
resumeTakeLeaves ==
    /\ cur # NoOne /\ cur.op = "take"
    /\ taken' = [taken EXCEPT ![msg] = @ + 1]
    /\ Leave
    /\ UNCHANGED <<value, readQ, waiting, choice, fresh, placed>>

resumeTake ==
    /\ cur # NoOne /\ cur.op = "take"
    /\ taken' = [taken EXCEPT ![msg] = @ + 1]
    /\ value' = NONE
    /\ Leave
    /\ UNCHANGED <<readQ, waiting, choice, fresh, placed>>

resumeSwap ==
    /\ cur # NoOne /\ cur.op = "swap"
    /\ taken' = [taken EXCEPT ![msg] = @ + 1]
    /\ value' = cur.new
    /\ placed' = placed \cup {cur.new}
    /\ relayMsg(cur.new)
    /\ UNCHANGED fresh

Next ==
    \/ \E t \in Threads :
          \/ take(t) \/ cancel(t)
          \/ \E x \in Values : put(t, x) \/ swap(t, x)
          \/ \E op \in Ops : \/ \E b \in BOOLEAN : block(t, op, b)
                             \/ \E op2 \in Ops : blockTwice(t, op, op2)
    \/ resumeGet \/ resumeTake \/ resumeSwap

Spec == Init /\ [][Next]_vars

-----------------------------------------------------------------------------
(* Properties.                                                              *)

TypeOK ==
    /\ value \in Values \cup {NONE}
    /\ readQ \in Seq(QItems)
    /\ waiting \in [Threads -> BOOLEAN] /\ choice \in [Threads -> BOOLEAN]
    /\ cur \in Items \cup {NoOne}
    /\ msg \in Values \cup {NONE}
    /\ fresh \subseteq Values /\ placed \subseteq Values
    /\ taken \in [Values -> Nat]

\* No wake-up is lost: when a region ends with the cell full, nobody is
\* waiting for it - the value has been relayed to every waiter, past the
\* stale items of cancelled choices.
NoWaiterOnFull == cur = NoOne /\ value # NONE => NoLive(readQ)

\* A thread is blocked exactly while a live item of it is in the queue, so
\* getIdFromTrans never meets a cancelled id and a resumed thread is not
\* resumed again through an older item.
BlockedIsQueued ==
    \A t \in Threads :
        waiting[t] <=> \E k \in DOMAIN readQ : readQ[k].t = t /\ ~readQ[k].dead

\* A waiter is resumed with the value the cell holds at that moment: the
\* relay of a swap carries the new value, not the one that was put.
RelayCarriesContents == cur # NoOne => value # NONE /\ msg = value

\* Values are conserved: every value that was in the cell is there now or was
\* removed by exactly one take or swap.
Conservation ==
    \A x \in Values :
        IF x \in placed THEN taken[x] = (IF value = x THEN 0 ELSE 1)
                        ELSE taken[x] = 0 /\ value # x

=============================================================================
