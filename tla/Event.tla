------------------------------- MODULE Event -------------------------------
(***************************************************************************)
(* First-class synchronous events: event.sml (force, sync, selection,      *)
(* condition variables, negative acknowledgements) together with the       *)
(* channels of channel.sml.                                                *)
(*                                                                         *)
(* A synchronization is a list of base events and a list of nack sets:     *)
(*   evts[i]   [op |-> "send" | "recv", on |-> channel],                   *)
(*             [op |-> "cvar", on |-> condition variable],                 *)
(*             [op |-> "timeout" | "always", on |-> <<>>];                  *)
(*   nacks[j]  the base events that the j-th withNack combinator covers,   *)
(* which is what collect computes from an event group: a flag per base     *)
(* event, and a (cvar, flag list) pair per withNack.                       *)
(*                                                                         *)
(* The n-th synchronization of thread t has the transaction id <<t, n>>;   *)
(* it is live while the reference cell holds TRANS.  An atomic region is   *)
(* the sequence of steps during which the agenda is not empty; no other    *)
(* thread runs meanwhile.  Between regions any runnable thread may go      *)
(* next: that is the freedom module Scheduler leaves to the schedule.      *)
(***************************************************************************)
EXTENDS Subsequence, SequencesExt

CONSTANTS
    Threads, Chans,
    Programs,    \* the programs to run: p.menu[t] is the set of events thread
                 \* t may synchronize on, p.direct[t] the set of base events
                 \* for which it may call send and recv
    MaxSync,     \* bound: synchronizations of one thread
    MaxNacks     \* bound: withNack combinators in one event

VARIABLES
    prog,      \* the program that runs
    phase,     \* "run": user code; "forced": between force and sync;
               \* "blocked": waiting in queues
    log,       \* log[t][n]: the n-th synchronization of t, and which of its
               \* base events it committed to (won = 0: none yet)
    live,      \* transaction ids whose cell still holds TRANS
    inQ, outQ, \* waiting receivers and senders of each channel, oldest first
    prio,      \* priority of each channel
    cvar,      \* cvar[v].set: 0 for CVAR_unset, n for CVAR_set n;
               \* cvar[v].waiting: newest first
    agenda,    \* what the current atomic region has still to do
    met,       \* history: the rendezvous that have happened
    failure    \* an exception escaped inside an atomic region

vars == <<prog, phase, log, live, inQ, outQ, prio, cvar, agenda, met, failure>>

Trans == Threads \X (1 .. MaxSync)
CVars == Threads \X (1 .. MaxSync) \X (1 .. MaxNacks)

\* the base events and the synchronizations, when V names the nack events: a
\* program names one by its thread and its place, force resolves it to a cvar
ChanEvents == [op : {"send", "recv"}, on : Chans]
Events(V) ==
    ChanEvents \cup [op : {"cvar"}, on : V] \cup [op : {"always", "timeout"}, on : {<<>>}]
Requests(V) ==
    [evts : Seq(Events(V)), nacks : {n \in Seq(SUBSET Nat) : Len(n) <= MaxNacks}]

ASSUME EventAssumption ==
    /\ MaxSync \in Nat /\ MaxNacks \in Nat
    /\ Chans \cap CVars = {}      \* they are different objects
    /\ \A p \in Programs : \A t \in Threads :
          /\ p.menu[t] \subseteq Requests(Threads \X (1 .. MaxNacks))
          /\ p.direct[t] \subseteq ChanEvents

Item(id, i) == [id |-> id, i |-> i]

Init ==
    /\ prog \in Programs
    /\ phase = [t \in Threads |-> "run"]
    /\ log = [t \in Threads |-> <<>>]
    /\ live = {}
    /\ inQ = [c \in Chans |-> <<>>]
    /\ outQ = [c \in Chans |-> <<>>]
    /\ prio = [c \in Chans |-> 1]
    /\ cvar = [v \in CVars |-> [set |-> 0, waiting |-> <<>>]]
    /\ agenda = <<>>
    /\ met = {}
    /\ failure = "none"

-----------------------------------------------------------------------------
(* Helpers.                                                                 *)

\* Mutant: a poll does not look whether an entry has been cancelled.
CleanNothing(q) == q

\* the queue without the entries of cancelled transactions
Clean(q) == Filter(q, [id : live, i : Nat])

Sync(id) == log[id[1]][id[2]]
Evt(id, i) == Sync(id).req.evts[i]
CurId(t) == <<t, Len(log[t])>>

\* outside every atomic region
Free == agenda = <<>> /\ failure = "none"
CanStart(t) == Free /\ phase[t] = "run" /\ Len(log[t]) < MaxSync

Set(id, j) == [kind |-> "set", id |-> id, i |-> j]
Wake(x) == [kind |-> "wake", id |-> x.id, i |-> x.i]
DoFn(id, i) == [kind |-> "do", id |-> id, i |-> i]

\* Mutant: every cvar of the group is set, whatever its flags say.
chkCVarsAll(id, i) == [j \in 1 .. Len(Sync(id).req.nacks) |-> Set(id, j)]

\* chkCVars after the i-th flag was set: the cvars none of whose flags is
\* true are to be set
chkCVars(id, i) ==
    LET nacks == Sync(id).req.nacks
        all == [j \in 1 .. Len(nacks) |-> Set(id, j)]
        lost == {j \in DOMAIN nacks : i \notin nacks[j]}
    IN  Filter(all, {Set(id, j) : j \in lost})

\* the partner x of a rendezvous is resumed and runs its clean-up action;
\* a direct send or recv has no nacks, so its chkCVars is empty
Commit(l, id, i) == [l EXCEPT ![id[1]][id[2]].won = i]

-----------------------------------------------------------------------------
(* force: run the guards and create the cvars of the withNacks.  The nack   *)
(* event of <<u, j>> is resolved to u's latest synchronization: this is the *)
(* event that u has just passed to the outside world.                       *)

Resolve(t, r) ==
    LET n(u) == IF u = t THEN Len(log[t]) + 1 ELSE Len(log[u])
        evt(e) == IF e.op = "cvar"
                  THEN [e EXCEPT !.on = <<e.on[1], n(e.on[1]), e.on[2]>>] ELSE e
    IN  [r EXCEPT !.evts = [i \in DOMAIN r.evts |-> evt(r.evts[i])]]

Resolvable(t, r) ==
    \A i \in DOMAIN r.evts : r.evts[i].op = "cvar" =>
        LET u == r.evts[i].on[1] IN
        u # t => log[u] # <<>> /\ r.evts[i].on[2] <= Len(log[u][Len(log[u])].req.nacks)

force(t, r) ==
    /\ CanStart(t) /\ Resolvable(t, r)
    /\ log' = [log EXCEPT ![t] = Append(@, [req |-> Resolve(t, r), won |-> 0])]
    /\ phase' = [phase EXCEPT ![t] = "forced"]
    /\ UNCHANGED <<live, inQ, outQ, prio, cvar, agenda, met, failure>>

-----------------------------------------------------------------------------
(* sync: poll every base event; commit to one that is enabled, or block.    *)

Enabled(e) ==
    CASE e.op = "send" -> Clean(inQ[e.on]) # <<>>
      [] e.op = "recv" -> Clean(outQ[e.on]) # <<>>
      [] e.op = "cvar" -> cvar[e.on].set > 0
      [] e.op = "always" -> TRUE
      [] e.op = "timeout" -> FALSE

\* Priorities: an enabled poll of a channel or a cvar returns its counter and
\* bumps it; an event of fixed priority ranks as the number of enabled events.
Rank(id, En, i) ==
    LET e == Evt(id, i)
        before == Cardinality({j \in En : j < i /\ Evt(id, j).on = e.on})
    IN  CASE e.op \in {"send", "recv"} -> prio[e.on] + before
          [] e.op = "cvar" -> cvar[e.on].set + before
          [] OTHER -> Cardinality(En)

selectDoFn(id, En) == {i \in En : \A j \in En : Rank(id, En, j) <= Rank(id, En, i)}

Bumped(id, En, x) == Cardinality({j \in En : Evt(id, j).on = x})

Indices(id, op, x) == {i \in DOMAIN Sync(id).req.evts : Evt(id, i) = [op |-> op, on |-> x]}

\* The clean-ups that the polls of t's events do on the channel queues.
Polled(id, q, op) ==
    [c \in Chans |-> IF Indices(id, op, c) # {} THEN Clean(q[c]) ELSE q[c]]

\* The items of id for the base events op on x, in the order they are logged
\* (the last event polled first).
Logged(id, op, x) ==
    LET evts == Sync(id).req.evts
        all == [k \in 1 .. Len(evts) |-> Item(id, Len(evts) + 1 - k)]
    IN  Filter(all, {Item(id, i) : i \in Indices(id, op, x)})

\* extRdy: one of the enabled events is chosen, its flag is set, the cvars of
\* the nacks that do not cover it are set, and then its doFn runs
syncReady(t) ==
    LET id == CurId(t)
        En == {i \in DOMAIN Sync(id).req.evts : Enabled(Evt(id, i))}
    IN  /\ Free /\ phase[t] = "forced" /\ En # {}
        /\ \E i \in selectDoFn(id, En) : agenda' = chkCVars(id, i) \o <<DoFn(id, i)>>
        /\ inQ' = Polled(id, inQ, "send")
        /\ outQ' = Polled(id, outQ, "recv")
        /\ prio' = [c \in Chans |-> prio[c] + Bumped(id, En, c)]
        /\ cvar' = [v \in CVars |-> [cvar[v] EXCEPT !.set = @ + Bumped(id, En, v)]]
        /\ UNCHANGED <<phase, log, live, met, failure>>

\* ext: the blockFns put the transaction in the queue of every base event
\* (channels by cleanAndEnqueue), and another thread is dispatched
syncBlock(t) ==
    LET id == CurId(t)
        evts == Sync(id).req.evts
    IN  /\ Free /\ phase[t] = "forced"
        /\ \A i \in DOMAIN evts : ~Enabled(evts[i])
        /\ phase' = [phase EXCEPT ![t] = "blocked"]
        /\ live' = live \cup {id}
        /\ inQ' = [c \in Chans |->
              IF Indices(id, "recv", c) # {}
              THEN Clean(inQ[c]) \o Logged(id, "recv", c) ELSE Polled(id, inQ, "send")[c]]
        /\ outQ' = [c \in Chans |->
              IF Indices(id, "send", c) # {}
              THEN Clean(outQ[c]) \o Logged(id, "send", c) ELSE Polled(id, outQ, "recv")[c]]
        /\ cvar' = [v \in CVars |-> [cvar[v] EXCEPT !.waiting = Logged(id, "cvar", v) \o @]]
        /\ UNCHANGED <<log, prio, agenda, met, failure>>

-----------------------------------------------------------------------------
(* The steps of an atomic region that commits.                              *)

Rest == Tail(agenda)

\* atomicCVarSet: error if it is set; otherwise every waiter is looked at,
\* the newest first
atomicCVarSet(id, j) ==
    LET v == <<id[1], id[2], j>>
        ws == cvar[v].waiting
    IN  IF cvar[v].set > 0
        THEN /\ failure' = "cvar already set"
             /\ UNCHANGED <<cvar, agenda>>
        ELSE /\ cvar' = [cvar EXCEPT ![v] = [set |-> 1, waiting |-> <<>>]]
             /\ agenda' = [k \in 1 .. Len(ws) |-> Wake(ws[k])] \o Rest
             /\ UNCHANGED failure

doSet ==
    /\ agenda # <<>> /\ failure = "none" /\ Head(agenda).kind = "set"
    /\ atomicCVarSet(Head(agenda).id, Head(agenda).i)
    /\ UNCHANGED <<phase, log, live, inQ, outQ, prio, met>>

\* a waiter whose transaction is live is cancelled, cleaned up - which may
\* set further cvars, at once - and made ready
doWake ==
    LET id == Head(agenda).id
        i == Head(agenda).i
    IN  /\ agenda # <<>> /\ failure = "none" /\ Head(agenda).kind = "wake"
        /\ \/ /\ id \in live
              /\ live' = live \ {id}
              /\ log' = Commit(log, id, i)
              /\ phase' = [phase EXCEPT ![id[1]] = "run"]
              /\ agenda' = chkCVars(id, i) \o Rest
           \/ /\ id \notin live
              /\ agenda' = Rest
              /\ UNCHANGED <<live, log, phase>>
        /\ UNCHANGED <<inQ, outQ, prio, cvar, met, failure>>

\* doFn of sendEvt and recvEvt: Q.dequeue without looking again, and
\* getIdFromTrans, which has no case for CANCEL
Rendezvous(id, i, x, rest) ==
    LET e == Evt(id, i)
        pair == IF e.op = "send" THEN [ch |-> e.on, from |-> id, to |-> x.id]
                                 ELSE [ch |-> e.on, from |-> x.id, to |-> id]
    IN  IF x.id \in live
        THEN /\ live' = live \ {x.id}
             /\ prio' = [prio EXCEPT ![e.on] = 1]
             /\ log' = Commit(Commit(log, id, i), x.id, x.i)
             /\ phase' = [phase EXCEPT ![id[1]] = "run", ![x.id[1]] = "run"]
             /\ met' = met \cup {pair}
             /\ agenda' = chkCVars(x.id, x.i) \o rest
             /\ UNCHANGED failure
        ELSE /\ failure' = "Match"
             /\ UNCHANGED <<live, prio, log, phase, met, agenda>>

doFnSend ==
    LET id == Head(agenda).id
        i == Head(agenda).i
        c == Evt(id, i).on
    IN  /\ agenda # <<>> /\ failure = "none" /\ Head(agenda).kind = "do"
        /\ Evt(id, i).op = "send"
        /\ inQ' = [inQ EXCEPT ![c] = Tail(@)]
        /\ Rendezvous(id, i, Head(inQ[c]), Rest)
        /\ UNCHANGED <<outQ, cvar>>

doFnRecv ==
    LET id == Head(agenda).id
        i == Head(agenda).i
        c == Evt(id, i).on
    IN  /\ agenda # <<>> /\ failure = "none" /\ Head(agenda).kind = "do"
        /\ Evt(id, i).op = "recv"
        /\ outQ' = [outQ EXCEPT ![c] = Tail(@)]
        /\ Rendezvous(id, i, Head(outQ[c]), Rest)
        /\ UNCHANGED <<inQ, cvar>>

\* doFn of a cvar (its priority is reset), of alwaysEvt and of a timeout
doFnOther ==
    LET id == Head(agenda).id
        i == Head(agenda).i
        e == Evt(id, i)
    IN  /\ agenda # <<>> /\ failure = "none" /\ Head(agenda).kind = "do"
        /\ e.op \notin {"send", "recv"}
        /\ cvar' = IF e.op = "cvar" THEN [cvar EXCEPT ![e.on].set = 1] ELSE cvar
        /\ log' = Commit(log, id, i)
        /\ phase' = [phase EXCEPT ![id[1]] = "run"]
        /\ agenda' = Rest
        /\ UNCHANGED <<live, inQ, outQ, prio, met, failure>>

RegionStep == doSet \/ doWake \/ doFnSend \/ doFnRecv \/ doFnOther

-----------------------------------------------------------------------------
(* TimeOut.checkQ, run by the scheduler hook: the thread is made ready and  *)
(* its clean-up action cancels the transaction and sets the nacks.          *)

timeoutFires(t) ==
    LET id == CurId(t) IN
    /\ Free /\ phase[t] = "blocked" /\ id \in live
    /\ \E i \in Indices(id, "timeout", <<>>) : agenda' = <<Wake(Item(id, i))>>
    /\ UNCHANGED <<phase, log, live, inQ, outQ, prio, cvar, met, failure>>

-----------------------------------------------------------------------------
(* send, recv, sendPoll, recvPoll: the operations that are not events.      *)
(* A poll that finds nobody only cleans the queue.                          *)

directReq(t, op, c) ==
    [req |-> [evts |-> <<[op |-> op, on |-> c]>>, nacks |-> <<>>], won |-> 0]

Begin(t, op, c) == [log EXCEPT ![t] = Append(@, directReq(t, op, c))]

\* Mutant: the partner is resumed in its first base event.
MeetDirectFirst(t, op, c, x) ==
    LET id == <<t, Len(log[t]) + 1>> IN
    /\ live' = live \ {x.id}
    /\ log' = Commit(Commit(Begin(t, op, c), id, 1), x.id, 1)
    /\ phase' = [phase EXCEPT ![x.id[1]] = "run"]
    /\ agenda' = chkCVars(x.id, 1)
    /\ UNCHANGED <<prio, cvar, met, failure>>

MeetDirect(t, op, c, x) ==
    LET id == <<t, Len(log[t]) + 1>> IN
    /\ live' = live \ {x.id}
    /\ prio' = [prio EXCEPT ![c] = 1]
    /\ log' = Commit(Commit(Begin(t, op, c), id, 1), x.id, x.i)
    /\ phase' = [phase EXCEPT ![x.id[1]] = "run"]
    /\ met' = met \cup {IF op = "send" THEN [ch |-> c, from |-> id, to |-> x.id]
                                       ELSE [ch |-> c, from |-> x.id, to |-> id]}
    /\ agenda' = chkCVars(x.id, x.i)
    /\ UNCHANGED <<cvar, failure>>

BlockDirect(t, op, c) ==
    /\ log' = Begin(t, op, c)
    /\ phase' = [phase EXCEPT ![t] = "blocked"]
    /\ live' = live \cup {<<t, Len(log[t]) + 1>>}
    /\ UNCHANGED <<prio, cvar, agenda, met, failure>>

\* Mutant: send blocks without a look at the waiting receivers.
sendBlindly(t, c) ==
    /\ CanStart(t)
    /\ outQ' = [outQ EXCEPT ![c] = Append(@, Item(<<t, Len(log[t]) + 1>>, 1))]
    /\ BlockDirect(t, "send", c)
    /\ UNCHANGED inQ

send(t, c) ==
    LET q == Clean(inQ[c]) IN
    /\ CanStart(t)
    /\ \/ /\ q # <<>>
          /\ inQ' = [inQ EXCEPT ![c] = Tail(q)]
          /\ MeetDirect(t, "send", c, Head(q))
          /\ UNCHANGED outQ
       \/ /\ q = <<>>
          /\ inQ' = [inQ EXCEPT ![c] = q]
          /\ outQ' = [outQ EXCEPT ![c] = Append(@, Item(<<t, Len(log[t]) + 1>>, 1))]
          /\ BlockDirect(t, "send", c)

recv(t, c) ==
    LET q == Clean(outQ[c]) IN
    /\ CanStart(t)
    /\ \/ /\ q # <<>>
          /\ outQ' = [outQ EXCEPT ![c] = Tail(q)]
          /\ MeetDirect(t, "recv", c, Head(q))
          /\ UNCHANGED inQ
       \/ /\ q = <<>>
          /\ outQ' = [outQ EXCEPT ![c] = q]
          /\ inQ' = [inQ EXCEPT ![c] = Append(@, Item(<<t, Len(log[t]) + 1>>, 1))]
          /\ BlockDirect(t, "recv", c)

Next ==
    /\ \/ RegionStep
       \/ \E t \in Threads :
             \/ \E r \in prog.menu[t] : force(t, r)
             \/ syncReady(t) \/ syncBlock(t) \/ timeoutFires(t)
             \/ \E e \in prog.direct[t] : \/ e.op = "send" /\ send(t, e.on)
                                          \/ e.op = "recv" /\ recv(t, e.on)
    /\ UNCHANGED prog

Spec == Init /\ [][Next]_vars

-----------------------------------------------------------------------------
(* Properties.                                                              *)

Syncs == {id \in Trans : id[2] <= Len(log[id[1]])}
Alive(q) == {x \in ToSet(q) : x.id \in live}

\* No exception escapes inside an atomic region: a doFn finds the partner its
\* poll has seen, and no cvar is set twice.
NoFailure == failure = "none"

\* A transaction id is live exactly while its thread is blocked on it: the
\* commit of one base event withdraws all the others, whoever commits it,
\* and no thread stays blocked after it was chosen.
LiveIsBlocked ==
    Free => \A id \in Syncs :
        id \in live <=> phase[id[1]] = "blocked" /\ id = CurId(id[1]) /\ Sync(id).won = 0

\* A committed send and a committed receive, in pairs.
CommitsPaired ==
    Free =>
      /\ \A m \in met :
            /\ m.from[1] # m.to[1]
            /\ Evt(m.from, Sync(m.from).won) = [op |-> "send", on |-> m.ch]
            /\ Evt(m.to, Sync(m.to).won) = [op |-> "recv", on |-> m.ch]
      /\ \A id \in Syncs : Sync(id).won # 0 /\ Evt(id, Sync(id).won).op \in {"send", "recv"}
            => Cardinality({m \in met : id \in {m.from, m.to}}) = 1

\* Every committed send was received by exactly one committed receive of
\* another thread on the same channel, and conversely; a transaction is live
\* exactly while its thread is blocked on it; and no doFn fails in a region.
MatchedCommits == NoFailure /\ LiveIsBlocked /\ CommitsPaired

\* The programs for which no doFn fails.  extRdy sets the nacks of a decision
\* before the doFn looks at the queue again, so the partner that the poll saw
\* must not be waiting for one of them, nor for a nack that the waiters they
\* wake set in turn.
Lost(r, i) == {j \in DOMAIN r.nacks : i \notin r.nacks[j]}
NackNames == Threads \X (1 .. MaxNacks)
Opposite(e) == [op |-> IF e.op = "send" THEN "recv" ELSE "send", on |-> e.on]

\* N holds, with a nack, all those that a commit to it sets
Cascade(p, N) ==
    \A t \in Threads : \A r \in p.menu[t] : \A i \in DOMAIN r.evts :
        r.evts[i].op = "cvar" /\ r.evts[i].on \in N => \A j \in Lost(r, i) : <<t, j>> \in N

Separate(p) ==
    \A t \in Threads : \A r \in p.menu[t] : \A i \in DOMAIN r.evts :
        r.evts[i].op \in {"send", "recv"} =>
            \E N \in SUBSET NackNames :
                /\ Cascade(p, N) /\ \A j \in Lost(r, i) : <<t, j>> \in N
                /\ \A u \in Threads \ {t} : \A q \in p.menu[u] :
                      Opposite(r.evts[i]) \in ToSet(q.evts) =>
                          \A k \in DOMAIN q.evts : q.evts[k].op = "cvar" => q.evts[k].on \notin N

\* Two threads never wait for each other on one channel: a live sender and a
\* live receiver would have been matched by the one that came second.
OppositesMeet ==
    Free => \A c \in Chans :
        \A x \in Alive(inQ[c]), y \in Alive(outQ[c]) : x.id[1] = y.id[1]

\* A blocked thread can still be reached through every one of its base events:
\* the lazy clean-ups of the queues drop only cancelled entries.
OffersStand ==
    Free => \A id \in live : \A i \in DOMAIN Sync(id).req.evts :
        LET e == Evt(id, i) IN
        /\ e.op = "send" => Item(id, i) \in ToSet(outQ[e.on])
        /\ e.op = "recv" => Item(id, i) \in ToSet(inQ[e.on])
        /\ e.op = "cvar" => Item(id, i) \in ToSet(cvar[e.on].waiting)

\* No rendezvous is missed: opposite offers on one channel meet, and an offer
\* stands at every channel and cvar it was made to until its thread commits.
NoMissedRendezvous == OppositesMeet /\ OffersStand

\* Once a synchronization has committed,
\* the nack of a withNack is set if and only if the winner is not covered by
\* it - also when commits cascade - and before that it is not set.
NackAfterLoss ==
    Free => \A id \in Syncs : \A j \in DOMAIN Sync(id).req.nacks :
        cvar[<<id[1], id[2], j>>].set > 0
            <=> Sync(id).won # 0 /\ Sync(id).won \notin Sync(id).req.nacks[j]

\* Nobody waits for a condition variable that is set.
NoWaiterOnSetCVar ==
    Free => \A v \in CVars : cvar[v].set > 0 => Alive(cvar[v].waiting) = {}

\* Negative acknowledgements are exact: they reach the losers, all of their
\* waiters and nobody else (event.sml, chkCVars and atomicCVarSet).
NackExact == NackAfterLoss /\ NoWaiterOnSetCVar

-----------------------------------------------------------------------------
(* Event implements Rendezvous.  The decision is taken when extRdy selects  *)
(* a doFn: from then until the doFn runs, the chosen event and the partner  *)
(* at the head of its channel's queue count as committed.                   *)

Pending == {k \in DOMAIN agenda : agenda[k].kind = "do"}

LogBar ==
    IF Pending = {} THEN log
    ELSE LET d == agenda[CHOOSE k \in Pending : TRUE]
             e == Evt(d.id, d.i)
             q == IF e.op = "send" THEN inQ[e.on] ELSE outQ[e.on]
         IN  IF e.op \in {"send", "recv"}
             THEN Commit(Commit(log, d.id, d.i), Head(q).id, Head(q).i)
             ELSE Commit(log, d.id, d.i)

Abs == INSTANCE Rendezvous WITH log <- LogBar

\* Every behaviour of the queues, transactions, cvars and priorities is one
\* of the abstract rendezvous: an offer is decided once, a send and a receive
\* are decided together, a nack fires only after a losing commit.
Implements == Abs!Spec
=============================================================================
