----------------------------- MODULE Rendezvous -----------------------------
(***************************************************************************)
(* What synchronization promises to a CML programmer, without queues,      *)
(* transaction ids, priorities or atomic regions.                          *)
(*                                                                         *)
(* log[t][n] is the n-th synchronization of thread t: what it offers       *)
(* (base events and nack sets, as in module Event) and the base event it   *)
(* committed to, 0 while it is undecided.  One step of the system offers a *)
(* new synchronization, or decides exactly one of:                         *)
(*   - a send and a receive of two threads on one channel, together;       *)
(*   - an event that needs no partner: always, a time-out, or the nack of  *)
(*     a synchronization that has committed to something else.             *)
(***************************************************************************)
EXTENDS Naturals, Sequences

CONSTANT Threads
VARIABLE log

Ids(l) == UNION {{<<t, n>> : n \in DOMAIN l[t]} : t \in Threads}
At(l, id) == l[id[1]][id[2]]
Evts(l, id) == At(l, id).req.evts
Undecided(l) == {id \in Ids(l) : At(l, id).won = 0}
Decide(l, id, i) == [l EXCEPT ![id[1]][id[2]].won = i]

\* the nack event v = <<t, n, j>> is enabled
Nacked(l, v) ==
    LET s == l[v[1]][v[2]] IN s.won # 0 /\ s.won \notin s.req.nacks[v[3]]

Init == log = [t \in Threads |-> <<>>]

\* t, whose last synchronization is decided, begins a new one
Begins(t) ==
    /\ log[t] # <<>> => log[t][Len(log[t])].won # 0
    /\ Len(log'[t]) = Len(log[t]) + 1

Offered(t) ==
    [log EXCEPT ![t] = Append(@, [log'[t][Len(log'[t])] EXCEPT !.won = 0])]

Meet(l) ==
    \E s, r \in Undecided(l) :
        /\ s[1] # r[1]
        /\ \E i \in DOMAIN Evts(l, s), j \in DOMAIN Evts(l, r) :
              /\ Evts(l, s)[i].op = "send" /\ Evts(l, r)[j].op = "recv"
              /\ Evts(l, s)[i].on = Evts(l, r)[j].on
              /\ log' = Decide(Decide(l, s, i), r, j)

Alone(l) ==
    \E id \in Undecided(l) : \E i \in DOMAIN Evts(l, id) :
        /\ \/ Evts(l, id)[i].op \in {"always", "timeout"}
           \/ Evts(l, id)[i].op = "cvar" /\ Nacked(l, Evts(l, id)[i].on)
        /\ log' = Decide(l, id, i)

\* a direct send or recv may offer and meet at once
Next ==
    \/ Meet(log)
    \/ Alone(log)
    \/ \E t \in Threads : Begins(t) /\ (log' = Offered(t) \/ Meet(Offered(t)))

Spec == Init /\ [][Next]_log
=============================================================================
