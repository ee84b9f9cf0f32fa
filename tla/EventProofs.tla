---------------------------- MODULE EventProofs ----------------------------
(***************************************************************************)
(* The safety properties of module Event, and its refinement of module     *)
(* Rendezvous, for any number of threads, channels and synchronizations.   *)
(*                                                                         *)
(* The properties hold between atomic regions; the inductive invariant     *)
(* IInv says what holds inside one as well.  A region is a list of tasks:  *)
(* cvars to set, waiters to wake and, last, the doFn of a decision already *)
(* taken.  So a nack counts as set when it is on the agenda, a             *)
(* synchronization as decided when its doFn is, and a waiter that has left *)
(* its cvar is on the agenda instead (NacksOK, Decided, StandOK).  That no *)
(* cvar is listed twice (Orderly) makes atomicCVarSet safe; that an entry  *)
(* of a queue is an offer of a synchronization that got through sync       *)
(* (QueuesOK) makes a cancelled entry harmless.                            *)
(*                                                                         *)
(* IInv claims RegionOK only while no exception has escaped: a doFn can    *)
(* find its partner cancelled by the nacks set before it, and then fails   *)
(* with Match.  Until then everything else holds, whatever the programs.   *)
(*                                                                         *)
(* When the programs are Separate (module Event) no doFn fails.  The       *)
(* second invariant SInv follows a region from the decision to its doFn:   *)
(* all that it sets and wakes is within a set of nacks closed under the    *)
(* cascade, and the partner waits for none of those (Within, Stands).      *)
(* Then the log in which the pending decision counts as committed changes  *)
(* as Rendezvous says.                                                     *)
(***************************************************************************)
EXTENDS Event, SubsequenceProofs

-----------------------------------------------------------------------------
(* The inductive invariant.                                                 *)

Items == [id : Trans, i : Nat]
Tasks == [kind : {"set", "wake", "do"}, id : Trans, i : Nat]
Records == [req : Requests(CVars), won : Nat]
Logs == {l \in [Threads -> Seq(Records)] : \A t \in Threads : Len(l[t]) <= MaxSync}

\* Every variable stays in its type.
TypeOK ==
    /\ prog \in Programs
    /\ phase \in [Threads -> {"run", "forced", "blocked"}]
    /\ log \in Logs
    /\ live \in SUBSET Trans
    /\ inQ \in [Chans -> Seq(Items)] /\ outQ \in [Chans -> Seq(Items)]
    /\ prio \in [Chans -> Nat]
    /\ cvar \in [CVars -> [set : Nat, waiting : Seq(Items)]]
    /\ agenda \in Seq(Tasks)
    /\ met \in SUBSET [ch : Chans, from : Trans, to : Trans]
    /\ failure \in {"none", "Match", "cvar already set"}

\* id has got through sync: it is decided, or in the queues
Posted(id) == id \in Syncs /\ ~ (phase[id[1]] = "forced" /\ id = CurId(id[1]))

\* the base event that x stands for is op on x
Offers(x, op, on) ==
    /\ Posted(x.id) /\ x.i \in DOMAIN Sync(x.id).req.evts
    /\ Evt(x.id, x.i) = [op |-> op, on |-> on]

\* A thread between force and commit has an undecided synchronization, and
\* the live transactions are those of the blocked threads.
PhaseOK ==
    /\ \A t \in Threads : phase[t] # "run" => Len(log[t]) > 0 /\ log[t][Len(log[t])].won = 0
    /\ \A id \in Trans : id \in live <=> phase[id[1]] = "blocked" /\ id = CurId(id[1])

\* Every entry of a queue is an offer on its channel or cvar.
QueuesOK ==
    /\ \A c \in Chans : \A x \in ToSet(inQ[c]) : Offers(x, "recv", c)
    /\ \A c \in Chans : \A x \in ToSet(outQ[c]) : Offers(x, "send", c)
    /\ \A v \in CVars : \A x \in ToSet(cvar[v].waiting) : Offers(x, "cvar", v)

\* OppositesMeet and OffersStand, inside the atomic regions too: a waiter that
\* has left its cvar is on the agenda.
MeetOK ==
    \A c \in Chans : \A x \in ToSet(inQ[c]), y \in ToSet(outQ[c]) :
        x.id \in live /\ y.id \in live => x.id[1] = y.id[1]

StandOK ==
    \A id \in live : \A i \in DOMAIN Sync(id).req.evts :
        LET e == Evt(id, i) IN
        /\ e.op = "send" => Item(id, i) \in ToSet(outQ[e.on])
        /\ e.op = "recv" => Item(id, i) \in ToSet(inQ[e.on])
        /\ e.op = "cvar" => \/ Item(id, i) \in ToSet(cvar[e.on].waiting)
                            \/ Wake(Item(id, i)) \in ToSet(agenda)

\* What the agenda of an atomic region may hold.
DoOK(a) ==
    LET e == Evt(a.id, a.i) IN
    /\ phase[a.id[1]] = "forced" /\ a.id = CurId(a.id[1])
    /\ a.i \in DOMAIN Sync(a.id).req.evts
    /\ e.op = "send" => inQ[e.on] # <<>>
    /\ e.op = "recv" => outQ[e.on] # <<>>
    /\ e.op = "cvar" => cvar[e.on].set > 0

WakeOK(a) ==
    /\ Posted(a.id) /\ a.i \in DOMAIN Sync(a.id).req.evts
    /\ Evt(a.id, a.i).op \in {"cvar", "timeout"}

SetOK(a) ==
    /\ a.id \in Syncs /\ a.i \in DOMAIN Sync(a.id).req.nacks
    /\ cvar[<<a.id[1], a.id[2], a.i>>].set = 0

AgendaOK ==
    \A a \in ToSet(agenda) :
        /\ a.kind = "do" => DoOK(a)
        /\ a.kind = "wake" => WakeOK(a)
        /\ a.kind = "set" => SetOK(a)

\* The doFn comes last, and no cvar is to be set twice.
Orderly(s) ==
    /\ \A k \in DOMAIN s : s[k].kind = "do" => k = Len(s)
    /\ \A k, l \in DOMAIN s : s[k].kind = "set" /\ s[k] = s[l] => k = l

\* id is decided for its i-th base event, committed or about to be.
Decided(id, i) == i # 0 /\ (Sync(id).won = i \/ DoFn(id, i) \in ToSet(agenda))

\* A nack is set, or about to be, exactly after a decision that it does not
\* cover; a set cvar has no waiter.
NacksOK ==
    \A id \in Syncs : \A j \in DOMAIN Sync(id).req.nacks :
        cvar[<<id[1], id[2], j>>].set > 0 \/ Set(id, j) \in ToSet(agenda)
            <=> \E i \in Nat : Decided(id, i) /\ i \notin Sync(id).req.nacks[j]

CVarsOK ==
    \A v \in CVars : cvar[v].set > 0 => <<v[1], v[2]>> \in Syncs /\ cvar[v].waiting = <<>>

\* A committed send and a committed receive, in pairs.
Partners(m) ==
    /\ m.from \in Syncs /\ m.to \in Syncs /\ m.from[1] # m.to[1]
    /\ Sync(m.from).won # 0 /\ Sync(m.to).won # 0
    /\ Evt(m.from, Sync(m.from).won) = [op |-> "send", on |-> m.ch]
    /\ Evt(m.to, Sync(m.to).won) = [op |-> "recv", on |-> m.ch]

MetOK ==
    /\ \A m \in met : Partners(m)
    /\ \A id \in Syncs : Sync(id).won # 0 /\ Evt(id, Sync(id).won).op \in {"send", "recv"}
          => \E m \in met : \A p \in met : id \in {p.from, p.to} <=> p = m

RegionOK ==
    /\ PhaseOK /\ QueuesOK /\ MeetOK /\ StandOK /\ AgendaOK /\ Orderly(agenda)
    /\ NacksOK /\ CVarsOK /\ MetOK

IInv == TypeOK /\ (failure = "none" => RegionOK)

-----------------------------------------------------------------------------
(* The log.                                                                 *)

In(l) == {id \in Trans : id[2] <= Len(l[id[1]])}
Rec(l, id) == l[id[1]][id[2]]

\* What a transaction id in the log denotes.
LEMMA LogShape ==
    ASSUME NEW l \in Logs, NEW id \in In(l)
    PROVE  /\ id[1] \in Threads /\ id[2] \in 1 .. Len(l[id[1]]) /\ id[2] \in 1 .. MaxSync
           /\ id = <<id[1], id[2]>> /\ id \in Trans
           /\ Rec(l, id) \in Records /\ Rec(l, id).won \in Nat
           /\ Rec(l, id).req.evts \in Seq(Events(CVars))
           /\ Rec(l, id).req.nacks \in Seq(SUBSET Nat)
           /\ \A j \in DOMAIN Rec(l, id).req.nacks : <<id[1], id[2], j>> \in CVars /\ j \in Nat
<1>1. /\ id[1] \in Threads /\ id[2] \in 1 .. MaxSync /\ id = <<id[1], id[2]>> /\ id \in Trans
      /\ id[2] <= Len(l[id[1]]) /\ MaxSync \in Nat
  BY EventAssumption DEF In, Trans
<1>2. l[id[1]] \in Seq(Records) /\ Len(l[id[1]]) \in Nat
  BY <1>1 DEF Logs
<1>3. id[2] \in 1 .. Len(l[id[1]])
  BY <1>1, <1>2
<1>4. Rec(l, id) \in Records
  BY <1>2, <1>3 DEF Rec
<1>5. /\ Rec(l, id).won \in Nat /\ Rec(l, id).req.evts \in Seq(Events(CVars))
      /\ Rec(l, id).req.nacks \in Seq(SUBSET Nat) /\ Len(Rec(l, id).req.nacks) <= MaxNacks
  BY <1>4 DEF Records, Requests
<1>6. ASSUME NEW j \in DOMAIN Rec(l, id).req.nacks
      PROVE  <<id[1], id[2], j>> \in CVars /\ j \in Nat
  <2>1. j \in 1 .. MaxNacks
    BY <1>5, <1>6, EventAssumption
  <2> QED BY <1>1, <2>1 DEF CVars
<1> QED BY <1>1, <1>3, <1>4, <1>5, <1>6

\* A commit changes the outcome of one synchronization and nothing else.
LEMMA CommitProps ==
    ASSUME NEW l \in Logs, NEW id \in In(l), NEW i \in Nat
    PROVE  /\ Commit(l, id, i) \in Logs /\ In(Commit(l, id, i)) = In(l)
           /\ \A t \in Threads : Len(Commit(l, id, i)[t]) = Len(l[t])
           /\ Rec(Commit(l, id, i), id) = [req |-> Rec(l, id).req, won |-> i]
           /\ \A a \in In(l) : a # id => Rec(Commit(l, id, i), a) = Rec(l, a)
<1> DEFINE m == Commit(l, id, i)
           r == [Rec(l, id) EXCEPT !.won = i]
           q == [l[id[1]] EXCEPT ![id[2]] = r]
<1>1. /\ id[1] \in Threads /\ id[2] \in 1 .. Len(l[id[1]]) /\ id = <<id[1], id[2]>>
      /\ Rec(l, id) \in Records
  BY LogShape
<1>2. r \in Records /\ r = [req |-> Rec(l, id).req, won |-> i]
  BY <1>1 DEF Records
<1>3. /\ l \in [Threads -> Seq(Records)] /\ l[id[1]] \in Seq(Records)
      /\ Len(l[id[1]]) \in Nat /\ \A t \in Threads : Len(l[t]) <= MaxSync
  BY <1>1 DEF Logs
<1>4. m = [l EXCEPT ![id[1]] = q]
  BY DEF Commit, Rec
<1> HIDE DEF r
<1>5. /\ q \in Seq(Records) /\ Len(q) = Len(l[id[1]]) /\ q[id[2]] = r
      /\ \A n \in 1 .. Len(l[id[1]]) : n # id[2] => q[n] = l[id[1]][n]
  BY <1>1, <1>2, <1>3
<1> HIDE DEF q, m
<1>6. /\ m \in [Threads -> Seq(Records)] /\ m[id[1]] = q
      /\ \A t \in Threads : t # id[1] => m[t] = l[t]
  BY <1>1, <1>3, <1>4, <1>5
<1>7. \A t \in Threads : Len(m[t]) = Len(l[t])
  BY <1>5, <1>6
<1>8. m \in Logs
  BY <1>3, <1>6, <1>7 DEF Logs
<1>9. In(m) = In(l)
  BY <1>7 DEF In, Trans
<1>10. Rec(m, id) = r
  BY <1>5, <1>6 DEF Rec
<1>11. ASSUME NEW a \in In(l), a # id PROVE Rec(m, a) = Rec(l, a)
  <2>1. a[1] \in Threads /\ a[2] \in 1 .. Len(l[a[1]]) /\ a = <<a[1], a[2]>>
    BY LogShape
  <2>2. CASE a[1] # id[1]
    BY <1>6, <2>1, <2>2 DEF Rec
  <2>3. CASE a[1] = id[1]
    <3>1. a[2] # id[2]
      BY <1>1, <1>11, <2>1, <2>3
    <3> QED BY <1>5, <1>6, <2>1, <2>3, <3>1 DEF Rec
  <2> QED BY <2>2, <2>3
<1> QED BY <1>2, <1>7, <1>8, <1>9, <1>10, <1>11 DEF m

\* m is l with one more synchronization of t
Extended(l, m, t, r) == m = [l EXCEPT ![t] = Append(@, r)]

\* A synchronization that begins gets a new id; the others are untouched.
LEMMA ExtendProps ==
    ASSUME NEW l \in Logs, NEW t \in Threads, Len(l[t]) < MaxSync, NEW r \in Records, NEW m,
           Extended(l, m, t, r)
    PROVE  /\ m \in Logs /\ <<t, Len(l[t]) + 1>> \in Trans \ In(l)
           /\ In(m) = In(l) \cup {<<t, Len(l[t]) + 1>>}
           /\ Rec(m, <<t, Len(l[t]) + 1>>) = r
           /\ \A a \in In(l) : Rec(m, a) = Rec(l, a)
           /\ Len(m[t]) = Len(l[t]) + 1 /\ \A u \in Threads : u # t => m[u] = l[u]
<1> DEFINE q == Append(l[t], r)
           n == Len(l[t]) + 1
<1>1. /\ l \in [Threads -> Seq(Records)] /\ l[t] \in Seq(Records) /\ Len(l[t]) \in Nat
      /\ \A u \in Threads : Len(l[u]) <= MaxSync /\ Len(l[u]) \in Nat
  BY DEF Logs
<1>2. /\ q \in Seq(Records) /\ Len(q) = n /\ q[n] = r /\ \A k \in 1 .. Len(l[t]) : q[k] = l[t][k]
  BY <1>1
<1>3. m = [l EXCEPT ![t] = q]
  BY DEF Extended
<1> HIDE DEF q
<1>4. m \in [Threads -> Seq(Records)] /\ m[t] = q /\ \A u \in Threads : u # t => m[u] = l[u]
  BY <1>1, <1>2, <1>3
<1>5. n \in 1 .. MaxSync /\ <<t, n>> \in Trans
  BY <1>1, EventAssumption DEF Trans
<1>6. m \in Logs
  <2>1. Len(m[t]) <= MaxSync
    BY <1>2, <1>4, <1>5
  <2>2. \A u \in Threads : Len(m[u]) <= MaxSync
    BY <1>1, <1>4, <2>1
  <2> QED BY <1>4, <2>2 DEF Logs
<1>7. ASSUME NEW a \in Trans PROVE a \in In(m) <=> a \in In(l) \/ a = <<t, n>>
  <2>1. a[1] \in Threads /\ a[2] \in 1 .. MaxSync /\ a = <<a[1], a[2]>>
    BY DEF Trans
  <2>2. CASE a[1] # t
    BY <1>4, <2>1, <2>2 DEF In
  <2>3. CASE a[1] = t
    <3>1. a \in In(m) <=> a[2] <= n
      BY <1>2, <1>4, <2>3 DEF In
    <3>2. a \in In(l) <=> a[2] <= Len(l[t])
      BY <2>3 DEF In
    <3>3. a = <<t, n>> <=> a[2] = n
      BY <2>1, <2>3
    <3> QED BY <1>1, <2>1, <3>1, <3>2, <3>3
  <2> QED BY <2>2, <2>3
<1>8. <<t, n>> \notin In(l)
  BY <1>1 DEF In
<1>9. In(m) = In(l) \cup {<<t, n>>}
  BY <1>5, <1>7 DEF In
<1>10. Rec(m, <<t, n>>) = r
  BY <1>2, <1>4 DEF Rec
<1>11. ASSUME NEW a \in In(l) PROVE Rec(m, a) = Rec(l, a)
  <2>1. a[1] \in Threads /\ a[2] \in 1 .. Len(l[a[1]])
    BY LogShape
  <2> QED BY <1>2, <1>4, <2>1 DEF Rec
<1> QED BY <1>2, <1>4, <1>5, <1>6, <1>8, <1>9, <1>10, <1>11

-----------------------------------------------------------------------------
(* The agenda.                                                              *)

\* A region goes on in order: the doFn is last, a cvar is not listed twice.
LEMMA OrderlyTail ==
    ASSUME NEW s \in Seq(Tasks), s # <<>>, Orderly(s)
    PROVE  /\ Head(s) \in ToSet(s) /\ Tail(s) \in Seq(Tasks) /\ Orderly(Tail(s))
           /\ ToSet(s) = {Head(s)} \cup ToSet(Tail(s))
           /\ Head(s).kind = "do" => Tail(s) = <<>>
           /\ Head(s).kind = "set" => Head(s) \notin ToSet(Tail(s))
           /\ \A a, b \in ToSet(s) : a.kind = "do" /\ b.kind = "do" => a = b
<1> DEFINE h == Head(s)
           r == Tail(s)
<1>1. /\ Len(s) \in Nat /\ Len(s) # 0 /\ h = s[1] /\ r \in Seq(Tasks) /\ Len(r) = Len(s) - 1
      /\ DOMAIN s = 1 .. Len(s) /\ DOMAIN r = 1 .. Len(s) - 1
      /\ \A k \in 1 .. Len(s) - 1 : r[k] = s[k + 1]
  OBVIOUS
<1> HIDE DEF h, r
<1>2. Orderly(r)
  <2>1. ASSUME NEW k \in DOMAIN r, r[k].kind = "do" PROVE k = Len(r)
    <3>1. k + 1 \in DOMAIN s /\ s[k + 1].kind = "do"
      BY <1>1, <2>1
    <3>2. k + 1 = Len(s)
      BY <3>1 DEF Orderly
    <3> QED BY <1>1, <3>2
  <2>2. ASSUME NEW k \in DOMAIN r, NEW l \in DOMAIN r, r[k].kind = "set", r[k] = r[l] PROVE k = l
    <3>1. k + 1 \in DOMAIN s /\ l + 1 \in DOMAIN s /\ s[k + 1].kind = "set" /\ s[k + 1] = s[l + 1]
      BY <1>1, <2>2
    <3>2. k + 1 = l + 1
      BY <3>1 DEF Orderly
    <3> QED BY <1>1, <3>2
  <2> QED BY <2>1, <2>2 DEF Orderly
<1>3. ToSet(s) = {h} \cup ToSet(r) /\ h \in ToSet(s)
  <2>1. h \in ToSet(s)
    BY <1>1 DEF ToSet
  <2>2. ASSUME NEW x \in ToSet(r) PROVE x \in ToSet(s)
    <3>1. PICK k \in 1 .. Len(s) - 1 : x = r[k]
      BY <1>1 DEF ToSet
    <3>2. k + 1 \in DOMAIN s /\ s[k + 1] = x
      BY <1>1, <3>1
    <3> QED BY <3>2 DEF ToSet
  <2>3. ASSUME NEW x \in ToSet(s), x # h PROVE x \in ToSet(r)
    <3>1. PICK k \in 1 .. Len(s) : x = s[k]
      BY <1>1 DEF ToSet
    <3>2. k # 1
      BY <1>1, <2>3, <3>1
    <3>3. k - 1 \in 1 .. Len(s) - 1 /\ (k - 1) + 1 = k
      BY <1>1, <3>2
    <3>4. r[k - 1] = x
      BY <1>1, <3>1, <3>3
    <3> QED BY <1>1, <3>3, <3>4 DEF ToSet
  <2> QED BY <2>1, <2>2, <2>3
<1>4. h.kind = "do" => r = <<>>
  <2>1. h.kind = "do" => 1 = Len(s)
    BY <1>1 DEF Orderly
  <2> QED BY <1>1, <2>1
<1>5. h.kind = "set" => h \notin ToSet(r)
  <2>1. ASSUME h.kind = "set", h \in ToSet(r) PROVE FALSE
    <3>1. PICK k \in 1 .. Len(s) - 1 : h = r[k]
      BY <1>1, <2>1 DEF ToSet
    <3>2. k + 1 \in DOMAIN s /\ 1 \in DOMAIN s /\ s[1].kind = "set" /\ s[1] = s[k + 1]
      BY <1>1, <2>1, <3>1
    <3>3. 1 = k + 1
      BY <3>2 DEF Orderly
    <3> QED BY <1>1, <3>3
  <2> QED BY <2>1
<1>6. ASSUME NEW a \in ToSet(s), NEW b \in ToSet(s), a.kind = "do", b.kind = "do" PROVE a = b
  <2>1. PICK k \in DOMAIN s : a = s[k]
    BY DEF ToSet
  <2>2. PICK l \in DOMAIN s : b = s[l]
    BY DEF ToSet
  <2>3. k = Len(s) /\ l = Len(s)
    BY <1>6, <2>1, <2>2 DEF Orderly
  <2> QED BY <2>1, <2>2, <2>3
<1> QED BY <1>1, <1>2, <1>3, <1>4, <1>5, <1>6 DEF h, r

\* Clean-ups put in front of an orderly agenda keep it in order.
LEMMA OrderlyConcat ==
    ASSUME NEW p \in Seq(Tasks), NEW r \in Seq(Tasks), Orderly(r),
           \A a \in ToSet(p) : a.kind # "do",
           \A k, l \in DOMAIN p : p[k].kind = "set" /\ p[k] = p[l] => k = l,
           \A a \in ToSet(p) : a.kind = "set" => a \notin ToSet(r)
    PROVE  p \o r \in Seq(Tasks) /\ Orderly(p \o r) /\ ToSet(p \o r) = ToSet(p) \cup ToSet(r)
<1> DEFINE c == p \o r
<1>1. ToSet(c) = ToSet(p) \cup ToSet(r)
  BY ConcatElements
<1>2. /\ c \in Seq(Tasks) /\ Len(c) = Len(p) + Len(r) /\ Len(p) \in Nat /\ Len(r) \in Nat
      /\ DOMAIN p = 1 .. Len(p) /\ DOMAIN r = 1 .. Len(r)
      /\ DOMAIN c = 1 .. Len(p) + Len(r)
      /\ \A k \in 1 .. Len(p) + Len(r) : c[k] = IF k <= Len(p) THEN p[k] ELSE r[k - Len(p)]
  BY ConcatProperties
<1> HIDE DEF c
<1>3. ASSUME NEW k \in DOMAIN c, c[k].kind = "do" PROVE k = Len(c)
  <2>1. CASE k <= Len(p)
    <3>1. k \in DOMAIN p /\ c[k] = p[k]
      BY <1>2, <2>1
    <3>2. p[k] \in ToSet(p)
      BY <3>1 DEF ToSet
    <3> QED BY <1>3, <3>1, <3>2
  <2>2. CASE ~ (k <= Len(p))
    <3>1. k - Len(p) \in DOMAIN r /\ c[k] = r[k - Len(p)]
      BY <1>2, <2>2
    <3>2. k - Len(p) = Len(r)
      BY <1>3, <3>1 DEF Orderly
    <3> QED BY <1>2, <3>2
  <2> QED BY <2>1, <2>2
<1>4. ASSUME NEW k \in DOMAIN c, NEW l \in DOMAIN c, c[k].kind = "set", c[k] = c[l] PROVE k = l
  <2>1. \A n \in DOMAIN c : n <= Len(p) => n \in DOMAIN p /\ c[n] = p[n] /\ p[n] \in ToSet(p)
    BY <1>2 DEF ToSet
  <2>2. \A n \in DOMAIN c : ~ (n <= Len(p)) => /\ n - Len(p) \in DOMAIN r /\ c[n] = r[n - Len(p)]
    BY <1>2
  <2>3. \A n \in DOMAIN r : r[n] \in ToSet(r)
    BY DEF ToSet
  <2>4. CASE k <= Len(p) /\ l <= Len(p)
    BY <1>4, <2>1, <2>4
  <2>5. CASE ~ (k <= Len(p)) /\ ~ (l <= Len(p))
    <3>1. k - Len(p) = l - Len(p)
      BY <1>4, <2>2, <2>5 DEF Orderly
    <3> QED BY <1>2, <3>1
  <2>6. CASE k <= Len(p) /\ ~ (l <= Len(p))
    BY <1>4, <2>1, <2>2, <2>3, <2>6
  <2>7. CASE ~ (k <= Len(p)) /\ l <= Len(p)
    BY <1>4, <2>1, <2>2, <2>3, <2>7
  <2> QED BY <2>4, <2>5, <2>6, <2>7
<1> QED BY <1>1, <1>2, <1>3, <1>4 DEF Orderly, c

\* chkCVars lists the cvars of the nacks that do not cover i, once each.
LEMMA ChkProps ==
    ASSUME NEW nacks \in Seq(SUBSET Nat), NEW id \in Trans, NEW i \in Nat,
           nacks = Sync(id).req.nacks
    PROVE  /\ chkCVars(id, i) \in Seq(Tasks)
           /\ ToSet(chkCVars(id, i)) = {Set(id, j) : j \in {k \in DOMAIN nacks : i \notin nacks[k]}}
           /\ IsInjective(chkCVars(id, i))
<1> DEFINE all == [j \in 1 .. Len(nacks) |-> Set(id, j)]
           A == {Set(id, j) : j \in {k \in DOMAIN nacks : i \notin nacks[k]}}
<1>1. chkCVars(id, i) = Filter(all, A)
  BY DEF chkCVars
<1>2. Len(nacks) \in Nat /\ DOMAIN nacks = 1 .. Len(nacks)
  OBVIOUS
<1>3. \A j \in 1 .. Len(nacks) : Set(id, j) \in Tasks /\ Set(id, j).i = j
  BY <1>2 DEF Set, Tasks
<1>4. all \in Seq(Tasks) /\ DOMAIN all = 1 .. Len(nacks) /\ \A j \in 1 .. Len(nacks) : all[j] = Set(id, j)
  BY <1>2, <1>3
<1> HIDE DEF all
<1>5. IsInjective(all)
  BY <1>3, <1>4 DEF IsInjective
<1>6. A \subseteq ToSet(all)
  BY <1>2, <1>4 DEF ToSet
<1> HIDE DEF A
<1>7. Filter(all, A) \in Seq(Tasks) /\ ToSet(Filter(all, A)) = ToSet(all) \cap A
  BY <1>4, FilterProps
<1>8. IsInjective(Filter(all, A))
  BY <1>4, <1>5, InjectiveKept
<1> QED BY <1>1, <1>6, <1>7, <1>8 DEF A
-----------------------------------------------------------------------------
(* The queues.                                                              *)

\* The elements of a list, and of its tail.
LEMMA Elements ==
    ASSUME NEW T, NEW q \in Seq(T)
    PROVE  /\ ToSet(q) \subseteq T
           /\ q # <<>> => /\ Head(q) \in ToSet(q) /\ Tail(q) \in Seq(T)
                          /\ ToSet(q) = {Head(q)} \cup ToSet(Tail(q))
<1>1. ToSet(q) \subseteq T
  BY DEF ToSet
<1>2. ASSUME q # <<>>
      PROVE  /\ Head(q) \in ToSet(q) /\ Tail(q) \in Seq(T)
             /\ ToSet(q) = {Head(q)} \cup ToSet(Tail(q))
  <2>1. Head(q) \in T /\ Tail(q) \in Seq(T) /\ q = <<Head(q)>> \o Tail(q)
    BY <1>2, SplitHead
  <2>2. <<Head(q)>> \in Seq(T) /\ ToSet(<<Head(q)>>) = {Head(q)}
    BY <2>1, SmallLists
  <2>3. ToSet(<<Head(q)>> \o Tail(q)) = ToSet(<<Head(q)>>) \cup ToSet(Tail(q))
    BY <2>1, <2>2, ConcatElements
  <2> QED BY <2>1, <2>2, <2>3
<1> QED BY <1>1, <1>2

\* A clean-up keeps exactly the entries of live transactions.
LEMMA CleanProps ==
    ASSUME NEW q \in Seq(Items)
    PROVE  /\ Clean(q) \in Seq(Items)
           /\ ToSet(Clean(q)) = {x \in ToSet(q) : x.id \in live}
           /\ Clean(q) = <<>> <=> \A x \in ToSet(q) : x.id \notin live
<1> DEFINE A == [id : live, i : Nat]
<1>1. Clean(q) = Filter(q, A)
  BY DEF Clean
<1>2. ToSet(q) \subseteq Items
  BY Elements
<1>3. \A x \in ToSet(q) : x \in A <=> x.id \in live
  BY <1>2 DEF Items
<1> HIDE DEF A
<1>4. Filter(q, A) \in Seq(Items) /\ ToSet(Filter(q, A)) = ToSet(q) \cap A
  BY FilterProps
<1>5. ToSet(q) \cap A = {} <=> Filter(q, A) = <<>>
  BY FilterAll
<1> QED BY <1>1, <1>3, <1>4, <1>5

\* What sync puts in a queue: one item for each base event that offers it.
LEMMA LoggedProps ==
    ASSUME NEW id \in Trans, NEW op, NEW x, Sync(id).req.evts \in Seq(Events(CVars))
    PROVE  /\ Logged(id, op, x) \in Seq(Items)
           /\ ToSet(Logged(id, op, x)) = {Item(id, i) : i \in Indices(id, op, x)}
           /\ Indices(id, op, x) \subseteq Nat
<1> DEFINE evts == Sync(id).req.evts
           n == Len(evts)
           all == [k \in 1 .. n |-> Item(id, n + 1 - k)]
           A == {Item(id, i) : i \in Indices(id, op, x)}
<1>1. Logged(id, op, x) = Filter(all, A)
  BY DEF Logged
<1>2. n \in Nat /\ DOMAIN evts = 1 .. n
  OBVIOUS
<1>3. Indices(id, op, x) \subseteq 1 .. n
  BY <1>2 DEF Indices
<1> HIDE DEF n
<1>4. \A k \in 1 .. n : n + 1 - k \in 1 .. n /\ n + 1 - (n + 1 - k) = k
  BY <1>2
<1>5. \A k \in 1 .. n : Item(id, k) \in Items
  BY <1>2 DEF Item, Items
<1>6. all \in Seq(Items) /\ DOMAIN all = 1 .. n /\ \A k \in 1 .. n : all[k] = Item(id, n + 1 - k)
  BY <1>2, <1>4, <1>5
<1> HIDE DEF all
<1>7. A \subseteq ToSet(all)
  <2>1. ASSUME NEW i \in 1 .. n PROVE Item(id, i) \in ToSet(all)
    <3>1. n + 1 - i \in 1 .. n /\ all[n + 1 - i] = Item(id, i)
      BY <1>4, <1>6
    <3> QED BY <1>6, <3>1 DEF ToSet
  <2> QED BY <1>3, <2>1
<1> HIDE DEF A
<1>8. Filter(all, A) \in Seq(Items) /\ ToSet(Filter(all, A)) = ToSet(all) \cap A
  BY <1>6, FilterProps
<1>9. Indices(id, op, x) \subseteq Nat
  BY <1>2, <1>3
<1> QED BY <1>1, <1>7, <1>8, <1>9 DEF A

\* q is a queue from which only entries of transactions outside L have gone.
Shrunk(q, r, L) ==
    \A c \in Chans : /\ ToSet(r[c]) \subseteq ToSet(q[c])
                     /\ \A x \in ToSet(q[c]) : x.id \in L => x \in ToSet(r[c])

\* Polling a channel drops only cancelled entries.
LEMMA PolledProps ==
    ASSUME NEW q \in [Chans -> Seq(Items)], NEW id, NEW op
    PROVE  /\ Polled(id, q, op) \in [Chans -> Seq(Items)]
           /\ Shrunk(q, Polled(id, q, op), live)
           /\ \A c \in Chans : Indices(id, op, c) # {} => Polled(id, q, op)[c] = Clean(q[c])
<1>1. \A c \in Chans : Polled(id, q, op)[c] = IF Indices(id, op, c) # {} THEN Clean(q[c]) ELSE q[c]
  BY DEF Polled
<1>2. \A c \in Chans : /\ Clean(q[c]) \in Seq(Items) /\ q[c] \in Seq(Items)
                       /\ ToSet(Clean(q[c])) = {x \in ToSet(q[c]) : x.id \in live}
  BY CleanProps
<1>3. Polled(id, q, op) \in [Chans -> Seq(Items)]
  BY <1>2 DEF Polled
<1>4. ASSUME NEW c \in Chans
      PROVE  /\ ToSet(Polled(id, q, op)[c]) \subseteq ToSet(q[c])
             /\ \A x \in ToSet(q[c]) : x.id \in live => x \in ToSet(Polled(id, q, op)[c])
  BY <1>1, <1>2
<1>5. Shrunk(q, Polled(id, q, op), live)
  BY <1>4 DEF Shrunk
<1> QED BY <1>1, <1>3, <1>5
-----------------------------------------------------------------------------
(* What every step leaves alone: a synchronization keeps what it offers,    *)
(* and does not come back from the queues.                                  *)

Evolves ==
    \A id \in Syncs : /\ id \in Syncs' /\ Sync(id)'.req = Sync(id).req
                      /\ Posted(id) => Posted(id)'

\* An entry keeps standing for the base event it was made for.
LEMMA OffersKept ==
    ASSUME Evolves, NEW x, NEW op, NEW on, Offers(x, op, on)
    PROVE  Offers(x, op, on)'
<1>1. x.id \in Syncs /\ Posted(x.id)
  BY DEF Offers, Posted
<1>2. Posted(x.id)' /\ Sync(x.id)'.req = Sync(x.id).req
  BY <1>1 DEF Evolves
<1> QED BY <1>2 DEF Offers, Evt

\* A live transaction is posted and undecided.
LEMMA LiveShape ==
    ASSUME TypeOK, PhaseOK
    PROVE  /\ Syncs = In(log) /\ live \subseteq Syncs /\ \A id \in live : Posted(id) /\ Sync(id).won = 0
           /\ \A id \in Syncs : Sync(id) = Rec(log, id)
           /\ \A t \in Threads : phase[t] # "run" => CurId(t) \in Syncs /\ Sync(CurId(t)).won = 0
           /\ \A t \in Threads : CurId(t)[1] = t
<1>1. Syncs = In(log) /\ log \in Logs
  BY DEF Syncs, In, TypeOK
<1>2. ASSUME NEW t \in Threads, phase[t] # "run"
      PROVE  CurId(t) \in Syncs /\ Sync(CurId(t)).won = 0
  <2>1. Len(log[t]) > 0 /\ log[t][Len(log[t])].won = 0
    BY <1>2 DEF PhaseOK
  <2>2. Len(log[t]) \in Nat /\ Len(log[t]) <= MaxSync
    BY <1>1 DEF Logs
  <2>3. CurId(t) \in Trans
    BY <2>1, <2>2, EventAssumption DEF CurId, Trans
  <2> QED BY <2>1, <2>2, <2>3 DEF CurId, Syncs, Sync
<1>3. ASSUME NEW id \in live PROVE id \in Syncs /\ Posted(id) /\ Sync(id).won = 0
  <2>1. id \in Trans
    BY DEF TypeOK
  <2>2. phase[id[1]] = "blocked" /\ id = CurId(id[1]) /\ id[1] \in Threads
    BY <2>1 DEF PhaseOK, Trans
  <2> QED BY <1>2, <2>2 DEF Posted
<1>4. \A t \in Threads : CurId(t)[1] = t
  BY DEF CurId
<1> QED BY <1>1, <1>2, <1>3, <1>4 DEF Sync, Rec

\* A step that only removes entries keeps the queues right.
LEMMA QueuesShrink ==
    ASSUME Evolves, QueuesOK, MeetOK, live' \subseteq live,
           Shrunk(inQ, inQ', live'), Shrunk(outQ, outQ', live'),
           \A v \in CVars : ToSet(cvar'[v].waiting) \subseteq ToSet(cvar[v].waiting)
    PROVE  QueuesOK' /\ MeetOK'
<1>1. ASSUME NEW c \in Chans, NEW x \in ToSet(inQ'[c]) PROVE Offers(x, "recv", c)'
  <2>1. Offers(x, "recv", c)
    BY DEF Shrunk, QueuesOK
  <2> QED BY <2>1, OffersKept
<1>2. ASSUME NEW c \in Chans, NEW x \in ToSet(outQ'[c]) PROVE Offers(x, "send", c)'
  <2>1. Offers(x, "send", c)
    BY DEF Shrunk, QueuesOK
  <2> QED BY <2>1, OffersKept
<1>3. ASSUME NEW v \in CVars, NEW x \in ToSet(cvar'[v].waiting) PROVE Offers(x, "cvar", v)'
  <2>1. Offers(x, "cvar", v)
    BY DEF QueuesOK
  <2> QED BY <2>1, OffersKept
<1>4. MeetOK'
  BY DEF MeetOK, Shrunk
<1> QED BY <1>1, <1>2, <1>3, <1>4 DEF QueuesOK

\* A step that removes no entry of a live transaction keeps its offers standing.
LEMMA StandsOn ==
    ASSUME TypeOK, PhaseOK, Evolves, StandOK, live' \subseteq live,
           Shrunk(inQ, inQ', live'), Shrunk(outQ, outQ', live'),
           \A v \in CVars : \A y \in ToSet(cvar[v].waiting) : y.id \in live' =>
               y \in ToSet(cvar'[v].waiting) \/ Wake(y) \in ToSet(agenda'),
           \A y \in Items : Wake(y) \in ToSet(agenda) /\ y.id \in live' => Wake(y) \in ToSet(agenda')
    PROVE  StandOK'
<1> SUFFICES ASSUME NEW id \in live', NEW i \in DOMAIN Sync(id)'.req.evts
             PROVE  LET e == Evt(id, i)' IN
                    /\ e.op = "send" => Item(id, i) \in ToSet(outQ'[e.on])
                    /\ e.op = "recv" => Item(id, i) \in ToSet(inQ'[e.on])
                    /\ e.op = "cvar" => \/ Item(id, i) \in ToSet(cvar'[e.on].waiting)
                                        \/ Wake(Item(id, i)) \in ToSet(agenda')
  BY DEF StandOK
<1>1. id \in live /\ id \in Syncs /\ id \in In(log) /\ log \in Logs /\ Sync(id) = Rec(log, id)
  BY LiveShape DEF TypeOK
<1>2. Sync(id)'.req = Sync(id).req
  BY <1>1 DEF Evolves
<1>3. Sync(id).req.evts \in Seq(Events(CVars)) /\ id \in Trans
  BY <1>1, LogShape
<1> DEFINE e == Sync(id).req.evts[i]
<1>4. i \in DOMAIN Sync(id).req.evts /\ e = Evt(id, i) /\ e = Evt(id, i)'
  BY <1>2 DEF Evt
<1>5. e \in Events(CVars) /\ i \in Nat
  BY <1>3, <1>4
<1> HIDE DEF e
<1>6. /\ e.op \in {"send", "recv"} => e.on \in Chans
      /\ e.op = "cvar" => e.on \in CVars
  BY <1>5 DEF Events, ChanEvents
<1>7. Item(id, i) \in Items /\ Item(id, i).id = id
  BY <1>3, <1>5 DEF Item, Items
<1>8. /\ e.op = "send" => Item(id, i) \in ToSet(outQ[e.on])
      /\ e.op = "recv" => Item(id, i) \in ToSet(inQ[e.on])
      /\ e.op = "cvar" => \/ Item(id, i) \in ToSet(cvar[e.on].waiting)
                          \/ Wake(Item(id, i)) \in ToSet(agenda)
  BY <1>1, <1>4 DEF StandOK
<1>9. e.op = "send" => Item(id, i) \in ToSet(outQ'[e.on])
  BY <1>6, <1>7, <1>8 DEF Shrunk
<1>10. e.op = "recv" => Item(id, i) \in ToSet(inQ'[e.on])
  BY <1>6, <1>7, <1>8 DEF Shrunk
<1>11. e.op = "cvar" => \/ Item(id, i) \in ToSet(cvar'[e.on].waiting)
                        \/ Wake(Item(id, i)) \in ToSet(agenda')
  BY <1>6, <1>7, <1>8
<1> QED BY <1>4, <1>9, <1>10, <1>11

\* What a step that blocks does to the queues: id is put into them, and
\* nobody was waiting on the other side.
LEMMA Blocks ==
    ASSUME TypeOK, PhaseOK, Evolves, QueuesOK, MeetOK, StandOK,
           NEW id, ~ Posted(id), live' = live \cup {id}, agenda' = agenda,
           \A c \in Chans : \A x \in ToSet(inQ'[c]) :
               \/ x \in ToSet(inQ[c])
               \/ x.id = id /\ Offers(x, "recv", c)' /\ \A y \in ToSet(outQ[c]) : y.id \notin live,
           \A c \in Chans : \A x \in ToSet(outQ'[c]) :
               \/ x \in ToSet(outQ[c])
               \/ x.id = id /\ Offers(x, "send", c)' /\ \A y \in ToSet(inQ[c]) : y.id \notin live,
           \A v \in CVars : \A x \in ToSet(cvar'[v].waiting) :
               x \in ToSet(cvar[v].waiting) \/ (x.id = id /\ Offers(x, "cvar", v)'),
           \A c \in Chans : \A x \in ToSet(inQ[c]) : x.id \in live => x \in ToSet(inQ'[c]),
           \A c \in Chans : \A x \in ToSet(outQ[c]) : x.id \in live => x \in ToSet(outQ'[c]),
           \A v \in CVars : ToSet(cvar[v].waiting) \subseteq ToSet(cvar'[v].waiting),
           \A i \in DOMAIN Sync(id)'.req.evts :
               LET e == Evt(id, i)' IN
               /\ e.op = "send" => Item(id, i) \in ToSet(outQ'[e.on])
               /\ e.op = "recv" => Item(id, i) \in ToSet(inQ'[e.on])
               /\ e.op = "cvar" => Item(id, i) \in ToSet(cvar'[e.on].waiting)
    PROVE  QueuesOK' /\ MeetOK' /\ StandOK'
<1>1. /\ \A c \in Chans : \A x \in ToSet(inQ[c]) : x.id # id
      /\ \A c \in Chans : \A x \in ToSet(outQ[c]) : x.id # id
  BY DEF QueuesOK, Offers
<1>2. ASSUME NEW c \in Chans, NEW x \in ToSet(inQ'[c]) PROVE Offers(x, "recv", c)'
  <2>1. CASE x \in ToSet(inQ[c])
    <3>1. Offers(x, "recv", c)
      BY <2>1 DEF QueuesOK
    <3> QED BY <3>1, OffersKept
  <2> QED BY <2>1
<1>3. ASSUME NEW c \in Chans, NEW x \in ToSet(outQ'[c]) PROVE Offers(x, "send", c)'
  <2>1. CASE x \in ToSet(outQ[c])
    <3>1. Offers(x, "send", c)
      BY <2>1 DEF QueuesOK
    <3> QED BY <3>1, OffersKept
  <2> QED BY <2>1
<1>4. ASSUME NEW v \in CVars, NEW x \in ToSet(cvar'[v].waiting) PROVE Offers(x, "cvar", v)'
  <2>1. CASE x \in ToSet(cvar[v].waiting)
    <3>1. Offers(x, "cvar", v)
      BY <2>1 DEF QueuesOK
    <3> QED BY <3>1, OffersKept
  <2> QED BY <2>1
<1>5. MeetOK'
  <2> SUFFICES ASSUME NEW c \in Chans, NEW x \in ToSet(inQ'[c]), NEW y \in ToSet(outQ'[c]),
                      x.id \in live', y.id \in live'
               PROVE  x.id[1] = y.id[1]
    BY DEF MeetOK
  <2>1. CASE x \in ToSet(inQ[c]) /\ y \in ToSet(outQ[c])
    <3>1. x.id \in live /\ y.id \in live
      BY <1>1, <2>1
    <3> QED BY <2>1, <3>1 DEF MeetOK
  <2>2. CASE x \in ToSet(inQ[c]) /\ y \notin ToSet(outQ[c])
    <3>1. x.id \in live
      BY <1>1, <2>2
    <3>2. \A z \in ToSet(inQ[c]) : z.id \notin live
      BY <2>2
    <3> QED BY <2>2, <3>1, <3>2
  <2>3. CASE x \notin ToSet(inQ[c]) /\ y \in ToSet(outQ[c])
    <3>1. y.id \in live
      BY <1>1, <2>3
    <3>2. \A z \in ToSet(outQ[c]) : z.id \notin live
      BY <2>3
    <3> QED BY <2>3, <3>1, <3>2
  <2>4. CASE x \notin ToSet(inQ[c]) /\ y \notin ToSet(outQ[c])
    <3>1. x.id = id /\ y.id = id
      BY <2>4
    <3> QED BY <3>1
  <2> QED BY <2>1, <2>2, <2>3, <2>4
<1>6. StandOK'
  <2> SUFFICES ASSUME NEW a \in live', NEW i \in DOMAIN Sync(a)'.req.evts
               PROVE  LET e == Evt(a, i)' IN
                      /\ e.op = "send" => Item(a, i) \in ToSet(outQ'[e.on])
                      /\ e.op = "recv" => Item(a, i) \in ToSet(inQ'[e.on])
                      /\ e.op = "cvar" => \/ Item(a, i) \in ToSet(cvar'[e.on].waiting)
                                          \/ Wake(Item(a, i)) \in ToSet(agenda')
    BY DEF StandOK
  <2>1. CASE a = id
    BY <2>1
  <2>2. CASE a # id
    <3>1. a \in live /\ a \in Syncs /\ a \in In(log) /\ log \in Logs /\ Sync(a) = Rec(log, a)
      BY <2>2, LiveShape DEF TypeOK
    <3>2. Sync(a)'.req = Sync(a).req
      BY <3>1 DEF Evolves
    <3>3. Sync(a).req.evts \in Seq(Events(CVars))
      BY <3>1, LogShape
    <3> DEFINE e == Sync(a).req.evts[i]
    <3>4. i \in DOMAIN Sync(a).req.evts /\ e = Evt(a, i) /\ e = Evt(a, i)'
      BY <3>2 DEF Evt
    <3>5. e \in Events(CVars)
      BY <3>3, <3>4
    <3> HIDE DEF e
    <3>6. /\ e.op \in {"send", "recv"} => e.on \in Chans
          /\ e.op = "cvar" => e.on \in CVars
      BY <3>5 DEF Events, ChanEvents
    <3>7. Item(a, i).id = a
      BY DEF Item
    <3>8. /\ e.op = "send" => Item(a, i) \in ToSet(outQ[e.on])
          /\ e.op = "recv" => Item(a, i) \in ToSet(inQ[e.on])
          /\ e.op = "cvar" => \/ Item(a, i) \in ToSet(cvar[e.on].waiting)
                              \/ Wake(Item(a, i)) \in ToSet(agenda)
      BY <3>1, <3>4 DEF StandOK
    <3>9. e.op = "send" => Item(a, i) \in ToSet(outQ'[e.on])
      BY <3>1, <3>6, <3>7, <3>8
    <3>10. e.op = "recv" => Item(a, i) \in ToSet(inQ'[e.on])
      BY <3>1, <3>6, <3>7, <3>8
    <3>11. e.op = "cvar" => \/ Item(a, i) \in ToSet(cvar'[e.on].waiting)
                            \/ Wake(Item(a, i)) \in ToSet(agenda')
      BY <3>6, <3>8
    <3> QED BY <3>4, <3>9, <3>10, <3>11
  <2> QED BY <2>1, <2>2
<1> QED BY <1>2, <1>3, <1>4, <1>5, <1>6 DEF QueuesOK

-----------------------------------------------------------------------------
(* Commits come in pairs.                                                   *)

PartnersIn(l, m) ==
    /\ m.from \in In(l) /\ m.to \in In(l) /\ m.from[1] # m.to[1]
    /\ Rec(l, m.from).won # 0 /\ Rec(l, m.to).won # 0
    /\ Rec(l, m.from).req.evts[Rec(l, m.from).won] = [op |-> "send", on |-> m.ch]
    /\ Rec(l, m.to).req.evts[Rec(l, m.to).won] = [op |-> "recv", on |-> m.ch]

Meets(r) == r.won # 0 /\ r.req.evts[r.won].op \in {"send", "recv"}

Paired(l, M) ==
    /\ \A m \in M : PartnersIn(l, m)
    /\ \A id \in In(l) : Meets(Rec(l, id)) =>
          \E m \in M : \A p \in M : id \in {p.from, p.to} <=> p = m

\* MetOK, as a predicate of the log and the meetings.
LEMMA MetIsPaired ==
    MetOK <=> Paired(log, met)
BY DEF MetOK, Paired, Partners, PartnersIn, Meets, Syncs, Sync, Evt, In, Rec

\* A synchronization that begins is in no pair.
LEMMA PairedExtend ==
    ASSUME NEW l, NEW k, NEW M, Paired(l, M), NEW id, In(k) = In(l) \cup {id}, id \notin In(l),
           \A a \in In(l) : Rec(k, a) = Rec(l, a), Rec(k, id).won = 0
    PROVE  Paired(k, M)
<1>1. \A m \in M : PartnersIn(k, m)
  BY DEF Paired, PartnersIn
<1>2. \A a \in In(k) : Meets(Rec(k, a)) => a \in In(l) /\ Meets(Rec(l, a))
  BY DEF Meets
<1> QED BY <1>1, <1>2 DEF Paired

\* A commit to a cvar, a time-out or alwaysEvt is in no pair.
LEMMA PairedSolo ==
    ASSUME NEW l, NEW k, NEW M, Paired(l, M), NEW id, In(k) = In(l), id \in In(l),
           \A a \in In(l) : a # id => Rec(k, a) = Rec(l, a),
           Rec(l, id).won = 0, ~ Meets(Rec(k, id))
    PROVE  Paired(k, M)
<1>1. \A m \in M : m.from # id /\ m.to # id
  BY DEF Paired, PartnersIn
<1>2. \A m \in M : PartnersIn(k, m)
  BY <1>1 DEF Paired, PartnersIn
<1>3. \A a \in In(k) : Meets(Rec(k, a)) => a \in In(l) /\ Meets(Rec(l, a))
  BY DEF Meets
<1> QED BY <1>2, <1>3 DEF Paired

\* A send and a receive that commit together are a new pair.
LEMMA PairedMeet ==
    ASSUME NEW l, NEW k, NEW M, Paired(l, M), NEW p, In(k) = In(l),
           p.from \in In(l), p.to \in In(l),
           \A a \in In(l) : a # p.from /\ a # p.to => Rec(k, a) = Rec(l, a),
           Rec(l, p.from).won = 0, Rec(l, p.to).won = 0, PartnersIn(k, p)
    PROVE  Paired(k, M \cup {p})
<1>1. \A m \in M : /\ m.from # p.from /\ m.from # p.to /\ m.to # p.from /\ m.to # p.to
                   /\ m.from \in In(l) /\ m.to \in In(l)
  BY ZenonT(60) DEF Paired, PartnersIn
<1>2. \A m \in M : PartnersIn(k, m)
  BY <1>1 DEF Paired, PartnersIn
<1>3. ASSUME NEW a \in In(k), Meets(Rec(k, a))
      PROVE  \E m \in M \cup {p} : \A q \in M \cup {p} : a \in {q.from, q.to} <=> q = m
  <2>1. CASE a \in {p.from, p.to}
    <3>1. \A q \in M \cup {p} : a \in {q.from, q.to} <=> q = p
      BY <1>1, <2>1
    <3> QED BY <3>1
  <2>2. CASE a \notin {p.from, p.to}
    <3>1. a \in In(l) /\ Meets(Rec(l, a))
      BY <1>3, <2>2
    <3>2. PICK m \in M : \A q \in M : a \in {q.from, q.to} <=> q = m
      BY <3>1 DEF Paired
    <3>3. p # m
      BY <2>2, <3>2
    <3>4. \A q \in M \cup {p} : a \in {q.from, q.to} <=> q = m
      BY <2>2, <3>2, <3>3
    <3> QED BY <3>4
  <2> QED BY <2>1, <2>2
<1> QED BY <1>2, <1>3 DEF Paired

\* force resolves every nack event to a cvar that exists.
LEMMA ResolveType ==
    ASSUME log \in Logs, NEW t \in Threads, NEW r \in Requests(Threads \X (1 .. MaxNacks)),
           Len(log[t]) < MaxSync, Resolvable(t, r)
    PROVE  Resolve(t, r) \in Requests(CVars)
<1> DEFINE n(u) == IF u = t THEN Len(log[t]) + 1 ELSE Len(log[u])
           evt(e) == IF e.op = "cvar"
                     THEN [e EXCEPT !.on = <<e.on[1], n(e.on[1]), e.on[2]>>] ELSE e
           es == [i \in DOMAIN r.evts |-> evt(r.evts[i])]
<1>1. /\ r.evts \in Seq(Events(Threads \X (1 .. MaxNacks)))
      /\ r.nacks \in {s \in Seq(SUBSET Nat) : Len(s) <= MaxNacks}
      /\ r = [evts |-> r.evts, nacks |-> r.nacks]
  BY DEF Requests
<1>2. Resolve(t, r) = [evts |-> es, nacks |-> r.nacks]
  <2>1. Resolve(t, r) = [r EXCEPT !.evts = es]
    BY DEF Resolve
  <2> HIDE DEF es
  <2> QED BY <1>1, <2>1
<1>3. \A u \in Threads : Len(log[u]) \in Nat /\ Len(log[u]) <= MaxSync /\ (Len(log[u]) = 0 => log[u] = <<>>)
  BY DEF Logs
<1>4. ASSUME NEW i \in DOMAIN r.evts PROVE evt(r.evts[i]) \in Events(CVars)
  <2> DEFINE e == r.evts[i]
  <2>1. e \in Events(Threads \X (1 .. MaxNacks))
    BY <1>1, <1>4
  <2>2. CASE e.op # "cvar"
    BY <2>1, <2>2 DEF Events, ChanEvents
  <2>3. CASE e.op = "cvar"
    <3>1. e \in [op : {"cvar"}, on : Threads \X (1 .. MaxNacks)]
      BY <2>1, <2>3 DEF Events, ChanEvents
    <3>2. e.on[1] \in Threads /\ e.on[2] \in 1 .. MaxNacks
      BY <3>1
    <3>3. e.on[1] # t => log[e.on[1]] # <<>>
      BY <1>4, <2>3 DEF Resolvable
    <3>4. n(e.on[1]) \in 1 .. MaxSync
      BY <1>3, <3>2, <3>3, EventAssumption
    <3> HIDE DEF n
    <3>5. <<e.on[1], n(e.on[1]), e.on[2]>> \in CVars
      BY <3>2, <3>4 DEF CVars
    <3>6. evt(e) = [op |-> "cvar", on |-> <<e.on[1], n(e.on[1]), e.on[2]>>]
      BY <2>3, <3>1
    <3> QED BY <3>5, <3>6 DEF Events
  <2> QED BY <2>2, <2>3
<1> HIDE DEF evt
<1>5. es \in Seq(Events(CVars))
  BY <1>1, <1>4
<1> HIDE DEF es
<1> QED BY <1>1, <1>2, <1>5 DEF Requests

\* A synchronization that begins undecided, outside every region, disturbs
\* nothing that the log says of the others.
LEMMA Begun ==
    ASSUME TypeOK, PhaseOK, CVarsOK, NacksOK, MetOK, NEW t \in Threads, NEW r \in Records,
           NEW id, id = <<t, Len(log[t]) + 1>>,
           phase[t] = "run", Len(log[t]) < MaxSync, r.won = 0,
           Extended(log, log', t, r),
           \A u \in Threads : u # t => phase'[u] = phase[u],
           agenda = <<>>, agenda' = <<>>, met' = met,
           \A v \in CVars : cvar'[v].set = cvar[v].set /\ (cvar[v].waiting = <<>> => cvar'[v].waiting = <<>>)
    PROVE  /\ Evolves /\ NacksOK' /\ CVarsOK' /\ MetOK' /\ log' \in Logs
           /\ Len(log'[t]) = Len(log[t]) + 1 /\ log'[t][Len(log[t]) + 1] = r
           /\ CurId(t)' = id /\ id \in Trans \ Syncs /\ id \in Syncs' /\ Sync(id)' = r
           /\ \A u \in Threads : u # t => log'[u] = log[u]
<1>1. log \in Logs
  BY DEF TypeOK
<1>2. /\ log' \in Logs /\ id \in Trans \ In(log) /\ In(log') = In(log) \cup {id} /\ Rec(log', id) = r
      /\ \A a \in In(log) : Rec(log', a) = Rec(log, a)
      /\ Len(log'[t]) = Len(log[t]) + 1 /\ \A u \in Threads : u # t => log'[u] = log[u]
  BY <1>1, ExtendProps
<1>3. /\ Syncs = In(log) /\ Syncs' = In(log')
      /\ \A a : Sync(a) = Rec(log, a) /\ Sync(a)' = Rec(log', a)
  BY DEF Syncs, In, Sync, Rec
<1>4. CurId(t)' = id /\ id[1] = t
  BY <1>2 DEF CurId
<1>5. log'[t][Len(log[t]) + 1] = r
  BY <1>2 DEF Rec
<1>6. Evolves
  <2> SUFFICES ASSUME NEW a \in Syncs
               PROVE  a \in Syncs' /\ Sync(a)'.req = Sync(a).req /\ (Posted(a) => Posted(a)')
    BY DEF Evolves
  <2>1. a \in Syncs' /\ Sync(a)' = Sync(a) /\ a # id /\ a[1] \in Threads
    BY <1>1, <1>2, <1>3, LogShape
  <2>2. CASE a[1] = t
    BY <1>4, <2>1, <2>2 DEF Posted
  <2>3. CASE a[1] # t
    BY <1>2, <2>1, <2>3 DEF Posted, CurId
  <2> QED BY <2>1, <2>2, <2>3
<1>7. Paired(log', met')
  <2>1. Paired(log, met)
    BY MetIsPaired
  <2>2. Paired(log', met)
    BY <1>2, <2>1, PairedExtend
  <2> QED BY <2>2
<1>8. MetOK'
  BY <1>7 DEF MetOK, Paired, Partners, PartnersIn, Meets, Syncs, Sync, Evt, In, Rec
<1>9. CVarsOK'
  BY <1>2, <1>3 DEF CVarsOK
<1>10. ToSet(agenda) = {} /\ ToSet(agenda') = {}
  BY SmallLists
<1>11. NacksOK'
  <2> SUFFICES ASSUME NEW a \in Syncs', NEW j \in DOMAIN Sync(a)'.req.nacks
               PROVE  cvar'[<<a[1], a[2], j>>].set > 0 \/ Set(a, j) \in ToSet(agenda')
                        <=> \E i \in Nat : Decided(a, i)' /\ i \notin Sync(a)'.req.nacks[j]
    BY DEF NacksOK
  <2>1. \A i : Decided(a, i)' <=> i # 0 /\ Sync(a)'.won = i
    BY <1>10 DEF Decided
  <2>2. <<a[1], a[2], j>> \in CVars /\ <<a[1], a[2]>> = a
    BY <1>2, <1>3, LogShape
  <2>3. CASE a = id
    <3>1. cvar[<<a[1], a[2], j>>].set > 0 => a \in Syncs
      BY <2>2 DEF CVarsOK
    <3>2. Sync(a)'.won = 0
      BY <1>2, <1>3, <2>3
    <3> QED BY <1>2, <1>3, <1>10, <2>1, <2>2, <2>3, <3>1, <3>2
  <2>4. CASE a # id
    <3>1. a \in Syncs /\ Sync(a)' = Sync(a)
      BY <1>2, <1>3, <2>4
    <3>2. \A i : Decided(a, i) <=> i # 0 /\ Sync(a).won = i
      BY <1>10 DEF Decided
    <3>3. cvar[<<a[1], a[2], j>>].set > 0
             <=> \E i \in Nat : Decided(a, i) /\ i \notin Sync(a).req.nacks[j]
      BY <1>10, <3>1 DEF NacksOK
    <3>4. cvar'[<<a[1], a[2], j>>].set = cvar[<<a[1], a[2], j>>].set
      BY <2>2
    <3>5. \A i : Decided(a, i)' <=> Decided(a, i)
      BY <2>1, <3>1, <3>2
    <3> QED BY <1>10, <3>1, <3>3, <3>4, <3>5
  <2> QED BY <2>3, <2>4
<1>12. id \in Trans \ Syncs /\ id \in Syncs' /\ Sync(id)' = r
  BY <1>2, <1>3
<1> QED BY <1>2, <1>4, <1>5, <1>6, <1>8, <1>9, <1>11, <1>12

-----------------------------------------------------------------------------
(* The steps that begin a region or leave a synchronization behind.         *)

\* Outside a region there is nothing to do.
LEMMA NothingOnAgenda ==
    ASSUME agenda' = <<>>
    PROVE  ToSet(agenda') = {} /\ AgendaOK' /\ Orderly(agenda')
<1>1. ToSet(agenda') = {}
  BY SmallLists
<1>2. Orderly(<<>>)
  BY DEF Orderly
<1> QED BY <1>1, <1>2 DEF AgendaOK

\* force preserves the invariant.
LEMMA ForceStep ==
    ASSUME TypeOK, RegionOK, NEW t \in Threads, NEW r \in prog.menu[t], force(t, r), prog' = prog
    PROVE  TypeOK' /\ RegionOK'
<1> USE DEF RegionOK
<1> DEFINE rec == [req |-> Resolve(t, r), won |-> 0]
<1>1. /\ agenda = <<>> /\ phase[t] = "run" /\ Len(log[t]) < MaxSync /\ Resolvable(t, r)
      /\ log' = [log EXCEPT ![t] = Append(@, rec)]
      /\ phase' = [phase EXCEPT ![t] = "forced"]
      /\ live' = live /\ inQ' = inQ /\ outQ' = outQ /\ prio' = prio /\ cvar' = cvar
      /\ agenda' = agenda /\ met' = met /\ failure' = failure
  BY DEF force, CanStart, Free
<1>2. r \in Requests(Threads \X (1 .. MaxNacks)) /\ log \in Logs
  BY EventAssumption DEF TypeOK
<1>3. rec \in Records /\ rec.won = 0
  <2>1. Resolve(t, r) \in Requests(CVars)
    BY <1>1, <1>2, ResolveType
  <2> QED BY <2>1 DEF Records
<1>4. Extended(log, log', t, rec)
  BY <1>1 DEF Extended
<1> HIDE DEF rec
<1>5. PICK rc : rc = rec
  OBVIOUS
<1>6. PICK id : id = <<t, Len(log[t]) + 1>>
  OBVIOUS
<1>7. phase \in [Threads -> {"run", "forced", "blocked"}]
  BY DEF TypeOK
<1>8. phase' \in [Threads -> {"run", "forced", "blocked"}] /\ phase'[t] = "forced" /\ \A u \in Threads : u # t => phase'[u] = phase[u]
  BY <1>1, <1>7
<1>9. /\ \A u \in Threads : u # t => phase'[u] = phase[u]
      /\ \A v \in CVars : cvar'[v].set = cvar[v].set /\ (cvar[v].waiting = <<>> => cvar'[v].waiting = <<>>)
      /\ agenda = <<>> /\ agenda' = <<>> /\ met' = met /\ phase[t] = "run" /\ Len(log[t]) < MaxSync
      /\ rc \in Records /\ rc.won = 0 /\ Extended(log, log', t, rc)
  BY <1>1, <1>3, <1>4, <1>5, <1>8
<1>10. /\ Evolves /\ NacksOK' /\ CVarsOK' /\ MetOK' /\ log' \in Logs
       /\ Len(log'[t]) = Len(log[t]) + 1 /\ log'[t][Len(log[t]) + 1] = rc
       /\ CurId(t)' = id
       /\ \A u \in Threads : u # t => log'[u] = log[u]
  BY <1>6, <1>9, Begun
<1>11. PhaseOK'
  <2>1. ASSUME NEW u \in Threads, phase'[u] # "run"
        PROVE  Len(log'[u]) > 0 /\ log'[u][Len(log'[u])].won = 0
    <3>1. CASE u = t
      <4>1. Len(log[t]) \in Nat
        BY <1>2 DEF Logs
      <4> QED BY <1>9, <1>10, <3>1, <4>1
    <3>2. CASE u # t
      BY <1>8, <1>10, <2>1, <3>2 DEF PhaseOK
    <3> QED BY <3>1, <3>2
  <2>2. ASSUME NEW a \in Trans
        PROVE  a \in live' <=> phase'[a[1]] = "blocked" /\ a = CurId(a[1])'
    <3>1. a[1] \in Threads
      BY DEF Trans
    <3>2. a \in live <=> phase[a[1]] = "blocked" /\ a = CurId(a[1])
      BY DEF PhaseOK
    <3>3. CASE a[1] = t
      BY <1>1, <1>8, <3>2, <3>3
    <3>4. CASE a[1] # t
      BY <1>1, <1>8, <1>10, <3>1, <3>2, <3>4 DEF CurId
    <3> QED BY <3>3, <3>4
  <2> QED BY <2>1, <2>2 DEF PhaseOK
<1>12. Shrunk(inQ, inQ', live') /\ Shrunk(outQ, outQ', live') /\ live' \subseteq live
  BY <1>1 DEF Shrunk
<1>13. QueuesOK' /\ MeetOK'
  BY <1>1, <1>10, <1>12, QueuesShrink
<1>14. StandOK'
  BY <1>1, <1>10, <1>12, StandsOn
<1>15. AgendaOK' /\ Orderly(agenda')
  BY <1>9, NothingOnAgenda
<1>16. TypeOK'
  BY <1>1, <1>8, <1>10 DEF TypeOK
<1> QED BY <1>10, <1>11, <1>13, <1>14, <1>15, <1>16

\* A synchronization id that was undecided is decided for its base event i:
\* the cvars that chkCVars returns go on the agenda, in front of r.
LEMMA Decides ==
    ASSUME TypeOK, PhaseOK, AgendaOK, NacksOK, Evolves,
           log' \in Logs, \A a \in Syncs' : a \in Syncs \/ Sync(a)'.req.nacks = <<>>,
           NEW id \in Syncs, NEW i \in Nat, \A k \in Nat : ~ Decided(id, k),
           NEW r \in Seq(Tasks), Orderly(r), agenda' = chkCVars(id, i) \o r,
           \A a : a.kind = "set" => (a \in ToSet(r) <=> a \in ToSet(agenda)),
           \A k \in Nat : Decided(id, k)' <=> k = i,
           \A a \in Syncs : a # id => \A k \in Nat : Decided(a, k)' <=> Decided(a, k),
           \A v \in CVars : cvar'[v].set \in Nat /\ (cvar'[v].set > 0 <=> cvar[v].set > 0)
    PROVE  /\ NacksOK' /\ Orderly(agenda') /\ agenda' \in Seq(Tasks)
           /\ \A a \in ToSet(agenda') : a.kind = "set" => SetOK(a)'
           /\ \A a \in ToSet(agenda') : a.kind # "set" => a \in ToSet(r)
           /\ ToSet(r) \subseteq ToSet(agenda')
<1> DEFINE c == chkCVars(id, i)
<1>1. /\ log \in Logs /\ Syncs = In(log) /\ Syncs' = In(log')
      /\ \A a : Sync(a) = Rec(log, a) /\ Sync(a)' = Rec(log', a)
  BY DEF TypeOK, Syncs, In, Sync, Rec
<1>2. PICK nacks : nacks = Sync(id).req.nacks
  OBVIOUS
<1>3. nacks \in Seq(SUBSET Nat) /\ id \in Trans /\ id = <<id[1], id[2]>>
  BY <1>1, <1>2, LogShape
<1>4. /\ c \in Seq(Tasks) /\ IsInjective(c)
      /\ ToSet(c) = {Set(id, j) : j \in {k \in DOMAIN nacks : i \notin nacks[k]}}
  BY <1>2, <1>3, ChkProps
<1>5. \A a, b, j, k : Set(a, j).kind = "set" /\ Set(a, j).id = a /\ Set(a, j).i = j
                      /\ (Set(a, j) = Set(b, k) => a = b /\ j = k)
  BY DEF Set
<1>6. \A a \in Syncs : \A j : (a # id \/ j \notin DOMAIN nacks \/ i \in nacks[j]) => Set(a, j) \notin ToSet(c)
  BY <1>4, <1>5
<1>7. \A j \in DOMAIN nacks : i \notin nacks[j] => Set(id, j) \in ToSet(c)
  BY <1>4
<1>8. \A a \in ToSet(c) : a.kind = "set" /\ a.id = id /\ a.i \in DOMAIN nacks /\ a = Set(id, a.i)
  BY <1>4, <1>5
<1> HIDE DEF c
<1>9. ASSUME NEW j \in DOMAIN nacks
      PROVE  ~ (cvar[<<id[1], id[2], j>>].set > 0) /\ Set(id, j) \notin ToSet(agenda)
  <2>1. cvar[<<id[1], id[2], j>>].set > 0 \/ Set(id, j) \in ToSet(agenda)
           <=> \E k \in Nat : Decided(id, k) /\ k \notin Sync(id).req.nacks[j]
    BY <1>2, <1>9 DEF NacksOK
  <2> QED BY <2>1
<1>10. \A a \in ToSet(c) : a.kind = "set" => a \notin ToSet(r)
  BY <1>8, <1>9
<1>11. \A k, l \in DOMAIN c : c[k].kind = "set" /\ c[k] = c[l] => k = l
  BY <1>4 DEF IsInjective
<1>12. \A a \in ToSet(c) : a.kind # "do"
  BY <1>8
<1>13. /\ agenda' \in Seq(Tasks) /\ Orderly(agenda') /\ ToSet(agenda') = ToSet(c) \cup ToSet(r)
  <2>1. c \o r \in Seq(Tasks) /\ Orderly(c \o r) /\ ToSet(c \o r) = ToSet(c) \cup ToSet(r)
    BY <1>4, <1>10, <1>11, <1>12, OrderlyConcat
  <2> QED BY <2>1 DEF c
<1>14. ASSUME NEW a \in ToSet(agenda'), a.kind = "set" PROVE SetOK(a)'
  <2>1. CASE a \in ToSet(c)
    <3>1. id \in Syncs' /\ Sync(id)'.req.nacks = nacks
      BY <1>2 DEF Evolves
    <3>2. a.id = id /\ a.i \in DOMAIN nacks
      BY <1>8, <2>1
    <3>3. <<id[1], id[2], a.i>> \in CVars
      BY <1>1, <1>2, <3>2, LogShape
    <3>4. cvar'[<<id[1], id[2], a.i>>].set = 0
      BY <1>9, <3>2, <3>3, SMTT(30)
    <3> QED BY <3>1, <3>2, <3>4 DEF SetOK
  <2>2. CASE a \in ToSet(r)
    <3>1. a \in ToSet(agenda) /\ SetOK(a)
      BY <1>14, <2>2 DEF AgendaOK
    <3>2. a.id \in Syncs /\ a.i \in DOMAIN Sync(a.id).req.nacks /\ cvar[<<a.id[1], a.id[2], a.i>>].set = 0
      BY <3>1 DEF SetOK
    <3>3. a.id \in Syncs' /\ Sync(a.id)'.req = Sync(a.id).req
      BY <3>2 DEF Evolves
    <3>4. <<a.id[1], a.id[2], a.i>> \in CVars
      BY <1>1, <3>2, LogShape
    <3>5. cvar'[<<a.id[1], a.id[2], a.i>>].set = 0
      BY <3>2, <3>4
    <3> QED BY <3>2, <3>3, <3>5 DEF SetOK
  <2> QED BY <1>13, <2>1, <2>2
<1>15. NacksOK'
  <2> SUFFICES ASSUME NEW a \in Syncs', NEW j \in DOMAIN Sync(a)'.req.nacks
               PROVE  cvar'[<<a[1], a[2], j>>].set > 0 \/ Set(a, j) \in ToSet(agenda')
                        <=> \E k \in Nat : Decided(a, k)' /\ k \notin Sync(a)'.req.nacks[j]
    BY DEF NacksOK
  <2>1. a \in Syncs
    OBVIOUS
  <2>2. Sync(a)'.req = Sync(a).req
    BY <2>1 DEF Evolves
  <2>3. <<a[1], a[2], j>> \in CVars
    BY <1>1, LogShape
  <2>4. CASE a = id
    <3>1. j \in DOMAIN nacks /\ Sync(a)'.req.nacks[j] = nacks[j]
      BY <1>2, <2>2, <2>4
    <3>2. ~ (cvar'[<<a[1], a[2], j>>].set > 0)
      BY <1>9, <2>3, <2>4, <3>1
    <3>3. Set(a, j) \notin ToSet(r)
      <4>1. Set(id, j).kind = "set" /\ Set(id, j) \notin ToSet(agenda)
        BY <1>5, <1>9, <3>1
      <4> QED BY <2>4, <4>1
    <3>4. Set(a, j) \in ToSet(agenda') <=> i \notin nacks[j]
      BY <1>6, <1>7, <1>13, <2>1, <2>4, <3>1, <3>3
    <3>5. (\E k \in Nat : Decided(a, k)' /\ k \notin nacks[j]) <=> i \notin nacks[j]
      BY <2>4
    <3> QED BY <3>1, <3>2, <3>4, <3>5
  <2>5. CASE a # id
    <3>1. Set(a, j) \in ToSet(agenda') <=> Set(a, j) \in ToSet(agenda)
      BY <1>5, <1>6, <1>13, <2>1, <2>5
    <3>2. \A k \in Nat : Decided(a, k)' <=> Decided(a, k)
      BY <2>1, <2>5
    <3>3. cvar[<<a[1], a[2], j>>].set > 0 \/ Set(a, j) \in ToSet(agenda)
             <=> \E k \in Nat : Decided(a, k) /\ k \notin Sync(a).req.nacks[j]
      BY <2>1, <2>2 DEF NacksOK
    <3>4. cvar'[<<a[1], a[2], j>>].set > 0 <=> cvar[<<a[1], a[2], j>>].set > 0
      BY <2>3
    <3> QED BY <2>2, <3>1, <3>2, <3>3, <3>4
  <2> QED BY <2>4, <2>5
<1>16. \A a \in ToSet(agenda') : a.kind # "set" => a \in ToSet(r)
  BY <1>8, <1>13
<1> QED BY <1>13, <1>14, <1>15, <1>16

\* A step that commits nothing keeps the pairs.
LEMMA MetStays ==
    ASSUME log' = log, met' = met, MetOK
    PROVE  MetOK'
<1>1. Paired(log, met)
  BY MetIsPaired
<1>2. Paired(log', met')
  BY <1>1
<1> QED BY <1>2 DEF MetOK, Paired, Partners, PartnersIn, Meets, Syncs, Sync, Evt, In, Rec

\* The log and the phases stay.
LEMMA LogStays ==
    ASSUME log' = log, phase' = phase
    PROVE  /\ Evolves /\ Syncs' = Syncs /\ \A a : Sync(a)' = Sync(a)
           /\ PhaseOK /\ live' = live => PhaseOK'
           /\ MetOK /\ met' = met => MetOK'
<1>1. Syncs' = Syncs /\ \A a : Sync(a)' = Sync(a) /\ (Posted(a)' <=> Posted(a))
  BY DEF Syncs, Sync, Posted, CurId
<1>2. PhaseOK /\ live' = live => PhaseOK'
  BY DEF PhaseOK, CurId
<1>3. MetOK /\ met' = met => MetOK'
  BY MetStays
<1> QED BY <1>1, <1>2, <1>3 DEF Evolves

\* Counting bumps only what is enabled.
LEMMA BumpedProps ==
    ASSUME TypeOK, NEW id \in Syncs, NEW En,
           En = {i \in DOMAIN Sync(id).req.evts : Enabled(Evt(id, i))}
    PROVE  /\ \A x : Bumped(id, En, x) \in Nat
           /\ \A v \in CVars : cvar[v].set = 0 => Bumped(id, En, v) = 0
<1>1. Sync(id).req.evts \in Seq(Events(CVars))
  <2>1. id \in In(log) /\ log \in Logs /\ Sync(id) = Rec(log, id)
    BY DEF TypeOK, Syncs, In, Sync, Rec
  <2> QED BY <2>1, LogShape
<1>2. PICK n \in Nat : DOMAIN Sync(id).req.evts = 1 .. n
  BY <1>1
<1>3. ASSUME NEW x PROVE Bumped(id, En, x) \in Nat
  <2>1. {j \in En : Evt(id, j).on = x} \in SUBSET (1 .. n)
    BY <1>2
  <2> QED BY <2>1, PositionsFinite DEF Bumped
<1>4. ASSUME NEW v \in CVars, cvar[v].set = 0 PROVE Bumped(id, En, v) = 0
  <2>1. ASSUME NEW j \in En, Evt(id, j).on = v PROVE FALSE
    <3> DEFINE e == Evt(id, j)
    <3>1. e \in Events(CVars) /\ Enabled(e)
      BY <1>1 DEF Evt
    <3> HIDE DEF e
    <3>2. v \notin Chans
      BY EventAssumption
    <3>3. v # <<>>
      <4>1. PICK a \in Threads, m \in 1 .. MaxSync, k \in 1 .. MaxNacks : v = <<a, m, k>>
        BY DEF CVars
      <4>2. Len(<<a, m, k>>) = 3
        OBVIOUS
      <4> QED BY <4>1, <4>2
    <3>4. e.op = "cvar"
      BY <2>1, <3>1, <3>2, <3>3 DEF Events, ChanEvents, e
    <3>5. cvar[e.on].set > 0
      BY <3>1, <3>4 DEF Enabled
    <3> QED BY <1>4, <2>1, <3>5 DEF e
  <2>2. {j \in En : Evt(id, j).on = v} = {}
    BY <2>1
  <2> QED BY <2>2, FS_EmptySet DEF Bumped
<1> QED BY <1>3, <1>4

\* syncReady preserves the invariant: the event selected becomes a decision.
LEMMA SyncReadyStep ==
    ASSUME TypeOK, RegionOK, NEW t \in Threads, syncReady(t), prog' = prog
    PROVE  TypeOK' /\ RegionOK'
<1> USE DEF RegionOK
<1>0. PICK id : id = CurId(t)
  OBVIOUS
<1>1. PICK En : En = {i \in DOMAIN Sync(id).req.evts : Enabled(Evt(id, i))}
  OBVIOUS
<1>2. PICK i \in selectDoFn(id, En) : agenda' = chkCVars(id, i) \o <<DoFn(id, i)>>
  BY <1>0, <1>1 DEF syncReady
<1>3. /\ agenda = <<>> /\ phase[t] = "forced"
      /\ inQ' = Polled(id, inQ, "send") /\ outQ' = Polled(id, outQ, "recv")
      /\ prio' = [c \in Chans |-> prio[c] + Bumped(id, En, c)]
      /\ cvar' = [v \in CVars |-> [cvar[v] EXCEPT !.set = @ + Bumped(id, En, v)]]
      /\ phase' = phase /\ log' = log /\ live' = live /\ met' = met /\ failure' = failure
  BY <1>0, <1>1 DEF syncReady, Free
<1>4. /\ Evolves /\ Syncs' = Syncs /\ (\A a : Sync(a)' = Sync(a)) /\ PhaseOK' /\ MetOK'
  BY <1>3, LogStays
<1>5. /\ id \in Syncs /\ Sync(id).won = 0 /\ id[1] = t /\ Syncs = In(log) /\ Sync(id) = Rec(log, id)
      /\ log \in Logs /\ log' \in Logs
  BY <1>0, <1>3, LiveShape DEF TypeOK
<1>6. /\ Sync(id).req.evts \in Seq(Events(CVars)) /\ id \in Trans
  BY <1>5, LogShape
<1>7. i \in En /\ i \in DOMAIN Sync(id).req.evts /\ i \in Nat /\ i # 0
      /\ Enabled(Evt(id, i)) /\ Evt(id, i) \in Events(CVars)
  <2>1. i \in En
    BY <1>2 DEF selectDoFn
  <2> QED BY <1>1, <1>6, <2>1 DEF Evt
<1>8. /\ inQ \in [Chans -> Seq(Items)] /\ outQ \in [Chans -> Seq(Items)]
      /\ cvar \in [CVars -> [set : Nat, waiting : Seq(Items)]] /\ prio \in [Chans -> Nat]
  BY DEF TypeOK
<1>9. /\ inQ' \in [Chans -> Seq(Items)] /\ Shrunk(inQ, inQ', live')
      /\ \A c \in Chans : Indices(id, "send", c) # {} => inQ'[c] = Clean(inQ[c])
  <2>1. /\ Polled(id, inQ, "send") \in [Chans -> Seq(Items)]
        /\ Shrunk(inQ, Polled(id, inQ, "send"), live)
        /\ \A c \in Chans : Indices(id, "send", c) # {} => Polled(id, inQ, "send")[c] = Clean(inQ[c])
    BY <1>8, PolledProps
  <2> QED BY <1>3, <2>1
<1>10. /\ outQ' \in [Chans -> Seq(Items)] /\ Shrunk(outQ, outQ', live')
       /\ \A c \in Chans : Indices(id, "recv", c) # {} => outQ'[c] = Clean(outQ[c])
  <2>1. /\ Polled(id, outQ, "recv") \in [Chans -> Seq(Items)]
        /\ Shrunk(outQ, Polled(id, outQ, "recv"), live)
        /\ \A c \in Chans : Indices(id, "recv", c) # {} => Polled(id, outQ, "recv")[c] = Clean(outQ[c])
    BY <1>8, PolledProps
  <2> QED BY <1>3, <2>1
<1>11. /\ \A x : Bumped(id, En, x) \in Nat
       /\ \A v \in CVars : cvar[v].set = 0 => Bumped(id, En, v) = 0
  BY <1>1, <1>5, BumpedProps
<1>12. prio' \in [Chans -> Nat]
  BY <1>3, <1>8, <1>11
<1>13. ASSUME NEW v \in CVars
       PROVE  /\ cvar'[v] \in [set : Nat, waiting : Seq(Items)] /\ cvar'[v].waiting = cvar[v].waiting
              /\ cvar'[v].set \in Nat /\ (cvar'[v].set > 0 <=> cvar[v].set > 0)
  <2>1. cvar[v] \in [set : Nat, waiting : Seq(Items)] /\ Bumped(id, En, v) \in Nat
    BY <1>8, <1>11
  <2>2. cvar'[v] = [set |-> cvar[v].set + Bumped(id, En, v), waiting |-> cvar[v].waiting]
    BY <1>3, <2>1
  <2> QED BY <1>11, <2>1, <2>2
<1>14. cvar' \in [CVars -> [set : Nat, waiting : Seq(Items)]]
  BY <1>3, <1>13
<1>15. QueuesOK' /\ MeetOK'
  BY <1>3, <1>4, <1>9, <1>10, <1>13, QueuesShrink
<1>16. ToSet(agenda) = {}
  BY <1>3, SmallLists
<1>17. StandOK'
  BY <1>3, <1>4, <1>9, <1>10, <1>13, <1>16, StandsOn
<1>18. CVarsOK'
  BY <1>4, <1>13 DEF CVarsOK
<1> DEFINE d == DoFn(id, i)
           r == <<d>>
<1>19. d \in Tasks /\ d.kind = "do" /\ d.id = id /\ d.i = i
       /\ \A a, k : DoFn(a, k) = d => a = id /\ k = i
  BY <1>6, <1>7 DEF DoFn, Tasks
<1> HIDE DEF d
<1>20. r \in Seq(Tasks) /\ ToSet(r) = {d} /\ Orderly(r)
  BY <1>19, SmallLists DEF Orderly
<1> HIDE DEF r
<1>21. \A a : a.kind = "set" => (a \in ToSet(r) <=> a \in ToSet(agenda))
  BY <1>16, <1>19, <1>20
<1>22. \A k \in Nat : ~ Decided(id, k)
  BY <1>5, <1>16 DEF Decided
<1>23. agenda' = chkCVars(id, i) \o r
  BY <1>2 DEF r, d
<1>24. d \in ToSet(agenda') /\ \A a \in Syncs : \A k \in Nat : DoFn(a, k) \in ToSet(agenda') <=> a = id /\ k = i
  <2>1. PICK nacks \in Seq(SUBSET Nat) : nacks = Sync(id).req.nacks
    BY <1>5, LogShape
  <2>2. chkCVars(id, i) \in Seq(Tasks) /\ ToSet(chkCVars(id, i)) = {Set(id, j) : j \in {k \in DOMAIN nacks : i \notin nacks[k]}}
    BY <1>6, <1>7, <2>1, ChkProps
  <2>3. ToSet(agenda') = ToSet(chkCVars(id, i)) \cup {d}
    BY <1>20, <1>23, <2>2, ConcatElements
  <2>4. \A a, k, j : DoFn(a, k) # Set(id, j)
    BY DEF DoFn, Set
  <2> QED BY <1>19, <2>2, <2>3, <2>4 DEF d
<1>25. \A k \in Nat : Decided(id, k)' <=> k = i
  BY <1>4, <1>5, <1>7, <1>24 DEF Decided
<1>26. \A a \in Syncs : a # id => \A k \in Nat : Decided(a, k)' <=> Decided(a, k)
  BY <1>4, <1>16, <1>24 DEF Decided
<1>27. /\ NacksOK' /\ Orderly(agenda') /\ agenda' \in Seq(Tasks)
       /\ \A a \in ToSet(agenda') : a.kind = "set" => SetOK(a)'
       /\ \A a \in ToSet(agenda') : a.kind # "set" => a \in ToSet(r)
  BY <1>4, <1>5, <1>7, <1>13, <1>20, <1>21, <1>22, <1>23, <1>25, <1>26, Decides
<1>28. DoOK(d)'
  <2> DEFINE e == Evt(id, i)
  <2>1. Evt(id, i)' = e /\ e \in Events(CVars) /\ Enabled(e) /\ e = Sync(id).req.evts[i]
    BY <1>4, <1>7 DEF Evt
  <2>2. phase'[t] = "forced" /\ id = CurId(t)'
    BY <1>0, <1>3 DEF CurId
  <2> HIDE DEF e
  <2>3. ASSUME e.op = "send" PROVE inQ'[e.on] # <<>>
    <3>1. e.on \in Chans /\ e = [op |-> "send", on |-> e.on]
      BY <2>1, <2>3 DEF Events, ChanEvents
    <3>2. i \in Indices(id, "send", e.on)
      BY <1>7, <2>1, <3>1 DEF Indices, Evt
    <3>3. Clean(inQ[e.on]) # <<>>
      BY <2>1, <2>3 DEF Enabled
    <3> QED BY <1>9, <3>1, <3>2, <3>3
  <2>4. ASSUME e.op = "recv" PROVE outQ'[e.on] # <<>>
    <3>1. e.on \in Chans /\ e = [op |-> "recv", on |-> e.on]
      BY <2>1, <2>4 DEF Events, ChanEvents
    <3>2. i \in Indices(id, "recv", e.on)
      BY <1>7, <2>1, <3>1 DEF Indices, Evt
    <3>3. Clean(outQ[e.on]) # <<>>
      BY <2>1, <2>4 DEF Enabled
    <3> QED BY <1>10, <3>1, <3>2, <3>3
  <2>5. ASSUME e.op = "cvar" PROVE cvar'[e.on].set > 0
    <3>1. e.on \in CVars
      BY <2>1, <2>5 DEF Events, ChanEvents
    <3>2. cvar[e.on].set > 0
      BY <2>1, <2>5 DEF Enabled
    <3> QED BY <1>13, <3>1, <3>2
  <2>6. i \in DOMAIN Sync(id)'.req.evts
    BY <1>4, <1>7
  <2> QED BY <1>5, <1>19, <2>1, <2>2, <2>3, <2>4, <2>5, <2>6 DEF DoOK
<1>29. AgendaOK'
  <2>1. \A a \in ToSet(agenda') : a.kind # "set" => a = d
    BY <1>20, <1>27
  <2> QED BY <1>19, <1>27, <1>28, <2>1 DEF AgendaOK
<1>30. TypeOK'
  BY <1>3, <1>9, <1>10, <1>12, <1>14, <1>27 DEF TypeOK
<1> QED BY <1>4, <1>15, <1>17, <1>18, <1>27, <1>29, <1>30

\* cleanAndEnqueue of the items of id for op, after the polls for the
\* opposite operation.
Enqueued(id, q, op, polled) ==
    [c \in Chans |-> IF Indices(id, op, c) # {}
                     THEN Clean(q[c]) \o Logged(id, op, c) ELSE Polled(id, q, polled)[c]]

\* s is q with the entries of N, and without some that are dead
Joined(q, s, N) ==
    /\ ToSet(s) \subseteq ToSet(q) \cup N /\ N \subseteq ToSet(s)
    /\ \A x \in ToSet(q) : x.id \in live => x \in ToSet(s)

\* cleanAndEnqueue: cancelled entries go, the new ones join.
LEMMA EnqueuedProps ==
    ASSUME NEW q \in [Chans -> Seq(Items)], NEW id \in Trans, NEW op, NEW polled,
           Sync(id).req.evts \in Seq(Events(CVars))
    PROVE  /\ Enqueued(id, q, op, polled) \in [Chans -> Seq(Items)]
           /\ \A c \in Chans : Joined(q[c], Enqueued(id, q, op, polled)[c],
                                      {Item(id, i) : i \in Indices(id, op, c)})
<1> SUFFICES ASSUME NEW c \in Chans
             PROVE  /\ Enqueued(id, q, op, polled)[c] \in Seq(Items)
                    /\ Joined(q[c], Enqueued(id, q, op, polled)[c],
                              {Item(id, i) : i \in Indices(id, op, c)})
  BY DEF Enqueued
<1> DEFINE s == Enqueued(id, q, op, polled)[c]
           N == {Item(id, i) : i \in Indices(id, op, c)}
           l == Logged(id, op, c)
           k == Clean(q[c])
<1>1. s = IF Indices(id, op, c) # {} THEN k \o l ELSE Polled(id, q, polled)[c]
  BY DEF Enqueued
<1>2. l \in Seq(Items) /\ ToSet(l) = N
  BY LoggedProps
<1>3. q[c] \in Seq(Items) /\ k \in Seq(Items) /\ ToSet(k) = {x \in ToSet(q[c]) : x.id \in live}
  BY CleanProps
<1>4. CASE Indices(id, op, c) # {}
  <2> HIDE DEF k, l, N, s
  <2>1. k \o l \in Seq(Items) /\ ToSet(k \o l) = ToSet(k) \cup ToSet(l)
    BY <1>2, <1>3, ConcatElements
  <2> QED BY <1>1, <1>2, <1>3, <1>4, <2>1 DEF Joined, s, N
<1>5. CASE Indices(id, op, c) = {}
  <2>1. /\ Polled(id, q, polled) \in [Chans -> Seq(Items)]
        /\ Shrunk(q, Polled(id, q, polled), live)
    BY PolledProps
  <2>2. N = {}
    BY <1>5
  <2>3. s = Polled(id, q, polled)[c]
    BY <1>1, <1>5
  <2> HIDE DEF N, s
  <2> QED BY <2>1, <2>2, <2>3 DEF Joined, Shrunk, s, N
<1> QED BY <1>4, <1>5

\* syncBlock preserves the invariant: nobody was waiting on the other side.
LEMMA SyncBlockStep ==
    ASSUME TypeOK, RegionOK, NEW t \in Threads, syncBlock(t), prog' = prog
    PROVE  TypeOK' /\ RegionOK'
<1> USE DEF RegionOK
<1>0. PICK id : id = CurId(t)
  OBVIOUS
<1>1. /\ agenda = <<>> /\ phase[t] = "forced"
      /\ \A i \in DOMAIN Sync(id).req.evts : ~ Enabled(Sync(id).req.evts[i])
      /\ phase' = [phase EXCEPT ![t] = "blocked"] /\ live' = live \cup {id}
      /\ inQ' = Enqueued(id, inQ, "recv", "send") /\ outQ' = Enqueued(id, outQ, "send", "recv")
      /\ cvar' = [v \in CVars |-> [cvar[v] EXCEPT !.waiting = Logged(id, "cvar", v) \o @]]
      /\ log' = log /\ prio' = prio /\ agenda' = agenda /\ met' = met /\ failure' = failure
  BY <1>0 DEF syncBlock, Free, Enqueued
<1>2. /\ id \in Syncs /\ Sync(id).won = 0 /\ id[1] = t /\ Syncs = In(log) /\ Sync(id) = Rec(log, id)
      /\ log \in Logs
  BY <1>0, <1>1, LiveShape DEF TypeOK
<1>3. /\ Sync(id).req.evts \in Seq(Events(CVars)) /\ id \in Trans
  BY <1>2, LogShape
<1>4. /\ inQ \in [Chans -> Seq(Items)] /\ outQ \in [Chans -> Seq(Items)]
      /\ cvar \in [CVars -> [set : Nat, waiting : Seq(Items)]]
      /\ phase \in [Threads -> {"run", "forced", "blocked"}]
  BY DEF TypeOK
<1>5. Syncs' = Syncs /\ \A a : Sync(a)' = Sync(a) /\ CurId(a)' = CurId(a)
  BY <1>1 DEF Syncs, Sync, CurId
<1>6. phase' \in [Threads -> {"run", "forced", "blocked"}] /\ phase'[t] = "blocked" /\ \A u \in Threads : u # t => phase'[u] = phase[u]
  BY <1>1, <1>4
<1>7. Evolves /\ Posted(id)' /\ ~ Posted(id)
  <2>1. \A a \in Syncs : a[1] \in Threads
    BY <1>2, LogShape
  <2>2. \A a \in Syncs : Posted(a) => Posted(a)'
    BY <1>5, <1>6, <2>1 DEF Posted
  <2> QED BY <1>0, <1>1, <1>2, <1>5, <1>6, <2>2 DEF Evolves, Posted
<1>8. PhaseOK'
  <2>1. ASSUME NEW u \in Threads, phase'[u] # "run"
        PROVE  Len(log'[u]) > 0 /\ log'[u][Len(log'[u])].won = 0
    BY <1>1, <1>6, <2>1 DEF PhaseOK
  <2>2. ASSUME NEW a \in Trans
        PROVE  a \in live' <=> phase'[a[1]] = "blocked" /\ a = CurId(a[1])'
    <3>1. a[1] \in Threads
      BY DEF Trans
    <3>2. a \in live <=> phase[a[1]] = "blocked" /\ a = CurId(a[1])
      BY DEF PhaseOK
    <3>3. CASE a[1] = t
      BY <1>0, <1>1, <1>5, <1>6, <3>2, <3>3
    <3>4. CASE a[1] # t
      BY <1>1, <1>2, <1>5, <1>6, <3>1, <3>2, <3>4
    <3> QED BY <3>3, <3>4
  <2> QED BY <2>1, <2>2 DEF PhaseOK
<1>9. /\ inQ' \in [Chans -> Seq(Items)]
      /\ \A c \in Chans : Joined(inQ[c], inQ'[c], {Item(id, i) : i \in Indices(id, "recv", c)})
  <2>1. /\ Enqueued(id, inQ, "recv", "send") \in [Chans -> Seq(Items)]
        /\ \A c \in Chans : Joined(inQ[c], Enqueued(id, inQ, "recv", "send")[c],
                                   {Item(id, i) : i \in Indices(id, "recv", c)})
    BY <1>3, <1>4, EnqueuedProps
  <2> QED BY <1>1, <2>1
<1>10. /\ outQ' \in [Chans -> Seq(Items)]
       /\ \A c \in Chans : Joined(outQ[c], outQ'[c], {Item(id, i) : i \in Indices(id, "send", c)})
  <2>1. /\ Enqueued(id, outQ, "send", "recv") \in [Chans -> Seq(Items)]
        /\ \A c \in Chans : Joined(outQ[c], Enqueued(id, outQ, "send", "recv")[c],
                                   {Item(id, i) : i \in Indices(id, "send", c)})
    BY <1>3, <1>4, EnqueuedProps
  <2> QED BY <1>1, <2>1
<1>11. ASSUME NEW v \in CVars
       PROVE  /\ cvar'[v] \in [set : Nat, waiting : Seq(Items)] /\ cvar'[v].set = cvar[v].set
              /\ ToSet(cvar'[v].waiting)
                    = {Item(id, i) : i \in Indices(id, "cvar", v)} \cup ToSet(cvar[v].waiting)
  <2> DEFINE l == Logged(id, "cvar", v)
             w == cvar[v].waiting
  <2>1. l \in Seq(Items) /\ ToSet(l) = {Item(id, i) : i \in Indices(id, "cvar", v)}
    BY <1>3, LoggedProps
  <2>2. cvar[v] \in [set : Nat, waiting : Seq(Items)] /\ w \in Seq(Items)
    BY <1>4
  <2>3. cvar'[v] = [set |-> cvar[v].set, waiting |-> l \o w]
    BY <1>1, <2>2
  <2> HIDE DEF l, w
  <2>4. l \o w \in Seq(Items) /\ ToSet(l \o w) = ToSet(l) \cup ToSet(w)
    BY <2>1, <2>2, ConcatElements
  <2> QED BY <2>1, <2>2, <2>3, <2>4 DEF w
<1>12. cvar' \in [CVars -> [set : Nat, waiting : Seq(Items)]]
  BY <1>1, <1>11
<1>13. ASSUME NEW op, NEW on, NEW i \in Indices(id, op, on), NEW x, x = Item(id, i)
       PROVE  /\ i \in DOMAIN Sync(id).req.evts /\ ~ Enabled([op |-> op, on |-> on])
              /\ x.id = id /\ Offers(x, op, on)'
  <2>1. i \in DOMAIN Sync(id).req.evts /\ Sync(id).req.evts[i] = [op |-> op, on |-> on]
    BY DEF Indices, Evt
  <2>2. ~ Enabled([op |-> op, on |-> on])
    BY <1>1, <2>1
  <2>3. x.id = id /\ x.i = i
    BY <1>13 DEF Item
  <2>4. Evt(id, i)' = [op |-> op, on |-> on] /\ i \in DOMAIN Sync(id)'.req.evts
    BY <1>5, <2>1 DEF Evt
  <2> QED BY <1>7, <2>1, <2>2, <2>3, <2>4 DEF Offers
<1>14. ASSUME NEW c \in Chans, NEW i \in Indices(id, "recv", c)
       PROVE  \A y \in ToSet(outQ[c]) : y.id \notin live
  <2>1. ~ Enabled([op |-> "recv", on |-> c])
    BY <1>13
  <2>2. Clean(outQ[c]) = <<>>
    BY <2>1 DEF Enabled
  <2> QED BY <1>4, <2>2, CleanProps
<1>15. ASSUME NEW c \in Chans, NEW i \in Indices(id, "send", c)
       PROVE  \A y \in ToSet(inQ[c]) : y.id \notin live
  <2>1. ~ Enabled([op |-> "send", on |-> c])
    BY <1>13
  <2>2. Clean(inQ[c]) = <<>>
    BY <2>1 DEF Enabled
  <2> QED BY <1>4, <2>2, CleanProps
<1>16. ASSUME NEW c \in Chans, NEW x \in ToSet(inQ'[c])
       PROVE  \/ x \in ToSet(inQ[c])
              \/ x.id = id /\ Offers(x, "recv", c)' /\ \A y \in ToSet(outQ[c]) : y.id \notin live
  <2>1. CASE x \notin ToSet(inQ[c])
    <3>1. PICK i \in Indices(id, "recv", c) : x = Item(id, i)
      BY <1>9, <2>1 DEF Joined
    <3> QED BY <1>13, <1>14, <3>1
  <2> QED BY <2>1
<1>17. ASSUME NEW c \in Chans, NEW x \in ToSet(outQ'[c])
       PROVE  \/ x \in ToSet(outQ[c])
              \/ x.id = id /\ Offers(x, "send", c)' /\ \A y \in ToSet(inQ[c]) : y.id \notin live
  <2>1. CASE x \notin ToSet(outQ[c])
    <3>1. PICK i \in Indices(id, "send", c) : x = Item(id, i)
      BY <1>10, <2>1 DEF Joined
    <3> QED BY <1>13, <1>15, <3>1
  <2> QED BY <2>1
<1>18. ASSUME NEW v \in CVars, NEW x \in ToSet(cvar'[v].waiting)
       PROVE  x \in ToSet(cvar[v].waiting) \/ (x.id = id /\ Offers(x, "cvar", v)')
  <2>1. CASE x \notin ToSet(cvar[v].waiting)
    <3>1. PICK i \in Indices(id, "cvar", v) : x = Item(id, i)
      BY <1>11, <2>1
    <3>2. x.id = id /\ Offers(x, "cvar", v)'
      BY <1>13, <3>1
    <3> QED BY <3>2
  <2> QED BY <2>1
<1>19. /\ \A c \in Chans : \A x \in ToSet(inQ[c]) : x.id \in live => x \in ToSet(inQ'[c])
       /\ \A c \in Chans : \A x \in ToSet(outQ[c]) : x.id \in live => x \in ToSet(outQ'[c])
       /\ \A v \in CVars : ToSet(cvar[v].waiting) \subseteq ToSet(cvar'[v].waiting)
  BY <1>9, <1>10, <1>11 DEF Joined
<1>20. ASSUME NEW i \in DOMAIN Sync(id)'.req.evts
       PROVE  LET e == Evt(id, i)' IN
              /\ e.op = "send" => Item(id, i) \in ToSet(outQ'[e.on])
              /\ e.op = "recv" => Item(id, i) \in ToSet(inQ'[e.on])
              /\ e.op = "cvar" => Item(id, i) \in ToSet(cvar'[e.on].waiting)
  <2> DEFINE e == Sync(id).req.evts[i]
  <2>1. e = Evt(id, i)' /\ i \in DOMAIN Sync(id).req.evts /\ e = Evt(id, i)
    BY <1>5 DEF Evt
  <2>2. e \in Events(CVars)
    BY <1>3, <2>1
  <2> HIDE DEF e
  <2>3. /\ e.op \in {"send", "recv"} => e.on \in Chans
        /\ e.op = "cvar" => e.on \in CVars
        /\ e.op \in {"send", "recv", "cvar"} => e = [op |-> e.op, on |-> e.on]
    BY <2>2 DEF Events, ChanEvents
  <2>4. e.op \in {"send", "recv", "cvar"} => i \in Indices(id, e.op, e.on)
    BY <2>1, <2>3 DEF Indices
  <2>5. e.op = "send" => Item(id, i) \in ToSet(outQ'[e.on])
    BY <1>10, <2>3, <2>4 DEF Joined
  <2>6. e.op = "recv" => Item(id, i) \in ToSet(inQ'[e.on])
    BY <1>9, <2>3, <2>4 DEF Joined
  <2>7. ASSUME e.op = "cvar" PROVE Item(id, i) \in ToSet(cvar'[e.on].waiting)
    <3>1. e.on \in CVars /\ i \in Indices(id, "cvar", e.on)
      BY <2>3, <2>4, <2>7
    <3>2. \A v \in CVars : \A k \in Indices(id, "cvar", v) : Item(id, k) \in ToSet(cvar'[v].waiting)
      BY <1>11
    <3> QED BY <3>1, <3>2
  <2> QED BY <2>1, <2>5, <2>6, <2>7
<1>21. QueuesOK' /\ MeetOK' /\ StandOK'
  <2>1. live' = live \cup {id} /\ agenda' = agenda /\ ~ Posted(id) /\ Evolves
    BY <1>1, <1>7
  <2> QED BY <1>16, <1>17, <1>18, <1>19, <1>20, <2>1, Blocks
<1>22. AgendaOK' /\ Orderly(agenda') /\ ToSet(agenda) = {} /\ ToSet(agenda') = {}
  BY <1>1, NothingOnAgenda
<1>23. NacksOK'
  <2>1. \A a \in Syncs : \A j \in DOMAIN Sync(a).req.nacks : <<a[1], a[2], j>> \in CVars
    BY <1>2, LogShape DEF Sync, Rec
  <2>2. \A a, i : Decided(a, i)' <=> Decided(a, i)
    BY <1>5, <1>22 DEF Decided
  <2> QED BY <1>5, <1>11, <1>22, <2>1, <2>2, ZenonT(60) DEF NacksOK
<1>24. CVarsOK'
  <2> SUFFICES ASSUME NEW v \in CVars, cvar'[v].set > 0
               PROVE  <<v[1], v[2]>> \in Syncs' /\ cvar'[v].waiting = <<>>
    BY DEF CVarsOK
  <2>1. cvar[v].set > 0 /\ <<v[1], v[2]>> \in Syncs /\ cvar[v].waiting = <<>>
    BY <1>11 DEF CVarsOK
  <2>2. Indices(id, "cvar", v) = {}
    <3>1. \A i \in Indices(id, "cvar", v) : ~ Enabled([op |-> "cvar", on |-> v])
      BY <1>13
    <3>2. Enabled([op |-> "cvar", on |-> v])
      BY <2>1 DEF Enabled
    <3> QED BY <3>1, <3>2
  <2>3. ToSet(cvar'[v].waiting) = {} /\ cvar'[v].waiting \in Seq(Items)
    BY <1>11, <2>1, <2>2, SmallLists
  <2>4. cvar'[v].waiting = <<>>
    BY <2>3, Elements
  <2> QED BY <1>5, <2>1, <2>4
<1>25. MetOK'
  BY <1>1, MetStays
<1>26. TypeOK'
  <2>1. live' \in SUBSET Trans
    BY <1>1, <1>3 DEF TypeOK
  <2> QED BY <1>1, <1>6, <1>9, <1>10, <1>12, <2>1 DEF TypeOK
<1> QED BY <1>8, <1>21, <1>22, <1>23, <1>24, <1>25, <1>26

-----------------------------------------------------------------------------
(* The steps of a region.                                                   *)

\* The waiters of a cvar, put on the agenda in their order.
LEMMA WakesProps ==
    ASSUME NEW ws \in Seq(Items)
    PROVE  /\ [k \in 1 .. Len(ws) |-> Wake(ws[k])] \in Seq(Tasks)
           /\ ToSet([k \in 1 .. Len(ws) |-> Wake(ws[k])]) = {Wake(x) : x \in ToSet(ws)}
<1> DEFINE s == [k \in 1 .. Len(ws) |-> Wake(ws[k])]
<1>1. Len(ws) \in Nat /\ DOMAIN ws = 1 .. Len(ws) /\ \A k \in 1 .. Len(ws) : ws[k] \in Items
  OBVIOUS
<1>2. \A x \in Items : Wake(x) \in Tasks
  BY DEF Wake, Items, Tasks
<1>3. s \in Seq(Tasks)
  BY <1>1, <1>2
<1>4. DOMAIN s = 1 .. Len(ws) /\ \A k \in 1 .. Len(ws) : s[k] = Wake(ws[k])
  OBVIOUS
<1> HIDE DEF s
<1>5. ToSet(s) = {Wake(x) : x \in ToSet(ws)}
  BY <1>1, <1>4 DEF ToSet
<1> QED BY <1>3, <1>5 DEF s

\* An entry of the agenda, other than a cvar to be set, stays good.
LEMMA AgendaKept ==
    ASSUME Evolves, NEW a,
           \A v \in CVars : cvar[v].set > 0 => cvar'[v].set > 0
    PROVE  a.kind = "wake" /\ WakeOK(a) => WakeOK(a)'
BY DEF WakeOK, Evt, Evolves, Posted

\* A decision stays enabled while the clean-ups before its doFn run.
LEMMA DoKept ==
    ASSUME TypeOK, PhaseOK, Evolves, inQ' = inQ, outQ' = outQ,
           \A v \in CVars : cvar[v].set > 0 => cvar'[v].set > 0,
           NEW a \in Tasks, DoOK(a), phase'[a.id[1]] = "forced", CurId(a.id[1])' = CurId(a.id[1])
    PROVE  DoOK(a)'
<1>1. PICK e : e = Evt(a.id, a.i)
  OBVIOUS
<1>2. /\ a.i \in DOMAIN Sync(a.id).req.evts /\ a.id = CurId(a.id[1]) /\ phase[a.id[1]] = "forced"
      /\ e.op = "cvar" => cvar[e.on].set > 0
  BY <1>1 DEF DoOK
<1>3. a.id[1] \in Threads
  BY DEF Tasks, Trans
<1>4. a.id \in Syncs /\ Syncs = In(log) /\ Sync(a.id) = Rec(log, a.id) /\ log \in Logs
  BY <1>2, <1>3, LiveShape DEF TypeOK
<1>5. Sync(a.id)'.req = Sync(a.id).req
  BY <1>4 DEF Evolves
<1>6. Evt(a.id, a.i)' = e
  BY <1>1, <1>5 DEF Evt
<1>7. Sync(a.id).req.evts \in Seq(Events(CVars))
  BY <1>4, LogShape
<1>8. e \in Events(CVars)
  BY <1>1, <1>2, <1>7 DEF Evt
<1>9. e.op = "cvar" => e.on \in CVars
  BY <1>8 DEF Events, ChanEvents
<1>10. e.op = "cvar" => cvar'[e.on].set > 0
  BY <1>2, <1>9
<1>11. (e.op = "send" => inQ'[e.on] # <<>>) /\ (e.op = "recv" => outQ'[e.on] # <<>>)
  BY <1>1 DEF DoOK
<1> QED BY <1>2, <1>5, <1>6, <1>10, <1>11 DEF DoOK

\* doSet preserves the invariant, and never finds its cvar set.
LEMMA DoSetStep ==
    ASSUME TypeOK, RegionOK, doSet, prog' = prog
    PROVE  TypeOK' /\ RegionOK'
<1> USE DEF RegionOK
<1>0. PICK h : h = Head(agenda)
  OBVIOUS
<1>1. /\ agenda # <<>> /\ h.kind = "set" /\ atomicCVarSet(h.id, h.i)
      /\ phase' = phase /\ log' = log /\ live' = live /\ inQ' = inQ /\ outQ' = outQ
      /\ prio' = prio /\ met' = met
  BY <1>0 DEF doSet
<1>2. agenda \in Seq(Tasks) /\ cvar \in [CVars -> [set : Nat, waiting : Seq(Items)]] /\ log \in Logs
  BY DEF TypeOK
<1>3. /\ h \in ToSet(agenda) /\ Rest \in Seq(Tasks) /\ Orderly(Rest)
      /\ ToSet(agenda) = {h} \cup ToSet(Rest) /\ h \notin ToSet(Rest)
  BY <1>0, <1>1, <1>2, OrderlyTail DEF Rest
<1>4. h.id \in Syncs /\ h.i \in DOMAIN Sync(h.id).req.nacks /\ cvar[<<h.id[1], h.id[2], h.i>>].set = 0
  BY <1>1, <1>3 DEF AgendaOK, SetOK
<1>5. PICK v : v = <<h.id[1], h.id[2], h.i>>
  OBVIOUS
<1>6. PICK ws : ws = cvar[v].waiting
  OBVIOUS
<1> DEFINE wakes == [k \in 1 .. Len(ws) |-> Wake(ws[k])]
<1>7. /\ cvar' = [cvar EXCEPT ![v] = [set |-> 1, waiting |-> <<>>]]
      /\ agenda' = wakes \o Rest /\ failure' = failure
  <2>1. ~ (cvar[v].set > 0)
    BY <1>4, <1>5
  <2>2. atomicCVarSet(h.id, h.i) <=>
           IF cvar[v].set > 0
           THEN failure' = "cvar already set" /\ UNCHANGED <<cvar, agenda>>
           ELSE /\ cvar' = [cvar EXCEPT ![v] = [set |-> 1, waiting |-> <<>>]]
                /\ agenda' = [k \in 1 .. Len(cvar[v].waiting) |-> Wake(cvar[v].waiting[k])] \o Rest
                /\ UNCHANGED failure
    BY <1>5 DEF atomicCVarSet
  <2> QED BY <1>1, <1>6, <2>1, <2>2
<1>8. /\ v \in CVars /\ Syncs = In(log) /\ h.id = <<v[1], v[2]>> /\ h.id = <<h.id[1], h.id[2]>> /\ v[3] = h.i
      /\ \A a : Sync(a) = Rec(log, a)
  <2>1. Syncs = In(log) /\ \A a : Sync(a) = Rec(log, a)
    BY DEF Syncs, In, Sync, Rec
  <2>2. <<h.id[1], h.id[2], h.i>> \in CVars /\ h.id = <<h.id[1], h.id[2]>>
    BY <1>2, <1>4, <2>1, LogShape
  <2> QED BY <1>5, <2>1, <2>2
<1>9. ws \in Seq(Items)
  BY <1>2, <1>6, <1>8
<1>10. wakes \in Seq(Tasks) /\ ToSet(wakes) = {Wake(x) : x \in ToSet(ws)}
  BY <1>9, WakesProps
<1> HIDE DEF wakes
<1>11. \A x : Wake(x).kind = "wake" /\ Wake(x).id = x.id /\ Wake(x).i = x.i
  BY DEF Wake
<1>12. /\ agenda' \in Seq(Tasks) /\ Orderly(agenda') /\ ToSet(agenda') = ToSet(wakes) \cup ToSet(Rest)
  <2>1. \A a \in ToSet(wakes) : a.kind = "wake"
    BY <1>10, <1>11
  <2>2. \A k \in DOMAIN wakes : wakes[k] \in ToSet(wakes)
    BY DEF ToSet
  <2>3. \A k, l \in DOMAIN wakes : wakes[k].kind = "set" /\ wakes[k] = wakes[l] => k = l
    BY <2>1, <2>2
  <2>4. /\ wakes \o Rest \in Seq(Tasks) /\ Orderly(wakes \o Rest)
        /\ ToSet(wakes \o Rest) = ToSet(wakes) \cup ToSet(Rest)
    BY <1>3, <1>10, <2>1, <2>3, OrderlyConcat
  <2> QED BY <1>7, <2>4
<1>13. /\ Evolves /\ Syncs' = Syncs /\ (\A a : Sync(a)' = Sync(a)) /\ PhaseOK' /\ MetOK'
  BY <1>1, LogStays
<1>14. /\ cvar' \in [CVars -> [set : Nat, waiting : Seq(Items)]]
       /\ cvar'[v].set = 1 /\ cvar'[v].waiting = <<>>
       /\ \A u \in CVars : u # v => cvar'[u] = cvar[u]
  BY <1>2, <1>7, <1>8
<1>15. \A u \in CVars : cvar[u].set > 0 => cvar'[u].set > 0
  <2>1. ~ (cvar[v].set > 0)
    BY <1>4, <1>5
  <2> QED BY <1>14, <2>1
<1>16. ToSet(<<>>) = {}
  BY SmallLists
<1>17. Shrunk(inQ, inQ', live') /\ Shrunk(outQ, outQ', live') /\ live' \subseteq live
  BY <1>1 DEF Shrunk
<1>18. QueuesOK' /\ MeetOK'
  <2>1. \A u \in CVars : ToSet(cvar'[u].waiting) \subseteq ToSet(cvar[u].waiting)
    BY <1>14, <1>16
  <2> QED BY <1>13, <1>17, <2>1, QueuesShrink
<1>19. StandOK'
  <2>1. \A u \in CVars : \A y \in ToSet(cvar[u].waiting) : y.id \in live' =>
            y \in ToSet(cvar'[u].waiting) \/ Wake(y) \in ToSet(agenda')
    BY <1>6, <1>10, <1>12, <1>14
  <2>2. \A y \in Items : Wake(y) \in ToSet(agenda) /\ y.id \in live' => Wake(y) \in ToSet(agenda')
    BY <1>1, <1>3, <1>11, <1>12
  <2> QED BY <1>13, <1>17, <2>1, <2>2, StandsOn
<1>20. ASSUME NEW a \in ToSet(Rest), a.kind = "do" PROVE DoOK(a)'
  <2>1. DoOK(a) /\ a \in Tasks
    BY <1>2, <1>3, <1>20, Elements DEF AgendaOK
  <2>2. phase'[a.id[1]] = "forced" /\ CurId(a.id[1])' = CurId(a.id[1])
    BY <1>1, <2>1 DEF DoOK, CurId
  <2> QED BY <1>1, <1>13, <1>15, <2>1, <2>2, DoKept
<1>21. ASSUME NEW a \in ToSet(agenda'), a.kind = "wake" PROVE WakeOK(a)'
  <2>1. CASE a \in ToSet(Rest)
    BY <1>3, <1>13, <1>15, <1>21, <2>1, AgendaKept DEF AgendaOK
  <2>2. CASE a \notin ToSet(Rest)
    <3>1. PICK x \in ToSet(ws) : a = Wake(x)
      BY <1>10, <1>12, <2>2
    <3>2. Offers(x, "cvar", v)
      BY <1>6, <1>8 DEF QueuesOK
    <3>3. WakeOK(a)
      BY <1>11, <3>1, <3>2 DEF Offers, WakeOK
    <3> QED BY <1>13, <1>15, <1>21, <3>3, AgendaKept
  <2> QED BY <2>1, <2>2
<1>22. ASSUME NEW a \in ToSet(Rest), a.kind = "set" PROVE SetOK(a)'
  <2>1. SetOK(a) /\ a \in Tasks /\ h \in Tasks
    BY <1>2, <1>3, <1>22, Elements DEF AgendaOK
  <2>2. a.id \in Syncs /\ a.i \in DOMAIN Sync(a.id).req.nacks /\ cvar[<<a.id[1], a.id[2], a.i>>].set = 0
    BY <2>1 DEF SetOK
  <2>3. <<a.id[1], a.id[2], a.i>> \in CVars /\ a.id = <<a.id[1], a.id[2]>>
    BY <1>2, <1>8, <2>2, LogShape
  <2>4. ASSUME <<a.id[1], a.id[2], a.i>> = v PROVE FALSE
    <3>1. a.id = h.id /\ a.i = h.i
      BY <1>5, <1>8, <2>3, <2>4
    <3>2. a = h
      BY <1>1, <1>22, <2>1, <3>1 DEF Tasks
    <3> QED BY <1>3, <3>2
  <2>5. cvar'[<<a.id[1], a.id[2], a.i>>].set = 0
    BY <1>14, <2>2, <2>3, <2>4
  <2> QED BY <1>13, <2>2, <2>5 DEF SetOK
<1>23. AgendaOK'
  <2>1. \A a \in ToSet(agenda') : a.kind # "wake" => a \in ToSet(Rest)
    BY <1>10, <1>11, <1>12
  <2> QED BY <1>20, <1>21, <1>22, <2>1 DEF AgendaOK
<1>24. NacksOK'
  <2> SUFFICES ASSUME NEW a \in Syncs, NEW j \in DOMAIN Sync(a).req.nacks
               PROVE  cvar'[<<a[1], a[2], j>>].set > 0 \/ Set(a, j) \in ToSet(agenda')
                        <=> \E k \in Nat : Decided(a, k)' /\ k \notin Sync(a).req.nacks[j]
    BY <1>13 DEF NacksOK
  <2>1. \A k : DoFn(a, k) \in ToSet(agenda') <=> DoFn(a, k) \in ToSet(agenda)
    <3>1. \A k : DoFn(a, k).kind = "do"
      BY DEF DoFn
    <3> QED BY <1>1, <1>3, <1>10, <1>11, <1>12, <3>1
  <2>2. \A k : Decided(a, k)' <=> Decided(a, k)
    BY <1>13, <2>1 DEF Decided
  <2>3. cvar[<<a[1], a[2], j>>].set > 0 \/ Set(a, j) \in ToSet(agenda)
             <=> \E k \in Nat : Decided(a, k) /\ k \notin Sync(a).req.nacks[j]
    BY DEF NacksOK
  <2>4. Set(a, j).kind = "set" /\ Set(a, j).id = a /\ Set(a, j).i = j
    BY DEF Set
  <2>5. <<a[1], a[2], j>> \in CVars /\ a = <<a[1], a[2]>>
    BY <1>2, <1>8, LogShape
  <2>6. CASE a = h.id /\ j = h.i
    <3>1. Set(a, j) = h
      <4>1. h \in Tasks
        BY <1>2, <1>3, Elements
      <4> QED BY <1>1, <2>6, <4>1 DEF Set, Tasks
    <3>2. cvar'[<<a[1], a[2], j>>].set > 0
      BY <1>5, <1>14, <2>6
    <3> QED BY <1>3, <2>2, <2>3, <3>1, <3>2
  <2>7. CASE ~ (a = h.id /\ j = h.i)
    <3>1. Set(a, j) # h
      BY <2>4, <2>7
    <3>2. Set(a, j) \in ToSet(agenda') <=> Set(a, j) \in ToSet(agenda)
      BY <1>3, <1>10, <1>11, <1>12, <2>4, <3>1
    <3>3. <<a[1], a[2], j>> # v
      BY <1>5, <1>8, <2>5, <2>7
    <3>4. cvar'[<<a[1], a[2], j>>] = cvar[<<a[1], a[2], j>>]
      BY <1>14, <2>5, <3>3
    <3> QED BY <2>2, <2>3, <3>2, <3>4
  <2> QED BY <2>6, <2>7
<1>25. CVarsOK'
  BY <1>4, <1>8, <1>13, <1>14 DEF CVarsOK
<1>26. TypeOK'
  BY <1>1, <1>7, <1>12, <1>14 DEF TypeOK
<1> QED BY <1>12, <1>13, <1>18, <1>19, <1>23, <1>24, <1>25, <1>26

\* The current synchronizations in S commit, and their threads go on.
LEMMA Commits ==
    ASSUME TypeOK, PhaseOK, log' \in Logs, In(log') = In(log),
           \A t \in Threads : Len(log'[t]) = Len(log[t]),
           NEW S \in SUBSET Syncs, \A a \in S : a = CurId(a[1]),
           \A a \in In(log) : Rec(log', a).req = Rec(log, a).req,
           \A a \in In(log) : a \notin S => Rec(log', a) = Rec(log, a),
           \A a \in S : phase'[a[1]] = "run",
           \A t \in Threads : (\A a \in S : a[1] # t) => phase'[t] = phase[t],
           live' = live \ S
    PROVE  /\ Evolves /\ PhaseOK' /\ Syncs' = Syncs /\ \A t \in Threads : CurId(t)' = CurId(t)
<1>1. /\ Syncs = In(log) /\ Syncs' = In(log') /\ log \in Logs
      /\ \A a : Sync(a) = Rec(log, a) /\ Sync(a)' = Rec(log', a)
  BY DEF Syncs, In, Sync, Rec, TypeOK
<1>2. \A t \in Threads : CurId(t)' = CurId(t) /\ CurId(t)[1] = t
  BY DEF CurId
<1>3. \A a \in Syncs : a[1] \in Threads
  BY <1>1, LogShape
<1>4. \A t \in Threads : phase'[t] # "run" => phase'[t] = phase[t] /\ \A a \in S : a[1] # t
  BY <1>3
<1>5. Evolves
  <2>1. \A a \in Syncs : Posted(a) => Posted(a)'
    BY <1>1, <1>2, <1>3, <1>4 DEF Posted
  <2> QED BY <1>1, <2>1 DEF Evolves
<1>6. ASSUME NEW u \in Threads, phase'[u] # "run"
      PROVE  Len(log'[u]) > 0 /\ log'[u][Len(log'[u])].won = 0
  <2>1. phase[u] # "run" /\ CurId(u) \notin S
    BY <1>2, <1>4, <1>6
  <2>2. Len(log[u]) > 0 /\ log[u][Len(log[u])].won = 0
    BY <2>1 DEF PhaseOK
  <2>3. CurId(u) \in In(log)
    BY <1>1, <2>1, LiveShape
  <2>4. Rec(log', CurId(u)) = Rec(log, CurId(u))
    BY <2>1, <2>3
  <2> QED BY <2>2, <2>4 DEF CurId, Rec
<1>7. ASSUME NEW a \in Trans
      PROVE  a \in live' <=> phase'[a[1]] = "blocked" /\ a = CurId(a[1])'
  <2>1. a[1] \in Threads
    BY DEF Trans
  <2>2. a \in live <=> phase[a[1]] = "blocked" /\ a = CurId(a[1])
    BY DEF PhaseOK
  <2>3. CASE a \in S
    BY <2>3
  <2>4. CASE a \notin S
    <3>1. a = CurId(a[1]) => \A b \in S : b[1] # a[1]
      BY <2>4
    <3> QED BY <1>2, <2>1, <2>2, <2>4, <3>1
  <2> QED BY <2>3, <2>4
<1>8. PhaseOK'
  BY <1>6, <1>7 DEF PhaseOK
<1> QED BY <1>1, <1>2, <1>5, <1>8

\* doWake of a waiter that was cancelled meanwhile preserves the invariant.
LEMMA WakeSkipStep ==
    ASSUME TypeOK, RegionOK, agenda # <<>>, Head(agenda).kind = "wake", Head(agenda).id \notin live,
           agenda' = Rest, prog' = prog,
           phase' = phase, log' = log, live' = live, inQ' = inQ, outQ' = outQ, prio' = prio,
           cvar' = cvar, met' = met, failure' = failure
    PROVE  TypeOK' /\ RegionOK'
<1> USE DEF RegionOK
<1>0. PICK h : h = Head(agenda)
  OBVIOUS
<1>1. agenda \in Seq(Tasks)
  BY DEF TypeOK
<1>2. /\ agenda' \in Seq(Tasks) /\ Orderly(agenda')
      /\ ToSet(agenda) = {h} \cup ToSet(agenda') /\ h.kind = "wake" /\ h.id \notin live
  BY <1>0, <1>1, OrderlyTail DEF Rest
<1>3. /\ Evolves /\ Syncs' = Syncs /\ (\A a : Sync(a)' = Sync(a)) /\ PhaseOK' /\ MetOK'
  BY LogStays
<1>4. Shrunk(inQ, inQ', live') /\ Shrunk(outQ, outQ', live') /\ live' \subseteq live
  BY DEF Shrunk
<1>5. QueuesOK' /\ MeetOK'
  BY <1>3, <1>4, QueuesShrink
<1>6. \A x : Wake(x).kind = "wake" /\ Wake(x).id = x.id
  BY DEF Wake
<1>7. StandOK'
  <2>1. \A y \in Items : Wake(y) \in ToSet(agenda) /\ y.id \in live' => Wake(y) \in ToSet(agenda')
    BY <1>2, <1>6
  <2> QED BY <1>3, <1>4, <2>1, StandsOn
<1>8. AgendaOK'
  <2>1. ASSUME NEW a \in ToSet(agenda')
        PROVE  /\ a.kind = "do" => DoOK(a)'
               /\ a.kind = "wake" => WakeOK(a)'
               /\ a.kind = "set" => SetOK(a)'
    <3>1. a \in Tasks /\ (a.kind = "do" => DoOK(a)) /\ (a.kind = "wake" => WakeOK(a)) /\ (a.kind = "set" => SetOK(a))
      BY <1>1, <1>2, Elements DEF AgendaOK
    <3>2. a.kind = "wake" => WakeOK(a)'
      BY <1>3, <3>1, AgendaKept
    <3>3. a.kind = "set" => SetOK(a)'
      BY <1>3, <3>1 DEF SetOK
    <3>4. ASSUME a.kind = "do" PROVE DoOK(a)'
      <4>1. phase'[a.id[1]] = "forced" /\ CurId(a.id[1])' = CurId(a.id[1])
        BY <3>1, <3>4 DEF DoOK, CurId
      <4> QED BY <1>3, <3>1, <3>4, <4>1, DoKept
    <3> QED BY <3>2, <3>3, <3>4
  <2> QED BY <2>1 DEF AgendaOK
<1>9. NacksOK'
  <2>1. \A a, k : (DoFn(a, k) \in ToSet(agenda') <=> DoFn(a, k) \in ToSet(agenda))
               /\ (Set(a, k) \in ToSet(agenda') <=> Set(a, k) \in ToSet(agenda))
    <3>1. \A a, k : DoFn(a, k).kind = "do" /\ Set(a, k).kind = "set"
      BY DEF DoFn, Set
    <3> QED BY <1>2, <3>1
  <2>2. \A a, k : Decided(a, k)' <=> Decided(a, k)
    BY <1>3, <2>1 DEF Decided
  <2> QED BY <1>3, <2>1, <2>2 DEF NacksOK
<1>10. CVarsOK'
  BY <1>3 DEF CVarsOK
<1>11. TypeOK'
  BY <1>2 DEF TypeOK
<1> QED BY <1>2, <1>3, <1>5, <1>7, <1>8, <1>9, <1>10, <1>11

\* The clean-ups of a commit add no doFn.
LEMMA ChkConcat ==
    ASSUME log \in Logs, NEW id \in Syncs, NEW i \in Nat, NEW r \in Seq(Tasks)
    PROVE  \A a, k : DoFn(a, k) \in ToSet(chkCVars(id, i) \o r) <=> DoFn(a, k) \in ToSet(r)
<1>1. id \in In(log) /\ Sync(id) = Rec(log, id)
  BY DEF Syncs, In, Sync, Rec
<1>2. PICK nacks \in Seq(SUBSET Nat) : nacks = Sync(id).req.nacks
  BY <1>1, LogShape
<1>3. id \in Trans
  BY <1>1, LogShape
<1>4. /\ chkCVars(id, i) \in Seq(Tasks)
      /\ ToSet(chkCVars(id, i)) = {Set(id, j) : j \in {k \in DOMAIN nacks : i \notin nacks[k]}}
  BY <1>2, <1>3, ChkProps
<1>5. ToSet(chkCVars(id, i) \o r) = ToSet(chkCVars(id, i)) \cup ToSet(r)
  BY <1>4, ConcatElements
<1>6. \A a, k, j : DoFn(a, k) # Set(id, j)
  BY DEF DoFn, Set
<1> QED BY <1>4, <1>5, <1>6

\* MetIsPaired, after a step.
LEMMA PairedIsMet ==
    ASSUME Paired(log', met')
    PROVE  MetOK'
BY DEF MetOK, Paired, Partners, PartnersIn, Meets, Syncs, Sync, Evt, In, Rec

\* doWake of a live waiter preserves the invariant: its own clean-ups go first.
LEMMA WakeCommitStep ==
    ASSUME TypeOK, RegionOK, NEW h, h = Head(agenda), agenda # <<>>, h.kind = "wake", h.id \in live,
           live' = live \ {h.id}, log' = Commit(log, h.id, h.i),
           phase' = [phase EXCEPT ![h.id[1]] = "run"],
           agenda' = chkCVars(h.id, h.i) \o Rest, prog' = prog,
           inQ' = inQ, outQ' = outQ, prio' = prio, cvar' = cvar, met' = met, failure' = failure
    PROVE  TypeOK' /\ RegionOK'
<1> USE DEF RegionOK
<1>0. PICK id, i : id = h.id /\ i = h.i
  OBVIOUS
<1>1. agenda \in Seq(Tasks) /\ log \in Logs /\ phase \in [Threads -> {"run", "forced", "blocked"}]
  BY DEF TypeOK
<1>2. /\ h \in ToSet(agenda) /\ Rest \in Seq(Tasks) /\ Orderly(Rest)
      /\ ToSet(agenda) = {h} \cup ToSet(Rest)
  BY <1>1, OrderlyTail DEF Rest
<1>3. /\ id \in Syncs /\ Sync(id).won = 0 /\ Syncs = In(log) /\ \A a \in Syncs : Sync(a) = Rec(log, a)
  BY <1>0, LiveShape
<1>4. /\ id[1] \in Threads /\ id \in Trans /\ Sync(id).req.evts \in Seq(Events(CVars))
  BY <1>1, <1>3, LogShape
<1>5. phase[id[1]] = "blocked" /\ id = CurId(id[1])
  BY <1>0, <1>4 DEF PhaseOK
<1>6. /\ i \in DOMAIN Sync(id).req.evts /\ i \in Nat /\ i # 0
      /\ Sync(id).req.evts[i].op \in {"cvar", "timeout"}
  <2>1. i \in DOMAIN Sync(id).req.evts /\ Sync(id).req.evts[i].op \in {"cvar", "timeout"}
    BY <1>0, <1>2 DEF AgendaOK, WakeOK, Evt
  <2> QED BY <1>4, <2>1
<1>7. /\ log' \in Logs /\ In(log') = In(log)
      /\ \A t \in Threads : Len(log'[t]) = Len(log[t])
      /\ Rec(log', id) = [req |-> Rec(log, id).req, won |-> i]
      /\ \A a \in In(log) : a # id => Rec(log', a) = Rec(log, a)
  <2>1. log' = Commit(log, id, i)
    BY <1>0
  <2> QED BY <1>1, <1>3, <1>6, <2>1, CommitProps
<1>8. /\ phase' \in [Threads -> {"run", "forced", "blocked"}] /\ phase'[id[1]] = "run"
      /\ \A t \in Threads : t # id[1] => phase'[t] = phase[t]
  BY <1>0, <1>1, <1>4
<1>9. /\ Evolves /\ PhaseOK' /\ Syncs' = Syncs /\ \A t \in Threads : CurId(t)' = CurId(t)
  <2>1. PICK S : S = {id}
    OBVIOUS
  <2>2. S \in SUBSET Syncs /\ \A a \in S : a = CurId(a[1])
    BY <1>3, <1>5, <2>1
  <2>3. \A a \in In(log) : Rec(log', a).req = Rec(log, a).req
    BY <1>7
  <2>4. \A a \in In(log) : a \notin S => Rec(log', a) = Rec(log, a)
    BY <1>7, <2>1
  <2>5. /\ \A a \in S : phase'[a[1]] = "run"
        /\ \A t \in Threads : (\A a \in S : a[1] # t) => phase'[t] = phase[t]
    BY <1>8, <2>1
  <2>6. live' = live \ S
    BY <1>0, <2>1
  <2> QED BY <1>7, <2>2, <2>3, <2>4, <2>5, <2>6, Commits
<1>10. \A a \in Syncs : Sync(a)' = Rec(log', a)
  BY DEF Sync, Rec
<1>11. \A k : DoFn(id, k) \notin ToSet(agenda)
  <2>1. \A k : DoFn(id, k).kind = "do" /\ DoFn(id, k).id = id
    BY DEF DoFn
  <2> QED BY <1>5, <2>1 DEF AgendaOK, DoOK
<1>12. \A a, k : DoFn(a, k) \in ToSet(agenda') <=> DoFn(a, k) \in ToSet(agenda)
  <2>1. \A a, k : DoFn(a, k) \in ToSet(chkCVars(id, i) \o Rest) <=> DoFn(a, k) \in ToSet(Rest)
    BY <1>1, <1>2, <1>3, <1>6, ChkConcat
  <2>2. \A a, k : DoFn(a, k) # h
    BY DEF DoFn
  <2> QED BY <1>0, <1>2, <2>1, <2>2
<1>13. \A k \in Nat : ~ Decided(id, k)
  BY <1>3, <1>11 DEF Decided
<1>14. \A k \in Nat : Decided(id, k)' <=> k = i
  BY <1>3, <1>6, <1>7, <1>10, <1>11, <1>12 DEF Decided
<1>15. \A a \in Syncs : a # id => \A k \in Nat : Decided(a, k)' <=> Decided(a, k)
  BY <1>3, <1>7, <1>10, <1>12 DEF Decided
<1>16. \A v \in CVars : cvar'[v].set \in Nat /\ (cvar'[v].set > 0 <=> cvar[v].set > 0)
  BY DEF TypeOK
<1>17. \A a : a.kind = "set" => (a \in ToSet(Rest) <=> a \in ToSet(agenda))
  BY <1>2
<1>18. /\ NacksOK' /\ Orderly(agenda') /\ agenda' \in Seq(Tasks)
       /\ \A a \in ToSet(agenda') : a.kind = "set" => SetOK(a)'
       /\ \A a \in ToSet(agenda') : a.kind # "set" => a \in ToSet(Rest)
       /\ ToSet(Rest) \subseteq ToSet(agenda')
  <2>1. agenda' = chkCVars(id, i) \o Rest
    BY <1>0
  <2>2. \A a \in Syncs' : a \in Syncs \/ Sync(a)'.req.nacks = <<>>
    BY <1>9
  <2> QED BY <1>2, <1>3, <1>6, <1>7, <1>9, <1>13, <1>14, <1>15, <1>16, <1>17, <2>1, <2>2, Decides
<1>19. Shrunk(inQ, inQ', live') /\ Shrunk(outQ, outQ', live') /\ live' \subseteq live
  BY DEF Shrunk
<1>20. QueuesOK' /\ MeetOK'
  BY <1>9, <1>19, QueuesShrink
<1>21. StandOK'
  <2>1. \A y \in Items : Wake(y) \in ToSet(agenda) /\ y.id \in live' => Wake(y) \in ToSet(agenda')
    <3>1. \A y : Wake(y).id = y.id
      BY DEF Wake
    <3> QED BY <1>2, <1>18, <3>1
  <2> QED BY <1>9, <1>19, <2>1, StandsOn
<1>22. AgendaOK'
  <2>1. ASSUME NEW a \in ToSet(Rest)
        PROVE  (a.kind = "do" => DoOK(a)') /\ (a.kind = "wake" => WakeOK(a)')
    <3>1. a \in Tasks /\ (a.kind = "do" => DoOK(a)) /\ (a.kind = "wake" => WakeOK(a))
      BY <1>1, <1>2, Elements DEF AgendaOK
    <3>2. a.kind = "wake" => WakeOK(a)'
      BY <1>9, <3>1, AgendaKept
    <3>3. ASSUME a.kind = "do" PROVE DoOK(a)'
      <4>1. phase[a.id[1]] = "forced" /\ a.id[1] \in Threads
        BY <3>1, <3>3 DEF DoOK, Tasks, Trans
      <4>2. phase'[a.id[1]] = "forced" /\ CurId(a.id[1])' = CurId(a.id[1])
        BY <1>5, <1>8, <1>9, <4>1
      <4> QED BY <1>9, <3>1, <3>3, <4>2, DoKept
    <3> QED BY <3>2, <3>3
  <2> QED BY <1>18, <2>1 DEF AgendaOK
<1>23. CVarsOK'
  BY <1>9 DEF CVarsOK
<1>24. MetOK'
  <2>1. Paired(log, met)
    BY MetIsPaired
  <2>2. ~ Meets(Rec(log', id))
    <3>1. Rec(log', id).won = i /\ Rec(log', id).req = Sync(id).req
      BY <1>3, <1>7
    <3>2. Rec(log', id).req.evts[Rec(log', id).won].op \in {"cvar", "timeout"}
      BY <1>6, <3>1
    <3> QED BY <3>2 DEF Meets
  <2>3. Rec(log, id).won = 0
    BY <1>3
  <2>4. Paired(log', met)
    BY <1>3, <1>7, <2>1, <2>2, <2>3, PairedSolo
  <2> QED BY <2>4, PairedIsMet
<1>25. TypeOK'
  BY <1>7, <1>8, <1>18 DEF TypeOK
<1> QED BY <1>9, <1>18, <1>20, <1>21, <1>22, <1>23, <1>24, <1>25

\* timeoutFires preserves the invariant.
LEMMA TimeoutStep ==
    ASSUME TypeOK, RegionOK, NEW t \in Threads, timeoutFires(t), prog' = prog
    PROVE  TypeOK' /\ RegionOK'
<1> USE DEF RegionOK
<1>0. PICK id : id = CurId(t)
  OBVIOUS
<1>1. /\ agenda = <<>> /\ phase[t] = "blocked" /\ id \in live
      /\ phase' = phase /\ log' = log /\ live' = live /\ inQ' = inQ /\ outQ' = outQ /\ prio' = prio
      /\ cvar' = cvar /\ met' = met /\ failure' = failure
  BY <1>0 DEF timeoutFires, Free
<1>2. PICK i \in Indices(id, "timeout", <<>>) : agenda' = <<Wake(Item(id, i))>>
  BY <1>0 DEF timeoutFires
<1>3. PICK w : w = Wake(Item(id, i))
  OBVIOUS
<1>4. /\ Evolves /\ Syncs' = Syncs /\ (\A a : Sync(a)' = Sync(a)) /\ PhaseOK' /\ MetOK'
  BY <1>1, LogStays
<1>5. /\ id \in Syncs /\ Posted(id) /\ Syncs = In(log) /\ Sync(id) = Rec(log, id) /\ log \in Logs
  BY <1>1, LiveShape DEF TypeOK
<1>6. id \in Trans /\ Sync(id).req.evts \in Seq(Events(CVars))
  BY <1>5, LogShape
<1>7. i \in DOMAIN Sync(id).req.evts /\ Evt(id, i).op = "timeout" /\ i \in Nat
  BY <1>6 DEF Indices
<1>8. w \in Tasks /\ w.kind = "wake" /\ w.id = id /\ w.i = i
  BY <1>3, <1>6, <1>7 DEF Wake, Item, Tasks
<1>9. WakeOK(w)'
  <2>1. WakeOK(w)
    BY <1>5, <1>7, <1>8 DEF WakeOK
  <2> QED BY <1>1, <1>4, <1>8, <2>1, AgendaKept
<1>10. agenda' \in Seq(Tasks) /\ ToSet(agenda') = {w} /\ Orderly(agenda') /\ ToSet(agenda) = {}
  <2>1. agenda' = <<w>>
    BY <1>2, <1>3
  <2>2. <<w>> \in Seq(Tasks) /\ ToSet(<<w>>) = {w} /\ ToSet(<<>>) = {}
    BY <1>8, SmallLists
  <2>3. Orderly(<<w>>)
    BY <1>8 DEF Orderly
  <2> QED BY <1>1, <2>1, <2>2, <2>3
<1>11. AgendaOK'
  BY <1>8, <1>9, <1>10 DEF AgendaOK
<1>12. Shrunk(inQ, inQ', live') /\ Shrunk(outQ, outQ', live') /\ live' \subseteq live
  BY <1>1 DEF Shrunk
<1>13. QueuesOK' /\ MeetOK'
  BY <1>1, <1>4, <1>12, QueuesShrink
<1>14. StandOK'
  BY <1>1, <1>4, <1>10, <1>12, StandsOn
<1>15. NacksOK'
  <2>1. \A a, k : DoFn(a, k) # w /\ Set(a, k) # w
    BY <1>8 DEF DoFn, Set
  <2>2. \A a, k : Decided(a, k)' <=> Decided(a, k)
    BY <1>4, <1>10, <2>1 DEF Decided
  <2> QED BY <1>1, <1>4, <1>10, <2>1, <2>2 DEF NacksOK
<1>16. CVarsOK'
  BY <1>1, <1>4 DEF CVarsOK
<1>17. TypeOK'
  BY <1>1, <1>10 DEF TypeOK
<1> QED BY <1>4, <1>10, <1>11, <1>13, <1>14, <1>15, <1>16, <1>17

\* What is known when a doFn runs: it is all that is left of the region.
LEMMA DoShape ==
    ASSUME TypeOK, RegionOK, agenda # <<>>, NEW h, h = Head(agenda), h.kind = "do"
    PROVE  /\ DoOK(h) /\ ToSet(agenda) = {h} /\ Rest = <<>>
           /\ h.id \in Syncs /\ h.id[1] \in Threads /\ h.id \in Trans /\ h.id = CurId(h.id[1])
           /\ phase[h.id[1]] = "forced" /\ h.id \notin live /\ Sync(h.id).won = 0
           /\ h.i \in Nat /\ h.i # 0 /\ h.i \in DOMAIN Sync(h.id).req.evts
           /\ Evt(h.id, h.i) \in Events(CVars)
           /\ \A a, k : DoFn(a, k) = h <=> a = h.id /\ k = h.i
           /\ \A y : Wake(y) # h
<1> USE DEF RegionOK
<1>1. agenda \in Seq(Tasks) /\ log \in Logs
  BY DEF TypeOK
<1>2. h \in ToSet(agenda) /\ ToSet(agenda) = {h} \cup ToSet(Rest) /\ Rest = <<>>
  BY <1>1, OrderlyTail DEF Rest
<1>3. DoOK(h) /\ h \in Tasks
  BY <1>1, <1>2, Elements DEF AgendaOK
<1>4. ToSet(agenda) = {h}
  BY <1>2, SmallLists
<1>5. h.id \in Trans /\ h.id[1] \in Threads
  BY <1>3 DEF Tasks, Trans
<1>6. phase[h.id[1]] = "forced" /\ h.id = CurId(h.id[1]) /\ h.i \in DOMAIN Sync(h.id).req.evts
  BY <1>3 DEF DoOK
<1>7. h.id \in Syncs /\ Sync(h.id).won = 0 /\ Syncs = In(log) /\ Sync(h.id) = Rec(log, h.id)
  BY <1>5, <1>6, LiveShape
<1>8. Sync(h.id).req.evts \in Seq(Events(CVars))
  BY <1>1, <1>7, LogShape
<1>9. h.i \in Nat /\ h.i # 0 /\ Evt(h.id, h.i) \in Events(CVars)
  BY <1>6, <1>8 DEF Evt
<1>10. h.id \notin live
  BY <1>5, <1>6 DEF PhaseOK
<1>11. \A a, k : DoFn(a, k) = h <=> a = h.id /\ k = h.i
  BY <1>3 DEF DoFn, Tasks
<1>12. \A y : Wake(y) # h
  BY DEF Wake
<1> QED BY <1>2, <1>3, <1>4, <1>5, <1>6, <1>7, <1>9, <1>10, <1>11, <1>12

\* doFnOther preserves the invariant.
LEMMA OtherStep ==
    ASSUME TypeOK, RegionOK, doFnOther, prog' = prog
    PROVE  TypeOK' /\ RegionOK'
<1> USE DEF RegionOK
<1>0. PICK h : h = Head(agenda)
  OBVIOUS
<1>1. PICK id, i : id = h.id /\ i = h.i
  OBVIOUS
<1>2. PICK e : e = Evt(id, i)
  OBVIOUS
<1>3. /\ agenda # <<>> /\ h.kind = "do" /\ e.op \notin {"send", "recv"}
      /\ cvar' = IF e.op = "cvar" THEN [cvar EXCEPT ![e.on].set = 1] ELSE cvar
      /\ log' = Commit(log, id, i) /\ phase' = [phase EXCEPT ![id[1]] = "run"] /\ agenda' = Rest
      /\ live' = live /\ inQ' = inQ /\ outQ' = outQ /\ prio' = prio /\ met' = met /\ failure' = failure
  BY <1>0, <1>1, <1>2 DEF doFnOther
<1>4. /\ DoOK(h) /\ ToSet(agenda) = {h} /\ Rest = <<>>
      /\ id \in Syncs /\ id[1] \in Threads /\ id \in Trans /\ id = CurId(id[1])
      /\ phase[id[1]] = "forced" /\ id \notin live /\ Sync(id).won = 0
      /\ i \in Nat /\ i # 0 /\ i \in DOMAIN Sync(id).req.evts
      /\ e \in Events(CVars)
      /\ (\A a, k : DoFn(a, k) = h <=> a = id /\ k = i) /\ \A y : Wake(y) # h
  BY <1>0, <1>1, <1>2, <1>3, DoShape
<1>5. /\ log \in Logs /\ phase \in [Threads -> {"run", "forced", "blocked"}] /\ Syncs = In(log)
      /\ cvar \in [CVars -> [set : Nat, waiting : Seq(Items)]]
      /\ \A a : Sync(a) = Rec(log, a) /\ Sync(a)' = Rec(log', a)
  BY DEF TypeOK, Syncs, In, Sync, Rec
<1>6. /\ log' \in Logs /\ In(log') = In(log)
      /\ \A t \in Threads : Len(log'[t]) = Len(log[t])
      /\ Rec(log', id) = [req |-> Rec(log, id).req, won |-> i]
      /\ \A a \in In(log) : a # id => Rec(log', a) = Rec(log, a)
  BY <1>3, <1>4, <1>5, CommitProps
<1>7. /\ phase' \in [Threads -> {"run", "forced", "blocked"}] /\ phase'[id[1]] = "run"
      /\ \A t \in Threads : t # id[1] => phase'[t] = phase[t]
  BY <1>3, <1>4, <1>5
<1>8. /\ Evolves /\ PhaseOK' /\ Syncs' = Syncs /\ \A t \in Threads : CurId(t)' = CurId(t)
  <2>1. PICK S : S = {id}
    OBVIOUS
  <2>2. S \in SUBSET Syncs /\ \A a \in S : a = CurId(a[1])
    BY <1>4, <2>1
  <2>3. \A a \in In(log) : Rec(log', a).req = Rec(log, a).req
    BY <1>6
  <2>4. \A a \in In(log) : a \notin S => Rec(log', a) = Rec(log, a)
    BY <1>6, <2>1
  <2>5. /\ \A a \in S : phase'[a[1]] = "run"
        /\ \A t \in Threads : (\A a \in S : a[1] # t) => phase'[t] = phase[t]
    BY <1>7, <2>1
  <2>6. live' = live \ S
    BY <1>3, <1>4, <2>1
  <2> QED BY <1>6, <2>2, <2>3, <2>4, <2>5, <2>6, Commits
<1>9. /\ cvar' \in [CVars -> [set : Nat, waiting : Seq(Items)]]
      /\ \A v \in CVars : cvar'[v].waiting = cvar[v].waiting /\ (cvar'[v].set > 0 <=> cvar[v].set > 0)
  <2>1. CASE e.op = "cvar"
    <3>1. e.on \in CVars
      BY <1>4, <2>1 DEF Events, ChanEvents
    <3>2. cvar[e.on].set > 0
      BY <1>1, <1>2, <1>4, <2>1 DEF DoOK
    <3>3. cvar[e.on] \in [set : Nat, waiting : Seq(Items)]
      BY <1>5, <3>1
    <3>4. /\ cvar'[e.on] = [set |-> 1, waiting |-> cvar[e.on].waiting]
          /\ \A v \in CVars : v # e.on => cvar'[v] = cvar[v]
          /\ cvar' \in [CVars -> [set : Nat, waiting : Seq(Items)]]
      BY <1>3, <1>5, <2>1, <3>1, <3>3
    <3> QED BY <3>1, <3>2, <3>4
  <2>2. CASE e.op # "cvar"
    BY <1>3, <1>5, <2>2
  <2> QED BY <2>1, <2>2
<1>10. agenda' = <<>>
  BY <1>3, <1>4
<1>11. AgendaOK' /\ Orderly(agenda') /\ ToSet(agenda') = {}
  BY <1>10, NothingOnAgenda
<1>12. Shrunk(inQ, inQ', live') /\ Shrunk(outQ, outQ', live') /\ live' \subseteq live
  BY <1>3 DEF Shrunk
<1>13. QueuesOK' /\ MeetOK'
  BY <1>8, <1>9, <1>12, QueuesShrink
<1>14. StandOK'
  BY <1>4, <1>8, <1>9, <1>12, StandsOn
<1>15. \A a \in Syncs : \A k \in Nat : Decided(a, k)' <=> Decided(a, k)
  BY <1>4, <1>5, <1>6, <1>11 DEF Decided
<1>16. NacksOK'
  <2> SUFFICES ASSUME NEW a \in Syncs, NEW j \in DOMAIN Sync(a)'.req.nacks
               PROVE  cvar'[<<a[1], a[2], j>>].set > 0 \/ Set(a, j) \in ToSet(agenda')
                        <=> \E k \in Nat : Decided(a, k)' /\ k \notin Sync(a)'.req.nacks[j]
    BY <1>8 DEF NacksOK
  <2>1. Sync(a)'.req = Sync(a).req
    BY <1>8 DEF Evolves
  <2>2. <<a[1], a[2], j>> \in CVars
    BY <1>5, <2>1, LogShape
  <2>3. Set(a, j) # h
    BY <1>3 DEF Set
  <2>4. cvar[<<a[1], a[2], j>>].set > 0
             <=> \E k \in Nat : Decided(a, k) /\ k \notin Sync(a).req.nacks[j]
    BY <1>4, <2>1, <2>3 DEF NacksOK
  <2>5. \A k \in Nat : Decided(a, k)' <=> Decided(a, k)
    BY <1>15
  <2>6. cvar'[<<a[1], a[2], j>>].set > 0 <=> cvar[<<a[1], a[2], j>>].set > 0
    BY <1>9, <2>2
  <2> QED BY <1>11, <2>1, <2>4, <2>5, <2>6
<1>17. CVarsOK'
  BY <1>8, <1>9 DEF CVarsOK
<1>18. MetOK'
  <2>1. Paired(log, met) /\ met' = met
    BY <1>3, MetIsPaired
  <2>2. ~ Meets(Rec(log', id))
    BY <1>2, <1>3, <1>5, <1>6 DEF Meets, Evt
  <2>3. Rec(log, id).won = 0 /\ id \in In(log)
    BY <1>4, <1>5
  <2>4. Paired(log', met)
    BY <1>6, <2>1, <2>2, <2>3, PairedSolo
  <2> QED BY <2>1, <2>4, PairedIsMet
<1>19. TypeOK'
  <2>1. agenda' \in Seq(Tasks)
    BY <1>10
  <2> QED BY <1>3, <1>6, <1>7, <1>9, <2>1 DEF TypeOK
<1> QED BY <1>8, <1>11, <1>13, <1>14, <1>16, <1>17, <1>18, <1>19

\* A doFn that finds its partner x live.
LEMMA MeetStep ==
    ASSUME TypeOK, RegionOK, agenda # <<>>, NEW h, h = Head(agenda), h.kind = "do",
           NEW c \in Chans, NEW x \in Items, x.id \in live, NEW p,
           \/ /\ Evt(h.id, h.i) = [op |-> "send", on |-> c] /\ Offers(x, "recv", c)
              /\ p = [ch |-> c, from |-> h.id, to |-> x.id]
           \/ /\ Evt(h.id, h.i) = [op |-> "recv", on |-> c] /\ Offers(x, "send", c)
              /\ p = [ch |-> c, from |-> x.id, to |-> h.id],
           live' = live \ {x.id}, prio' = [prio EXCEPT ![c] = 1],
           log' = Commit(Commit(log, h.id, h.i), x.id, x.i),
           phase' = [phase EXCEPT ![h.id[1]] = "run", ![x.id[1]] = "run"],
           met' = met \cup {p}, agenda' = chkCVars(x.id, x.i) \o Rest,
           cvar' = cvar, failure' = failure, prog' = prog,
           inQ' \in [Chans -> Seq(Items)], outQ' \in [Chans -> Seq(Items)],
           Shrunk(inQ, inQ', live'), Shrunk(outQ, outQ', live')
    PROVE  TypeOK' /\ RegionOK'
<1> USE DEF RegionOK
<1>1. PICK id, i : id = h.id /\ i = h.i
  OBVIOUS
<1>2. PICK y, n : y = x.id /\ n = x.i
  OBVIOUS
<1>3. /\ ToSet(agenda) = {h} /\ Rest = <<>>
      /\ id \in Syncs /\ id[1] \in Threads /\ id \in Trans /\ id = CurId(id[1])
      /\ phase[id[1]] = "forced" /\ id \notin live /\ Sync(id).won = 0
      /\ i \in Nat /\ i # 0 /\ i \in DOMAIN Sync(id).req.evts
      /\ (\A a, k : DoFn(a, k) = h <=> a = id /\ k = i) /\ \A z : Wake(z) # h
  BY <1>1, DoShape
<1>4. /\ log \in Logs /\ phase \in [Threads -> {"run", "forced", "blocked"}]
      /\ cvar \in [CVars -> [set : Nat, waiting : Seq(Items)]]
      /\ Syncs = In(log) /\ \A a : Sync(a) = Rec(log, a) /\ Sync(a)' = Rec(log', a)
  BY DEF TypeOK, Syncs, In, Sync, Rec
<1>5. y \in live /\ y \in Syncs /\ Sync(y).won = 0 /\ n \in DOMAIN Sync(y).req.evts
  BY <1>2, LiveShape DEF Offers
<1>6. /\ y[1] \in Threads /\ y \in Trans /\ Sync(y).req.evts \in Seq(Events(CVars))
  BY <1>4, <1>5, LogShape
<1>7. n \in Nat /\ n # 0
  BY <1>5, <1>6
<1>8. phase[y[1]] = "blocked" /\ y = CurId(y[1]) /\ y[1] # id[1] /\ y # id
  BY <1>3, <1>5, <1>6 DEF PhaseOK
<1>9. PICK l : l = Commit(log, id, i)
  OBVIOUS
<1>10. /\ l \in Logs /\ In(l) = In(log) /\ \A t \in Threads : Len(l[t]) = Len(log[t])
       /\ Rec(l, id) = [req |-> Rec(log, id).req, won |-> i]
       /\ \A a \in In(log) : a # id => Rec(l, a) = Rec(log, a)
  BY <1>3, <1>4, <1>9, CommitProps
<1>11. /\ log' \in Logs /\ In(log') = In(l) /\ \A t \in Threads : Len(log'[t]) = Len(l[t])
       /\ Rec(log', y) = [req |-> Rec(l, y).req, won |-> n]
       /\ \A a \in In(l) : a # y => Rec(log', a) = Rec(l, a)
  <2>1. log' = Commit(l, y, n) /\ y \in In(l)
    BY <1>1, <1>2, <1>4, <1>5, <1>9, <1>10
  <2> QED BY <1>7, <1>10, <2>1, CommitProps
<1>12. /\ In(log') = In(log) /\ \A t \in Threads : Len(log'[t]) = Len(log[t])
       /\ Rec(log', y) = [req |-> Rec(log, y).req, won |-> n]
       /\ Rec(log', id) = [req |-> Rec(log, id).req, won |-> i]
       /\ \A a \in In(log) : a # id /\ a # y => Rec(log', a) = Rec(log, a)
  BY <1>3, <1>4, <1>5, <1>8, <1>10, <1>11
<1>13. /\ phase' \in [Threads -> {"run", "forced", "blocked"}] /\ phase'[id[1]] = "run" /\ phase'[y[1]] = "run"
       /\ \A t \in Threads : t # id[1] /\ t # y[1] => phase'[t] = phase[t]
  BY <1>1, <1>2, <1>3, <1>4, <1>6
<1>14. /\ Evolves /\ PhaseOK' /\ Syncs' = Syncs /\ \A t \in Threads : CurId(t)' = CurId(t)
  <2>1. PICK S : S = {id, y}
    OBVIOUS
  <2>2. S \in SUBSET Syncs /\ \A a \in S : a = CurId(a[1])
    BY <1>3, <1>5, <1>8, <2>1
  <2>3. ASSUME NEW a \in In(log) PROVE Rec(log', a).req = Rec(log, a).req
    <3>1. CASE a = id
      BY <1>12, <3>1
    <3>2. CASE a = y
      BY <1>12, <3>2
    <3> QED BY <1>12, <3>1, <3>2
  <2>4. \A a \in In(log) : a \notin S => Rec(log', a) = Rec(log, a)
    BY <1>12, <2>1
  <2>5. /\ \A a \in S : phase'[a[1]] = "run"
        /\ \A t \in Threads : (\A a \in S : a[1] # t) => phase'[t] = phase[t]
    BY <1>13, <2>1
  <2>6. live' = live \ S
    BY <1>2, <1>3, <2>1
  <2> QED BY <1>11, <1>12, <2>2, <2>3, <2>4, <2>5, <2>6, Commits
<1>15. ToSet(Rest) = {} /\ Rest \in Seq(Tasks) /\ Orderly(Rest)
  <2>1. ToSet(<<>>) = {}
    BY SmallLists
  <2>2. <<>> \in Seq(Tasks) /\ Orderly(<<>>)
    BY DEF Orderly
  <2> QED BY <1>3, <2>1, <2>2
<1>16. \A a, k : DoFn(a, k) \notin ToSet(agenda')
  <2>1. \A a, k : DoFn(a, k) \in ToSet(chkCVars(y, n) \o Rest) <=> DoFn(a, k) \in ToSet(Rest)
    BY <1>4, <1>5, <1>7, <1>15, ChkConcat
  <2> QED BY <1>2, <1>15, <2>1
<1>17. \A k \in Nat : ~ Decided(y, k)
  BY <1>3, <1>5, <1>8 DEF Decided
<1>18. \A k \in Nat : Decided(y, k)' <=> k = n
  BY <1>4, <1>7, <1>12, <1>16 DEF Decided
<1>19. \A a \in Syncs : a # y => \A k \in Nat : Decided(a, k)' <=> Decided(a, k)
  <2> SUFFICES ASSUME NEW a \in Syncs, a # y, NEW k \in Nat
               PROVE  Decided(a, k)' <=> Decided(a, k)
    OBVIOUS
  <2>1. (Decided(a, k)' <=> k # 0 /\ Rec(log', a).won = k) /\ (Decided(a, k) <=> k # 0 /\ (Rec(log, a).won = k \/ DoFn(a, k) = h))
    BY <1>3, <1>4, <1>16 DEF Decided
  <2>2. CASE a = id
    BY <1>3, <1>4, <1>12, <2>1, <2>2
  <2>3. CASE a # id
    <3>1. Rec(log', a) = Rec(log, a) /\ DoFn(a, k) # h
      BY <1>3, <1>4, <1>12, <2>3
    <3> QED BY <2>1, <3>1
  <2> QED BY <2>2, <2>3
<1>20. \A v \in CVars : cvar'[v].set \in Nat /\ (cvar'[v].set > 0 <=> cvar[v].set > 0)
  BY <1>4
<1>21. \A a : a.kind = "set" => (a \in ToSet(Rest) <=> a \in ToSet(agenda))
  BY <1>3, <1>15
<1>22. /\ NacksOK' /\ Orderly(agenda') /\ agenda' \in Seq(Tasks)
       /\ \A a \in ToSet(agenda') : a.kind = "set" => SetOK(a)'
       /\ \A a \in ToSet(agenda') : a.kind # "set" => a \in ToSet(Rest)
  <2>1. agenda' = chkCVars(y, n) \o Rest
    BY <1>2
  <2>2. \A a \in Syncs' : a \in Syncs \/ Sync(a)'.req.nacks = <<>>
    BY <1>14
  <2> QED BY <1>5, <1>7, <1>11, <1>14, <1>15, <1>17, <1>18, <1>19, <1>20, <1>21, <2>1, <2>2, Decides
<1>23. AgendaOK'
  BY <1>15, <1>22 DEF AgendaOK
<1>24. live' \subseteq live
  OBVIOUS
<1>25. QueuesOK' /\ MeetOK'
  BY <1>14, <1>24, QueuesShrink
<1>26. StandOK'
  BY <1>3, <1>14, <1>24, StandsOn
<1>27. CVarsOK'
  BY <1>14 DEF CVarsOK
<1>28. /\ p \in [ch : Chans, from : Trans, to : Trans] /\ p.from \in In(log) /\ p.to \in In(log)
       /\ Rec(log, p.from).won = 0 /\ Rec(log, p.to).won = 0 /\ {p.from, p.to} = {id, y}
       /\ PartnersIn(log', p)
  <2>1. /\ Evt(id, i) = Rec(log', id).req.evts[Rec(log', id).won] /\ Rec(log', id).won # 0
        /\ Evt(y, n) = Rec(log', y).req.evts[Rec(log', y).won] /\ Rec(log', y).won # 0
    <3>1. Rec(log', id).won = i /\ Rec(log', id).req = Sync(id).req
      BY <1>4, <1>12
    <3>2. Rec(log', y).won = n /\ Rec(log', y).req = Sync(y).req
      BY <1>4, <1>12
    <3>3. Evt(id, i) = Sync(id).req.evts[i] /\ Evt(y, n) = Sync(y).req.evts[n]
      BY DEF Evt
    <3> QED BY <1>3, <1>7, <3>1, <3>2, <3>3
  <2>2. \/ /\ Evt(id, i) = [op |-> "send", on |-> c] /\ Evt(y, n) = [op |-> "recv", on |-> c]
           /\ p = [ch |-> c, from |-> id, to |-> y]
        \/ /\ Evt(id, i) = [op |-> "recv", on |-> c] /\ Evt(y, n) = [op |-> "send", on |-> c]
           /\ p = [ch |-> c, from |-> y, to |-> id]
    BY <1>1, <1>2 DEF Offers
  <2>3. CASE /\ Evt(id, i) = [op |-> "send", on |-> c] /\ Evt(y, n) = [op |-> "recv", on |-> c]
             /\ p = [ch |-> c, from |-> id, to |-> y]
    BY <1>3, <1>4, <1>5, <1>6, <1>8, <1>12, <2>1, <2>3 DEF PartnersIn
  <2>4. CASE /\ Evt(id, i) = [op |-> "recv", on |-> c] /\ Evt(y, n) = [op |-> "send", on |-> c]
             /\ p = [ch |-> c, from |-> y, to |-> id]
    BY <1>3, <1>4, <1>5, <1>6, <1>8, <1>12, <2>1, <2>4 DEF PartnersIn
  <2> QED BY <2>2, <2>3, <2>4
<1>29. MetOK'
  <2>1. Paired(log, met)
    BY MetIsPaired
  <2>2. \A a \in In(log) : a # p.from /\ a # p.to => Rec(log', a) = Rec(log, a)
    BY <1>12, <1>28
  <2>3. Paired(log', met \cup {p})
    BY <1>12, <1>28, <2>1, <2>2, PairedMeet, ZenonT(60)
  <2> QED BY <2>3, PairedIsMet
<1>30. TypeOK'
  <2>1. prio' \in [Chans -> Nat] /\ met' \in SUBSET [ch : Chans, from : Trans, to : Trans] /\ live' \in SUBSET Trans
    BY <1>28 DEF TypeOK
  <2> QED BY <1>11, <1>13, <1>22, <2>1 DEF TypeOK
<1> QED BY <1>14, <1>22, <1>23, <1>25, <1>26, <1>27, <1>29, <1>30

\* A dequeue removes the head and nothing else.
LEMMA TailShrinks ==
    ASSUME NEW q \in [Chans -> Seq(Items)], NEW c \in Chans, q[c] # <<>>, NEW r,
           r = [q EXCEPT ![c] = Tail(@)], NEW L, Head(q[c]).id \notin L
    PROVE  r \in [Chans -> Seq(Items)] /\ Shrunk(q, r, L) /\ Head(q[c]) \in ToSet(q[c]) /\ Head(q[c]) \in Items
<1>1. /\ q[c] \in Seq(Items) /\ Head(q[c]) \in ToSet(q[c]) /\ Tail(q[c]) \in Seq(Items)
      /\ ToSet(q[c]) = {Head(q[c])} \cup ToSet(Tail(q[c])) /\ ToSet(q[c]) \subseteq Items
  BY Elements
<1>2. r[c] = Tail(q[c]) /\ \A d \in Chans : d # c => r[d] = q[d]
  OBVIOUS
<1>3. r \in [Chans -> Seq(Items)]
  BY <1>1
<1>4. ASSUME NEW d \in Chans
      PROVE  ToSet(r[d]) \subseteq ToSet(q[d]) /\ \A x \in ToSet(q[d]) : x.id \in L => x \in ToSet(r[d])
  <2>1. CASE d = c
    BY <1>1, <1>2, <2>1
  <2>2. CASE d # c
    BY <1>2, <2>2
  <2> QED BY <2>1, <2>2
<1> QED BY <1>1, <1>3, <1>4 DEF Shrunk

\* doFnSend preserves the invariant, or fails with Match.
LEMMA DoFnSendStep ==
    ASSUME TypeOK, RegionOK, failure = "none", doFnSend, prog' = prog
    PROVE  TypeOK' /\ (failure' = "none" => RegionOK')
<1>0. PICK h : h = Head(agenda)
  OBVIOUS
<1>1. PICK c : c = Evt(h.id, h.i).on
  OBVIOUS
<1>2. PICK x : x = Head(inQ[c])
  OBVIOUS
<1>3. /\ agenda # <<>> /\ h.kind = "do" /\ Evt(h.id, h.i).op = "send"
      /\ inQ' = [inQ EXCEPT ![c] = Tail(@)] /\ outQ' = outQ /\ cvar' = cvar
      /\ Rendezvous(h.id, h.i, x, Rest)
  BY <1>0, <1>1, <1>2 DEF doFnSend
<1>4. Evt(h.id, h.i) \in Events(CVars) /\ DoOK(h)
  BY <1>0, <1>3, DoShape
<1>5. Evt(h.id, h.i) = [op |-> "send", on |-> c] /\ c \in Chans
  BY <1>1, <1>3, <1>4 DEF Events, ChanEvents
<1>6. inQ[c] # <<>> /\ inQ \in [Chans -> Seq(Items)] /\ outQ \in [Chans -> Seq(Items)]
  BY <1>1, <1>3, <1>4 DEF DoOK, TypeOK
<1>7. \A L : x.id \notin L => /\ inQ' \in [Chans -> Seq(Items)] /\ Shrunk(inQ, inQ', L)
                              /\ x \in ToSet(inQ[c]) /\ x \in Items
  BY <1>2, <1>3, <1>5, <1>6, TailShrinks
<1>8. inQ' \in [Chans -> Seq(Items)] /\ x \in ToSet(inQ[c]) /\ x \in Items
  <2>1. x.id \notin {}
    OBVIOUS
  <2> QED BY <1>7, <2>1
<1>9. Offers(x, "recv", c)
  BY <1>5, <1>8 DEF RegionOK, QueuesOK
<1>10. CASE x.id \in live
  <2>1. PICK p : p = [ch |-> c, from |-> h.id, to |-> x.id]
    OBVIOUS
  <2>2. /\ live' = live \ {x.id} /\ prio' = [prio EXCEPT ![c] = 1]
        /\ log' = Commit(Commit(log, h.id, h.i), x.id, x.i)
        /\ phase' = [phase EXCEPT ![h.id[1]] = "run", ![x.id[1]] = "run"]
        /\ met' = met \cup {p} /\ agenda' = chkCVars(x.id, x.i) \o Rest /\ failure' = failure
    BY <1>1, <1>3, <1>10, <2>1 DEF Rendezvous
  <2>3. Shrunk(inQ, inQ', live') /\ Shrunk(outQ, outQ', live') /\ outQ' \in [Chans -> Seq(Items)]
    <3>1. x.id \notin live'
      BY <2>2
    <3> QED BY <1>3, <1>6, <1>7, <3>1 DEF Shrunk
  <2>4. TypeOK' /\ RegionOK'
    BY <1>0, <1>3, <1>5, <1>8, <1>9, <1>10, <2>1, <2>2, <2>3, MeetStep
  <2> QED BY <2>4
<1>11. CASE x.id \notin live
  <2>1. /\ failure' = "Match" /\ live' = live /\ prio' = prio /\ log' = log /\ phase' = phase
        /\ met' = met /\ agenda' = agenda
    BY <1>3, <1>11 DEF Rendezvous
  <2> QED BY <1>3, <1>8, <2>1 DEF TypeOK
<1> QED BY <1>10, <1>11

\* doFnRecv preserves the invariant, or fails with Match.
LEMMA DoFnRecvStep ==
    ASSUME TypeOK, RegionOK, failure = "none", doFnRecv, prog' = prog
    PROVE  TypeOK' /\ (failure' = "none" => RegionOK')
<1>0. PICK h : h = Head(agenda)
  OBVIOUS
<1>1. PICK c : c = Evt(h.id, h.i).on
  OBVIOUS
<1>2. PICK x : x = Head(outQ[c])
  OBVIOUS
<1>3. /\ agenda # <<>> /\ h.kind = "do" /\ Evt(h.id, h.i).op = "recv"
      /\ outQ' = [outQ EXCEPT ![c] = Tail(@)] /\ inQ' = inQ /\ cvar' = cvar
      /\ Rendezvous(h.id, h.i, x, Rest)
  BY <1>0, <1>1, <1>2 DEF doFnRecv
<1>4. Evt(h.id, h.i) \in Events(CVars) /\ DoOK(h)
  BY <1>0, <1>3, DoShape
<1>5. Evt(h.id, h.i) = [op |-> "recv", on |-> c] /\ c \in Chans
  BY <1>1, <1>3, <1>4 DEF Events, ChanEvents
<1>6. outQ[c] # <<>> /\ inQ \in [Chans -> Seq(Items)] /\ outQ \in [Chans -> Seq(Items)]
  BY <1>1, <1>3, <1>4 DEF DoOK, TypeOK
<1>7. \A L : x.id \notin L => /\ outQ' \in [Chans -> Seq(Items)] /\ Shrunk(outQ, outQ', L)
                              /\ x \in ToSet(outQ[c]) /\ x \in Items
  BY <1>2, <1>3, <1>5, <1>6, TailShrinks
<1>8. outQ' \in [Chans -> Seq(Items)] /\ x \in ToSet(outQ[c]) /\ x \in Items
  <2>1. x.id \notin {}
    OBVIOUS
  <2> QED BY <1>7, <2>1
<1>9. Offers(x, "send", c)
  BY <1>5, <1>8 DEF RegionOK, QueuesOK
<1>10. CASE x.id \in live
  <2>1. PICK p : p = [ch |-> c, from |-> x.id, to |-> h.id]
    OBVIOUS
  <2>2. /\ live' = live \ {x.id} /\ prio' = [prio EXCEPT ![c] = 1]
        /\ log' = Commit(Commit(log, h.id, h.i), x.id, x.i)
        /\ phase' = [phase EXCEPT ![h.id[1]] = "run", ![x.id[1]] = "run"]
        /\ met' = met \cup {p} /\ agenda' = chkCVars(x.id, x.i) \o Rest /\ failure' = failure
    BY <1>1, <1>3, <1>10, <2>1 DEF Rendezvous
  <2>3. Shrunk(inQ, inQ', live') /\ Shrunk(outQ, outQ', live') /\ inQ' \in [Chans -> Seq(Items)]
    <3>1. x.id \notin live'
      BY <2>2
    <3> QED BY <1>3, <1>6, <1>7, <3>1 DEF Shrunk
  <2>4. TypeOK' /\ RegionOK'
    BY <1>0, <1>3, <1>5, <1>8, <1>9, <1>10, <2>1, <2>2, <2>3, MeetStep
  <2> QED BY <2>4
<1>11. CASE x.id \notin live
  <2>1. /\ failure' = "Match" /\ live' = live /\ prio' = prio /\ log' = log /\ phase' = phase
        /\ met' = met /\ agenda' = agenda
    BY <1>3, <1>11 DEF Rendezvous
  <2> QED BY <1>3, <1>8, <2>1 DEF TypeOK
<1> QED BY <1>10, <1>11

-----------------------------------------------------------------------------
(* send and recv.                                                           *)

\* The record of a direct operation.
LEMMA DirectRecord ==
    ASSUME NEW t, NEW c \in Chans, NEW op \in {"send", "recv"}
    PROVE  /\ directReq(t, op, c) \in Records /\ directReq(t, op, c).won = 0
           /\ directReq(t, op, c).req.evts = <<[op |-> op, on |-> c]>>
           /\ directReq(t, op, c).req.nacks = <<>>
<1> DEFINE e == [op |-> op, on |-> c]
<1>1. e \in Events(CVars)
  BY DEF Events, ChanEvents
<1> HIDE DEF e
<1>2. <<e>> \in Seq(Events(CVars)) /\ <<>> \in Seq(SUBSET Nat) /\ Len(<<>>) <= MaxNacks
  BY <1>1, EventAssumption
<1>3. directReq(t, op, c) = [req |-> [evts |-> <<e>>, nacks |-> <<>>], won |-> 0]
  BY DEF directReq, e
<1>4. [evts |-> <<e>>, nacks |-> <<>>] \in Requests(CVars)
  BY <1>2 DEF Requests
<1> QED BY <1>3, <1>4 DEF Records, e

\* A queue whose entries were all cancelled is emptied; an entry is appended.
LEMMA Emptied ==
    ASSUME NEW q \in [Chans -> Seq(Items)], NEW c \in Chans, NEW r, Clean(q[c]) = <<>>,
           r = [q EXCEPT ![c] = <<>>]
    PROVE  /\ r \in [Chans -> Seq(Items)] /\ Shrunk(q, r, live)
           /\ \A x \in ToSet(q[c]) : x.id \notin live
<1>1. \A x \in ToSet(q[c]) : x.id \notin live
  BY CleanProps
<1>2. r \in [Chans -> Seq(Items)] /\ r[c] = <<>> /\ \A d \in Chans : d # c => r[d] = q[d]
  OBVIOUS
<1>3. ToSet(<<>>) = {}
  BY SmallLists
<1>4. ASSUME NEW d \in Chans
      PROVE  ToSet(r[d]) \subseteq ToSet(q[d]) /\ \A x \in ToSet(q[d]) : x.id \in live => x \in ToSet(r[d])
  <2>1. CASE d = c
    BY <1>1, <1>2, <1>3, <2>1
  <2>2. CASE d # c
    BY <1>2, <2>2
  <2> QED BY <2>1, <2>2
<1> QED BY <1>1, <1>2, <1>4 DEF Shrunk

\* An enqueue adds one entry.
LEMMA Appended ==
    ASSUME NEW q \in Seq(Items), NEW z \in Items, NEW r, r = Append(q, z)
    PROVE  r \in Seq(Items) /\ ToSet(r) = ToSet(q) \cup {z}
<1>1. r \in Seq(Items) /\ r = q \o <<z>>
  BY AppendIsConcat
<1>2. <<z>> \in Seq(Items) /\ ToSet(<<z>>) = {z}
  BY SmallLists
<1>3. ToSet(q \o <<z>>) = ToSet(q) \cup ToSet(<<z>>)
  BY <1>2, ConcatElements
<1> QED BY <1>1, <1>2, <1>3

\* send and recv that find nobody: the operation becomes a blocked
\* synchronization with one base event.
LEMMA BlockDirectStep ==
    ASSUME TypeOK, RegionOK, failure = "none", NEW t \in Threads, NEW c \in Chans,
           NEW op \in {"send", "recv"}, NEW id, id = <<t, Len(log[t]) + 1>>,
           CanStart(t), BlockDirect(t, op, c), prog' = prog,
           inQ' \in [Chans -> Seq(Items)], outQ' \in [Chans -> Seq(Items)],
           \A d \in Chans : \A x \in ToSet(inQ'[d]) : x \in ToSet(inQ[d])
              \/ (op = "recv" /\ d = c /\ x = Item(id, 1) /\ \A y \in ToSet(outQ[c]) : y.id \notin live),
           \A d \in Chans : \A x \in ToSet(outQ'[d]) : x \in ToSet(outQ[d])
              \/ (op = "send" /\ d = c /\ x = Item(id, 1) /\ \A y \in ToSet(inQ[c]) : y.id \notin live),
           \A d \in Chans : \A x \in ToSet(inQ[d]) : x.id \in live => x \in ToSet(inQ'[d]),
           \A d \in Chans : \A x \in ToSet(outQ[d]) : x.id \in live => x \in ToSet(outQ'[d]),
           op = "send" => Item(id, 1) \in ToSet(outQ'[c]),
           op = "recv" => Item(id, 1) \in ToSet(inQ'[c])
    PROVE  TypeOK' /\ RegionOK'
<1> USE DEF RegionOK
<1>1. PICK r : r = directReq(t, op, c)
  OBVIOUS
<1>2. /\ r \in Records /\ r.won = 0 /\ r.req.evts = <<[op |-> op, on |-> c]>>
  BY <1>1, DirectRecord
<1>3. /\ agenda = <<>> /\ phase[t] = "run" /\ Len(log[t]) < MaxSync
      /\ Extended(log, log', t, r) /\ phase' = [phase EXCEPT ![t] = "blocked"]
      /\ live' = live \cup {id} /\ prio' = prio /\ cvar' = cvar /\ agenda' = agenda
      /\ met' = met /\ failure' = failure
  BY <1>1 DEF BlockDirect, Begin, CanStart, Free, Extended
<1>4. phase \in [Threads -> {"run", "forced", "blocked"}] /\ log \in Logs
  BY DEF TypeOK
<1>5. /\ phase' \in [Threads -> {"run", "forced", "blocked"}] /\ phase'[t] = "blocked"
      /\ \A u \in Threads : u # t => phase'[u] = phase[u]
  BY <1>3, <1>4
<1>6. \A v \in CVars : cvar'[v].set = cvar[v].set /\ (cvar[v].waiting = <<>> => cvar'[v].waiting = <<>>)
  BY <1>3
<1>7. /\ Evolves /\ NacksOK' /\ CVarsOK' /\ MetOK' /\ log' \in Logs
      /\ Len(log'[t]) = Len(log[t]) + 1 /\ log'[t][Len(log[t]) + 1] = r
      /\ CurId(t)' = id /\ id \in Trans \ Syncs /\ id \in Syncs' /\ Sync(id)' = r
      /\ \A u \in Threads : u # t => log'[u] = log[u]
  BY <1>2, <1>3, <1>5, <1>6, Begun
<1>8. PhaseOK'
  <2>1. ASSUME NEW u \in Threads, phase'[u] # "run"
        PROVE  Len(log'[u]) > 0 /\ log'[u][Len(log'[u])].won = 0
    <3>1. CASE u = t
      <4>1. Len(log[t]) \in Nat
        BY <1>4 DEF Logs
      <4> QED BY <1>2, <1>7, <3>1, <4>1
    <3>2. CASE u # t
      BY <1>5, <1>7, <2>1, <3>2 DEF PhaseOK
    <3> QED BY <3>1, <3>2
  <2>2. ASSUME NEW a \in Trans
        PROVE  a \in live' <=> phase'[a[1]] = "blocked" /\ a = CurId(a[1])'
    <3>1. a[1] \in Threads
      BY DEF Trans
    <3>2. a \in live <=> phase[a[1]] = "blocked" /\ a = CurId(a[1])
      BY DEF PhaseOK
    <3>3. CASE a[1] = t
      BY <1>3, <1>5, <1>7, <3>2, <3>3
    <3>4. CASE a[1] # t
      <4>1. a # id
        BY <3>4
      <4> QED BY <1>3, <1>5, <1>7, <3>1, <3>2, <3>4, <4>1 DEF CurId
    <3> QED BY <3>3, <3>4
  <2> QED BY <2>1, <2>2 DEF PhaseOK
<1>9. ~ Posted(id) /\ Posted(id)'
  BY <1>5, <1>7 DEF Posted
<1>10. Evt(id, 1)' = [op |-> op, on |-> c] /\ 1 \in DOMAIN Sync(id)'.req.evts /\ DOMAIN Sync(id)'.req.evts = {1}
  <2>1. \A e : DOMAIN <<e>> = {1} /\ <<e>>[1] = e
    OBVIOUS
  <2>2. Sync(id)'.req.evts = <<[op |-> op, on |-> c]>>
    BY <1>2, <1>7
  <2>3. Evt(id, 1)' = Sync(id)'.req.evts[1]
    BY DEF Evt
  <2> QED BY <2>1, <2>2, <2>3
<1>11. ASSUME NEW x, x = Item(id, 1) PROVE x.id = id /\ Offers(x, op, c)'
  BY <1>9, <1>10, <1>11 DEF Offers, Item
<1>12. \A d \in Chans : \A x \in ToSet(inQ'[d]) :
          \/ x \in ToSet(inQ[d])
          \/ x.id = id /\ Offers(x, "recv", d)' /\ \A y \in ToSet(outQ[d]) : y.id \notin live
  BY <1>11
<1>13. \A d \in Chans : \A x \in ToSet(outQ'[d]) :
          \/ x \in ToSet(outQ[d])
          \/ x.id = id /\ Offers(x, "send", d)' /\ \A y \in ToSet(inQ[d]) : y.id \notin live
  BY <1>11
<1>14. \A i \in DOMAIN Sync(id)'.req.evts :
          LET e == Evt(id, i)' IN
          /\ e.op = "send" => Item(id, i) \in ToSet(outQ'[e.on])
          /\ e.op = "recv" => Item(id, i) \in ToSet(inQ'[e.on])
          /\ e.op = "cvar" => Item(id, i) \in ToSet(cvar'[e.on].waiting)
  <2> SUFFICES ASSUME NEW i \in DOMAIN Sync(id)'.req.evts
               PROVE  LET e == Evt(id, i)' IN
                      /\ e.op = "send" => Item(id, i) \in ToSet(outQ'[e.on])
                      /\ e.op = "recv" => Item(id, i) \in ToSet(inQ'[e.on])
                      /\ e.op = "cvar" => Item(id, i) \in ToSet(cvar'[e.on].waiting)
    OBVIOUS
  <2>1. i = 1
    BY <1>10
  <2>2. PICK e : e = [op |-> op, on |-> c]
    OBVIOUS
  <2>3. e.op = op /\ e.on = c /\ Evt(id, i)' = e
    BY <1>10, <2>1, <2>2
  <2> QED BY <2>1, <2>3
<1>15. QueuesOK' /\ MeetOK' /\ StandOK'
  <2>1. /\ \A v \in CVars : \A x \in ToSet(cvar'[v].waiting) :
              x \in ToSet(cvar[v].waiting) \/ (x.id = id /\ Offers(x, "cvar", v)')
        /\ \A v \in CVars : ToSet(cvar[v].waiting) \subseteq ToSet(cvar'[v].waiting)
    BY <1>3
  <2>2. live' = live \cup {id} /\ agenda' = agenda /\ ~ Posted(id) /\ Evolves
    BY <1>3, <1>7, <1>9
  <2> QED BY <1>12, <1>13, <1>14, <2>1, <2>2, Blocks, ZenonT(60)
<1>16. AgendaOK' /\ Orderly(agenda')
  BY <1>3, NothingOnAgenda
<1>17. TypeOK'
  <2>1. live' \in SUBSET Trans
    BY <1>3, <1>7 DEF TypeOK
  <2> QED BY <1>3, <1>5, <1>7, <2>1 DEF TypeOK
<1> QED BY <1>7, <1>8, <1>15, <1>16, <1>17

\* send and recv that find a partner: both synchronizations commit in the step
\* in which the caller's begins.
LEMMA MeetDirectStep ==
    ASSUME TypeOK, RegionOK, failure = "none", NEW t \in Threads, NEW c \in Chans,
           NEW op \in {"send", "recv"}, NEW id, id = <<t, Len(log[t]) + 1>>,
           NEW x \in Items, x.id \in live, op = "send" => Offers(x, "recv", c),
           op = "recv" => Offers(x, "send", c),
           CanStart(t), MeetDirect(t, op, c, x), prog' = prog,
           inQ' \in [Chans -> Seq(Items)], outQ' \in [Chans -> Seq(Items)],
           Shrunk(inQ, inQ', live'), Shrunk(outQ, outQ', live')
    PROVE  TypeOK' /\ RegionOK'
<1> USE DEF RegionOK
<1>1. PICK r : r = directReq(t, op, c)
  OBVIOUS
<1>2. PICK y, n : y = x.id /\ n = x.i
  OBVIOUS
<1>3. PICK l : l = Begin(t, op, c)
  OBVIOUS
<1>4. PICK k : k = Commit(l, id, 1)
  OBVIOUS
<1>5. PICK p : p = IF op = "send" THEN [ch |-> c, from |-> id, to |-> y]
                                  ELSE [ch |-> c, from |-> y, to |-> id]
  OBVIOUS
<1>6. /\ r \in Records /\ r.won = 0 /\ r.req.evts = <<[op |-> op, on |-> c]>> /\ r.req.nacks = <<>>
  BY <1>1, DirectRecord
<1>7. /\ agenda = <<>> /\ phase[t] = "run" /\ Len(log[t]) < MaxSync
      /\ Extended(log, l, t, r) /\ log' = Commit(k, y, n)
      /\ live' = live \ {y} /\ prio' = [prio EXCEPT ![c] = 1]
      /\ phase' = [phase EXCEPT ![y[1]] = "run"] /\ met' = met \cup {p}
      /\ agenda' = chkCVars(y, n) /\ cvar' = cvar /\ failure' = failure
  BY <1>1, <1>2, <1>3, <1>4, <1>5 DEF MeetDirect, Begin, CanStart, Free, Extended
<1>8. /\ log \in Logs /\ phase \in [Threads -> {"run", "forced", "blocked"}]
      /\ cvar \in [CVars -> [set : Nat, waiting : Seq(Items)]]
      /\ Syncs = In(log) /\ Syncs' = In(log')
      /\ \A a : Sync(a) = Rec(log, a) /\ Sync(a)' = Rec(log', a)
  BY DEF TypeOK, Syncs, In, Sync, Rec
<1>9. y \in live /\ y \in Syncs /\ Sync(y).won = 0 /\ n \in DOMAIN Sync(y).req.evts
  BY <1>2, LiveShape DEF Offers
<1>10. /\ y[1] \in Threads /\ y \in Trans /\ Sync(y).req.evts \in Seq(Events(CVars))
  BY <1>8, <1>9, LogShape
<1>11. n \in Nat /\ n # 0
  BY <1>9, <1>10
<1>12. phase[y[1]] = "blocked" /\ y = CurId(y[1]) /\ y[1] # t
  BY <1>7, <1>9, <1>10 DEF PhaseOK
<1>13. /\ l \in Logs /\ id \in Trans \ In(log) /\ In(l) = In(log) \cup {id} /\ Rec(l, id) = r
       /\ \A a \in In(log) : Rec(l, a) = Rec(log, a)
       /\ Len(l[t]) = Len(log[t]) + 1 /\ \A u \in Threads : u # t => l[u] = log[u]
  BY <1>6, <1>7, <1>8, ExtendProps
<1>14. id[1] = t /\ y # id
  BY <1>8, <1>9, <1>13
<1>15. /\ k \in Logs /\ In(k) = In(l) /\ \A u \in Threads : Len(k[u]) = Len(l[u])
       /\ Rec(k, id) = [req |-> Rec(l, id).req, won |-> 1]
       /\ \A a \in In(l) : a # id => Rec(k, a) = Rec(l, a)
  <2>1. PICK i : i = 1
    OBVIOUS
  <2>2. l \in Logs /\ id \in In(l) /\ i \in Nat /\ k = Commit(l, id, i)
    BY <1>4, <1>13, <2>1
  <2>3. /\ k \in Logs /\ In(k) = In(l) /\ \A u \in Threads : Len(k[u]) = Len(l[u])
        /\ Rec(k, id) = [req |-> Rec(l, id).req, won |-> i]
        /\ \A a \in In(l) : a # id => Rec(k, a) = Rec(l, a)
    BY <2>2, CommitProps, ZenonT(60)
  <2> QED BY <2>1, <2>3
<1>16. /\ log' \in Logs /\ In(log') = In(k) /\ \A u \in Threads : Len(log'[u]) = Len(k[u])
       /\ Rec(log', y) = [req |-> Rec(k, y).req, won |-> n]
       /\ \A a \in In(k) : a # y => Rec(log', a) = Rec(k, a)
  <2>1. y \in In(k)
    BY <1>8, <1>9, <1>13, <1>15
  <2> QED BY <1>7, <1>11, <1>15, <2>1, CommitProps
<1>17. /\ In(log') = In(log) \cup {id} /\ In(log') = In(l)
       /\ \A u \in Threads : u # t => Len(log'[u]) = Len(log[u])
       /\ Len(log'[t]) = Len(log[t]) + 1
  BY <1>13, <1>15, <1>16
<1>18. /\ Rec(log', id) = [req |-> r.req, won |-> 1]
       /\ Rec(log', y) = [req |-> Rec(log, y).req, won |-> n]
       /\ \A a \in In(log) : a # y => Rec(log', a) = Rec(log, a)
  BY <1>8, <1>9, <1>13, <1>14, <1>15, <1>16
<1>19. ASSUME NEW a \in In(log) PROVE Rec(log', a).req = Rec(log, a).req
  <2>1. CASE a = y
    BY <1>18, <2>1
  <2> QED BY <1>18, <2>1
<1>20. /\ phase' \in [Threads -> {"run", "forced", "blocked"}] /\ phase'[t] = "run" /\ phase'[y[1]] = "run"
       /\ \A u \in Threads : u # y[1] => phase'[u] = phase[u]
  BY <1>7, <1>8, <1>10, <1>12
<1>21. CurId(t)' = id /\ \A u \in Threads : u # t => CurId(u)' = CurId(u)
  BY <1>17 DEF CurId
<1>22. Evolves
  <2> SUFFICES ASSUME NEW a \in Syncs
               PROVE  a \in Syncs' /\ Sync(a)'.req = Sync(a).req /\ (Posted(a) => Posted(a)')
    BY DEF Evolves
  <2>1. a \in Syncs' /\ Sync(a)'.req = Sync(a).req /\ a[1] \in Threads
    BY <1>8, <1>17, <1>19, LogShape
  <2>2. ASSUME phase'[a[1]] = "forced", a = CurId(a[1])' PROVE ~ Posted(a)
    <3>1. a[1] # t /\ a[1] # y[1]
      BY <1>20, <2>2
    <3>2. phase[a[1]] = "forced" /\ a = CurId(a[1])
      BY <1>20, <1>21, <2>1, <2>2, <3>1
    <3> QED BY <3>2 DEF Posted
  <2> QED BY <2>1, <2>2 DEF Posted
<1>23. PhaseOK'
  <2>1. ASSUME NEW u \in Threads, phase'[u] # "run"
        PROVE  Len(log'[u]) > 0 /\ log'[u][Len(log'[u])].won = 0
    <3>1. u # t /\ u # y[1] /\ phase[u] # "run"
      BY <1>20, <2>1
    <3>2. CurId(u) \in Syncs /\ Sync(CurId(u)).won = 0 /\ Len(log[u]) > 0
      BY <3>1, LiveShape DEF PhaseOK
    <3>3. CurId(u) # y
      BY <3>1 DEF CurId
    <3>4. Rec(log', CurId(u)) = Rec(log, CurId(u))
      BY <1>8, <1>18, <3>2, <3>3
    <3>5. Rec(log', CurId(u)) = log'[u][Len(log'[u])]
      BY <1>17, <3>1 DEF Rec, CurId
    <3> QED BY <1>8, <1>17, <3>1, <3>2, <3>4, <3>5
  <2>2. ASSUME NEW a \in Trans
        PROVE  a \in live' <=> phase'[a[1]] = "blocked" /\ a = CurId(a[1])'
    <3>1. a[1] \in Threads
      BY DEF Trans
    <3>2. a \in live <=> phase[a[1]] = "blocked" /\ a = CurId(a[1])
      BY DEF PhaseOK
    <3>3. CASE a[1] = t
      BY <1>7, <1>20, <3>2, <3>3
    <3>4. CASE a[1] = y[1]
      BY <1>7, <1>12, <1>20, <3>2, <3>4
    <3>5. CASE a[1] # t /\ a[1] # y[1]
      BY <1>7, <1>20, <1>21, <3>1, <3>2, <3>5
    <3> QED BY <3>3, <3>4, <3>5
  <2> QED BY <2>1, <2>2 DEF PhaseOK
<1>24. ToSet(agenda) = {} /\ ToSet(<<>>) = {} /\ <<>> \in Seq(Tasks) /\ Orderly(<<>>)
  <2>1. ToSet(<<>>) = {}
    BY SmallLists
  <2>2. <<>> \in Seq(Tasks) /\ Orderly(<<>>)
    BY DEF Orderly
  <2> QED BY <1>7, <2>1, <2>2
<1>25. agenda' = chkCVars(y, n) \o <<>>
  <2>1. PICK nacks : nacks = Sync(y).req.nacks
    OBVIOUS
  <2>2. nacks \in Seq(SUBSET Nat)
    BY <1>8, <1>9, <2>1, LogShape
  <2>3. chkCVars(y, n) \in Seq(Tasks)
    BY <1>10, <1>11, <2>1, <2>2, ChkProps
  <2>4. chkCVars(y, n) \o <<>> = chkCVars(y, n)
    BY <2>3, ConcatEmptySeq
  <2> QED BY <1>7, <2>4
<1>26. \A a, i : DoFn(a, i) \notin ToSet(agenda) /\ DoFn(a, i) \notin ToSet(agenda')
  <2>1. \A a, i : DoFn(a, i) \in ToSet(chkCVars(y, n) \o <<>>) <=> DoFn(a, i) \in ToSet(<<>>)
    BY <1>8, <1>9, <1>11, <1>24, ChkConcat
  <2> QED BY <1>24, <1>25, <2>1
<1>27. \A i \in Nat : ~ Decided(y, i)
  BY <1>9, <1>26 DEF Decided
<1>28. \A i \in Nat : Decided(y, i)' <=> i = n
  BY <1>8, <1>11, <1>18, <1>26 DEF Decided
<1>29. \A a \in Syncs : a # y => \A i \in Nat : Decided(a, i)' <=> Decided(a, i)
  BY <1>8, <1>18, <1>26 DEF Decided
<1>30. \A v \in CVars : cvar'[v].set \in Nat /\ (cvar'[v].set > 0 <=> cvar[v].set > 0)
  BY <1>7, <1>8
<1>31. \A a : a.kind = "set" => (a \in ToSet(<<>>) <=> a \in ToSet(agenda))
  BY <1>24
<1>32. ASSUME NEW a \in Syncs' PROVE a \in Syncs \/ Sync(a)'.req.nacks = <<>>
  <2>1. CASE a = id
    <3>1. Rec(log', id).req.nacks = <<>>
      BY <1>6, <1>18
    <3> QED BY <1>8, <2>1, <3>1
  <2> QED BY <1>8, <1>17, <2>1
<1>33. /\ NacksOK' /\ Orderly(agenda') /\ agenda' \in Seq(Tasks)
       /\ \A a \in ToSet(agenda') : a.kind = "set" => SetOK(a)'
       /\ \A a \in ToSet(agenda') : a.kind # "set" => a \in ToSet(<<>>)
  BY <1>9, <1>11, <1>16, <1>22, <1>24, <1>25, <1>27, <1>28, <1>29, <1>30, <1>31, <1>32, Decides
<1>34. AgendaOK'
  BY <1>24, <1>33 DEF AgendaOK
<1>35. live' \subseteq live
  BY <1>7
<1>36. QueuesOK' /\ MeetOK'
  BY <1>7, <1>22, <1>35, QueuesShrink
<1>37. StandOK'
  BY <1>7, <1>22, <1>24, <1>35, StandsOn
<1>38. CVarsOK'
  BY <1>7, <1>8, <1>17 DEF CVarsOK
<1>39. /\ p \in [ch : Chans, from : Trans, to : Trans] /\ p.from \in In(l) /\ p.to \in In(l)
       /\ Rec(l, p.from).won = 0 /\ Rec(l, p.to).won = 0 /\ {p.from, p.to} = {id, y}
       /\ PartnersIn(log', p)
  <2>1. \A e : <<e>>[1] = e
    OBVIOUS
  <2>2. /\ Rec(log', id).req.evts[Rec(log', id).won] = [op |-> op, on |-> c] /\ Rec(log', id).won # 0
        /\ Rec(log', y).req.evts[Rec(log', y).won] = Evt(y, n) /\ Rec(log', y).won # 0
    BY <1>6, <1>8, <1>11, <1>18, <2>1 DEF Evt
  <2>3. Rec(l, id).won = 0 /\ Rec(l, y).won = 0 /\ id \in In(l) /\ y \in In(l) /\ In(log') = In(l)
    BY <1>6, <1>8, <1>9, <1>13, <1>17
  <2>4. CASE op = "send"
    <3>1. Evt(y, n) = [op |-> "recv", on |-> c] /\ p = [ch |-> c, from |-> id, to |-> y]
      BY <1>2, <1>5, <2>4 DEF Offers
    <3> QED BY <1>10, <1>12, <1>13, <1>14, <2>2, <2>3, <2>4, <3>1 DEF PartnersIn
  <2>5. CASE op = "recv"
    <3>1. Evt(y, n) = [op |-> "send", on |-> c] /\ p = [ch |-> c, from |-> y, to |-> id]
      BY <1>2, <1>5, <2>5 DEF Offers
    <3> QED BY <1>10, <1>12, <1>13, <1>14, <2>2, <2>3, <2>5, <3>1 DEF PartnersIn
  <2> QED BY <2>4, <2>5
<1>40. MetOK'
  <2>1. Paired(log, met)
    BY MetIsPaired
  <2>2. Paired(l, met)
    <3>1. Rec(l, id).won = 0 /\ id \notin In(log)
      BY <1>6, <1>13
    <3> QED BY <1>13, <2>1, <3>1, PairedExtend
  <2>3. \A a \in In(l) : a # p.from /\ a # p.to => Rec(log', a) = Rec(l, a)
    BY <1>13, <1>18, <1>39
  <2>4. In(log') = In(l) /\ p.from \in In(l) /\ p.to \in In(l)
    BY <1>17, <1>39
  <2>5. Rec(l, p.from).won = 0 /\ Rec(l, p.to).won = 0 /\ PartnersIn(log', p)
    BY <1>39
  <2>6. Paired(log', met \cup {p})
    BY <2>2, <2>3, <2>4, <2>5, PairedMeet
  <2> QED BY <1>7, <2>6, PairedIsMet
<1>41. TypeOK'
  <2>1. prio' \in [Chans -> Nat] /\ met' \in SUBSET [ch : Chans, from : Trans, to : Trans] /\ live' \in SUBSET Trans
    BY <1>7, <1>39 DEF TypeOK
  <2> QED BY <1>7, <1>16, <1>20, <1>33, <2>1 DEF TypeOK
<1> QED BY <1>22, <1>23, <1>33, <1>34, <1>36, <1>37, <1>38, <1>40, <1>41

\* The first live entry of a queue is dequeued.
LEMMA DequeueShrinks ==
    ASSUME NEW q \in [Chans -> Seq(Items)], NEW c \in Chans, Clean(q[c]) # <<>>, NEW r, NEW x,
           r = [q EXCEPT ![c] = Tail(Clean(q[c]))], x = Head(Clean(q[c]))
    PROVE  /\ r \in [Chans -> Seq(Items)] /\ x \in Items /\ x.id \in live /\ x \in ToSet(q[c])
           /\ Shrunk(q, r, live \ {x.id})
<1>1. PICK s : s = Clean(q[c])
  OBVIOUS
<1>2. s \in Seq(Items) /\ ToSet(s) = {z \in ToSet(q[c]) : z.id \in live} /\ s # <<>>
  BY <1>1, CleanProps
<1>3. /\ x \in ToSet(s) /\ Tail(s) \in Seq(Items) /\ ToSet(s) = {x} \cup ToSet(Tail(s)) /\ ToSet(s) \subseteq Items
  BY <1>1, <1>2, Elements
<1>4. r \in [Chans -> Seq(Items)] /\ r[c] = Tail(s) /\ \A d \in Chans : d # c => r[d] = q[d]
  BY <1>1, <1>3
<1>5. ASSUME NEW d \in Chans
      PROVE  /\ ToSet(r[d]) \subseteq ToSet(q[d])
             /\ \A z \in ToSet(q[d]) : z.id \in live \ {x.id} => z \in ToSet(r[d])
  <2>1. CASE d = c
    BY <1>2, <1>3, <1>4, <2>1
  <2>2. CASE d # c
    BY <1>4, <2>2
  <2> QED BY <2>1, <2>2
<1> QED BY <1>2, <1>3, <1>4, <1>5 DEF Shrunk

\* send preserves the invariant.
LEMMA SendStep ==
    ASSUME TypeOK, RegionOK, failure = "none", NEW t \in Threads, NEW c \in Chans,
           send(t, c), prog' = prog
    PROVE  TypeOK' /\ RegionOK'
<1>1. PICK id : id = <<t, Len(log[t]) + 1>>
  OBVIOUS
<1>2. PICK z : z = Item(id, 1)
  OBVIOUS
<1>3. inQ \in [Chans -> Seq(Items)] /\ outQ \in [Chans -> Seq(Items)] /\ log \in Logs
  BY DEF TypeOK
<1>4. CanStart(t)
  BY DEF send
<1>5. CASE Clean(inQ[c]) # <<>>
  <2>1. PICK x : x = Head(Clean(inQ[c]))
    OBVIOUS
  <2>2. inQ' = [inQ EXCEPT ![c] = Tail(Clean(inQ[c]))] /\ MeetDirect(t, "send", c, x) /\ outQ' = outQ
    BY <1>5, <2>1 DEF send
  <2>3. live' = live \ {x.id}
    BY <2>2 DEF MeetDirect
  <2>4. /\ inQ' \in [Chans -> Seq(Items)] /\ x \in Items /\ x.id \in live /\ x \in ToSet(inQ[c])
        /\ Shrunk(inQ, inQ', live \ {x.id})
    BY <1>3, <1>5, <2>1, <2>2, DequeueShrinks
  <2>5. Offers(x, "recv", c)
    BY <2>4 DEF RegionOK, QueuesOK
  <2>6. Shrunk(inQ, inQ', live') /\ Shrunk(outQ, outQ', live') /\ outQ' \in [Chans -> Seq(Items)]
    BY <1>3, <2>2, <2>3, <2>4 DEF Shrunk
  <2>7. /\ "send" \in {"send", "recv"} /\ "send" # "recv"
    OBVIOUS
  <2> QED BY <1>1, <1>4, <2>2, <2>4, <2>5, <2>6, <2>7, MeetDirectStep
<1>6. CASE Clean(inQ[c]) = <<>>
  <2>1. /\ inQ' = [inQ EXCEPT ![c] = <<>>] /\ outQ' = [outQ EXCEPT ![c] = Append(outQ[c], z)]
        /\ BlockDirect(t, "send", c)
    BY <1>1, <1>2, <1>6 DEF send
  <2>2. z \in Items
    <3>1. Len(log[t]) + 1 \in 1 .. MaxSync
      BY <1>3, <1>4, EventAssumption DEF Logs, CanStart
    <3>2. id \in Trans
      BY <1>1, <3>1 DEF Trans
    <3> QED BY <1>2, <3>2 DEF Item, Items
  <2>3. /\ inQ' \in [Chans -> Seq(Items)] /\ Shrunk(inQ, inQ', live)
        /\ \A x \in ToSet(inQ[c]) : x.id \notin live
    BY <1>3, <1>6, <2>1, Emptied
  <2>4. /\ outQ' \in [Chans -> Seq(Items)] /\ ToSet(outQ'[c]) = ToSet(outQ[c]) \cup {z}
        /\ \A d \in Chans : d # c => outQ'[d] = outQ[d]
    <3>1. PICK r : r = Append(outQ[c], z)
      OBVIOUS
    <3>2. outQ[c] \in Seq(Items)
      BY <1>3
    <3>3. r \in Seq(Items) /\ ToSet(r) = ToSet(outQ[c]) \cup {z}
      BY <2>2, <3>1, <3>2, Appended
    <3>4. outQ' = [outQ EXCEPT ![c] = r]
      BY <2>1, <3>1
    <3> QED BY <1>3, <3>3, <3>4
  <2>5. \A d \in Chans : \A x \in ToSet(inQ'[d]) : x \in ToSet(inQ[d])
          \/ ("send" = "recv" /\ d = c /\ x = Item(id, 1) /\ \A y \in ToSet(outQ[c]) : y.id \notin live)
    BY <2>3 DEF Shrunk
  <2>6. \A d \in Chans : \A x \in ToSet(outQ'[d]) : x \in ToSet(outQ[d])
          \/ ("send" = "send" /\ d = c /\ x = Item(id, 1) /\ \A y \in ToSet(inQ[c]) : y.id \notin live)
    BY <1>2, <2>3, <2>4
  <2>7. /\ \A d \in Chans : \A x \in ToSet(inQ[d]) : x.id \in live => x \in ToSet(inQ'[d])
        /\ \A d \in Chans : \A x \in ToSet(outQ[d]) : x.id \in live => x \in ToSet(outQ'[d])
    BY <2>3, <2>4 DEF Shrunk
  <2>8. Item(id, 1) \in ToSet(outQ'[c]) /\ "send" # "recv" /\ "send" \in {"send", "recv"}
    BY <1>2, <2>4
  <2> QED BY <1>1, <1>4, <2>1, <2>3, <2>4, <2>5, <2>6, <2>7, <2>8, BlockDirectStep
<1> QED BY <1>5, <1>6

\* recv preserves the invariant.
LEMMA RecvStep ==
    ASSUME TypeOK, RegionOK, failure = "none", NEW t \in Threads, NEW c \in Chans,
           recv(t, c), prog' = prog
    PROVE  TypeOK' /\ RegionOK'
<1>1. PICK id : id = <<t, Len(log[t]) + 1>>
  OBVIOUS
<1>2. PICK z : z = Item(id, 1)
  OBVIOUS
<1>3. inQ \in [Chans -> Seq(Items)] /\ outQ \in [Chans -> Seq(Items)] /\ log \in Logs
  BY DEF TypeOK
<1>4. CanStart(t)
  BY DEF recv
<1>5. CASE Clean(outQ[c]) # <<>>
  <2>1. PICK x : x = Head(Clean(outQ[c]))
    OBVIOUS
  <2>2. outQ' = [outQ EXCEPT ![c] = Tail(Clean(outQ[c]))] /\ MeetDirect(t, "recv", c, x) /\ inQ' = inQ
    BY <1>5, <2>1 DEF recv
  <2>3. live' = live \ {x.id}
    BY <2>2 DEF MeetDirect
  <2>4. /\ outQ' \in [Chans -> Seq(Items)] /\ x \in Items /\ x.id \in live /\ x \in ToSet(outQ[c])
        /\ Shrunk(outQ, outQ', live \ {x.id})
    BY <1>3, <1>5, <2>1, <2>2, DequeueShrinks
  <2>5. Offers(x, "send", c)
    BY <2>4 DEF RegionOK, QueuesOK
  <2>6. Shrunk(inQ, inQ', live') /\ Shrunk(outQ, outQ', live') /\ inQ' \in [Chans -> Seq(Items)]
    BY <1>3, <2>2, <2>3, <2>4 DEF Shrunk
  <2>7. /\ "recv" \in {"send", "recv"} /\ "recv" # "send"
    OBVIOUS
  <2> QED BY <1>1, <1>4, <2>2, <2>4, <2>5, <2>6, <2>7, MeetDirectStep
<1>6. CASE Clean(outQ[c]) = <<>>
  <2>1. /\ outQ' = [outQ EXCEPT ![c] = <<>>] /\ inQ' = [inQ EXCEPT ![c] = Append(inQ[c], z)]
        /\ BlockDirect(t, "recv", c)
    BY <1>1, <1>2, <1>6 DEF recv
  <2>2. z \in Items
    <3>1. Len(log[t]) + 1 \in 1 .. MaxSync
      BY <1>3, <1>4, EventAssumption DEF Logs, CanStart
    <3>2. id \in Trans
      BY <1>1, <3>1 DEF Trans
    <3> QED BY <1>2, <3>2 DEF Item, Items
  <2>3. /\ outQ' \in [Chans -> Seq(Items)] /\ Shrunk(outQ, outQ', live)
        /\ \A x \in ToSet(outQ[c]) : x.id \notin live
    BY <1>3, <1>6, <2>1, Emptied
  <2>4. /\ inQ' \in [Chans -> Seq(Items)] /\ ToSet(inQ'[c]) = ToSet(inQ[c]) \cup {z}
        /\ \A d \in Chans : d # c => inQ'[d] = inQ[d]
    <3>1. PICK r : r = Append(inQ[c], z)
      OBVIOUS
    <3>2. inQ[c] \in Seq(Items)
      BY <1>3
    <3>3. r \in Seq(Items) /\ ToSet(r) = ToSet(inQ[c]) \cup {z}
      BY <2>2, <3>1, <3>2, Appended
    <3>4. inQ' = [inQ EXCEPT ![c] = r]
      BY <2>1, <3>1
    <3> QED BY <1>3, <3>3, <3>4
  <2>5. \A d \in Chans : \A x \in ToSet(inQ'[d]) : x \in ToSet(inQ[d])
          \/ ("recv" = "recv" /\ d = c /\ x = Item(id, 1) /\ \A y \in ToSet(outQ[c]) : y.id \notin live)
    BY <1>2, <2>3, <2>4
  <2>6. \A d \in Chans : \A x \in ToSet(outQ'[d]) : x \in ToSet(outQ[d])
          \/ ("recv" = "send" /\ d = c /\ x = Item(id, 1) /\ \A y \in ToSet(inQ[c]) : y.id \notin live)
    BY <2>3 DEF Shrunk
  <2>7. /\ \A d \in Chans : \A x \in ToSet(inQ[d]) : x.id \in live => x \in ToSet(inQ'[d])
        /\ \A d \in Chans : \A x \in ToSet(outQ[d]) : x.id \in live => x \in ToSet(outQ'[d])
    BY <2>3, <2>4 DEF Shrunk
  <2>8. Item(id, 1) \in ToSet(inQ'[c]) /\ "recv" # "send" /\ "recv" \in {"send", "recv"}
    BY <1>2, <2>4
  <2> QED BY <1>1, <1>4, <2>1, <2>3, <2>4, <2>5, <2>6, <2>7, <2>8, BlockDirectStep
<1> QED BY <1>5, <1>6

-----------------------------------------------------------------------------
(* The theorems.                                                            *)

\* The invariant holds before the first step.
LEMMA InitInv ==
    ASSUME Init
    PROVE  IInv
<1>1. ToSet(<<>>) = {}
  BY SmallLists
<1>2. log \in Logs /\ Syncs = {} /\ \A t \in Threads : log[t] = <<>>
  <2>1. log \in [Threads -> Seq(Records)] /\ \A t \in Threads : log[t] = <<>> /\ Len(log[t]) = 0
    BY DEF Init
  <2>2. \A id \in Trans : id[1] \in Threads /\ id[2] \in 1 .. MaxSync
    BY DEF Trans
  <2> QED BY <2>1, <2>2, EventAssumption DEF Logs, Syncs
<1>3. TypeOK
  <2>1. <<>> \in Seq(Items) /\ <<>> \in Seq(Tasks)
    OBVIOUS
  <2>2. cvar \in [CVars -> [set : Nat, waiting : Seq(Items)]]
    BY <2>1 DEF Init
  <2>3. inQ \in [Chans -> Seq(Items)] /\ outQ \in [Chans -> Seq(Items)] /\ prio \in [Chans -> Nat]
    BY <2>1 DEF Init
  <2>4. phase \in [Threads -> {"run", "forced", "blocked"}]
    BY DEF Init
  <2> QED BY <1>2, <2>1, <2>2, <2>3, <2>4 DEF Init, TypeOK
<1>4. PhaseOK
  <2>1. \A id \in Trans : id[1] \in Threads
    BY DEF Trans
  <2> QED BY <2>1 DEF Init, PhaseOK
<1>5. /\ \A c \in Chans : ToSet(inQ[c]) = {} /\ ToSet(outQ[c]) = {}
      /\ \A v \in CVars : ToSet(cvar[v].waiting) = {} /\ cvar[v].set = 0
      /\ live = {} /\ ToSet(agenda) = {} /\ met = {}
  BY <1>1 DEF Init
<1>6. QueuesOK /\ MeetOK
  BY <1>5 DEF QueuesOK, MeetOK
<1>7. StandOK /\ AgendaOK
  BY <1>5 DEF StandOK, AgendaOK
<1>8. Orderly(agenda)
  BY DEF Init, Orderly
<1>9. NacksOK /\ MetOK
  BY <1>2, <1>5 DEF NacksOK, MetOK
<1>10. CVarsOK
  BY <1>5 DEF CVarsOK
<1> QED BY <1>3, <1>4, <1>6, <1>7, <1>8, <1>9, <1>10 DEF IInv, RegionOK

\* Every step preserves the invariant.
LEMMA NextInv ==
    ASSUME IInv, [Next]_vars
    PROVE  IInv'
<1>1. CASE UNCHANGED vars
  <2>1. /\ prog' = prog /\ phase' = phase /\ log' = log /\ live' = live /\ inQ' = inQ /\ outQ' = outQ
        /\ prio' = prio /\ cvar' = cvar /\ agenda' = agenda /\ met' = met /\ failure' = failure
    BY <1>1 DEF vars
  <2>2. TypeOK'
    BY <2>1 DEF IInv, TypeOK
  <2>3. PhaseOK => PhaseOK'
    BY <2>1 DEF PhaseOK, CurId
  <2>4. /\ Syncs' = Syncs /\ (\A a : Sync(a)' = Sync(a)) /\ (\A a, i : Evt(a, i)' = Evt(a, i))
        /\ \A t : CurId(t)' = CurId(t)
    BY <2>1 DEF Syncs, Sync, Evt, CurId
  <2>5. \A a : Posted(a)' <=> Posted(a)
    BY <2>1, <2>4 DEF Posted
  <2>6. QueuesOK /\ MeetOK => QueuesOK' /\ MeetOK'
    BY <2>1, <2>4, <2>5 DEF QueuesOK, MeetOK, Offers
  <2>7. StandOK => StandOK'
    BY <2>1, <2>4 DEF StandOK
  <2>8. AgendaOK /\ Orderly(agenda) => AgendaOK' /\ Orderly(agenda')
    BY <2>1, <2>4, <2>5 DEF AgendaOK, DoOK, WakeOK, SetOK
  <2>9. NacksOK /\ CVarsOK => NacksOK' /\ CVarsOK'
    BY <2>1, <2>4 DEF NacksOK, CVarsOK, Decided
  <2>10. MetOK => MetOK'
    BY <2>1, <2>4 DEF MetOK, Partners
  <2> QED BY <2>1, <2>2, <2>3, <2>6, <2>7, <2>8, <2>9, <2>10 DEF IInv, RegionOK
<1>2. CASE Next
  <2>1. failure = "none" /\ prog' = prog
    BY <1>2 DEF Next, RegionStep, doSet, doWake, doFnSend, doFnRecv, doFnOther, force, syncReady, syncBlock, timeoutFires, send, recv, CanStart, Free
  <2>2. TypeOK /\ RegionOK
    BY <2>1 DEF IInv
  <2> HIDE DEF TypeOK, RegionOK
  <2>3. CASE doSet
    BY <2>1, <2>2, <2>3, DoSetStep DEF IInv
  <2>4. CASE doWake
    <3>1. PICK h : h = Head(agenda)
      OBVIOUS
    <3>2. /\ agenda # <<>> /\ h.kind = "wake" /\ inQ' = inQ /\ outQ' = outQ /\ prio' = prio
          /\ cvar' = cvar /\ met' = met /\ failure' = failure
      BY <2>4, <3>1 DEF doWake
    <3>3. CASE h.id \in live
      <4>1. /\ live' = live \ {h.id} /\ log' = Commit(log, h.id, h.i)
            /\ phase' = [phase EXCEPT ![h.id[1]] = "run"] /\ agenda' = chkCVars(h.id, h.i) \o Rest
        BY <2>4, <3>1, <3>3 DEF doWake
      <4> QED BY <2>1, <2>2, <3>1, <3>2, <3>3, <4>1, WakeCommitStep DEF IInv
    <3>4. CASE h.id \notin live
      <4>1. agenda' = Rest /\ live' = live /\ log' = log /\ phase' = phase
        BY <2>4, <3>1, <3>4 DEF doWake
      <4> QED BY <2>1, <2>2, <3>1, <3>2, <3>4, <4>1, WakeSkipStep DEF IInv
    <3> QED BY <3>3, <3>4
  <2>5. CASE doFnSend
    BY <2>1, <2>2, <2>5, DoFnSendStep DEF IInv
  <2>6. CASE doFnRecv
    BY <2>1, <2>2, <2>6, DoFnRecvStep DEF IInv
  <2>7. CASE doFnOther
    BY <2>1, <2>2, <2>7, OtherStep DEF IInv
  <2>8. ASSUME NEW t \in Threads, NEW r \in prog.menu[t], force(t, r) PROVE IInv'
    BY <2>1, <2>2, <2>8, ForceStep DEF IInv
  <2>9. ASSUME NEW t \in Threads, syncReady(t) PROVE IInv'
    BY <2>1, <2>2, <2>9, SyncReadyStep DEF IInv
  <2>10. ASSUME NEW t \in Threads, syncBlock(t) PROVE IInv'
    BY <2>1, <2>2, <2>10, SyncBlockStep DEF IInv
  <2>11. ASSUME NEW t \in Threads, timeoutFires(t) PROVE IInv'
    BY <2>1, <2>2, <2>11, TimeoutStep DEF IInv
  <2>12. \A t \in Threads : \A e \in prog.direct[t] : e.on \in Chans
    <3>1. \A t \in Threads : prog.direct[t] \subseteq ChanEvents
      BY <2>2, EventAssumption DEF TypeOK
    <3> QED BY <3>1 DEF ChanEvents
  <2>13. ASSUME NEW t \in Threads, NEW e \in prog.direct[t], send(t, e.on) PROVE IInv'
    BY <2>1, <2>2, <2>12, <2>13, SendStep DEF IInv
  <2>14. ASSUME NEW t \in Threads, NEW e \in prog.direct[t], recv(t, e.on) PROVE IInv'
    BY <2>1, <2>2, <2>12, <2>14, RecvStep DEF IInv
  <2> QED BY <1>2, <2>3, <2>4, <2>5, <2>6, <2>7, <2>8, <2>9, <2>10, <2>11, <2>13, <2>14 DEF Next, RegionStep
<1> QED BY <1>1, <1>2

\* Whatever the programs: the invariant of the atomic regions holds until an
\* exception escapes from one.
THEOREM Invariance == Spec => []IInv
<1>1. Init => IInv
  BY InitInv
<1>2. IInv /\ [Next]_vars => IInv'
  BY NextInv
<1> QED BY <1>1, <1>2, PTL DEF Spec

-----------------------------------------------------------------------------
(* What the invariant says outside the regions.                             *)

\* Outside a region the invariant holds with an empty agenda.
LEMMA RegionOver ==
    ASSUME IInv, Free
    PROVE  TypeOK /\ RegionOK /\ ToSet(agenda) = {}
<1>1. ToSet(<<>>) = {}
  BY SmallLists
<1> QED BY <1>1 DEF IInv, Free

\* The invariant implies NoMissedRendezvous.
LEMMA InvNoneMissed ==
    ASSUME IInv
    PROVE  NoMissedRendezvous
<1>1. OppositesMeet
  <2> SUFFICES ASSUME Free, NEW c \in Chans, NEW x \in Alive(inQ[c]), NEW y \in Alive(outQ[c])
               PROVE  x.id[1] = y.id[1]
    BY DEF OppositesMeet
  <2> QED BY RegionOver DEF RegionOK, MeetOK, Alive
<1>2. OffersStand
  <2> SUFFICES ASSUME Free
               PROVE  \A id \in live : \A i \in DOMAIN Sync(id).req.evts :
                         LET e == Evt(id, i) IN
                         /\ e.op = "send" => Item(id, i) \in ToSet(outQ[e.on])
                         /\ e.op = "recv" => Item(id, i) \in ToSet(inQ[e.on])
                         /\ e.op = "cvar" => Item(id, i) \in ToSet(cvar[e.on].waiting)
    BY DEF OffersStand
  <2> QED BY RegionOver DEF RegionOK, StandOK
<1> QED BY <1>1, <1>2 DEF NoMissedRendezvous

\* The invariant implies NackExact.
LEMMA InvNacksExact ==
    ASSUME IInv
    PROVE  NackExact
<1>1. NackAfterLoss
  <2> SUFFICES ASSUME Free, NEW id \in Syncs, NEW j \in DOMAIN Sync(id).req.nacks
               PROVE  cvar[<<id[1], id[2], j>>].set > 0
                         <=> Sync(id).won # 0 /\ Sync(id).won \notin Sync(id).req.nacks[j]
    BY DEF NackAfterLoss
  <2>1. TypeOK /\ RegionOK /\ ToSet(agenda) = {}
    BY RegionOver
  <2>2. cvar[<<id[1], id[2], j>>].set > 0 \/ Set(id, j) \in ToSet(agenda)
           <=> \E i \in Nat : Decided(id, i) /\ i \notin Sync(id).req.nacks[j]
    BY <2>1 DEF RegionOK, NacksOK
  <2>3. \A i : Decided(id, i) <=> i # 0 /\ Sync(id).won = i
    BY <2>1 DEF Decided
  <2>4. Sync(id).won \in Nat
    <3>1. log \in Logs /\ id \in In(log) /\ Sync(id) = Rec(log, id)
      BY <2>1 DEF TypeOK, Syncs, In, Sync, Rec
    <3> QED BY <3>1, LogShape
  <2> QED BY <2>1, <2>2, <2>3, <2>4
<1>2. NoWaiterOnSetCVar
  <2> SUFFICES ASSUME Free, NEW v \in CVars, cvar[v].set > 0
               PROVE  Alive(cvar[v].waiting) = {}
    BY DEF NoWaiterOnSetCVar
  <2>1. cvar[v].waiting = <<>>
    BY RegionOver DEF RegionOK, CVarsOK
  <2>2. ToSet(<<>>) = {}
    BY SmallLists
  <2> QED BY <2>1, <2>2 DEF Alive
<1> QED BY <1>1, <1>2 DEF NackExact

\* The invariant implies the parts of MatchedCommits other than NoFailure.
LEMMA InvMatched ==
    ASSUME IInv
    PROVE  LiveIsBlocked /\ CommitsPaired
<1>1. LiveIsBlocked
  <2> SUFFICES ASSUME Free, NEW id \in Syncs
               PROVE  id \in live <=> phase[id[1]] = "blocked" /\ id = CurId(id[1]) /\ Sync(id).won = 0
    BY DEF LiveIsBlocked
  <2>1. TypeOK /\ PhaseOK /\ id \in Trans
    BY RegionOver DEF RegionOK, Syncs
  <2>2. id \in live <=> phase[id[1]] = "blocked" /\ id = CurId(id[1])
    BY <2>1 DEF PhaseOK
  <2>3. id \in live => Sync(id).won = 0
    BY <2>1, LiveShape
  <2> QED BY <2>2, <2>3
<1>2. CommitsPaired
  <2> SUFFICES ASSUME Free PROVE
      /\ \A m \in met :
            /\ m.from[1] # m.to[1]
            /\ Evt(m.from, Sync(m.from).won) = [op |-> "send", on |-> m.ch]
            /\ Evt(m.to, Sync(m.to).won) = [op |-> "recv", on |-> m.ch]
      /\ \A id \in Syncs : Sync(id).won # 0 /\ Evt(id, Sync(id).won).op \in {"send", "recv"}
            => Cardinality({m \in met : id \in {m.from, m.to}}) = 1
    BY DEF CommitsPaired
  <2>1. MetOK
    BY RegionOver DEF RegionOK
  <2>2. ASSUME NEW id \in Syncs, Sync(id).won # 0, Evt(id, Sync(id).won).op \in {"send", "recv"}
        PROVE  Cardinality({m \in met : id \in {m.from, m.to}}) = 1
    <3>1. PICK m \in met : \A p \in met : id \in {p.from, p.to} <=> p = m
      BY <2>1, <2>2 DEF MetOK
    <3>2. {p \in met : id \in {p.from, p.to}} = {m}
      BY <3>1
    <3>3. Cardinality({m}) = 1
      BY FS_Singleton
    <3> QED BY <3>2, <3>3
  <2> QED BY <2>1, <2>2 DEF MetOK, Partners
<1> QED BY <1>1, <1>2

\* No rendezvous is missed, for any programs: a live sender and a live receiver
\* of different threads never wait on one channel, and a blocked thread is
\* found at every channel and condition variable it offered to meet at.
THEOREM NoneMissed == Spec => []NoMissedRendezvous
<1>1. IInv => NoMissedRendezvous
  BY InvNoneMissed
<1> QED BY <1>1, Invariance, PTL

\* Negative acknowledgements are exact, for any programs and any cascade of
\* commits: once a synchronization has committed, exactly the nacks that do not
\* cover the winner are set, and no live waiter is left behind.
THEOREM NacksExact == Spec => []NackExact
<1>1. IInv => NackExact
  BY InvNacksExact
<1> QED BY <1>1, Invariance, PTL

\* Until a doFn finds its partner cancelled, commits are matched: every
\* committed send has one committed receive of another thread on its channel,
\* and a transaction is live exactly while its thread is blocked on it.
THEOREM CommitsMatched == Spec => [](NoFailure => MatchedCommits)
<1>1. IInv => (NoFailure => MatchedCommits)
  BY InvMatched DEF MatchedCommits
<1> QED BY <1>1, Invariance, PTL

SetOnce == failure # "cvar already set"

\* No condition variable is set twice, for any programs: the error case of
\* atomicCVarSet is never reached, however the commits of a region cascade.
THEOREM CVarsSetOnce == Spec => []SetOnce
<1>1. Init => SetOnce
  BY DEF Init, SetOnce
<1>2. ASSUME IInv, SetOnce, [Next]_vars PROVE SetOnce'
  <2>1. CASE doSet
    <3>1. PICK h : h = Head(agenda)
      OBVIOUS
    <3>2. agenda # <<>> /\ failure = "none" /\ h.kind = "set" /\ atomicCVarSet(h.id, h.i)
      BY <2>1, <3>1 DEF doSet
    <3>3. TypeOK /\ RegionOK
      BY <1>2, <3>2 DEF IInv
    <3>4. h \in ToSet(agenda)
      BY <3>1, <3>2, <3>3, OrderlyTail DEF TypeOK, RegionOK
    <3>5. cvar[<<h.id[1], h.id[2], h.i>>].set = 0
      BY <3>2, <3>3, <3>4 DEF RegionOK, AgendaOK, SetOK
    <3>6. ~ (cvar[<<h.id[1], h.id[2], h.i>>].set > 0)
      BY <3>5
    <3>7. failure' = failure
      BY <3>2, <3>6, Zenon DEF atomicCVarSet
    <3> QED BY <3>2, <3>7 DEF SetOnce
  <2>2. CASE doFnSend
    BY <1>2, <2>2 DEF doFnSend, Rendezvous, SetOnce
  <2>3. CASE doFnRecv
    BY <1>2, <2>3 DEF doFnRecv, Rendezvous, SetOnce
  <2>4. CASE UNCHANGED failure
    BY <1>2, <2>4 DEF SetOnce
  <2>5. doSet \/ doFnSend \/ doFnRecv \/ UNCHANGED failure
    <3>1. doWake \/ doFnOther => UNCHANGED failure
      BY DEF doWake, doFnOther
    <3>2. ASSUME NEW t, NEW r, force(t, r) PROVE UNCHANGED failure
      BY <3>2 DEF force
    <3>3. ASSUME NEW t, syncReady(t) \/ syncBlock(t) \/ timeoutFires(t) PROVE UNCHANGED failure
      BY <3>3 DEF syncReady, syncBlock, timeoutFires
    <3>4. ASSUME NEW t, NEW c, send(t, c) \/ recv(t, c) PROVE UNCHANGED failure
      BY <3>4 DEF send, recv, MeetDirect, BlockDirect
    <3>5. CASE UNCHANGED vars
      BY <3>5 DEF vars
    <3>6. CASE Next
      BY <3>1, <3>2, <3>3, <3>4, <3>6 DEF Next, RegionStep
    <3> QED BY <1>2, <3>5, <3>6
  <2> QED BY <2>1, <2>2, <2>3, <2>4, <2>5
<1> QED BY <1>1, <1>2, Invariance, PTL DEF Spec

-----------------------------------------------------------------------------
(* The second invariant: when the programs are Separate, the partner of a   *)
(* decision stands until the doFn takes it.                                 *)

\* the name of a cvar in the program
NackName(v) == <<v[1], v[3]>>

\* req is what force makes of r
Stems(req, r) ==
    /\ DOMAIN req.evts = DOMAIN r.evts /\ req.nacks = r.nacks
    /\ \A i \in DOMAIN r.evts :
          /\ req.evts[i].op = r.evts[i].op
          /\ r.evts[i].op = "cvar" => NackName(req.evts[i].on) = r.evts[i].on
          /\ r.evts[i].op # "cvar" => req.evts[i].on = r.evts[i].on

FromProgram(p, t, req) ==
    \/ \E r \in p.menu[t] : Stems(req, r)
    \/ req.nacks = <<>> /\ \A i \in DOMAIN req.evts : req.evts[i].op # "cvar"

\* Every synchronization comes from the program.
Programmed(p, l) == \A id \in In(l) : FromProgram(p, id[1], Rec(l, id).req)

\* Only the last synchronization of a thread may be undecided, and not while
\* the thread runs.
Resting(l, ph) ==
    \A id \in In(l) : Rec(l, id).won = 0 => ph[id[1]] # "run" /\ id[2] = Len(l[id[1]])

\* A set cvar is the nack of a synchronization; a waiter is woken only after
\* its cvar was set.
Known(l, cv) ==
    \A v \in CVars : cv[v].set > 0 =>
        <<v[1], v[2]>> \in In(l) /\ v[3] \in DOMAIN Rec(l, <<v[1], v[2]>>).req.nacks

Base(l, a) == Rec(l, a.id).req.evts[a.i]

Nacking(l, cv, ag) ==
    \A a \in ToSet(ag) : a.kind = "wake" /\ Base(l, a).op = "cvar" => cv[Base(l, a).on].set > 0

\* The entry that the doFn d will take out of its channel's queue.
Partner(l, iq, oq, d) ==
    Head(IF Base(l, d).op = "send" THEN iq[Base(l, d).on] ELSE oq[Base(l, d).on])

\* The region sets and wakes only nacks in N, and x waits for none of them.
Within(p, l, ag, N, x) ==
    /\ Cascade(p, N)
    /\ \A a \in ToSet(ag) :
          /\ a.kind = "set" => <<a.id[1], a.i>> \in N
          /\ a.kind = "wake" => Base(l, a).op = "cvar" /\ NackName(Base(l, a).on) \in N
    /\ \A k \in DOMAIN Rec(l, x.id).req.evts :
          Rec(l, x.id).req.evts[k].op = "cvar" => NackName(Rec(l, x.id).req.evts[k].on) \notin N

Stands(p, l, L, ag, x) == x.id \in L /\ \E N \in SUBSET NackNames : Within(p, l, ag, N, x)

PartnerOK(p, l, L, ag, iq, oq) ==
    \A d \in ToSet(ag) : d.kind = "do" /\ Base(l, d).op \in {"send", "recv"} =>
        Stands(p, l, L, ag, Partner(l, iq, oq, d))

SInv ==
    /\ failure = "none"
    /\ Programmed(prog, log) /\ Resting(log, phase)
    /\ Known(log, cvar) /\ Nacking(log, cvar, agenda)
    /\ PartnerOK(prog, log, live, agenda, inQ, outQ)

-----------------------------------------------------------------------------
(* How the log may change.                                                  *)

\* the synchronizations of l are in m, for the same requests
ReqsKept(l, m) == \A id \in In(l) : id \in In(m) /\ Rec(m, id).req = Rec(l, id).req

\* A commit keeps the requests and leaves the others undecided or decided.
LEMMA CommitKeeps ==
    ASSUME NEW l \in Logs, NEW id \in In(l), NEW i \in Nat
    PROVE  /\ ReqsKept(l, Commit(l, id, i)) /\ Commit(l, id, i) \in Logs /\ In(Commit(l, id, i)) = In(l)
           /\ \A p : Programmed(p, l) => Programmed(p, Commit(l, id, i))
<1>1. /\ Commit(l, id, i) \in Logs /\ In(Commit(l, id, i)) = In(l)
      /\ Rec(Commit(l, id, i), id) = [req |-> Rec(l, id).req, won |-> i]
      /\ \A a \in In(l) : a # id => Rec(Commit(l, id, i), a) = Rec(l, a)
  BY CommitProps
<1>2. \A a \in In(l) : Rec(Commit(l, id, i), a).req = Rec(l, a).req
  BY <1>1
<1> QED BY <1>1, <1>2 DEF ReqsKept, Programmed

\* A synchronization that begins keeps the others.
LEMMA ExtendKeeps ==
    ASSUME NEW l \in Logs, NEW t \in Threads, Len(l[t]) < MaxSync, NEW r \in Records, NEW m,
           Extended(l, m, t, r), NEW p, FromProgram(p, t, r.req), Programmed(p, l)
    PROVE  ReqsKept(l, m) /\ Programmed(p, m)
<1>1. /\ In(m) = In(l) \cup {<<t, Len(l[t]) + 1>>}
      /\ Rec(m, <<t, Len(l[t]) + 1>>) = r
      /\ \A a \in In(l) : Rec(m, a) = Rec(l, a)
  BY ExtendProps
<1>2. PICK id : id = <<t, Len(l[t]) + 1>>
  OBVIOUS
<1>3. id[1] = t /\ Rec(m, id) = r /\ In(m) = In(l) \cup {id}
  BY <1>1, <1>2
<1>4. FromProgram(p, id[1], Rec(m, id).req)
  BY <1>3
<1>5. ReqsKept(l, m)
  BY <1>1, <1>3 DEF ReqsKept
<1> QED BY <1>1, <1>3, <1>4, <1>5 DEF Programmed

\* A thread whose synchronization commits runs again.
LEMMA CommitRests ==
    ASSUME NEW l \in Logs, NEW id \in In(l), NEW i \in Nat, i # 0, NEW qh,
           NEW ph \in [Threads -> {"run", "forced", "blocked"}],
           Resting(l, ph), id[2] = Len(l[id[1]]), qh = [ph EXCEPT ![id[1]] = "run"]
    PROVE  Resting(Commit(l, id, i), qh)
<1> DEFINE m == Commit(l, id, i)
<1>1. /\ m \in Logs /\ In(m) = In(l) /\ Rec(m, id) = [req |-> Rec(l, id).req, won |-> i]
      /\ \A a \in In(l) : a # id => Rec(m, a) = Rec(l, a)
      /\ \A t \in Threads : Len(m[t]) = Len(l[t])
  BY CommitProps
<1>2. id[1] \in Threads /\ id = <<id[1], id[2]>>
  BY LogShape
<1> HIDE DEF m
<1> SUFFICES ASSUME NEW a \in In(l), Rec(m, a).won = 0
             PROVE  qh[a[1]] # "run" /\ a[2] = Len(m[a[1]])
  BY <1>1 DEF Resting, m
<1>3. a # id
  BY <1>1
<1>4. ph[a[1]] # "run" /\ a[2] = Len(l[a[1]])
  BY <1>1, <1>3 DEF Resting
<1>5. a[1] \in Threads /\ a = <<a[1], a[2]>>
  BY LogShape
<1>6. a[1] # id[1]
  BY <1>2, <1>3, <1>4, <1>5
<1> QED BY <1>1, <1>2, <1>4, <1>5, <1>6

\* A thread that begins a synchronization does not run until it is decided.
LEMMA BeginRests ==
    ASSUME NEW l \in Logs, NEW t \in Threads, Len(l[t]) < MaxSync, NEW r \in Records, NEW m,
           Extended(l, m, t, r), NEW ph, NEW qh, Resting(l, ph), ph[t] = "run",
           \A u \in Threads : u # t => qh[u] = ph[u], qh[t] # "run" \/ r.won # 0
    PROVE  Resting(m, qh)
<1>1. /\ m \in Logs
      /\ In(m) = In(l) \cup {<<t, Len(l[t]) + 1>>}
      /\ Rec(m, <<t, Len(l[t]) + 1>>) = r
      /\ \A a \in In(l) : Rec(m, a) = Rec(l, a)
      /\ Len(m[t]) = Len(l[t]) + 1 /\ \A u \in Threads : u # t => m[u] = l[u]
  BY ExtendProps
<1> SUFFICES ASSUME NEW a \in In(m), Rec(m, a).won = 0
             PROVE  qh[a[1]] # "run" /\ a[2] = Len(m[a[1]])
  BY DEF Resting
<1>2. CASE a = <<t, Len(l[t]) + 1>>
  BY <1>1, <1>2
<1>3. CASE a \in In(l)
  <2>1. a[1] \in Threads
    BY <1>3, LogShape
  <2>2. ph[a[1]] # "run" /\ a[2] = Len(l[a[1]])
    BY <1>1, <1>3 DEF Resting
  <2>3. a[1] # t
    BY <2>2
  <2> QED BY <1>1, <2>1, <2>2, <2>3
<1> QED BY <1>1, <1>2, <1>3

-----------------------------------------------------------------------------
(* What each step does to the log and the agenda.                           *)

\* force resolves the request it is given.
LEMMA ResolveStems ==
    ASSUME log \in Logs, NEW t \in Threads, NEW r \in Requests(NackNames)
    PROVE  Stems(Resolve(t, r), r)
<1> DEFINE n(u) == IF u = t THEN Len(log[t]) + 1 ELSE Len(log[u])
           evt(e) == IF e.op = "cvar"
                     THEN [e EXCEPT !.on = <<e.on[1], n(e.on[1]), e.on[2]>>] ELSE e
           es == [i \in DOMAIN r.evts |-> evt(r.evts[i])]
<1>1. /\ r.evts \in Seq(Events(NackNames))
      /\ r = [evts |-> r.evts, nacks |-> r.nacks]
  BY DEF Requests
<1>2. Resolve(t, r) = [evts |-> es, nacks |-> r.nacks]
  <2>1. Resolve(t, r) = [r EXCEPT !.evts = es]
    BY DEF Resolve
  <2> HIDE DEF es
  <2> QED BY <1>1, <2>1
<1>3. ASSUME NEW i \in DOMAIN r.evts
      PROVE  /\ evt(r.evts[i]).op = r.evts[i].op
             /\ r.evts[i].op = "cvar" => NackName(evt(r.evts[i]).on) = r.evts[i].on
             /\ r.evts[i].op # "cvar" => evt(r.evts[i]).on = r.evts[i].on
  <2> DEFINE e == r.evts[i]
  <2>1. e \in Events(NackNames)
    BY <1>1, <1>3
  <2>2. CASE e.op # "cvar"
    BY <2>2
  <2>3. CASE e.op = "cvar"
    <3>1. e \in [op : {"cvar"}, on : NackNames]
      BY <2>1, <2>3 DEF Events, ChanEvents
    <3> HIDE DEF n
    <3>2. evt(e) = [op |-> "cvar", on |-> <<e.on[1], n(e.on[1]), e.on[2]>>]
      BY <2>3, <3>1
    <3>3. e.on = <<e.on[1], e.on[2]>>
      BY <3>1 DEF NackNames
    <3> HIDE DEF evt, e
    <3>4. evt(e).on = <<e.on[1], n(e.on[1]), e.on[2]>> /\ evt(e).op = "cvar"
      BY <3>2
    <3>5. NackName(evt(e).on) = e.on
      BY <3>3, <3>4 DEF NackName
    <3> QED BY <2>3, <3>4, <3>5 DEF e
  <2> QED BY <2>2, <2>3
<1> HIDE DEF evt
<1>4. DOMAIN es = DOMAIN r.evts /\ \A i \in DOMAIN r.evts : es[i] = evt(r.evts[i])
  OBVIOUS
<1> HIDE DEF es
<1>5. Resolve(t, r).evts = es /\ Resolve(t, r).nacks = r.nacks
  BY <1>2
<1> QED BY <1>3, <1>4, <1>5 DEF Stems

\* force: a synchronization begins.
LEMMA ForceFacts ==
    ASSUME TypeOK, NEW t \in Threads, NEW r \in prog.menu[t], force(t, r)
    PROVE  \E rec \in Records :
              /\ rec.won = 0 /\ Stems(rec.req, r) /\ Extended(log, log', t, rec)
              /\ phase[t] = "run" /\ Len(log[t]) < MaxSync /\ agenda = <<>> /\ agenda' = <<>>
              /\ phase'[t] # "run" /\ \A u \in Threads : u # t => phase'[u] = phase[u]
              /\ cvar' = cvar /\ failure' = failure
<1> DEFINE rec == [req |-> Resolve(t, r), won |-> 0]
<1>1. /\ agenda = <<>> /\ phase[t] = "run" /\ Len(log[t]) < MaxSync /\ Resolvable(t, r)
      /\ log' = [log EXCEPT ![t] = Append(@, rec)]
      /\ phase' = [phase EXCEPT ![t] = "forced"]
      /\ cvar' = cvar /\ agenda' = agenda /\ failure' = failure
  BY DEF force, CanStart, Free
<1>2. r \in Requests(NackNames) /\ log \in Logs /\ phase \in [Threads -> {"run", "forced", "blocked"}]
  BY EventAssumption DEF TypeOK, NackNames
<1>3. Resolve(t, r) \in Requests(CVars)
  BY <1>1, <1>2, ResolveType DEF NackNames
<1>4. Stems(Resolve(t, r), r)
  BY <1>2, ResolveStems
<1>5. rec \in Records /\ rec.won = 0 /\ Stems(rec.req, r)
  BY <1>3, <1>4 DEF Records
<1>6. Extended(log, log', t, rec)
  BY <1>1 DEF Extended
<1>7. phase'[t] # "run" /\ \A u \in Threads : u # t => phase'[u] = phase[u]
  BY <1>1, <1>2
<1> HIDE DEF rec
<1> QED BY <1>1, <1>5, <1>6, <1>7

\* The tasks of chkCVars.
LEMMA ChkTasks ==
    ASSUME log \in Logs, NEW id \in In(log), NEW i \in Nat, NEW s \in Seq(Tasks)
    PROVE  /\ chkCVars(id, i) \o s \in Seq(Tasks)
           /\ ToSet(chkCVars(id, i) \o s) = {Set(id, j) : j \in Lost(Rec(log, id).req, i)} \cup ToSet(s)
<1>1. PICK nacks \in Seq(SUBSET Nat) : nacks = Rec(log, id).req.nacks
  BY LogShape
<1>2. id \in Trans /\ Sync(id) = Rec(log, id)
  BY LogShape DEF Sync, Rec
<1>3. /\ chkCVars(id, i) \in Seq(Tasks)
      /\ ToSet(chkCVars(id, i)) = {Set(id, j) : j \in {k \in DOMAIN nacks : i \notin nacks[k]}}
  BY <1>1, <1>2, ChkProps
<1>4. {k \in DOMAIN nacks : i \notin nacks[k]} = Lost(Rec(log, id).req, i)
  BY <1>1 DEF Lost
<1>5. ToSet(chkCVars(id, i) \o s) = ToSet(chkCVars(id, i)) \cup ToSet(s)
  BY <1>3, ConcatElements
<1> QED BY <1>3, <1>4, <1>5

\* x is in the queue of the partners of a base event, alive and undecided
Met(l, L, t, e, x) ==
    /\ x \in Items /\ x.id \in L /\ x.id \in In(l) /\ Rec(l, x.id).won = 0 /\ x.id[1] # t
    /\ x.id[1] \in Threads /\ x.id[2] = Len(l[x.id[1]])
    /\ x.i \in DOMAIN Rec(l, x.id).req.evts /\ Base(l, x) = Opposite(e)

\* A queue head that a poll leaves is live, and on the other side.
LEMMA PolledHead ==
    ASSUME TypeOK, RegionOK, NEW q \in Seq(Items), NEW e, Clean(q) # <<>>,
           \A x \in ToSet(q) : Offers(x, Opposite(e).op, e.on), NEW t \in Threads, phase[t] # "blocked"
    PROVE  Met(log, live, t, e, Head(Clean(q)))
<1>1. Clean(q) \in Seq(Items) /\ ToSet(Clean(q)) = {x \in ToSet(q) : x.id \in live}
  BY CleanProps
<1>2. PICK x : x = Head(Clean(q))
  OBVIOUS
<1>3. x \in ToSet(q) /\ x.id \in live /\ x \in Items
  BY <1>1, <1>2, Elements
<1>4. /\ Syncs = In(log) /\ live \subseteq Syncs /\ Rec(log, x.id).won = 0
  <2>1. /\ Syncs = In(log) /\ live \subseteq Syncs /\ Sync(x.id).won = 0
    BY <1>3, LiveShape DEF RegionOK
  <2> QED BY <2>1 DEF Sync, Rec
<1>5. x.id \in Trans /\ x.id[1] \in Threads /\ phase[x.id[1]] = "blocked" /\ x.id = CurId(x.id[1])
  <2>1. x.id \in Trans
    BY <1>3, <1>4 DEF In
  <2>2. x.id[1] \in Threads
    BY <2>1 DEF Trans
  <2> QED BY <1>3, <2>1, <2>2 DEF RegionOK, PhaseOK
<1>6. x.id[2] = Len(log[x.id[1]])
  BY <1>5 DEF CurId
<1>7. x.i \in DOMAIN Rec(log, x.id).req.evts /\ Base(log, x) = Opposite(e)
  <2>1. Offers(x, Opposite(e).op, e.on)
    BY <1>3
  <2>2. Opposite(e) = [op |-> Opposite(e).op, on |-> e.on]
    BY DEF Opposite
  <2> QED BY <2>1, <2>2 DEF Offers, Evt, Sync, Rec, Base
<1>8. x.id[1] # t
  BY <1>5
<1> QED BY <1>2, <1>3, <1>4, <1>5, <1>6, <1>7, <1>8 DEF Met

\* syncReady: an enabled base event is decided, its doFn waits for the nacks.
LEMMA ReadyFacts ==
    ASSUME TypeOK, RegionOK, NEW t \in Threads, syncReady(t)
    PROVE  \E id \in In(log) : \E i \in Nat :
              LET e == Rec(log, id).req.evts[i] IN
              /\ id[1] = t /\ id[2] = Len(log[t]) /\ Rec(log, id).won = 0
              /\ i # 0 /\ i \in DOMAIN Rec(log, id).req.evts /\ e \in Events(CVars)
              /\ agenda = <<>> /\ agenda' \in Seq(Tasks)
              /\ ToSet(agenda') = {Set(id, j) : j \in Lost(Rec(log, id).req, i)} \cup {DoFn(id, i)}
              /\ log' = log /\ live' = live /\ phase' = phase /\ failure' = failure
              /\ \A v \in CVars : cvar'[v].set > 0 <=> cvar[v].set > 0
              /\ e.op = "send" => e.on \in Chans /\ Met(log, live, t, e, Head(inQ'[e.on]))
              /\ e.op = "recv" => e.on \in Chans /\ Met(log, live, t, e, Head(outQ'[e.on]))
              /\ e.op = "cvar" => e.on \in CVars /\ cvar[e.on].set > 0
              /\ e.op # "timeout"
<1>0. PICK id : id = CurId(t)
  OBVIOUS
<1>1. PICK En : En = {i \in DOMAIN Sync(id).req.evts : Enabled(Evt(id, i))}
  OBVIOUS
<1>2. PICK i \in selectDoFn(id, En) : agenda' = chkCVars(id, i) \o <<DoFn(id, i)>>
  BY <1>0, <1>1 DEF syncReady
<1>3. /\ agenda = <<>> /\ phase[t] = "forced"
      /\ inQ' = Polled(id, inQ, "send") /\ outQ' = Polled(id, outQ, "recv")
      /\ cvar' = [v \in CVars |-> [cvar[v] EXCEPT !.set = @ + Bumped(id, En, v)]]
      /\ phase' = phase /\ log' = log /\ live' = live /\ failure' = failure
  BY <1>0, <1>1 DEF syncReady, Free
<1>4. /\ id \in Syncs /\ Sync(id).won = 0 /\ id[1] = t /\ Syncs = In(log) /\ Sync(id) = Rec(log, id)
      /\ log \in Logs
  BY <1>0, <1>3, LiveShape DEF TypeOK, RegionOK
<1>5. /\ Rec(log, id).req.evts \in Seq(Events(CVars)) /\ id \in Trans
  BY <1>4, LogShape
<1>6. i \in DOMAIN Rec(log, id).req.evts /\ i \in Nat /\ i # 0
      /\ Enabled(Evt(id, i)) /\ Evt(id, i) \in Events(CVars)
  <2>1. i \in En
    BY <1>2 DEF selectDoFn
  <2>2. i \in DOMAIN Sync(id).req.evts /\ Enabled(Evt(id, i)) /\ Evt(id, i) = Rec(log, id).req.evts[i]
    BY <1>1, <1>4, <2>1 DEF Evt
  <2>3. i \in DOMAIN Rec(log, id).req.evts
    BY <1>4, <2>2
  <2> QED BY <1>5, <2>2, <2>3
<1>7. PICK e : e = Rec(log, id).req.evts[i]
  OBVIOUS
<1>8. e = Evt(id, i) /\ Enabled(e) /\ e \in Events(CVars)
  BY <1>4, <1>6, <1>7 DEF Evt
<1>9. ToSet(agenda') = {Set(id, j) : j \in Lost(Rec(log, id).req, i)} \cup {DoFn(id, i)} /\ agenda' \in Seq(Tasks)
  <2>1. PICK d : d = DoFn(id, i)
    OBVIOUS
  <2>2. d \in Tasks
    BY <1>5, <1>6, <2>1 DEF DoFn, Tasks
  <2>3. <<d>> \in Seq(Tasks) /\ ToSet(<<d>>) = {d}
    BY <2>2, SmallLists
  <2>4. PICK s \in Seq(Tasks) : s = <<d>>
    BY <2>3
  <2>5. /\ chkCVars(id, i) \o s \in Seq(Tasks)
        /\ ToSet(chkCVars(id, i) \o s) = {Set(id, j) : j \in Lost(Rec(log, id).req, i)} \cup ToSet(s)
    BY <1>4, <1>6, ChkTasks
  <2>6. agenda' = chkCVars(id, i) \o s
    BY <1>2, <2>1, <2>4
  <2> QED BY <2>1, <2>3, <2>4, <2>5, <2>6
<1>10. \A v \in CVars : cvar'[v].set > 0 <=> cvar[v].set > 0
  <2>1. /\ \A x : Bumped(id, En, x) \in Nat
        /\ \A v \in CVars : cvar[v].set = 0 => Bumped(id, En, v) = 0
    BY <1>1, <1>4, BumpedProps
  <2>2. ASSUME NEW v \in CVars PROVE cvar'[v].set > 0 <=> cvar[v].set > 0
    <3>1. cvar[v] \in [set : Nat, waiting : Seq(Items)] /\ Bumped(id, En, v) \in Nat
      BY <2>1 DEF TypeOK
    <3>2. cvar'[v].set = cvar[v].set + Bumped(id, En, v)
      BY <1>3, <3>1
    <3>3. cvar[v].set \in Nat /\ (cvar[v].set = 0 => Bumped(id, En, v) = 0)
      BY <2>1, <3>1
    <3> QED BY <3>1, <3>2, <3>3
  <2> QED BY <2>2
<1>11. inQ \in [Chans -> Seq(Items)] /\ outQ \in [Chans -> Seq(Items)]
  BY DEF TypeOK
<1>12. ASSUME e.op = "send" PROVE e.on \in Chans /\ Met(log, live, t, e, Head(inQ'[e.on]))
  <2>1. PICK c \in Chans : e = [op |-> "send", on |-> c]
    BY <1>8, <1>12 DEF Events, ChanEvents
  <2>2. c = e.on /\ Clean(inQ[c]) # <<>>
    BY <1>8, <2>1 DEF Enabled
  <2>3. i \in Indices(id, "send", c)
    BY <1>4, <1>6, <1>8, <2>1 DEF Indices
  <2>4. inQ'[c] = Clean(inQ[c])
    <3>1. \A b \in Chans : Indices(id, "send", b) # {} => Polled(id, inQ, "send")[b] = Clean(inQ[b])
      BY <1>11, PolledProps
    <3> QED BY <1>3, <2>3, <3>1
  <2>5. \A x \in ToSet(inQ[c]) : Offers(x, Opposite(e).op, e.on)
    <3>1. Opposite(e).op = "recv" /\ e.on = c
      BY <2>1 DEF Opposite
    <3>2. \A x \in ToSet(inQ[c]) : Offers(x, "recv", c)
      BY DEF RegionOK, QueuesOK
    <3> QED BY <3>1, <3>2
  <2>6. inQ[c] \in Seq(Items) /\ phase[t] # "blocked"
    BY <1>3, <1>11
  <2>7. Met(log, live, t, e, Head(Clean(inQ[c])))
    BY <2>2, <2>5, <2>6, PolledHead
  <2> QED BY <2>2, <2>4, <2>7
<1>13. ASSUME e.op = "recv" PROVE e.on \in Chans /\ Met(log, live, t, e, Head(outQ'[e.on]))
  <2>1. PICK c \in Chans : e = [op |-> "recv", on |-> c]
    BY <1>8, <1>13 DEF Events, ChanEvents
  <2>2. c = e.on /\ Clean(outQ[c]) # <<>>
    BY <1>8, <2>1 DEF Enabled
  <2>3. i \in Indices(id, "recv", c)
    BY <1>4, <1>6, <1>8, <2>1 DEF Indices
  <2>4. outQ'[c] = Clean(outQ[c])
    <3>1. \A b \in Chans : Indices(id, "recv", b) # {} => Polled(id, outQ, "recv")[b] = Clean(outQ[b])
      BY <1>11, PolledProps
    <3> QED BY <1>3, <2>3, <3>1
  <2>5. \A x \in ToSet(outQ[c]) : Offers(x, Opposite(e).op, e.on)
    <3>1. Opposite(e).op = "send" /\ e.on = c
      BY <2>1 DEF Opposite
    <3>2. \A x \in ToSet(outQ[c]) : Offers(x, "send", c)
      BY DEF RegionOK, QueuesOK
    <3> QED BY <3>1, <3>2
  <2>6. outQ[c] \in Seq(Items) /\ phase[t] # "blocked"
    BY <1>3, <1>11
  <2>7. Met(log, live, t, e, Head(Clean(outQ[c])))
    BY <2>2, <2>5, <2>6, PolledHead
  <2> QED BY <2>2, <2>4, <2>7
<1>14. e.op = "cvar" => e.on \in CVars /\ cvar[e.on].set > 0
  BY <1>8 DEF Enabled, Events, ChanEvents
<1>15. e.op # "timeout"
  BY <1>8 DEF Enabled
<1>16. id[2] = Len(log[t])
  BY <1>0 DEF CurId
<1> QED BY <1>3, <1>4, <1>6, <1>7, <1>8, <1>9, <1>10, <1>12, <1>13, <1>14, <1>15, <1>16

\* id is the undecided synchronization of its thread, i one of its base events
Choice(l, id, i) ==
    /\ id \in In(l) /\ Rec(l, id).won = 0 /\ id[1] \in Threads /\ id[2] = Len(l[id[1]])
    /\ i \in Nat /\ i # 0 /\ i \in DOMAIN Rec(l, id).req.evts
    /\ Rec(l, id).req.evts[i] \in Events(CVars)

\* the agenda b has the doFns of a, and otherwise only tasks of a or in S
GoesOn(a, b, S) ==
    /\ \A x \in ToSet(b) : x \in ToSet(a) \/ x \in S
    /\ \A x \in ToSet(a) : x.kind = "do" => x \in ToSet(b)

\* doSet: a nack is set, and its waiters are to be woken.
LEMMA SetFacts ==
    ASSUME TypeOK, RegionOK, doSet
    PROVE  \E h \in ToSet(agenda), v \in CVars :
              /\ h.kind = "set" /\ v = <<h.id[1], h.id[2], h.i>> /\ h.id = <<v[1], v[2]>>
              /\ h.id \in In(log) /\ h.i \in DOMAIN Rec(log, h.id).req.nacks
              /\ \A u \in CVars : u # v => cvar'[u].set = cvar[u].set
              /\ cvar'[v].set = 1 /\ cvar[v].set = 0
              /\ log' = log /\ phase' = phase /\ live' = live /\ inQ' = inQ /\ outQ' = outQ
              /\ failure' = failure
              /\ GoesOn(agenda, agenda', {Wake(x) : x \in ToSet(cvar[v].waiting)})
<1>0. PICK h : h = Head(agenda)
  OBVIOUS
<1>1. /\ agenda # <<>> /\ h.kind = "set" /\ atomicCVarSet(h.id, h.i)
      /\ phase' = phase /\ log' = log /\ live' = live /\ inQ' = inQ /\ outQ' = outQ
  BY <1>0 DEF doSet
<1>2. agenda \in Seq(Tasks) /\ cvar \in [CVars -> [set : Nat, waiting : Seq(Items)]] /\ log \in Logs
  BY DEF TypeOK
<1>3. /\ h \in ToSet(agenda) /\ Rest \in Seq(Tasks)
      /\ ToSet(agenda) = {h} \cup ToSet(Rest)
  BY <1>0, <1>1, <1>2, OrderlyTail DEF Rest, RegionOK
<1>4. h.id \in Syncs /\ h.i \in DOMAIN Sync(h.id).req.nacks /\ cvar[<<h.id[1], h.id[2], h.i>>].set = 0
  BY <1>1, <1>3 DEF RegionOK, AgendaOK, SetOK
<1>5. PICK v : v = <<h.id[1], h.id[2], h.i>>
  OBVIOUS
<1>6. PICK ws : ws = cvar[v].waiting
  OBVIOUS
<1> DEFINE wakes == [k \in 1 .. Len(ws) |-> Wake(ws[k])]
<1>7. /\ cvar' = [cvar EXCEPT ![v] = [set |-> 1, waiting |-> <<>>]]
      /\ agenda' = wakes \o Rest /\ failure' = failure
  <2>1. ~ (cvar[v].set > 0)
    BY <1>4, <1>5
  <2>2. atomicCVarSet(h.id, h.i) <=>
           IF cvar[v].set > 0
           THEN failure' = "cvar already set" /\ UNCHANGED <<cvar, agenda>>
           ELSE /\ cvar' = [cvar EXCEPT ![v] = [set |-> 1, waiting |-> <<>>]]
                /\ agenda' = [k \in 1 .. Len(cvar[v].waiting) |-> Wake(cvar[v].waiting[k])] \o Rest
                /\ UNCHANGED failure
    BY <1>5 DEF atomicCVarSet
  <2> QED BY <1>1, <1>6, <2>1, <2>2
<1>8. Syncs = In(log) /\ \A a : Sync(a) = Rec(log, a)
  BY DEF Syncs, In, Sync, Rec
<1>9. v \in CVars /\ h.id = <<v[1], v[2]>>
  <2>1. <<h.id[1], h.id[2], h.i>> \in CVars /\ h.id = <<h.id[1], h.id[2]>>
    BY <1>2, <1>4, <1>8, LogShape
  <2> QED BY <1>5, <2>1
<1>10. ws \in Seq(Items)
  BY <1>2, <1>6, <1>9
<1>11. wakes \in Seq(Tasks) /\ ToSet(wakes) = {Wake(x) : x \in ToSet(ws)}
  BY <1>10, WakesProps
<1> HIDE DEF wakes
<1>12. ToSet(agenda') = ToSet(wakes) \cup ToSet(Rest)
  BY <1>3, <1>7, <1>11, ConcatElements
<1>13. /\ \A u \in CVars : u # v => cvar'[u].set = cvar[u].set
       /\ cvar'[v].set = 1 /\ cvar[v].set = 0
  BY <1>2, <1>4, <1>5, <1>7, <1>9
<1>14. GoesOn(agenda, agenda', {Wake(x) : x \in ToSet(cvar[v].waiting)})
  <2>1. \A x \in ToSet(agenda') : x \in ToSet(agenda) \/ x \in {Wake(y) : y \in ToSet(cvar[v].waiting)}
    BY <1>3, <1>6, <1>11, <1>12
  <2>2. \A x \in ToSet(agenda) : x.kind = "do" => x \in ToSet(agenda')
    BY <1>1, <1>3, <1>12
  <2> QED BY <2>1, <2>2 DEF GoesOn
<1>15. h.id \in In(log) /\ h.i \in DOMAIN Rec(log, h.id).req.nacks
  BY <1>4, <1>8
<1> QED BY <1>1, <1>3, <1>5, <1>7, <1>9, <1>13, <1>14, <1>15

\* doWake: a waiter that is gone is skipped, a live one commits.
LEMMA WakeFacts ==
    ASSUME TypeOK, RegionOK, doWake
    PROVE  /\ inQ' = inQ /\ outQ' = outQ /\ cvar' = cvar /\ failure' = failure
           /\ \/ /\ log' = log /\ phase' = phase /\ live' = live
                 /\ GoesOn(agenda, agenda', {})
              \/ \E h \in ToSet(agenda) :
                    /\ h.kind = "wake" /\ h.id \in live /\ Choice(log, h.id, h.i)
                    /\ Base(log, h).op \in {"cvar", "timeout"}
                    /\ log' = Commit(log, h.id, h.i) /\ live' = live \ {h.id}
                    /\ phase' = [phase EXCEPT ![h.id[1]] = "run"]
                    /\ GoesOn(agenda, agenda', {Set(h.id, j) : j \in Lost(Rec(log, h.id).req, h.i)})
<1>0. PICK h : h = Head(agenda)
  OBVIOUS
<1>1. /\ agenda # <<>> /\ h.kind = "wake"
      /\ inQ' = inQ /\ outQ' = outQ /\ cvar' = cvar /\ failure' = failure
      /\ \/ /\ h.id \in live /\ live' = live \ {h.id} /\ log' = Commit(log, h.id, h.i)
            /\ phase' = [phase EXCEPT ![h.id[1]] = "run"] /\ agenda' = chkCVars(h.id, h.i) \o Rest
         \/ agenda' = Rest /\ live' = live /\ log' = log /\ phase' = phase
  BY <1>0 DEF doWake
<1>2. agenda \in Seq(Tasks) /\ log \in Logs
  BY DEF TypeOK
<1>3. /\ h \in ToSet(agenda) /\ Rest \in Seq(Tasks)
      /\ ToSet(agenda) = {h} \cup ToSet(Rest)
  BY <1>0, <1>1, <1>2, OrderlyTail DEF Rest, RegionOK
<1>4. CASE agenda' = Rest /\ live' = live /\ log' = log /\ phase' = phase
  <2>1. GoesOn(agenda, agenda', {})
    BY <1>1, <1>3, <1>4 DEF GoesOn
  <2> QED BY <1>1, <1>4, <2>1
<1>5. CASE /\ h.id \in live /\ live' = live \ {h.id} /\ log' = Commit(log, h.id, h.i)
           /\ phase' = [phase EXCEPT ![h.id[1]] = "run"] /\ agenda' = chkCVars(h.id, h.i) \o Rest
  <2>1. /\ h.id \in In(log) /\ Rec(log, h.id).won = 0 /\ \A a : Sync(a) = Rec(log, a)
    <3>1. /\ Syncs = In(log) /\ live \subseteq Syncs /\ Sync(h.id).won = 0
      BY <1>5, LiveShape DEF RegionOK
    <3>2. \A a : Sync(a) = Rec(log, a)
      BY DEF Sync, Rec
    <3> QED BY <1>5, <3>1, <3>2
  <2>2. h.id[1] \in Threads /\ h.id \in Trans /\ Rec(log, h.id).req.evts \in Seq(Events(CVars))
    BY <1>2, <2>1, LogShape
  <2>3. h.id = CurId(h.id[1])
    BY <1>5, <2>2 DEF RegionOK, PhaseOK
  <2>4. h.i \in DOMAIN Rec(log, h.id).req.evts /\ Base(log, h).op \in {"cvar", "timeout"}
    <3>1. WakeOK(h)
      BY <1>1, <1>3 DEF RegionOK, AgendaOK
    <3> QED BY <2>1, <3>1 DEF WakeOK, Evt, Base
  <2>5. h.i \in Nat /\ h.i # 0 /\ Rec(log, h.id).req.evts[h.i] \in Events(CVars)
    BY <2>2, <2>4
  <2>6. Choice(log, h.id, h.i)
    BY <2>1, <2>2, <2>3, <2>4, <2>5 DEF Choice, CurId
  <2>7. ToSet(agenda') = {Set(h.id, j) : j \in Lost(Rec(log, h.id).req, h.i)} \cup ToSet(Rest)
    BY <1>2, <1>3, <1>5, <2>1, <2>5, ChkTasks
  <2>8. GoesOn(agenda, agenda', {Set(h.id, j) : j \in Lost(Rec(log, h.id).req, h.i)})
    BY <1>1, <1>3, <2>7 DEF GoesOn
  <2> QED BY <1>1, <1>3, <1>5, <2>4, <2>6, <2>8
<1> QED BY <1>1, <1>4, <1>5

\* timeoutFires: a waiter is to be woken, for a time-out.
LEMMA TimeoutFacts ==
    ASSUME TypeOK, RegionOK, NEW t \in Threads, timeoutFires(t)
    PROVE  /\ log' = log /\ phase' = phase /\ live' = live /\ inQ' = inQ /\ outQ' = outQ
           /\ cvar' = cvar /\ failure' = failure /\ agenda = <<>>
           /\ \A a \in ToSet(agenda') : a.kind = "wake" /\ Base(log, a).op = "timeout"
<1>1. /\ log' = log /\ phase' = phase /\ live' = live /\ inQ' = inQ /\ outQ' = outQ
      /\ cvar' = cvar /\ failure' = failure /\ agenda = <<>>
  BY DEF timeoutFires, Free
<1>2. PICK id : id = CurId(t)
  OBVIOUS
<1>3. PICK i \in Indices(id, "timeout", <<>>) : agenda' = <<Wake(Item(id, i))>>
  BY <1>2 DEF timeoutFires
<1>4. PICK w : w = Wake(Item(id, i))
  OBVIOUS
<1>5. ToSet(agenda') = {w} /\ w.kind = "wake" /\ w.id = id /\ w.i = i
  BY <1>3, <1>4, SmallLists DEF Wake, Item
<1>6. Base(log, w).op = "timeout"
  BY <1>3, <1>5 DEF Indices, Evt, Sync, Rec, Base
<1> QED BY <1>1, <1>5, <1>6

\* syncBlock: the log stays, the thread blocks.
LEMMA BlockFacts ==
    ASSUME TypeOK, NEW t \in Threads, syncBlock(t)
    PROVE  /\ log' = log /\ agenda = <<>> /\ agenda' = <<>> /\ failure' = failure
           /\ phase[t] = "forced" /\ phase' = [phase EXCEPT ![t] = "blocked"]
           /\ \A v \in CVars : cvar'[v].set = cvar[v].set
<1>1. PICK id : id = CurId(t)
  OBVIOUS
<1>2. /\ log' = log /\ agenda = <<>> /\ agenda' = agenda /\ failure' = failure
      /\ phase[t] = "forced" /\ phase' = [phase EXCEPT ![t] = "blocked"]
      /\ cvar' = [v \in CVars |-> [cvar[v] EXCEPT !.waiting = Logged(id, "cvar", v) \o @]]
  BY <1>1 DEF syncBlock, Free
<1>3. \A v \in CVars : cvar[v] \in [set : Nat, waiting : Seq(Items)]
  BY DEF TypeOK
<1>4. ASSUME NEW v \in CVars PROVE cvar'[v].set = cvar[v].set
  BY <1>2, <1>3
<1> QED BY <1>2, <1>4

\* doFnSend and doFnRecv: the partner is the head of the queue; the two
\* commit together, or the doFn fails.
LEMMA DoFacts ==
    ASSUME TypeOK, RegionOK, doFnSend \/ doFnRecv
    PROVE  \E h : \E x \in Items :
              /\ h.kind = "do" /\ ToSet(agenda) = {h} /\ Choice(log, h.id, h.i)
              /\ Base(log, h).op \in {"send", "recv"} /\ x = Partner(log, inQ, outQ, h)
              /\ x.id \in live =>
                    /\ Choice(log, x.id, x.i) /\ x.id # h.id
                    /\ log' = Commit(Commit(log, h.id, h.i), x.id, x.i)
                    /\ phase' = [phase EXCEPT ![h.id[1]] = "run", ![x.id[1]] = "run"]
                    /\ cvar' = cvar /\ failure' = failure
                    /\ \A a \in ToSet(agenda') : a.kind = "set"
<1>0. PICK h : h = Head(agenda)
  OBVIOUS
<1>1. PICK e : e = Evt(h.id, h.i)
  OBVIOUS
<1>2. PICK q : q = IF e.op = "send" THEN inQ[e.on] ELSE outQ[e.on]
  OBVIOUS
<1>3. PICK x : x = Head(q)
  OBVIOUS
<1>4. /\ agenda # <<>> /\ h.kind = "do" /\ e.op \in {"send", "recv"}
      /\ Rendezvous(h.id, h.i, x, Rest) /\ cvar' = cvar
  <2>1. CASE doFnSend
    <3>1. /\ agenda # <<>> /\ h.kind = "do" /\ e.op = "send" /\ cvar' = cvar
          /\ Rendezvous(h.id, h.i, Head(inQ[e.on]), Rest)
      BY <1>0, <1>1, <2>1 DEF doFnSend
    <3>2. q = inQ[e.on]
      BY <1>2, <3>1
    <3> QED BY <1>3, <3>1, <3>2
  <2>2. CASE doFnRecv
    <3>1. /\ agenda # <<>> /\ h.kind = "do" /\ e.op = "recv" /\ cvar' = cvar
          /\ Rendezvous(h.id, h.i, Head(outQ[e.on]), Rest)
      BY <1>0, <1>1, <2>2 DEF doFnRecv
    <3>2. q = outQ[e.on]
      BY <1>2, <3>1
    <3> QED BY <1>3, <3>1, <3>2
  <2> QED BY <2>1, <2>2
<1>5. /\ DoOK(h) /\ ToSet(agenda) = {h} /\ Rest = <<>>
      /\ h.id \in Syncs /\ h.id[1] \in Threads /\ h.id = CurId(h.id[1])
      /\ phase[h.id[1]] = "forced" /\ h.id \notin live /\ Sync(h.id).won = 0
      /\ h.i \in Nat /\ h.i # 0 /\ h.i \in DOMAIN Sync(h.id).req.evts
      /\ e \in Events(CVars)
  BY <1>0, <1>1, <1>4, DoShape
<1>6. Syncs = In(log) /\ (\A a : Sync(a) = Rec(log, a)) /\ log \in Logs
  BY DEF TypeOK, Syncs, In, Sync, Rec
<1>7. Choice(log, h.id, h.i) /\ e = Base(log, h)
  BY <1>1, <1>5, <1>6 DEF Choice, CurId, Evt, Base
<1>8. x = Partner(log, inQ, outQ, h)
  BY <1>2, <1>3, <1>7 DEF Partner
<1>9. e.on \in Chans /\ q \in Seq(Items) /\ q # <<>>
  <2>1. e.on \in Chans
    BY <1>4, <1>5 DEF Events, ChanEvents
  <2>2. inQ[e.on] \in Seq(Items) /\ outQ[e.on] \in Seq(Items)
    BY <2>1 DEF TypeOK
  <2>3. (e.op = "send" => inQ[e.on] # <<>>) /\ (e.op = "recv" => outQ[e.on] # <<>>)
    BY <1>1, <1>5 DEF DoOK
  <2> QED BY <1>2, <1>4, <2>1, <2>2, <2>3
<1>10. x \in ToSet(q) /\ x \in Items
  BY <1>3, <1>9, Elements
<1>11. ASSUME x.id \in live
       PROVE  /\ Choice(log, x.id, x.i) /\ x.id # h.id
              /\ log' = Commit(Commit(log, h.id, h.i), x.id, x.i)
              /\ phase' = [phase EXCEPT ![h.id[1]] = "run", ![x.id[1]] = "run"]
              /\ cvar' = cvar /\ failure' = failure
              /\ \A a \in ToSet(agenda') : a.kind = "set"
  <2>1. /\ log' = Commit(Commit(log, h.id, h.i), x.id, x.i)
        /\ phase' = [phase EXCEPT ![h.id[1]] = "run", ![x.id[1]] = "run"]
        /\ agenda' = chkCVars(x.id, x.i) \o Rest /\ failure' = failure
    BY <1>4, <1>11 DEF Rendezvous
  <2>2. x.id \in In(log) /\ Rec(log, x.id).won = 0
    <3>1. live \subseteq Syncs /\ Sync(x.id).won = 0
      BY <1>11, LiveShape DEF RegionOK
    <3> QED BY <1>6, <1>11, <3>1
  <2>3. x.id[1] \in Threads /\ x.id \in Trans /\ Rec(log, x.id).req.evts \in Seq(Events(CVars))
    BY <1>6, <2>2, LogShape
  <2>4. x.id = CurId(x.id[1])
    BY <1>11, <2>3 DEF RegionOK, PhaseOK
  <2>5. x.i \in DOMAIN Rec(log, x.id).req.evts
    <3>1. \E op, on : Offers(x, op, on)
      BY <1>2, <1>9, <1>10 DEF RegionOK, QueuesOK
    <3> QED BY <1>6, <3>1 DEF Offers
  <2>6. x.i \in Nat /\ x.i # 0 /\ Rec(log, x.id).req.evts[x.i] \in Events(CVars)
    BY <2>3, <2>5
  <2>7. Choice(log, x.id, x.i)
    BY <2>2, <2>3, <2>4, <2>5, <2>6 DEF Choice, CurId
  <2>8. PICK s \in Seq(Tasks) : s = Rest
    <3>1. <<>> \in Seq(Tasks)
      OBVIOUS
    <3> QED BY <1>5, <3>1
  <2>9. ToSet(s) = {} /\ agenda' = chkCVars(x.id, x.i) \o s
    BY <1>5, <2>1, <2>8, SmallLists
  <2>10. ToSet(agenda') = {Set(x.id, j) : j \in Lost(Rec(log, x.id).req, x.i)} \cup ToSet(s)
    BY <1>6, <2>2, <2>6, <2>9, ChkTasks
  <2>11. \A a \in ToSet(agenda') : a.kind = "set"
    BY <2>9, <2>10 DEF Set
  <2> QED BY <1>4, <1>5, <1>11, <2>1, <2>7, <2>11
<1> QED BY <1>4, <1>5, <1>7, <1>8, <1>10, <1>11

\* doFnOther: a decision that needs no partner is committed.
LEMMA OtherFacts ==
    ASSUME TypeOK, RegionOK, doFnOther
    PROVE  \E h : /\ h.kind = "do" /\ ToSet(agenda) = {h} /\ Choice(log, h.id, h.i)
                  /\ Base(log, h).op \notin {"send", "recv"}
                  /\ log' = Commit(log, h.id, h.i) /\ phase' = [phase EXCEPT ![h.id[1]] = "run"]
                  /\ agenda' = <<>> /\ failure' = failure
                  /\ \A v \in CVars : cvar'[v].set > 0 <=> cvar[v].set > 0
<1>0. PICK h : h = Head(agenda)
  OBVIOUS
<1>1. PICK e : e = Evt(h.id, h.i)
  OBVIOUS
<1>2. /\ agenda # <<>> /\ h.kind = "do" /\ e.op \notin {"send", "recv"}
      /\ cvar' = IF e.op = "cvar" THEN [cvar EXCEPT ![e.on].set = 1] ELSE cvar
      /\ log' = Commit(log, h.id, h.i) /\ phase' = [phase EXCEPT ![h.id[1]] = "run"]
      /\ agenda' = Rest /\ failure' = failure
  BY <1>0, <1>1 DEF doFnOther
<1>3. /\ DoOK(h) /\ ToSet(agenda) = {h} /\ Rest = <<>>
      /\ h.id \in Syncs /\ h.id[1] \in Threads /\ h.id = CurId(h.id[1]) /\ Sync(h.id).won = 0
      /\ h.i \in Nat /\ h.i # 0 /\ h.i \in DOMAIN Sync(h.id).req.evts
      /\ e \in Events(CVars)
  BY <1>0, <1>1, <1>2, DoShape
<1>4. Syncs = In(log) /\ (\A a : Sync(a) = Rec(log, a)) /\ log \in Logs
  BY DEF TypeOK, Syncs, In, Sync, Rec
<1>5. Choice(log, h.id, h.i) /\ e = Base(log, h)
  BY <1>1, <1>3, <1>4 DEF Choice, CurId, Evt, Base
<1>6. ASSUME NEW v \in CVars PROVE cvar'[v].set > 0 <=> cvar[v].set > 0
  <2>1. cvar \in [CVars -> [set : Nat, waiting : Seq(Items)]]
    BY DEF TypeOK
  <2>2. CASE e.op # "cvar"
    BY <1>2, <2>2
  <2>3. CASE e.op = "cvar"
    <3>1. e.on \in CVars /\ cvar[e.on].set > 0
      BY <1>1, <1>3, <2>3 DEF DoOK, Events, ChanEvents
    <3>2. cvar' = [cvar EXCEPT ![e.on].set = 1]
      BY <1>2, <2>3
    <3> QED BY <2>1, <3>1, <3>2
  <2> QED BY <2>2, <2>3
<1> QED BY <1>2, <1>3, <1>5, <1>6

\* The record of a direct operation comes from the program.
DirectRec(rec, op, c) ==
    rec \in Records /\ rec.won = 0 /\ rec.req.evts = <<[op |-> op, on |-> c]>> /\ rec.req.nacks = <<>>

Opened(t, op, c, m) == \E rec : DirectRec(rec, op, c) /\ Extended(log, m, t, rec)

Direct(t, op, c) ==
    /\ phase[t] = "run" /\ Len(log[t]) < MaxSync /\ agenda = <<>> /\ cvar' = cvar
    /\ failure' = failure
    /\ \E m, id :
          /\ Opened(t, op, c, m) /\ id = <<t, Len(log[t]) + 1>>
          /\ \/ log' = m /\ agenda' = <<>> /\ phase' = [phase EXCEPT ![t] = "blocked"]
             \/ \E x \in Items :
                   /\ Met(log, live, t, [op |-> op, on |-> c], x)
                   /\ log' = Commit(Commit(m, id, 1), x.id, x.i)
                   /\ phase' = [phase EXCEPT ![x.id[1]] = "run"]
                   /\ \A a \in ToSet(agenda') : a.kind = "set"

\* send and recv: the operation blocks, or meets a partner at once.
LEMMA DirectFacts ==
    ASSUME TypeOK, RegionOK, NEW t \in Threads, NEW c \in Chans, NEW op \in {"send", "recv"},
           op = "send" => send(t, c), op = "recv" => recv(t, c)
    PROVE  Direct(t, op, c)
<1>1. PICK m : m = Begin(t, op, c)
  OBVIOUS
<1>2. PICK id : id = <<t, Len(log[t]) + 1>>
  OBVIOUS
<1>3. PICK rec : rec = directReq(t, op, c)
  OBVIOUS
<1>4. DirectRec(rec, op, c) /\ Extended(log, m, t, rec)
  <2>1. DirectRec(rec, op, c)
    BY <1>3, DirectRecord DEF DirectRec
  <2> QED BY <1>1, <1>3, <2>1 DEF Begin, Extended
<1>5. Opened(t, op, c, m)
  BY <1>4 DEF Opened
<1>6. PICK q : q = IF op = "send" THEN inQ[c] ELSE outQ[c]
  OBVIOUS
<1>7. CanStart(t) /\ ((Clean(q) # <<>> /\ MeetDirect(t, op, c, Head(Clean(q)))) \/ BlockDirect(t, op, c))
  <2>1. CASE op = "send"
    BY <1>6, <2>1 DEF send
  <2>2. CASE op = "recv"
    BY <1>6, <2>2 DEF recv
  <2> QED BY <2>1, <2>2
<1>8. phase[t] = "run" /\ Len(log[t]) < MaxSync /\ agenda = <<>>
  BY <1>7 DEF CanStart, Free
<1>9. CASE BlockDirect(t, op, c)
  <2>1. /\ log' = m /\ agenda' = agenda /\ phase' = [phase EXCEPT ![t] = "blocked"]
        /\ cvar' = cvar /\ failure' = failure
    BY <1>1, <1>9 DEF BlockDirect
  <2> QED BY <1>2, <1>5, <1>8, <2>1 DEF Direct
<1>10. CASE Clean(q) # <<>> /\ MeetDirect(t, op, c, Head(Clean(q)))
  <2>1. PICK x : x = Head(Clean(q))
    OBVIOUS
  <2>2. /\ log' = Commit(Commit(m, id, 1), x.id, x.i) /\ phase' = [phase EXCEPT ![x.id[1]] = "run"]
        /\ agenda' = chkCVars(x.id, x.i) /\ cvar' = cvar /\ failure' = failure
    BY <1>1, <1>2, <1>10, <2>1 DEF MeetDirect
  <2>3. PICK e : e = [op |-> op, on |-> c]
    OBVIOUS
  <2>4. q \in Seq(Items) /\ \A y \in ToSet(q) : Offers(y, Opposite(e).op, e.on)
    <3>1. inQ[c] \in Seq(Items) /\ outQ[c] \in Seq(Items)
      BY DEF TypeOK
    <3>2. (\A y \in ToSet(inQ[c]) : Offers(y, "recv", c)) /\ (\A y \in ToSet(outQ[c]) : Offers(y, "send", c))
      BY DEF RegionOK, QueuesOK
    <3>3. CASE op = "send"
      <4>1. q = inQ[c] /\ Opposite(e).op = "recv" /\ e.on = c
        BY <1>6, <2>3, <3>3 DEF Opposite
      <4> QED BY <3>1, <3>2, <4>1
    <3>4. CASE op = "recv"
      <4>1. q = outQ[c] /\ Opposite(e).op = "send" /\ e.on = c
        BY <1>6, <2>3, <3>4 DEF Opposite
      <4> QED BY <3>1, <3>2, <4>1
    <3> QED BY <3>3, <3>4
  <2>5. phase[t] # "blocked"
    BY <1>8
  <2>6. Met(log, live, t, e, Head(Clean(q)))
    BY <1>10, <2>4, <2>5, PolledHead
  <2>7. Met(log, live, t, e, x) /\ x \in Items /\ x.id \in In(log) /\ x.i \in Nat
    BY <2>1, <2>6 DEF Met, Items
  <2>8. PICK s \in Seq(Tasks) : s = <<>>
    <3>1. <<>> \in Seq(Tasks)
      OBVIOUS
    <3> QED BY <3>1
  <2>9. /\ chkCVars(x.id, x.i) \o s \in Seq(Tasks)
        /\ ToSet(chkCVars(x.id, x.i) \o s) = {Set(x.id, j) : j \in Lost(Rec(log, x.id).req, x.i)} \cup ToSet(s)
    BY <2>7, ChkTasks DEF TypeOK
  <2>10. chkCVars(x.id, x.i) \o s = chkCVars(x.id, x.i) /\ ToSet(s) = {}
    <3>1. PICK nacks \in Seq(SUBSET Nat) : nacks = Sync(x.id).req.nacks
      <4>1. log \in Logs /\ Sync(x.id) = Rec(log, x.id)
        BY DEF TypeOK, Sync, Rec
      <4> QED BY <2>7, <4>1, LogShape
    <3>2. x.id \in Trans
      BY <2>7 DEF In
    <3>3. chkCVars(x.id, x.i) \in Seq(Tasks)
      BY <2>7, <3>1, <3>2, ChkProps
    <3>4. chkCVars(x.id, x.i) \o <<>> = chkCVars(x.id, x.i)
      BY <3>3
    <3> QED BY <2>8, <3>4, SmallLists
  <2>11. \A a \in ToSet(agenda') : a.kind = "set"
    BY <2>2, <2>9, <2>10 DEF Set
  <2> QED BY <1>2, <1>5, <1>8, <2>2, <2>3, <2>7, <2>11 DEF Direct
<1> QED BY <1>7, <1>9, <1>10

-----------------------------------------------------------------------------
(* The second invariant is preserved.                                       *)

\* Set cvars stay the nacks of synchronizations.
LEMMA KnownKept ==
    ASSUME NEW l, NEW m, ReqsKept(l, m), NEW cv, NEW cw, Known(l, cv),
           \A v \in CVars : cw[v].set > 0 => cv[v].set > 0
    PROVE  Known(m, cw)
BY DEF Known, ReqsKept

\* A waiter on the agenda stays there for a cvar that is set.
LEMMA NackingKept ==
    ASSUME NEW l, NEW m, ReqsKept(l, m), NEW cv, NEW ag, NEW bg, Nacking(l, cv, ag),
           \A a \in ToSet(bg) : a.kind = "wake" => a \in ToSet(ag) /\ a.id \in In(l)
    PROVE  Nacking(m, cv, bg)
<1> SUFFICES ASSUME NEW a \in ToSet(bg), a.kind = "wake", Base(m, a).op = "cvar"
             PROVE  cv[Base(m, a).on].set > 0
  BY DEF Nacking
<1>1. a \in ToSet(ag) /\ Base(m, a) = Base(l, a)
  BY DEF ReqsKept, Base
<1> QED BY <1>1 DEF Nacking

\* Outside a region, and when a region only sets cvars, nothing is claimed.
LEMMA OnlySets ==
    ASSUME NEW ag, \A a \in ToSet(ag) : a.kind = "set"
    PROVE  /\ \A l, cv : Nacking(l, cv, ag)
           /\ \A p, l, L, iq, oq : PartnerOK(p, l, L, ag, iq, oq)
<1>1. \A a \in ToSet(ag) : a.kind # "wake" /\ a.kind # "do"
  OBVIOUS
<1> QED BY <1>1 DEF Nacking, PartnerOK

\* An empty agenda lists nothing.
LEMMA EmptyAgenda == \A a \in ToSet(<<>>) : a.kind = "set"
<1>1. ToSet(<<>>) = {}
  BY SmallLists
<1> QED BY <1>1

\* The log stays.
LEMMA SameReqs == \A l : ReqsKept(l, l)
BY DEF ReqsKept

\* force preserves the second invariant.
LEMMA ForceSafe ==
    ASSUME TypeOK, SInv, NEW t \in Threads, NEW r \in prog.menu[t], force(t, r), prog' = prog
    PROVE  SInv'
<1>1. PICK rec \in Records :
              /\ rec.won = 0 /\ Stems(rec.req, r) /\ Extended(log, log', t, rec)
              /\ phase[t] = "run" /\ Len(log[t]) < MaxSync /\ agenda = <<>> /\ agenda' = <<>>
              /\ phase'[t] # "run" /\ \A u \in Threads : u # t => phase'[u] = phase[u]
              /\ cvar' = cvar /\ failure' = failure
  BY ForceFacts
<1>2. log \in Logs
  BY DEF TypeOK
<1>3. FromProgram(prog, t, rec.req)
  BY <1>1 DEF FromProgram
<1>4. ReqsKept(log, log') /\ Programmed(prog, log')
  BY <1>1, <1>2, <1>3, ExtendKeeps DEF SInv
<1>5. Resting(log', phase')
  BY <1>1, <1>2, BeginRests DEF SInv
<1>6. Known(log', cvar')
  <2>1. \A v \in CVars : cvar'[v].set > 0 => cvar[v].set > 0
    BY <1>1
  <2> QED BY <1>4, <2>1, KnownKept DEF SInv
<1>7. \A a \in ToSet(agenda') : a.kind = "set"
  BY <1>1, EmptyAgenda
<1> QED BY <1>1, <1>4, <1>5, <1>6, <1>7, OnlySets DEF SInv

\* A record that a direct operation makes comes from the program.
LEMMA OpenedKeeps ==
    ASSUME TypeOK, NEW t \in Threads, NEW op \in {"send", "recv"}, NEW c \in Chans, NEW m,
           Opened(t, op, c, m), Len(log[t]) < MaxSync, NEW p, Programmed(p, log), NEW id,
           id = <<t, Len(log[t]) + 1>>
    PROVE  /\ ReqsKept(log, m) /\ Programmed(p, m) /\ m \in Logs /\ id \in In(m) /\ Rec(m, id).won = 0
           /\ In(m) = In(log) \cup {id} /\ id \notin In(log) /\ DOMAIN Rec(m, id).req.evts = {1}
           /\ Rec(m, id).req.evts[1] = [op |-> op, on |-> c]
           /\ \A a \in In(log) : Rec(m, a) = Rec(log, a)
           /\ Len(m[t]) = Len(log[t]) + 1 /\ \A u \in Threads : u # t => m[u] = log[u]
<1>1. PICK rec : DirectRec(rec, op, c) /\ Extended(log, m, t, rec)
  BY DEF Opened
<1>2. rec \in Records /\ rec.won = 0 /\ rec.req.evts = <<[op |-> op, on |-> c]>> /\ rec.req.nacks = <<>>
  BY <1>1 DEF DirectRec
<1>3. DOMAIN rec.req.evts = {1} /\ rec.req.evts[1] = [op |-> op, on |-> c]
  BY <1>2
<1>4. FromProgram(p, t, rec.req)
  <2>1. \A i \in DOMAIN rec.req.evts : rec.req.evts[i].op # "cvar"
    BY <1>3
  <2> QED BY <1>2, <2>1 DEF FromProgram
<1>5. log \in Logs
  BY DEF TypeOK
<1>6. ReqsKept(log, m) /\ Programmed(p, m)
  BY <1>1, <1>2, <1>4, <1>5, ExtendKeeps
<1>7. /\ m \in Logs /\ id \in Trans \ In(log)
      /\ In(m) = In(log) \cup {id}
      /\ Rec(m, id) = rec
      /\ \A a \in In(log) : Rec(m, a) = Rec(log, a)
      /\ Len(m[t]) = Len(log[t]) + 1 /\ \A u \in Threads : u # t => m[u] = log[u]
  BY <1>1, <1>2, <1>5, ExtendProps
<1> QED BY <1>2, <1>3, <1>6, <1>7

\* send and recv preserve the second invariant.
LEMMA DirectSafe ==
    ASSUME TypeOK, RegionOK, SInv, NEW t \in Threads, NEW c \in Chans, NEW op \in {"send", "recv"},
           op = "send" => send(t, c), op = "recv" => recv(t, c), prog' = prog
    PROVE  SInv'
<1>0. Direct(t, op, c)
  BY DirectFacts
<1>1. /\ phase[t] = "run" /\ Len(log[t]) < MaxSync /\ agenda = <<>> /\ cvar' = cvar
      /\ failure' = failure
  BY <1>0 DEF Direct
<1>2. PICK m, id :
            /\ Opened(t, op, c, m) /\ id = <<t, Len(log[t]) + 1>>
            /\ \/ log' = m /\ agenda' = <<>> /\ phase' = [phase EXCEPT ![t] = "blocked"]
               \/ \E x \in Items :
                     /\ Met(log, live, t, [op |-> op, on |-> c], x)
                     /\ log' = Commit(Commit(m, id, 1), x.id, x.i)
                     /\ phase' = [phase EXCEPT ![x.id[1]] = "run"]
                     /\ \A a \in ToSet(agenda') : a.kind = "set"
  BY <1>0 DEF Direct
<1>3. Programmed(prog, log) /\ Resting(log, phase) /\ Known(log, cvar)
  BY DEF SInv
<1>4. /\ ReqsKept(log, m) /\ Programmed(prog, m) /\ m \in Logs /\ id \in In(m) /\ Rec(m, id).won = 0
      /\ In(m) = In(log) \cup {id} /\ id \notin In(log)
      /\ \A a \in In(log) : Rec(m, a) = Rec(log, a)
      /\ Len(m[t]) = Len(log[t]) + 1 /\ \A u \in Threads : u # t => m[u] = log[u]
  BY <1>1, <1>2, <1>3, OpenedKeeps
<1>5. log \in Logs /\ phase \in [Threads -> {"run", "forced", "blocked"}]
  BY DEF TypeOK
<1>6. \A v \in CVars : cvar'[v].set > 0 => cvar[v].set > 0
  BY <1>1
<1>7. PICK rec : DirectRec(rec, op, c) /\ Extended(log, m, t, rec)
  BY <1>2 DEF Opened
<1>8. rec \in Records
  BY <1>7 DEF DirectRec
<1>9. CASE log' = m /\ agenda' = <<>> /\ phase' = [phase EXCEPT ![t] = "blocked"]
  <2>1. phase'[t] # "run" /\ \A u \in Threads : u # t => phase'[u] = phase[u]
    BY <1>5, <1>9
  <2>2. Resting(log', phase')
    <3>1. Resting(m, phase')
      BY <1>1, <1>3, <1>5, <1>7, <1>8, <2>1, BeginRests
    <3> QED BY <1>9, <3>1
  <2>3. Known(log', cvar')
    BY <1>3, <1>4, <1>6, <1>9, KnownKept
  <2>4. \A a \in ToSet(agenda') : a.kind = "set"
    BY <1>9, EmptyAgenda
  <2>5. Programmed(prog', log') /\ failure' = "none"
    BY <1>1, <1>4, <1>9 DEF SInv
  <2> QED BY <2>2, <2>3, <2>4, <2>5, OnlySets DEF SInv
<1>10. ASSUME NEW x \in Items,
              Met(log, live, t, [op |-> op, on |-> c], x),
              log' = Commit(Commit(m, id, 1), x.id, x.i),
              phase' = [phase EXCEPT ![x.id[1]] = "run"],
              \A a \in ToSet(agenda') : a.kind = "set"
       PROVE  SInv'
  <2>1. /\ x.id \in In(log) /\ Rec(log, x.id).won = 0 /\ x.id[1] # t
        /\ x.id[1] \in Threads /\ x.id[2] = Len(log[x.id[1]]) /\ x.i \in DOMAIN Rec(log, x.id).req.evts
    BY <1>10 DEF Met
  <2>2. Rec(log, x.id).req.evts \in Seq(Events(CVars))
    BY <1>5, <2>1, LogShape
  <2>3. x.i \in Nat /\ x.i # 0
    BY <2>1, <2>2
  <2>4. PICK i : i = 1
    OBVIOUS
  <2>5. i \in Nat /\ i # 0
    BY <2>4
  <2>6. PICK k : k = Commit(m, id, i)
    OBVIOUS
  <2>7. ReqsKept(m, k) /\ k \in Logs /\ In(k) = In(m) /\ Programmed(prog, k)
    BY <1>4, <2>5, <2>6, CommitKeeps
  <2>8. log' = Commit(k, x.id, x.i) /\ x.id \in In(k)
    BY <1>4, <1>10, <2>1, <2>4, <2>6, <2>7
  <2>9. ReqsKept(k, log') /\ Programmed(prog, log')
    BY <2>3, <2>7, <2>8, CommitKeeps
  <2>10. ReqsKept(log, log')
    BY <1>4, <2>7, <2>9 DEF ReqsKept
  <2>11. Known(log', cvar')
    BY <1>3, <1>6, <2>10, KnownKept
  <2>12. Resting(k, phase)
    <3>1. /\ Rec(k, id) = [req |-> Rec(m, id).req, won |-> i]
          /\ \A a \in In(m) : a # id => Rec(k, a) = Rec(m, a)
          /\ \A u \in Threads : Len(k[u]) = Len(m[u])
      BY <1>4, <2>5, <2>6, CommitProps
    <3> SUFFICES ASSUME NEW a \in In(k), Rec(k, a).won = 0
                 PROVE  phase[a[1]] # "run" /\ a[2] = Len(k[a[1]])
      BY DEF Resting
    <3>2. a # id
      BY <2>5, <3>1
    <3>3. a \in In(log) /\ Rec(log, a).won = 0
      BY <1>4, <2>7, <3>1, <3>2
    <3>4. phase[a[1]] # "run" /\ a[2] = Len(log[a[1]])
      BY <1>3, <3>3 DEF Resting
    <3>5. a[1] \in Threads /\ a[1] # t
      BY <1>1, <1>5, <3>3, <3>4, LogShape
    <3> QED BY <1>4, <3>1, <3>4, <3>5
  <2>13. Len(k[x.id[1]]) = Len(log[x.id[1]])
    <3>1. \A u \in Threads : Len(k[u]) = Len(m[u])
      BY <1>4, <2>5, <2>6, CommitProps
    <3> QED BY <1>4, <2>1, <3>1
  <2>14. Resting(log', phase')
    <3>1. x.id[2] = Len(k[x.id[1]])
      BY <2>1, <2>13
    <3>2. PICK a, n : a = x.id /\ n = x.i
      OBVIOUS
    <3>3. /\ k \in Logs /\ a \in In(k) /\ n \in Nat /\ n # 0 /\ Resting(k, phase) /\ a[2] = Len(k[a[1]])
          /\ phase' = [phase EXCEPT ![a[1]] = "run"]
          /\ phase \in [Threads -> {"run", "forced", "blocked"}]
      BY <1>5, <1>10, <2>3, <2>7, <2>8, <2>12, <3>1, <3>2
    <3>4. Resting(Commit(k, a, n), phase')
      BY <3>3, CommitRests
    <3> QED BY <2>8, <3>2, <3>4
  <2> QED BY <1>1, <1>10, <2>9, <2>11, <2>14, OnlySets DEF SInv
<1> QED BY <1>2, <1>9, <1>10

\* The nacks that a decision for a channel sets do not reach its partner.
LEMMA NoInterference ==
    ASSUME NEW p \in Programs, Separate(p), NEW l \in Logs, Programmed(p, l), NEW L,
           NEW id \in In(l), NEW i \in DOMAIN Rec(l, id).req.evts,
           NEW e, e = Rec(l, id).req.evts[i], e.op \in {"send", "recv"}, NEW x, Met(l, L, id[1], e, x)
    PROVE  \E N \in SUBSET NackNames :
              /\ Cascade(p, N) /\ \A j \in Lost(Rec(l, id).req, i) : <<id[1], j>> \in N
              /\ \A k \in DOMAIN Rec(l, x.id).req.evts :
                    Rec(l, x.id).req.evts[k].op = "cvar" => NackName(Rec(l, x.id).req.evts[k].on) \notin N
<1>1. id[1] \in Threads
  BY LogShape
<1>2. /\ x.id \in In(l) /\ x.id[1] # id[1] /\ x.id[1] \in Threads
      /\ x.i \in DOMAIN Rec(l, x.id).req.evts /\ Rec(l, x.id).req.evts[x.i] = Opposite(e)
  BY DEF Met, Base
<1>3. FromProgram(p, id[1], Rec(l, id).req) /\ FromProgram(p, x.id[1], Rec(l, x.id).req)
  BY <1>2 DEF Programmed
<1>4. CASE Rec(l, id).req.nacks = <<>>
  <2>1. Lost(Rec(l, id).req, i) = {}
    BY <1>4 DEF Lost
  <2>2. Cascade(p, {})
    BY DEF Cascade
  <2> QED BY <2>1, <2>2
<1>5. ASSUME NEW r \in p.menu[id[1]], Stems(Rec(l, id).req, r)
      PROVE  \E N \in SUBSET NackNames :
                /\ Cascade(p, N) /\ \A j \in Lost(Rec(l, id).req, i) : <<id[1], j>> \in N
                /\ \A k \in DOMAIN Rec(l, x.id).req.evts :
                      Rec(l, x.id).req.evts[k].op = "cvar" => NackName(Rec(l, x.id).req.evts[k].on) \notin N
  <2>1. /\ i \in DOMAIN r.evts /\ r.evts[i].op = e.op /\ r.evts[i].on = e.on
        /\ Lost(Rec(l, id).req, i) = Lost(r, i)
    <3>1. i \in DOMAIN r.evts /\ r.evts[i].op = e.op /\ r.evts[i].on = e.on
      BY <1>5 DEF Stems
    <3>2. Rec(l, id).req.nacks = r.nacks
      BY <1>5 DEF Stems
    <3> QED BY <3>1, <3>2 DEF Lost
  <2>2. Opposite(r.evts[i]) = Opposite(e)
    BY <2>1 DEF Opposite
  <2>3. PICK N \in SUBSET NackNames :
                /\ Cascade(p, N) /\ \A j \in Lost(r, i) : <<id[1], j>> \in N
                /\ \A u \in Threads \ {id[1]} : \A q \in p.menu[u] :
                      Opposite(r.evts[i]) \in ToSet(q.evts) =>
                          \A k \in DOMAIN q.evts : q.evts[k].op = "cvar" => q.evts[k].on \notin N
    <3>1. r.evts[i].op \in {"send", "recv"}
      BY <2>1
    <3> QED BY <1>1, <1>5, <2>1, <3>1 DEF Separate
  <2>4. ASSUME NEW k \in DOMAIN Rec(l, x.id).req.evts, Rec(l, x.id).req.evts[k].op = "cvar"
        PROVE  NackName(Rec(l, x.id).req.evts[k].on) \notin N
    <3>1. PICK q \in p.menu[x.id[1]] : Stems(Rec(l, x.id).req, q)
      BY <1>3, <2>4 DEF FromProgram
    <3>2. q \in Requests(NackNames)
      BY <1>2, EventAssumption DEF NackNames
    <3>3. q.evts \in Seq(Events(NackNames)) /\ DOMAIN q.evts = DOMAIN Rec(l, x.id).req.evts
      BY <3>1, <3>2 DEF Requests, Stems
    <3>4. q.evts[x.i] = Opposite(e)
      <4>1. q.evts[x.i] \in Events(NackNames) /\ x.i \in DOMAIN q.evts
        BY <1>2, <3>3
      <4>2. Opposite(e).op \in {"send", "recv"}
        BY DEF Opposite
      <4>3. q.evts[x.i].op = Opposite(e).op /\ q.evts[x.i].on = Opposite(e).on
        <5>1. Rec(l, x.id).req.evts[x.i].op = q.evts[x.i].op
          BY <3>1, <4>1 DEF Stems
        <5>2. q.evts[x.i].op # "cvar"
          BY <1>2, <4>2, <5>1
        <5>3. Rec(l, x.id).req.evts[x.i].on = q.evts[x.i].on
          BY <3>1, <4>1, <5>2 DEF Stems
        <5> QED BY <1>2, <5>1, <5>3
      <4>4. q.evts[x.i] = [op |-> q.evts[x.i].op, on |-> q.evts[x.i].on]
        BY <4>1, <4>2, <4>3 DEF Events, ChanEvents
      <4>5. Opposite(e) = [op |-> Opposite(e).op, on |-> Opposite(e).on]
        BY DEF Opposite
      <4> QED BY <4>3, <4>4, <4>5
    <3>5. Opposite(r.evts[i]) \in ToSet(q.evts)
      BY <1>2, <2>2, <3>3, <3>4 DEF ToSet
    <3>6. q.evts[k].op = "cvar" /\ NackName(Rec(l, x.id).req.evts[k].on) = q.evts[k].on
      BY <2>4, <3>1, <3>3 DEF Stems
    <3>7. q.evts[k].on \notin N
      BY <1>2, <2>3, <3>3, <3>5, <3>6
    <3> QED BY <3>6, <3>7
  <2> QED BY <2>1, <2>3, <2>4
<1> QED BY <1>3, <1>4, <1>5 DEF FromProgram

\* syncReady preserves the second invariant: the partner polled will stand.
LEMMA ReadySafe ==
    ASSUME \A p \in Programs : Separate(p), TypeOK, RegionOK, SInv, NEW t \in Threads, syncReady(t), prog' = prog
    PROVE  SInv'
<1>1. PICK id \in In(log), i \in Nat :
              LET e == Rec(log, id).req.evts[i] IN
              /\ id[1] = t /\ id[2] = Len(log[t]) /\ Rec(log, id).won = 0
              /\ i # 0 /\ i \in DOMAIN Rec(log, id).req.evts /\ e \in Events(CVars)
              /\ agenda = <<>> /\ agenda' \in Seq(Tasks)
              /\ ToSet(agenda') = {Set(id, j) : j \in Lost(Rec(log, id).req, i)} \cup {DoFn(id, i)}
              /\ log' = log /\ live' = live /\ phase' = phase /\ failure' = failure
              /\ \A v \in CVars : cvar'[v].set > 0 <=> cvar[v].set > 0
              /\ e.op = "send" => e.on \in Chans /\ Met(log, live, t, e, Head(inQ'[e.on]))
              /\ e.op = "recv" => e.on \in Chans /\ Met(log, live, t, e, Head(outQ'[e.on]))
              /\ e.op = "cvar" => e.on \in CVars /\ cvar[e.on].set > 0
              /\ e.op # "timeout"
  BY ReadyFacts
<1>2. PICK e : e = Rec(log, id).req.evts[i]
  OBVIOUS
<1>3. PICK d : d = DoFn(id, i)
  OBVIOUS
<1>4. d.kind = "do" /\ d.id = id /\ d.i = i /\ Base(log, d) = e
  BY <1>2, <1>3 DEF DoFn, Base
<1>5. \A a \in ToSet(agenda') : a = d \/ (\E j \in Lost(Rec(log, id).req, i) : a = Set(id, j))
  BY <1>1, <1>3
<1>6. \A j : Set(id, j).kind = "set" /\ Set(id, j).id = id /\ Set(id, j).i = j
  BY DEF Set
<1>7. \A a \in ToSet(agenda') : a.kind # "wake" /\ (a.kind = "do" => a = d)
  BY <1>4, <1>5, <1>6
<1>8. Nacking(log', cvar', agenda')
  BY <1>7 DEF Nacking
<1>9. Known(log', cvar')
  <2>1. ReqsKept(log, log')
    BY <1>1, SameReqs
  <2>2. Known(log, cvar) /\ \A v \in CVars : cvar'[v].set > 0 => cvar[v].set > 0
    BY <1>1 DEF SInv
  <2> QED BY <2>1, <2>2, KnownKept
<1>10. PartnerOK(prog, log, live, agenda', inQ', outQ')
  <2> SUFFICES ASSUME e.op \in {"send", "recv"}
               PROVE  Stands(prog, log, live, agenda', Partner(log, inQ', outQ', d))
    BY <1>4, <1>7 DEF PartnerOK
  <2>1. PICK x : x = Partner(log, inQ', outQ', d)
    OBVIOUS
  <2>2. Met(log, live, id[1], e, x)
    <3>1. CASE e.op = "send"
      <4>1. x = Head(inQ'[e.on])
        BY <1>4, <2>1, <3>1 DEF Partner
      <4> QED BY <1>1, <1>2, <3>1, <4>1
    <3>2. CASE e.op = "recv"
      <4>1. x = Head(outQ'[e.on])
        BY <1>4, <2>1, <3>2 DEF Partner
      <4> QED BY <1>1, <1>2, <3>2, <4>1
    <3> QED BY <3>1, <3>2
  <2>3. /\ prog \in Programs /\ Separate(prog) /\ log \in Logs /\ Programmed(prog, log)
        /\ i \in DOMAIN Rec(log, id).req.evts
    BY <1>1 DEF TypeOK, SInv
  <2>4. PICK N \in SUBSET NackNames :
              /\ Cascade(prog, N) /\ \A j \in Lost(Rec(log, id).req, i) : <<id[1], j>> \in N
              /\ \A k \in DOMAIN Rec(log, x.id).req.evts :
                    Rec(log, x.id).req.evts[k].op = "cvar" => NackName(Rec(log, x.id).req.evts[k].on) \notin N
    BY <1>2, <2>2, <2>3, NoInterference
  <2>5. \A a \in ToSet(agenda') : a.kind = "set" => <<a.id[1], a.i>> \in N
    BY <1>4, <1>5, <1>6, <2>4
  <2>6. Within(prog, log, agenda', N, x)
    BY <1>7, <2>4, <2>5 DEF Within
  <2>7. x.id \in live
    BY <2>2 DEF Met
  <2> QED BY <2>1, <2>6, <2>7 DEF Stands
<1>11. Programmed(prog', log') /\ Resting(log', phase') /\ failure' = "none"
  BY <1>1 DEF SInv
<1>12. PartnerOK(prog', log', live', agenda', inQ', outQ')
  BY <1>1, <1>10
<1> QED BY <1>8, <1>9, <1>11, <1>12 DEF SInv

\* syncBlock preserves the second invariant.
LEMMA BlockSafe ==
    ASSUME TypeOK, SInv, NEW t \in Threads, syncBlock(t), prog' = prog
    PROVE  SInv'
<1>1. /\ log' = log /\ agenda = <<>> /\ agenda' = <<>> /\ failure' = failure
      /\ phase[t] = "forced" /\ phase' = [phase EXCEPT ![t] = "blocked"]
      /\ \A v \in CVars : cvar'[v].set = cvar[v].set
  BY BlockFacts
<1>2. log \in Logs /\ phase \in [Threads -> {"run", "forced", "blocked"}]
  BY DEF TypeOK
<1>3. \A u \in Threads : phase[u] # "run" => phase'[u] # "run"
  BY <1>1, <1>2
<1>4. Resting(log, phase')
  <2>1. \A id \in In(log) : id[1] \in Threads
    BY <1>2, LogShape
  <2>2. Resting(log, phase)
    BY DEF SInv
  <2> QED BY <1>3, <2>1, <2>2 DEF Resting
<1>5. Known(log, cvar')
  <2>1. Known(log, cvar) /\ \A v \in CVars : cvar'[v].set > 0 => cvar[v].set > 0
    BY <1>1 DEF SInv
  <2> QED BY <2>1, SameReqs, KnownKept
<1>6. \A a \in ToSet(agenda') : a.kind = "set"
  BY <1>1, EmptyAgenda
<1>7. Programmed(prog', log') /\ failure' = "none" /\ Resting(log', phase') /\ Known(log', cvar')
  BY <1>1, <1>4, <1>5 DEF SInv
<1> QED BY <1>6, <1>7, OnlySets DEF SInv

\* timeoutFires preserves the second invariant.
LEMMA TimeoutSafe ==
    ASSUME TypeOK, RegionOK, SInv, NEW t \in Threads, timeoutFires(t), prog' = prog
    PROVE  SInv'
<1>1. /\ log' = log /\ phase' = phase /\ live' = live /\ inQ' = inQ /\ outQ' = outQ
      /\ cvar' = cvar /\ failure' = failure /\ agenda = <<>>
      /\ \A a \in ToSet(agenda') : a.kind = "wake" /\ Base(log, a).op = "timeout"
  BY TimeoutFacts
<1>2. Nacking(log', cvar', agenda')
  BY <1>1 DEF Nacking
<1>3. PartnerOK(prog', log', live', agenda', inQ', outQ')
  BY <1>1 DEF PartnerOK
<1> QED BY <1>1, <1>2, <1>3 DEF SInv

\* A region that goes on within the same nacks keeps its partner standing.
LEMMA StandsOnward ==
    ASSUME NEW p, NEW l, NEW m, ReqsKept(l, m), NEW L, NEW K, NEW ag, NEW bg, NEW iq, NEW oq, NEW S,
           GoesOn(ag, bg, S), \A a \in S : a.kind # "do", \A a \in ToSet(ag) : a.id \in In(l),
           PartnerOK(p, l, L, ag, iq, oq),
           \A x, N : x.id \in L /\ Within(p, l, ag, N, x) => x.id \in In(l) /\ x.id \in K /\ Within(p, m, bg, N, x)
    PROVE  PartnerOK(p, m, K, bg, iq, oq)
<1> SUFFICES ASSUME NEW d \in ToSet(bg), d.kind = "do", Base(m, d).op \in {"send", "recv"}
             PROVE  Stands(p, m, K, bg, Partner(m, iq, oq, d))
  BY DEF PartnerOK
<1>1. d \in ToSet(ag)
  BY DEF GoesOn
<1>2. Base(m, d) = Base(l, d)
  BY <1>1 DEF ReqsKept, Base
<1>3. PICK x : x = Partner(l, iq, oq, d)
  OBVIOUS
<1>4. x = Partner(m, iq, oq, d)
  BY <1>2, <1>3 DEF Partner
<1>5. Stands(p, l, L, ag, x)
  BY <1>1, <1>2, <1>3 DEF PartnerOK
<1>6. PICK N \in SUBSET NackNames : Within(p, l, ag, N, x)
  BY <1>5 DEF Stands
<1>7. x.id \in K /\ Within(p, m, bg, N, x)
  BY <1>5, <1>6 DEF Stands
<1> QED BY <1>4, <1>7 DEF Stands

\* The tasks of a region belong to synchronizations in the log.
LEMMA TasksLogged ==
    ASSUME TypeOK, RegionOK
    PROVE  /\ \A a \in ToSet(agenda) : a.id \in In(log)
           /\ live \subseteq In(log) /\ log \in Logs
<1>1. log \in Logs /\ agenda \in Seq(Tasks) /\ Syncs = In(log)
  BY DEF TypeOK, Syncs, In
<1>2. ASSUME NEW a \in ToSet(agenda) PROVE a.id \in Syncs
  <2>1. a \in Tasks
    BY <1>1, Elements
  <2>2. CASE a.kind = "set"
    BY <2>2 DEF RegionOK, AgendaOK, SetOK
  <2>3. CASE a.kind = "wake"
    BY <2>3 DEF RegionOK, AgendaOK, WakeOK, Posted
  <2>4. CASE a.kind = "do"
    <3>1. phase[a.id[1]] = "forced" /\ a.id = CurId(a.id[1])
      BY <2>4 DEF RegionOK, AgendaOK, DoOK
    <3>2. a.id[1] \in Threads
      BY <2>1 DEF Tasks, Trans
    <3> QED BY <3>1, <3>2, LiveShape DEF RegionOK
  <2> QED BY <2>1, <2>2, <2>3, <2>4 DEF Tasks
<1>3. live \subseteq Syncs
  BY LiveShape DEF RegionOK
<1> QED BY <1>1, <1>2, <1>3

\* doSet preserves the second invariant: the waiters woken wait for a nack of
\* the cascade.
LEMMA SetSafe ==
    ASSUME TypeOK, RegionOK, SInv, doSet, prog' = prog
    PROVE  SInv'
<1>1. PICK h \in ToSet(agenda), v \in CVars :
              /\ h.kind = "set" /\ v = <<h.id[1], h.id[2], h.i>> /\ h.id = <<v[1], v[2]>>
              /\ h.id \in In(log) /\ h.i \in DOMAIN Rec(log, h.id).req.nacks
              /\ \A u \in CVars : u # v => cvar'[u].set = cvar[u].set
              /\ cvar'[v].set = 1 /\ cvar[v].set = 0
              /\ log' = log /\ phase' = phase /\ live' = live /\ inQ' = inQ /\ outQ' = outQ
              /\ failure' = failure
              /\ GoesOn(agenda, agenda', {Wake(x) : x \in ToSet(cvar[v].waiting)})
  BY SetFacts
<1>2. PICK S : S = {Wake(x) : x \in ToSet(cvar[v].waiting)}
  OBVIOUS
<1>3. GoesOn(agenda, agenda', S)
  BY <1>1, <1>2
<1>4. ASSUME NEW a \in S PROVE a.kind = "wake" /\ a.id \in In(log) /\ Base(log, a) = [op |-> "cvar", on |-> v]
  <2>1. PICK x \in ToSet(cvar[v].waiting) : a = Wake(x)
    BY <1>2
  <2>2. a.kind = "wake" /\ a.id = x.id /\ a.i = x.i
    BY <2>1 DEF Wake
  <2>3. Offers(x, "cvar", v)
    BY <2>1 DEF RegionOK, QueuesOK
  <2>4. x.id \in In(log) /\ Base(log, x) = [op |-> "cvar", on |-> v]
    BY <2>3 DEF Offers, Posted, Syncs, In, Evt, Sync, Rec, Base
  <2> QED BY <2>2, <2>4 DEF Base
<1>5. /\ \A a \in ToSet(agenda) : a.id \in In(log)
      /\ live \subseteq In(log) /\ log \in Logs
  BY TasksLogged
<1>6. v[1] = h.id[1] /\ v[2] = h.id[2] /\ v[3] = h.i
  BY <1>1
<1>7. Known(log, cvar')
  <2> SUFFICES ASSUME NEW u \in CVars, cvar'[u].set > 0
               PROVE  <<u[1], u[2]>> \in In(log) /\ u[3] \in DOMAIN Rec(log, <<u[1], u[2]>>).req.nacks
    BY DEF Known
  <2>1. CASE u = v
    <3>1. <<v[1], v[2]>> = h.id
      BY <1>1
    <3> QED BY <1>1, <1>6, <2>1, <3>1
  <2>2. CASE u # v
    BY <1>1, <2>2 DEF SInv, Known
  <2> QED BY <2>1, <2>2
<1>8. Nacking(log, cvar', agenda')
  <2> SUFFICES ASSUME NEW a \in ToSet(agenda'), a.kind = "wake", Base(log, a).op = "cvar"
               PROVE  cvar'[Base(log, a).on].set > 0
    BY DEF Nacking
  <2>1. CASE a \in S
    <3>1. Base(log, a).on = v
      BY <1>4, <2>1
    <3> QED BY <1>1, <3>1
  <2>2. CASE a \in ToSet(agenda)
    <3>1. cvar[Base(log, a).on].set > 0
      BY <2>2 DEF SInv, Nacking
    <3>2. Base(log, a) \in Events(CVars)
      <4>1. WakeOK(a)
        BY <2>2 DEF RegionOK, AgendaOK
      <4>2. a.i \in DOMAIN Rec(log, a.id).req.evts
        BY <4>1 DEF WakeOK, Sync, Rec
      <4>3. Rec(log, a.id).req.evts \in Seq(Events(CVars))
        BY <1>5, <2>2, LogShape
      <4> QED BY <4>2, <4>3 DEF Base
    <3>3. Base(log, a).on \in CVars
      BY <3>2 DEF Events, ChanEvents
    <3>4. Base(log, a).on # v
      BY <1>1, <3>1
    <3> QED BY <1>1, <3>1, <3>3, <3>4
  <2> QED BY <1>3, <2>1, <2>2 DEF GoesOn
<1>9. ASSUME NEW x, NEW N, x.id \in live, Within(prog, log, agenda, N, x)
      PROVE  x.id \in In(log) /\ x.id \in live /\ Within(prog, log, agenda', N, x)
  <2>1. <<h.id[1], h.i>> \in N
    BY <1>1, <1>9 DEF Within
  <2>2. NackName(v) \in N
    BY <1>6, <2>1 DEF NackName
  <2>3. ASSUME NEW a \in ToSet(agenda')
        PROVE  /\ a.kind = "set" => <<a.id[1], a.i>> \in N
               /\ a.kind = "wake" => Base(log, a).op = "cvar" /\ NackName(Base(log, a).on) \in N
    <3>1. CASE a \in S
      <4>1. Base(log, a).op = "cvar" /\ Base(log, a).on = v /\ a.kind = "wake"
        BY <1>4, <3>1
      <4> QED BY <2>2, <4>1
    <3>2. CASE a \in ToSet(agenda)
      BY <1>9, <3>2 DEF Within
    <3> QED BY <1>3, <3>1, <3>2 DEF GoesOn
  <2>4. Within(prog, log, agenda', N, x)
    BY <1>9, <2>3 DEF Within
  <2> QED BY <1>5, <1>9, <2>4
<1>10. PartnerOK(prog, log, live, agenda', inQ, outQ)
  <2>1. ReqsKept(log, log)
    BY SameReqs
  <2>2. \A a \in S : a.kind # "do"
    BY <1>4
  <2>3. PartnerOK(prog, log, live, agenda, inQ, outQ)
    BY DEF SInv
  <2> QED BY <1>3, <1>5, <1>9, <2>1, <2>2, <2>3, StandsOnward
<1>11. /\ Programmed(prog', log') /\ Resting(log', phase') /\ Known(log', cvar') /\ failure' = "none"
       /\ Nacking(log', cvar', agenda') /\ PartnerOK(prog', log', live', agenda', inQ', outQ')
  BY <1>1, <1>7, <1>8, <1>10 DEF SInv
<1> QED BY <1>11 DEF SInv

\* doWake preserves the second invariant: a waiter that commits is not the
\* partner, and the nacks it sets belong to the cascade.
LEMMA WakeSafe ==
    ASSUME TypeOK, RegionOK, SInv, doWake, prog' = prog
    PROVE  SInv'
<1>1. /\ inQ' = inQ /\ outQ' = outQ /\ cvar' = cvar /\ failure' = failure
      /\ \/ /\ log' = log /\ phase' = phase /\ live' = live
            /\ GoesOn(agenda, agenda', {})
         \/ \E h \in ToSet(agenda) :
               /\ h.kind = "wake" /\ h.id \in live /\ Choice(log, h.id, h.i)
               /\ Base(log, h).op \in {"cvar", "timeout"}
               /\ log' = Commit(log, h.id, h.i) /\ live' = live \ {h.id}
               /\ phase' = [phase EXCEPT ![h.id[1]] = "run"]
               /\ GoesOn(agenda, agenda', {Set(h.id, j) : j \in Lost(Rec(log, h.id).req, h.i)})
  BY WakeFacts
<1>2. /\ \A a \in ToSet(agenda) : a.id \in In(log)
      /\ live \subseteq In(log) /\ log \in Logs
  BY TasksLogged
<1>3. /\ failure = "none" /\ Programmed(prog, log) /\ Resting(log, phase)
      /\ Known(log, cvar) /\ Nacking(log, cvar, agenda)
      /\ PartnerOK(prog, log, live, agenda, inQ, outQ)
  BY DEF SInv
<1>4. CASE log' = log /\ phase' = phase /\ live' = live /\ GoesOn(agenda, agenda', {})
  <2>1. \A a \in ToSet(agenda') : a \in ToSet(agenda)
    BY <1>4 DEF GoesOn
  <2>2. Nacking(log, cvar, agenda')
    BY <1>3, <2>1 DEF Nacking
  <2>3. ASSUME NEW x, NEW N, x.id \in live, Within(prog, log, agenda, N, x)
        PROVE  x.id \in In(log) /\ x.id \in live /\ Within(prog, log, agenda', N, x)
    BY <1>2, <2>1, <2>3 DEF Within
  <2>4. ReqsKept(log, log) /\ \A a \in {} : a.kind # "do"
    BY SameReqs
  <2>5. PartnerOK(prog, log, live, agenda', inQ, outQ)
    BY <1>2, <1>3, <1>4, <2>3, <2>4, StandsOnward
  <2>6. /\ Programmed(prog', log') /\ Resting(log', phase') /\ Known(log', cvar') /\ failure' = "none"
        /\ Nacking(log', cvar', agenda') /\ PartnerOK(prog', log', live', agenda', inQ', outQ')
    BY <1>1, <1>3, <1>4, <2>2, <2>5
  <2> QED BY <2>6 DEF SInv
<1>5. ASSUME NEW h \in ToSet(agenda),
             h.kind = "wake", h.id \in live, Choice(log, h.id, h.i),
             Base(log, h).op \in {"cvar", "timeout"},
             log' = Commit(log, h.id, h.i), live' = live \ {h.id},
             phase' = [phase EXCEPT ![h.id[1]] = "run"],
             GoesOn(agenda, agenda', {Set(h.id, j) : j \in Lost(Rec(log, h.id).req, h.i)})
      PROVE  SInv'
  <2>1. PICK id, i : id = h.id /\ i = h.i
    OBVIOUS
  <2>2. PICK S : S = {Set(id, j) : j \in Lost(Rec(log, id).req, i)}
    OBVIOUS
  <2>3. GoesOn(agenda, agenda', S) /\ log' = Commit(log, id, i) /\ Choice(log, id, i)
    BY <1>5, <2>1, <2>2
  <2>4. \A a \in S : a.kind = "set" /\ a.id = id /\ a.i \in Lost(Rec(log, id).req, i)
    BY <2>2 DEF Set
  <2>5. /\ id \in In(log) /\ i \in Nat /\ i # 0 /\ id[2] = Len(log[id[1]]) /\ id[1] \in Threads
        /\ i \in DOMAIN Rec(log, id).req.evts
    BY <2>3 DEF Choice
  <2>6. ReqsKept(log, log') /\ Programmed(prog, log')
    BY <1>2, <1>3, <2>3, <2>5, CommitKeeps
  <2>7. phase \in [Threads -> {"run", "forced", "blocked"}] /\ phase' = [phase EXCEPT ![id[1]] = "run"]
    BY <1>5, <2>1 DEF TypeOK
  <2>8. Resting(Commit(log, id, i), phase')
    BY <1>2, <1>3, <2>5, <2>7, CommitRests
  <2>9. Known(log', cvar)
    BY <1>3, <2>6, KnownKept
  <2>10. Nacking(log', cvar, agenda')
    <3>1. \A a \in ToSet(agenda') : a.kind = "wake" => a \in ToSet(agenda) /\ a.id \in In(log)
      BY <1>2, <2>3, <2>4 DEF GoesOn
    <3> QED BY <1>3, <2>6, <3>1, NackingKept
  <2>11. ASSUME NEW x, NEW N, x.id \in live, Within(prog, log, agenda, N, x)
         PROVE  x.id \in In(log) /\ x.id \in live' /\ Within(prog, log', agenda', N, x)
    <3>1. x.id \in In(log)
      BY <1>2, <2>11
    <3>2. Rec(log', x.id).req = Rec(log, x.id).req
      BY <2>6, <3>1 DEF ReqsKept
    <3>3. Base(log, h).op = "cvar" /\ NackName(Base(log, h).on) \in N
      BY <1>5, <2>11 DEF Within
    <3>4. Rec(log, id).req.evts[i].op = "cvar" /\ NackName(Rec(log, id).req.evts[i].on) \in N
      BY <2>1, <3>3 DEF Base
    <3>5. x.id # id
      BY <2>5, <2>11, <3>4 DEF Within
    <3>6. \A j \in Lost(Rec(log, id).req, i) : <<id[1], j>> \in N
      <4>1. PICK r \in prog.menu[id[1]] : Stems(Rec(log, id).req, r)
        BY <1>3, <2>5, <3>4 DEF Programmed, FromProgram
      <4>2. r.evts[i].op = "cvar" /\ r.evts[i].on \in N /\ i \in DOMAIN r.evts
        BY <2>5, <3>4, <4>1 DEF Stems
      <4>3. Lost(r, i) = Lost(Rec(log, id).req, i)
        BY <4>1 DEF Stems, Lost
      <4>4. Cascade(prog, N)
        BY <2>11 DEF Within
      <4> QED BY <2>5, <4>1, <4>2, <4>3, <4>4 DEF Cascade
    <3>7. ASSUME NEW a \in ToSet(agenda')
          PROVE  /\ a.kind = "set" => <<a.id[1], a.i>> \in N
                 /\ a.kind = "wake" => Base(log', a).op = "cvar" /\ NackName(Base(log', a).on) \in N
      <4>1. CASE a \in S
        BY <2>4, <3>6, <4>1
      <4>2. CASE a \in ToSet(agenda)
        <5>1. Base(log', a) = Base(log, a)
          BY <1>2, <2>6, <4>2 DEF ReqsKept, Base
        <5>2. /\ a.kind = "set" => <<a.id[1], a.i>> \in N
              /\ a.kind = "wake" => Base(log, a).op = "cvar" /\ NackName(Base(log, a).on) \in N
          BY <2>11, <4>2 DEF Within
        <5> QED BY <5>1, <5>2
      <4> QED BY <2>3, <4>1, <4>2 DEF GoesOn
    <3>8. \A k \in DOMAIN Rec(log', x.id).req.evts :
             Rec(log', x.id).req.evts[k].op = "cvar" => NackName(Rec(log', x.id).req.evts[k].on) \notin N
      BY <2>11, <3>2 DEF Within
    <3>9. Cascade(prog, N)
      BY <2>11 DEF Within
    <3>10. Within(prog, log', agenda', N, x)
      BY <3>7, <3>8, <3>9 DEF Within
    <3>11. x.id \in live'
      BY <1>5, <2>1, <2>11, <3>5
    <3> QED BY <3>1, <3>10, <3>11
  <2>12. PartnerOK(prog, log', live', agenda', inQ, outQ)
    <3>1. \A a \in S : a.kind # "do"
      BY <2>4
    <3> QED BY <1>2, <1>3, <2>3, <2>6, <2>11, <3>1, StandsOnward
  <2>13. /\ Programmed(prog', log') /\ Resting(log', phase') /\ Known(log', cvar') /\ failure' = "none"
         /\ Nacking(log', cvar', agenda') /\ PartnerOK(prog', log', live', agenda', inQ', outQ')
    BY <1>1, <1>3, <2>3, <2>6, <2>8, <2>9, <2>10, <2>12
  <2> QED BY <2>13 DEF SInv
<1> QED BY <1>1, <1>4, <1>5

\* doFnSend and doFnRecv preserve the second invariant: the partner stands.
LEMMA DoSafe ==
    ASSUME TypeOK, RegionOK, SInv, doFnSend \/ doFnRecv, prog' = prog
    PROVE  SInv'
<1>1. PICK h : \E x \in Items :
              /\ h.kind = "do" /\ ToSet(agenda) = {h} /\ Choice(log, h.id, h.i)
              /\ Base(log, h).op \in {"send", "recv"} /\ x = Partner(log, inQ, outQ, h)
              /\ x.id \in live =>
                    /\ Choice(log, x.id, x.i) /\ x.id # h.id
                    /\ log' = Commit(Commit(log, h.id, h.i), x.id, x.i)
                    /\ phase' = [phase EXCEPT ![h.id[1]] = "run", ![x.id[1]] = "run"]
                    /\ cvar' = cvar /\ failure' = failure
                    /\ \A a \in ToSet(agenda') : a.kind = "set"
  BY DoFacts
<1>20. PICK x \in Items :
              /\ h.kind = "do" /\ ToSet(agenda) = {h} /\ Choice(log, h.id, h.i)
              /\ Base(log, h).op \in {"send", "recv"} /\ x = Partner(log, inQ, outQ, h)
              /\ x.id \in live =>
                    /\ Choice(log, x.id, x.i) /\ x.id # h.id
                    /\ log' = Commit(Commit(log, h.id, h.i), x.id, x.i)
                    /\ phase' = [phase EXCEPT ![h.id[1]] = "run", ![x.id[1]] = "run"]
                    /\ cvar' = cvar /\ failure' = failure
                    /\ \A a \in ToSet(agenda') : a.kind = "set"
  BY <1>1
<1>2. /\ failure = "none" /\ Programmed(prog, log) /\ Resting(log, phase)
      /\ Known(log, cvar) /\ PartnerOK(prog, log, live, agenda, inQ, outQ)
  BY DEF SInv
<1>3. x.id \in live
  BY <1>20, <1>2 DEF PartnerOK, Stands
<1>4. PICK id, i, a, n : id = h.id /\ i = h.i /\ a = x.id /\ n = x.i
  OBVIOUS
<1>5. /\ Choice(log, id, i) /\ Choice(log, a, n) /\ a # id
      /\ log' = Commit(Commit(log, id, i), a, n)
      /\ phase' = [phase EXCEPT ![id[1]] = "run", ![a[1]] = "run"]
      /\ cvar' = cvar /\ failure' = failure
      /\ \A b \in ToSet(agenda') : b.kind = "set"
  BY <1>20, <1>3, <1>4
<1>6. /\ id \in In(log) /\ i \in Nat /\ i # 0 /\ id[2] = Len(log[id[1]]) /\ id[1] \in Threads
      /\ a \in In(log) /\ n \in Nat /\ n # 0 /\ a[2] = Len(log[a[1]]) /\ a[1] \in Threads
  BY <1>5 DEF Choice
<1>7. log \in Logs /\ phase \in [Threads -> {"run", "forced", "blocked"}]
  BY DEF TypeOK
<1>8. PICK k, ph : k = Commit(log, id, i) /\ ph = [phase EXCEPT ![id[1]] = "run"]
  OBVIOUS
<1>9. /\ ReqsKept(log, k) /\ k \in Logs /\ In(k) = In(log) /\ Programmed(prog, k)
      /\ ph \in [Threads -> {"run", "forced", "blocked"}]
  <2>1. /\ ReqsKept(log, k) /\ k \in Logs /\ In(k) = In(log) /\ Programmed(prog, k)
    BY <1>2, <1>6, <1>7, <1>8, CommitKeeps
  <2> QED BY <1>6, <1>7, <1>8, <2>1
<1>10. \A t \in Threads : Len(k[t]) = Len(log[t])
  BY <1>6, <1>7, <1>8, CommitProps
<1>11. Resting(k, ph)
  BY <1>2, <1>6, <1>7, <1>8, CommitRests
<1>12. log' = Commit(k, a, n) /\ a \in In(k) /\ a[2] = Len(k[a[1]]) /\ phase' = [ph EXCEPT ![a[1]] = "run"]
  BY <1>5, <1>6, <1>8, <1>9, <1>10
<1>13. ReqsKept(k, log') /\ Programmed(prog, log')
  BY <1>6, <1>9, <1>12, CommitKeeps
<1>14. Resting(Commit(k, a, n), phase')
  BY <1>6, <1>9, <1>11, <1>12, CommitRests
<1>15. ReqsKept(log, log')
  BY <1>9, <1>13 DEF ReqsKept
<1>16. Known(log', cvar)
  BY <1>2, <1>15, KnownKept
<1>17. /\ Programmed(prog', log') /\ Resting(log', phase') /\ Known(log', cvar') /\ failure' = "none"
  BY <1>2, <1>5, <1>12, <1>13, <1>14, <1>16
<1> QED BY <1>5, <1>17, OnlySets DEF SInv

\* doFnOther preserves the second invariant.
LEMMA OtherSafe ==
    ASSUME TypeOK, RegionOK, SInv, doFnOther, prog' = prog
    PROVE  SInv'
<1>1. PICK h : /\ h.kind = "do" /\ ToSet(agenda) = {h} /\ Choice(log, h.id, h.i)
               /\ Base(log, h).op \notin {"send", "recv"}
               /\ log' = Commit(log, h.id, h.i) /\ phase' = [phase EXCEPT ![h.id[1]] = "run"]
               /\ agenda' = <<>> /\ failure' = failure
               /\ \A v \in CVars : cvar'[v].set > 0 <=> cvar[v].set > 0
  BY OtherFacts
<1>2. /\ failure = "none" /\ Programmed(prog, log) /\ Resting(log, phase) /\ Known(log, cvar)
  BY DEF SInv
<1>3. PICK id, i : id = h.id /\ i = h.i
  OBVIOUS
<1>4. /\ id \in In(log) /\ i \in Nat /\ i # 0 /\ id[2] = Len(log[id[1]]) /\ id[1] \in Threads
  BY <1>1, <1>3 DEF Choice
<1>5. log \in Logs /\ phase \in [Threads -> {"run", "forced", "blocked"}]
  BY DEF TypeOK
<1>6. log' = Commit(log, id, i) /\ phase' = [phase EXCEPT ![id[1]] = "run"]
  BY <1>1, <1>3
<1>7. ReqsKept(log, log') /\ Programmed(prog, log')
  BY <1>2, <1>4, <1>5, <1>6, CommitKeeps
<1>8. Resting(Commit(log, id, i), phase')
  BY <1>2, <1>4, <1>5, <1>6, CommitRests
<1>9. Known(log', cvar')
  BY <1>1, <1>2, <1>7, KnownKept
<1>10. \A a \in ToSet(agenda') : a.kind = "set"
  BY <1>1, EmptyAgenda
<1>11. /\ Programmed(prog', log') /\ Resting(log', phase') /\ Known(log', cvar') /\ failure' = "none"
  BY <1>1, <1>2, <1>6, <1>7, <1>8, <1>9
<1> QED BY <1>10, <1>11, OnlySets DEF SInv

\* The second invariant holds initially: nothing is logged.
LEMMA InitSafe ==
    ASSUME Init
    PROVE  SInv
<1>1. /\ log = [t \in Threads |-> <<>>] /\ failure = "none" /\ agenda = <<>>
      /\ cvar = [v \in CVars |-> [set |-> 0, waiting |-> <<>>]]
  BY DEF Init
<1>2. In(log) = {}
  BY <1>1 DEF In, Trans
<1>3. Programmed(prog, log) /\ Resting(log, phase)
  BY <1>2 DEF Programmed, Resting
<1>4. \A v \in CVars : ~ (cvar[v].set > 0)
  BY <1>1
<1>5. Known(log, cvar)
  BY <1>4 DEF Known
<1>6. \A a \in ToSet(agenda) : a.kind = "set"
  BY <1>1, EmptyAgenda
<1>7. Nacking(log, cvar, agenda) /\ PartnerOK(prog, log, live, agenda, inQ, outQ)
  BY <1>6, OnlySets
<1> QED BY <1>1, <1>3, <1>5, <1>7 DEF SInv

\* Every step preserves the second invariant when the programs are Separate.
LEMMA NextSafe ==
    ASSUME \A p \in Programs : Separate(p), IInv, SInv, [Next]_vars
    PROVE  SInv'
<1>1. CASE UNCHANGED vars
  <2>1. /\ prog' = prog /\ phase' = phase /\ log' = log /\ live' = live /\ inQ' = inQ /\ outQ' = outQ
        /\ cvar' = cvar /\ agenda' = agenda /\ failure' = failure
    BY <1>1 DEF vars
  <2> QED BY <2>1 DEF SInv
<1>2. CASE Next
  <2>1. TypeOK /\ RegionOK /\ prog' = prog
    BY <1>2 DEF IInv, SInv, Next
  <2>12. \A t \in Threads : \A e \in prog.direct[t] : e.on \in Chans
    <3>1. \A t \in Threads : prog.direct[t] \subseteq ChanEvents
      BY <2>1, EventAssumption DEF TypeOK
    <3> QED BY <3>1 DEF ChanEvents
  <2>2. CASE doSet
    BY <2>1, <2>2, SetSafe
  <2>3. CASE doWake
    BY <2>1, <2>3, WakeSafe
  <2>4. CASE doFnSend \/ doFnRecv
    BY <2>1, <2>4, DoSafe
  <2>5. CASE doFnOther
    BY <2>1, <2>5, OtherSafe
  <2>6. ASSUME NEW t \in Threads, NEW r \in prog.menu[t], force(t, r) PROVE SInv'
    BY <2>1, <2>6, ForceSafe
  <2>7. ASSUME NEW t \in Threads, syncReady(t) PROVE SInv'
    BY <2>1, <2>7, ReadySafe
  <2>8. ASSUME NEW t \in Threads, syncBlock(t) PROVE SInv'
    BY <2>1, <2>8, BlockSafe
  <2>9. ASSUME NEW t \in Threads, timeoutFires(t) PROVE SInv'
    BY <2>1, <2>9, TimeoutSafe
  <2>10. ASSUME NEW t \in Threads, NEW e \in prog.direct[t], e.op = "send", send(t, e.on) PROVE SInv'
    <3>1. e.on \in Chans
      BY <2>12
    <3>2. PICK op \in {"send", "recv"}, c \in Chans : op = "send" /\ c = e.on
      BY <3>1
    <3>3. /\ op = "send" => send(t, c)
          /\ op = "recv" => recv(t, c)
      BY <2>10, <3>2
    <3> QED BY <2>1, <3>3, DirectSafe
  <2>11. ASSUME NEW t \in Threads, NEW e \in prog.direct[t], e.op = "recv", recv(t, e.on) PROVE SInv'
    <3>1. e.on \in Chans
      BY <2>12
    <3>2. PICK op \in {"send", "recv"}, c \in Chans : op = "recv" /\ c = e.on
      BY <3>1
    <3>3. /\ op = "send" => send(t, c)
          /\ op = "recv" => recv(t, c)
      BY <2>11, <3>2
    <3> QED BY <2>1, <3>3, DirectSafe
  <2> QED BY <1>2, <2>2, <2>3, <2>4, <2>5, <2>6, <2>7, <2>8, <2>9, <2>10, <2>11 DEF Next, RegionStep
<1> QED BY <1>1, <1>2

\* When the programs are Separate, the partner of a decision stands until its
\* doFn takes it out of the queue, whatever the cascade of nacks in between.
THEOREM PartnersStand ==
    ASSUME \A p \in Programs : Separate(p)
    PROVE  Spec => [](IInv /\ SInv)
<1>1. Init => IInv /\ SInv
  BY InitInv, InitSafe
<1>2. IInv /\ SInv /\ [Next]_vars => (IInv /\ SInv)'
  BY NextInv, NextSafe
<1> QED BY <1>1, <1>2, PTL DEF Spec

\* No doFn finds its partner cancelled, and all commits are matched, for any
\* number of threads, channels and synchronizations and any Separate programs.
THEOREM AllMatched ==
    ASSUME \A p \in Programs : Separate(p)
    PROVE  Spec => []MatchedCommits
<1>1. IInv /\ SInv => MatchedCommits
  BY InvMatched DEF MatchedCommits, NoFailure, SInv
<1> QED BY <1>1, PartnersStand, PTL

-----------------------------------------------------------------------------
(* Event implements Rendezvous.  Logs are compared record by record, and    *)
(* the steps of Rendezvous are stated over two logs.                        *)

\* Two logs with the same records are equal.
LEMMA LogEqual ==
    ASSUME NEW l \in Logs, NEW m \in Logs, \A t \in Threads : Len(l[t]) = Len(m[t]),
           \A id \in In(l) : Rec(l, id) = Rec(m, id)
    PROVE  l = m
<1>1. l \in [Threads -> Seq(Records)] /\ m \in [Threads -> Seq(Records)]
  BY DEF Logs
<1>2. ASSUME NEW t \in Threads PROVE l[t] = m[t]
  <2>1. l[t] \in Seq(Records) /\ m[t] \in Seq(Records) /\ Len(l[t]) = Len(m[t])
        /\ Len(l[t]) <= MaxSync /\ MaxSync \in Nat /\ Len(l[t]) \in Nat
    BY <1>1, EventAssumption DEF Logs
  <2>2. ASSUME NEW n \in 1 .. Len(l[t]) PROVE l[t][n] = m[t][n]
    <3>1. PICK id : id = <<t, n>>
      OBVIOUS
    <3>2. id \in In(l) /\ id[1] = t /\ id[2] = n
      BY <2>1, <2>2, <3>1 DEF In, Trans
    <3> QED BY <3>2 DEF Rec
  <2> QED BY <2>1, <2>2
<1> QED BY <1>1, <1>2

\* Commits of different synchronizations commute.
LEMMA CommitSwap ==
    ASSUME NEW l \in Logs, NEW a \in In(l), NEW b \in In(l), a # b, NEW i \in Nat, NEW j \in Nat
    PROVE  Commit(Commit(l, a, i), b, j) = Commit(Commit(l, b, j), a, i)
<1>1. PICK la : la = Commit(l, a, i)
  OBVIOUS
<1>2. PICK lb : lb = Commit(l, b, j)
  OBVIOUS
<1>3. PICK m : m = Commit(la, b, j)
  OBVIOUS
<1>4. PICK n : n = Commit(lb, a, i)
  OBVIOUS
<1>5. /\ la \in Logs /\ In(la) = In(l) /\ Rec(la, a) = [req |-> Rec(l, a).req, won |-> i]
      /\ \A c \in In(l) : c # a => Rec(la, c) = Rec(l, c)
      /\ \A t \in Threads : Len(la[t]) = Len(l[t])
  BY <1>1, CommitProps
<1>6. /\ lb \in Logs /\ In(lb) = In(l) /\ Rec(lb, b) = [req |-> Rec(l, b).req, won |-> j]
      /\ \A c \in In(l) : c # b => Rec(lb, c) = Rec(l, c)
      /\ \A t \in Threads : Len(lb[t]) = Len(l[t])
  BY <1>2, CommitProps
<1>12. b \in In(la) /\ a \in In(lb)
  BY <1>5, <1>6
<1>7. /\ m \in Logs /\ In(m) = In(la) /\ Rec(m, b) = [req |-> Rec(la, b).req, won |-> j]
      /\ \A c \in In(la) : c # b => Rec(m, c) = Rec(la, c)
      /\ \A t \in Threads : Len(m[t]) = Len(la[t])
  BY <1>3, <1>5, <1>12, CommitProps, ZenonT(60)
<1>8. /\ n \in Logs /\ In(n) = In(lb) /\ Rec(n, a) = [req |-> Rec(lb, a).req, won |-> i]
      /\ \A c \in In(lb) : c # a => Rec(n, c) = Rec(lb, c)
      /\ \A t \in Threads : Len(n[t]) = Len(lb[t])
  BY <1>4, <1>6, <1>12, CommitProps, ZenonT(60)
<1>9. \A t \in Threads : Len(m[t]) = Len(n[t])
  BY <1>5, <1>6, <1>7, <1>8
<1>10. \A c \in In(m) : Rec(m, c) = Rec(n, c)
  BY <1>5, <1>6, <1>7, <1>8
<1>11. m = n
  BY <1>7, <1>8, <1>9, <1>10, LogEqual
<1> QED BY <1>1, <1>2, <1>3, <1>4, <1>11

\* the log when the doFn d is taken as done
Done(l, iq, oq, d) ==
    IF Base(l, d).op \in {"send", "recv"}
    THEN Commit(Commit(l, d.id, d.i), Partner(l, iq, oq, d).id, Partner(l, iq, oq, d).i)
    ELSE Commit(l, d.id, d.i)

Bar(l, ag, iq, oq) ==
    LET P == {k \in DOMAIN ag : ag[k].kind = "do"}
    IN  IF P = {} THEN l ELSE Done(l, iq, oq, ag[CHOOSE k \in P : TRUE])

\* The refinement mapping over explicit state.
LEMMA BarIsLogBar ==
    /\ LogBar = Bar(log, agenda, inQ, outQ)
    /\ LogBar' = Bar(log', agenda', inQ', outQ')
BY DEF LogBar, Bar, Done, Partner, Base, Pending, Evt, Sync, Rec

\* Without a doFn on the agenda the log is as it stands.
LEMMA BarNone ==
    ASSUME NEW ag \in Seq(Tasks), \A a \in ToSet(ag) : a.kind # "do", NEW l, NEW iq, NEW oq
    PROVE  Bar(l, ag, iq, oq) = l
<1>1. {k \in DOMAIN ag : ag[k].kind = "do"} = {}
  BY DEF ToSet
<1> QED BY <1>1 DEF Bar

\* With one, its decision counts as committed.
LEMMA BarDo ==
    ASSUME NEW ag \in Seq(Tasks), Orderly(ag), NEW d \in ToSet(ag), d.kind = "do", NEW l, NEW iq, NEW oq
    PROVE  Bar(l, ag, iq, oq) = Done(l, iq, oq, d)
<1>1. PICK P : P = {k \in DOMAIN ag : ag[k].kind = "do"}
  OBVIOUS
<1>2. PICK k \in DOMAIN ag : ag[k] = d
  BY DEF ToSet
<1>3. k \in P /\ \A n \in P : n = Len(ag)
  BY <1>1, <1>2 DEF Orderly
<1>4. P = {k}
  BY <1>3
<1>5. (CHOOSE n \in P : TRUE) = k
  BY <1>4
<1>6. Bar(l, ag, iq, oq) = IF P = {} THEN l ELSE Done(l, iq, oq, ag[CHOOSE n \in P : TRUE])
  BY <1>1 DEF Bar
<1> QED BY <1>2, <1>3, <1>5, <1>6

Open(l, id) == id \in In(l) /\ Rec(l, id).won = 0

Meeting(l, m) ==
    \E s, r \in In(l) :
        /\ Open(l, s) /\ Open(l, r) /\ s[1] # r[1]
        /\ \E i \in DOMAIN Rec(l, s).req.evts, j \in DOMAIN Rec(l, r).req.evts :
              /\ Rec(l, s).req.evts[i].op = "send" /\ Rec(l, r).req.evts[j].op = "recv"
              /\ Rec(l, s).req.evts[i].on = Rec(l, r).req.evts[j].on
              /\ m = Commit(Commit(l, s, i), r, j)

\* the nack v is enabled
Sounded(l, v) ==
    LET s == l[v[1]][v[2]] IN s.won # 0 /\ s.won \notin s.req.nacks[v[3]]

Single(l, m) ==
    \E id \in In(l) : \E i \in DOMAIN Rec(l, id).req.evts :
        /\ Open(l, id)
        /\ \/ Rec(l, id).req.evts[i].op \in {"always", "timeout"}
           \/ Rec(l, id).req.evts[i].op = "cvar" /\ Sounded(l, Rec(l, id).req.evts[i].on)
        /\ m = Commit(l, id, i)

\* k is l with a new synchronization of t, and m is k, or k after a meeting
Started(l, m) ==
    \E t \in Threads, r \in Records : \E k :
        /\ r.won = 0 /\ Len(l[t]) < MaxSync /\ Extended(l, k, t, r)
        /\ l[t] # <<>> => l[t][Len(l[t])].won # 0
        /\ Len(m[t]) = Len(k[t]) /\ m[t][Len(m[t])].req = r.req
        /\ m = k \/ Meeting(k, m)

Steps(l, m) == m = l \/ Meeting(l, m) \/ Single(l, m) \/ Started(l, m)

\* The ids of a log, as Rendezvous writes them.
LEMMA SameIds ==
    ASSUME NEW l \in Logs
    PROVE  Abs!Ids(l) = In(l)
<1>1. \A t \in Threads : /\ l[t] \in Seq(Records) /\ Len(l[t]) <= MaxSync /\ Len(l[t]) \in Nat
                         /\ DOMAIN l[t] = 1 .. Len(l[t])
  BY DEF Logs
<1>2. ASSUME NEW id \in Abs!Ids(l) PROVE id \in In(l)
  <2>1. PICK t \in Threads : \E n \in DOMAIN l[t] : id = <<t, n>>
    BY <1>2 DEF Abs!Ids
  <2>2. PICK n \in DOMAIN l[t] : id = <<t, n>>
    BY <2>1
  <2>3. n \in 1 .. MaxSync /\ n <= Len(l[t])
    BY <1>1, <2>2, EventAssumption
  <2> QED BY <2>2, <2>3 DEF In, Trans
<1>3. ASSUME NEW id \in In(l) PROVE id \in Abs!Ids(l)
  <2>1. id[1] \in Threads /\ id[2] \in 1 .. Len(l[id[1]]) /\ id = <<id[1], id[2]>>
    BY <1>3, LogShape
  <2>2. id[2] \in DOMAIN l[id[1]]
    BY <1>1, <2>1
  <2> QED BY <2>1, <2>2 DEF Abs!Ids
<1> QED BY <1>2, <1>3

\* A meeting is a Meet of Rendezvous.
LEMMA MeetingIsMeet ==
    ASSUME NEW l \in Logs, Meeting(l, LogBar')
    PROVE  Abs!Meet(l)
<1>1. PICK s \in In(l), r \in In(l) :
        /\ Open(l, s) /\ Open(l, r) /\ s[1] # r[1]
        /\ \E i \in DOMAIN Rec(l, s).req.evts, j \in DOMAIN Rec(l, r).req.evts :
              /\ Rec(l, s).req.evts[i].op = "send" /\ Rec(l, r).req.evts[j].op = "recv"
              /\ Rec(l, s).req.evts[i].on = Rec(l, r).req.evts[j].on
              /\ LogBar' = Commit(Commit(l, s, i), r, j)
  BY DEF Meeting
<1>2. s \in Abs!Undecided(l) /\ r \in Abs!Undecided(l)
  BY <1>1, SameIds DEF Abs!Undecided, Open, Rec, Abs!At
<1>3. \A a : Abs!Evts(l, a) = Rec(l, a).req.evts
  BY DEF Abs!Evts, Abs!At, Rec
<1>4. \A k, a, i : Abs!Decide(k, a, i) = Commit(k, a, i)
  BY DEF Abs!Decide, Commit
<1> QED BY <1>1, <1>2, <1>3, <1>4 DEF Abs!Meet

\* An event that needs no partner is decided Alone.
LEMMA SingleIsAlone ==
    ASSUME NEW l \in Logs, Single(l, LogBar')
    PROVE  Abs!Alone(l)
<1>1. PICK id \in In(l) : \E i \in DOMAIN Rec(l, id).req.evts :
        /\ Open(l, id)
        /\ \/ Rec(l, id).req.evts[i].op \in {"always", "timeout"}
           \/ Rec(l, id).req.evts[i].op = "cvar" /\ Sounded(l, Rec(l, id).req.evts[i].on)
        /\ LogBar' = Commit(l, id, i)
  BY DEF Single
<1>2. id \in Abs!Undecided(l)
  BY <1>1, SameIds DEF Abs!Undecided, Open, Rec, Abs!At
<1>3. \A a : Abs!Evts(l, a) = Rec(l, a).req.evts
  BY DEF Abs!Evts, Abs!At, Rec
<1>4. \A k, a, i : Abs!Decide(k, a, i) = Commit(k, a, i)
  BY DEF Abs!Decide, Commit
<1>5. \A v : Abs!Nacked(l, v) <=> Sounded(l, v)
  BY DEF Abs!Nacked, Sounded
<1> QED BY <1>1, <1>2, <1>3, <1>4, <1>5 DEF Abs!Alone

\* A synchronization that begins makes a log, one longer for its thread.
LEMMA ExtendedLog ==
    ASSUME NEW l \in Logs, NEW t \in Threads, Len(l[t]) < MaxSync, NEW r \in Records, NEW m,
           Extended(l, m, t, r)
    PROVE  m \in Logs /\ Len(m[t]) = Len(l[t]) + 1
<1>1. /\ m \in Logs
      /\ In(m) = In(l) \cup {<<t, Len(l[t]) + 1>>}
      /\ Rec(m, <<t, Len(l[t]) + 1>>) = r
      /\ \A a \in In(l) : Rec(m, a) = Rec(l, a)
      /\ Len(m[t]) = Len(l[t]) + 1 /\ \A u \in Threads : u # t => m[u] = l[u]
  BY ExtendProps
<1> QED BY <1>1

\* A synchronization that begins is Offered.
LEMMA StartedBegins ==
    ASSUME LogBar \in Logs, LogBar' \in Logs, Started(LogBar, LogBar')
    PROVE  \E t \in Threads : Abs!Begins(t) /\ (LogBar' = Abs!Offered(t) \/ Abs!Meet(Abs!Offered(t)))
<1>1. PICK t \in Threads, r \in Records : \E k :
        /\ r.won = 0 /\ Len(LogBar[t]) < MaxSync /\ Extended(LogBar, k, t, r)
        /\ LogBar[t] # <<>> => LogBar[t][Len(LogBar[t])].won # 0
        /\ Len(LogBar'[t]) = Len(k[t]) /\ LogBar'[t][Len(LogBar'[t])].req = r.req
        /\ LogBar' = k \/ Meeting(k, LogBar')
  BY DEF Started
<1>2. PICK k :
        /\ r.won = 0 /\ Len(LogBar[t]) < MaxSync /\ Extended(LogBar, k, t, r)
        /\ LogBar[t] # <<>> => LogBar[t][Len(LogBar[t])].won # 0
        /\ Len(LogBar'[t]) = Len(k[t]) /\ LogBar'[t][Len(LogBar'[t])].req = r.req
        /\ LogBar' = k \/ Meeting(k, LogBar')
  BY <1>1
<1>3. k \in Logs /\ Len(k[t]) = Len(LogBar[t]) + 1
  <2>1. PICK b \in Logs : b = LogBar
    OBVIOUS
  <2>2. Len(b[t]) < MaxSync /\ Extended(b, k, t, r)
    BY <1>2, <2>1
  <2>3. k \in Logs /\ Len(k[t]) = Len(b[t]) + 1
    BY <2>2, ExtendedLog
  <2> QED BY <2>1, <2>3
<1>4. Abs!Begins(t)
  BY <1>2, <1>3 DEF Abs!Begins
<1>5. LogBar'[t][Len(LogBar'[t])] \in Records
  <2>1. LogBar'[t] \in Seq(Records) /\ LogBar[t] \in Seq(Records)
    BY DEF Logs
  <2>2. Len(LogBar'[t]) \in 1 .. Len(LogBar'[t])
    BY <1>2, <1>3, <2>1
  <2> QED BY <2>1, <2>2
<1>6. PICK w \in Records : w = LogBar'[t][Len(LogBar'[t])]
  BY <1>5
<1>7. [w EXCEPT !.won = 0] = r
  <2>1. w.req = r.req /\ r.won = 0
    BY <1>2, <1>6
  <2> QED BY <2>1 DEF Records
<1>8. Abs!Offered(t) = k
  BY <1>2, <1>6, <1>7 DEF Abs!Offered, Extended
<1> QED BY <1>2, <1>3, <1>4, <1>8, MeetingIsMeet

\* Every step over the two logs is a step of Rendezvous, or a stutter.
LEMMA StepsRefine ==
    ASSUME LogBar \in Logs, LogBar' \in Logs, Steps(LogBar, LogBar')
    PROVE  [Abs!Next]_LogBar
<1>1. CASE LogBar' = LogBar
  BY <1>1
<1>2. CASE Meeting(LogBar, LogBar')
  BY <1>2, MeetingIsMeet DEF Abs!Next
<1>3. CASE Single(LogBar, LogBar')
  BY <1>3, SingleIsAlone DEF Abs!Next
<1>4. CASE Started(LogBar, LogBar')
  BY <1>4, StartedBegins DEF Abs!Next
<1> QED BY <1>1, <1>2, <1>3, <1>4 DEF Steps

\* Two undecided synchronizations that commit to opposite events meet,
\* whichever of them is the sender.
LEMMA PairMeets ==
    ASSUME NEW l \in Logs, NEW a \in In(l), NEW b \in In(l), Rec(l, a).won = 0, Rec(l, b).won = 0,
           a[1] # b[1], NEW i \in DOMAIN Rec(l, a).req.evts, NEW j \in DOMAIN Rec(l, b).req.evts,
           i \in Nat, j \in Nat, NEW e, e = Rec(l, a).req.evts[i], e.op \in {"send", "recv"},
           Rec(l, b).req.evts[j] = Opposite(e), NEW m, m = Commit(Commit(l, a, i), b, j)
    PROVE  Meeting(l, m)
<1>1. Open(l, a) /\ Open(l, b) /\ a # b
  BY DEF Open
<1>2. PICK f : f = Rec(l, b).req.evts[j]
  OBVIOUS
<1>3. f.on = e.on /\ (e.op = "send" => f.op = "recv") /\ (e.op = "recv" => f.op = "send")
  BY <1>2 DEF Opposite
<1>4. CASE e.op = "send"
  BY <1>1, <1>2, <1>3, <1>4 DEF Meeting
<1>5. CASE e.op = "recv"
  <2>1. m = Commit(Commit(l, b, j), a, i)
    BY <1>1, CommitSwap
  <2> QED BY <1>1, <1>2, <1>3, <1>5, <2>1 DEF Meeting
<1> QED BY <1>4, <1>5

\* A cvar that is set is the nack of a synchronization that is decided for
\* another event.
LEMMA SetDecided ==
    ASSUME TypeOK, RegionOK, Known(log, cvar), NEW v \in CVars, cvar[v].set > 0
    PROVE  \E a \in In(log), k \in Nat :
              /\ a = <<v[1], v[2]>> /\ a[1] = v[1] /\ a[2] = v[2]
              /\ Decided(a, k) /\ k \notin Rec(log, a).req.nacks[v[3]]
<1>1. PICK a : a = <<v[1], v[2]>>
  OBVIOUS
<1>2. a \in In(log) /\ v[3] \in DOMAIN Rec(log, a).req.nacks /\ a[1] = v[1] /\ a[2] = v[2]
  BY <1>1 DEF Known
<1>3. Syncs = In(log) /\ Sync(a) = Rec(log, a)
  BY DEF Syncs, In, Sync, Rec
<1>4. PICK j : j = v[3]
  OBVIOUS
<1>5. v = <<a[1], a[2], j>>
  BY <1>2, <1>4 DEF CVars
<1>6. \E k \in Nat : Decided(a, k) /\ k \notin Sync(a).req.nacks[j]
  <2>1. cvar[<<a[1], a[2], j>>].set > 0
    BY <1>5
  <2>2. a \in Syncs /\ j \in DOMAIN Sync(a).req.nacks
    BY <1>2, <1>3, <1>4
  <2> QED BY <2>1, <2>2 DEF RegionOK, NacksOK
<1> QED BY <1>1, <1>2, <1>3, <1>4, <1>6

\* Outside of a pending decision, the loss is in the log.
LEMMA SetSounds ==
    ASSUME TypeOK, RegionOK, Known(log, cvar), NEW v \in CVars, cvar[v].set > 0,
           \A a \in ToSet(agenda) : a.kind # "do"
    PROVE  Sounded(log, v)
<1>1. PICK a \in In(log), k \in Nat :
              /\ a = <<v[1], v[2]>> /\ a[1] = v[1] /\ a[2] = v[2]
              /\ Decided(a, k) /\ k \notin Rec(log, a).req.nacks[v[3]]
  BY SetDecided
<1>2. DoFn(a, k) \notin ToSet(agenda)
  BY DEF DoFn
<1>3. k # 0 /\ Rec(log, a).won = k
  BY <1>1, <1>2 DEF Decided, Sync, Rec
<1>4. Rec(log, a) = log[v[1]][v[2]]
  BY <1>1 DEF Rec
<1> QED BY <1>1, <1>3, <1>4 DEF Sounded

\* Outside a region the log is as it stands.
LEMMA BarEmpty == \A l, iq, oq : Bar(l, <<>>, iq, oq) = l
<1>1. <<>> \in Seq(Tasks)
  OBVIOUS
<1>2. \A a \in ToSet(<<>>) : a.kind # "do"
  BY EmptyAgenda
<1> QED BY <1>1, <1>2, BarNone

\* The last synchronization of a thread that runs is decided.
LEMMA RunningDecided ==
    ASSUME NEW l \in Logs, NEW ph, Resting(l, ph), NEW t \in Threads, ph[t] = "run", l[t] # <<>>
    PROVE  l[t][Len(l[t])].won # 0
<1>1. l[t] \in Seq(Records) /\ Len(l[t]) <= MaxSync
  BY DEF Logs
<1>2. PICK id : id = <<t, Len(l[t])>>
  OBVIOUS
<1>3. Len(l[t]) \in 1 .. MaxSync
  BY <1>1, EventAssumption
<1>4. id \in In(l) /\ id[1] = t
  BY <1>2, <1>3 DEF In, Trans
<1>5. Rec(l, id).won # 0
  BY <1>4 DEF Resting
<1> QED BY <1>2, <1>5 DEF Rec

\* The last synchronization of a thread that begins one.
LEMMA ExtendedLast ==
    ASSUME NEW l \in Logs, NEW t \in Threads, Len(l[t]) < MaxSync, NEW r \in Records, NEW m,
           Extended(l, m, t, r)
    PROVE  m[t][Len(m[t])] = r
<1>1. /\ m \in Logs
      /\ In(m) = In(l) \cup {<<t, Len(l[t]) + 1>>}
      /\ Rec(m, <<t, Len(l[t]) + 1>>) = r
      /\ \A a \in In(l) : Rec(m, a) = Rec(l, a)
      /\ Len(m[t]) = Len(l[t]) + 1 /\ \A u \in Threads : u # t => m[u] = l[u]
  BY ExtendProps
<1> QED BY <1>1 DEF Rec

\* force begins a synchronization.
LEMMA ForceSteps ==
    ASSUME TypeOK, SInv, NEW t \in Threads, NEW r \in prog.menu[t], force(t, r)
    PROVE  Steps(Bar(log, agenda, inQ, outQ), Bar(log', agenda', inQ', outQ'))
<1>1. PICK rec \in Records :
              /\ rec.won = 0 /\ Stems(rec.req, r) /\ Extended(log, log', t, rec)
              /\ phase[t] = "run" /\ Len(log[t]) < MaxSync /\ agenda = <<>> /\ agenda' = <<>>
              /\ phase'[t] # "run" /\ \A u \in Threads : u # t => phase'[u] = phase[u]
              /\ cvar' = cvar /\ failure' = failure
  BY ForceFacts
<1>2. log \in Logs /\ Resting(log, phase)
  BY DEF TypeOK, SInv
<1>3. PICK l, m : l = log /\ m = log'
  OBVIOUS
<1>4. l \in Logs /\ Extended(l, m, t, rec) /\ Len(l[t]) < MaxSync /\ rec.won = 0
  BY <1>1, <1>2, <1>3
<1>5. l[t] # <<>> => l[t][Len(l[t])].won # 0
  BY <1>1, <1>2, <1>3, RunningDecided
<1>6. m[t][Len(m[t])] = rec
  BY <1>4, ExtendedLast
<1>7. Started(l, m)
  BY <1>4, <1>5, <1>6 DEF Started
<1>8. Bar(log, agenda, inQ, outQ) = l /\ Bar(log', agenda', inQ', outQ') = m
  BY <1>1, <1>3, BarEmpty
<1> QED BY <1>7, <1>8 DEF Steps

\* syncReady takes the decision: with the partner polled, or alone.
LEMMA ReadySteps ==
    ASSUME TypeOK, RegionOK, SInv, NEW t \in Threads, syncReady(t), Orderly(agenda')
    PROVE  Steps(Bar(log, agenda, inQ, outQ), Bar(log', agenda', inQ', outQ'))
<1>1. PICK id \in In(log), i \in Nat :
              LET e == Rec(log, id).req.evts[i] IN
              /\ id[1] = t /\ id[2] = Len(log[t]) /\ Rec(log, id).won = 0
              /\ i # 0 /\ i \in DOMAIN Rec(log, id).req.evts /\ e \in Events(CVars)
              /\ agenda = <<>> /\ agenda' \in Seq(Tasks)
              /\ ToSet(agenda') = {Set(id, j) : j \in Lost(Rec(log, id).req, i)} \cup {DoFn(id, i)}
              /\ log' = log /\ live' = live /\ phase' = phase /\ failure' = failure
              /\ \A v \in CVars : cvar'[v].set > 0 <=> cvar[v].set > 0
              /\ e.op = "send" => e.on \in Chans /\ Met(log, live, t, e, Head(inQ'[e.on]))
              /\ e.op = "recv" => e.on \in Chans /\ Met(log, live, t, e, Head(outQ'[e.on]))
              /\ e.op = "cvar" => e.on \in CVars /\ cvar[e.on].set > 0
              /\ e.op # "timeout"
  BY ReadyFacts
<1>2. PICK e : e = Rec(log, id).req.evts[i]
  OBVIOUS
<1>3. PICK l, iq, oq : l = log /\ iq = inQ' /\ oq = outQ'
  OBVIOUS
<1>4. /\ l \in Logs /\ id \in In(l) /\ id[1] = t /\ Rec(l, id).won = 0 /\ i \in DOMAIN Rec(l, id).req.evts
      /\ e = Rec(l, id).req.evts[i] /\ e \in Events(CVars) /\ log' = l
      /\ e.op = "send" => Met(l, live, t, e, Head(iq[e.on]))
      /\ e.op = "recv" => Met(l, live, t, e, Head(oq[e.on]))
      /\ e.op = "cvar" => e.on \in CVars /\ cvar[e.on].set > 0
      /\ e.op # "timeout"
  BY <1>1, <1>2, <1>3 DEF TypeOK
<1>5. PICK d : d = DoFn(id, i)
  OBVIOUS
<1>6. d \in ToSet(agenda') /\ d.kind = "do" /\ d.id = id /\ d.i = i /\ Base(l, d) = e
  BY <1>1, <1>2, <1>3, <1>5 DEF DoFn, Base
<1>7. Bar(l, agenda', iq, oq) = Done(l, iq, oq, d)
  BY <1>1, <1>6, BarDo
<1>8. Bar(log, agenda, inQ, outQ) = l
  BY <1>1, <1>3, BarEmpty
<1>9. CASE e.op \in {"send", "recv"}
  <2>1. PICK x : x = Partner(l, iq, oq, d)
    OBVIOUS
  <2>2. Met(l, live, t, e, x)
    BY <1>4, <1>6, <1>9, <2>1 DEF Partner
  <2>3. /\ x.id \in In(l) /\ Rec(l, x.id).won = 0 /\ x.id[1] # t
        /\ x.i \in DOMAIN Rec(l, x.id).req.evts /\ Rec(l, x.id).req.evts[x.i] = Opposite(e)
        /\ x.i \in Nat
    BY <2>2 DEF Met, Base, Items
  <2>4. PICK b, j : b = x.id /\ j = x.i
    OBVIOUS
  <2>5. PICK m : m = Commit(Commit(l, id, i), b, j)
    OBVIOUS
  <2>6. Meeting(l, m)
    BY <1>1, <1>4, <1>9, <2>3, <2>4, <2>5, PairMeets
  <2>7. Done(l, iq, oq, d) = m
    BY <1>6, <1>9, <2>1, <2>4, <2>5 DEF Done
  <2> QED BY <1>3, <1>4, <1>7, <1>8, <2>6, <2>7 DEF Steps
<1>10. CASE e.op \notin {"send", "recv"}
  <2>1. e.op = "always" \/ e.op = "cvar"
    BY <1>4, <1>10 DEF Events, ChanEvents
  <2>2. e.op = "cvar" => Sounded(l, e.on)
    <3>1. \A a \in ToSet(agenda) : a.kind # "do"
      BY <1>1, EmptyAgenda
    <3>2. Known(log, cvar)
      BY DEF SInv
    <3> QED BY <1>3, <1>4, <3>1, <3>2, SetSounds
  <2>3. Single(l, Commit(l, id, i))
    BY <1>4, <2>1, <2>2 DEF Single, Open
  <2>4. Done(l, iq, oq, d) = Commit(l, id, i)
    BY <1>6, <1>10 DEF Done
  <2> QED BY <1>3, <1>4, <1>7, <1>8, <2>3, <2>4 DEF Steps
<1> QED BY <1>9, <1>10

\* syncBlock decides nothing.
LEMMA BlockSteps ==
    ASSUME TypeOK, NEW t \in Threads, syncBlock(t)
    PROVE  Steps(Bar(log, agenda, inQ, outQ), Bar(log', agenda', inQ', outQ'))
<1>1. log' = log /\ agenda = <<>> /\ agenda' = <<>>
  BY BlockFacts
<1> QED BY <1>1, BarEmpty DEF Steps

\* timeoutFires decides nothing yet: the waiter is still to be woken.
LEMMA TimeoutSteps ==
    ASSUME TypeOK, RegionOK, NEW t \in Threads, timeoutFires(t), agenda' \in Seq(Tasks)
    PROVE  Steps(Bar(log, agenda, inQ, outQ), Bar(log', agenda', inQ', outQ'))
<1>1. /\ log' = log /\ agenda = <<>>
      /\ \A a \in ToSet(agenda') : a.kind = "wake"
  BY TimeoutFacts
<1>2. \A a \in ToSet(agenda') : a.kind # "do"
  BY <1>1
<1>3. Bar(log', agenda', inQ', outQ') = log'
  BY <1>1, <1>2, BarNone
<1> QED BY <1>1, <1>3, BarEmpty DEF Steps

\* A doFn carries out what was decided.
LEMMA DoSteps ==
    ASSUME TypeOK, RegionOK, SInv, doFnSend \/ doFnRecv, agenda' \in Seq(Tasks)
    PROVE  Steps(Bar(log, agenda, inQ, outQ), Bar(log', agenda', inQ', outQ'))
<1>1. PICK h : \E x \in Items :
              /\ h.kind = "do" /\ ToSet(agenda) = {h} /\ Choice(log, h.id, h.i)
              /\ Base(log, h).op \in {"send", "recv"} /\ x = Partner(log, inQ, outQ, h)
              /\ x.id \in live =>
                    /\ Choice(log, x.id, x.i) /\ x.id # h.id
                    /\ log' = Commit(Commit(log, h.id, h.i), x.id, x.i)
                    /\ phase' = [phase EXCEPT ![h.id[1]] = "run", ![x.id[1]] = "run"]
                    /\ cvar' = cvar /\ failure' = failure
                    /\ \A a \in ToSet(agenda') : a.kind = "set"
  BY DoFacts
<1>2. PICK x \in Items :
              /\ h.kind = "do" /\ ToSet(agenda) = {h}
              /\ Base(log, h).op \in {"send", "recv"} /\ x = Partner(log, inQ, outQ, h)
              /\ x.id \in live =>
                    /\ log' = Commit(Commit(log, h.id, h.i), x.id, x.i)
                    /\ \A a \in ToSet(agenda') : a.kind = "set"
  BY <1>1
<1>3. x.id \in live
  BY <1>2 DEF SInv, PartnerOK, Stands
<1>4. agenda \in Seq(Tasks) /\ Orderly(agenda) /\ h \in ToSet(agenda)
  BY <1>2 DEF TypeOK, RegionOK
<1>5. Bar(log, agenda, inQ, outQ) = Done(log, inQ, outQ, h)
  BY <1>2, <1>4, BarDo
<1>6. Done(log, inQ, outQ, h) = log'
  BY <1>2, <1>3 DEF Done
<1>7. \A a \in ToSet(agenda') : a.kind # "do"
  BY <1>2, <1>3
<1>8. Bar(log', agenda', inQ', outQ') = log'
  BY <1>7, BarNone
<1> QED BY <1>5, <1>6, <1>8 DEF Steps

\* doFnOther carries out what was decided.
LEMMA OtherSteps ==
    ASSUME TypeOK, RegionOK, doFnOther
    PROVE  Steps(Bar(log, agenda, inQ, outQ), Bar(log', agenda', inQ', outQ'))
<1>1. PICK h : /\ h.kind = "do" /\ ToSet(agenda) = {h}
               /\ Base(log, h).op \notin {"send", "recv"}
               /\ log' = Commit(log, h.id, h.i) /\ agenda' = <<>>
  BY OtherFacts
<1>2. agenda \in Seq(Tasks) /\ Orderly(agenda) /\ h \in ToSet(agenda)
  BY <1>1 DEF TypeOK, RegionOK
<1>3. Bar(log, agenda, inQ, outQ) = Done(log, inQ, outQ, h)
  BY <1>1, <1>2, BarDo
<1>4. Done(log, inQ, outQ, h) = log'
  BY <1>1 DEF Done
<1>5. Bar(log', agenda', inQ', outQ') = log'
  BY <1>1, BarEmpty
<1> QED BY <1>3, <1>4, <1>5 DEF Steps

\* A synchronization that begins and meets at once.
LEMMA OpenedMeets ==
    ASSUME NEW l \in Logs, NEW t \in Threads, Len(l[t]) < MaxSync, NEW r \in Records, r.won = 0,
           NEW m, Extended(l, m, t, r), l[t] # <<>> => l[t][Len(l[t])].won # 0,
           NEW i \in DOMAIN r.req.evts, i \in Nat, NEW e, e = r.req.evts[i], e.op \in {"send", "recv"},
           NEW L, NEW x, Met(l, L, t, e, x), NEW id, id = <<t, Len(l[t]) + 1>>,
           NEW k, k = Commit(Commit(m, id, i), x.id, x.i)
    PROVE  Started(l, k)
<1>1. /\ m \in Logs
      /\ In(m) = In(l) \cup {<<t, Len(l[t]) + 1>>}
      /\ Rec(m, <<t, Len(l[t]) + 1>>) = r
      /\ \A a \in In(l) : Rec(m, a) = Rec(l, a)
      /\ Len(m[t]) = Len(l[t]) + 1 /\ \A u \in Threads : u # t => m[u] = l[u]
  BY ExtendProps
<1>2. PICK b, j : b = x.id /\ j = x.i
  OBVIOUS
<1>3. /\ b \in In(l) /\ Rec(l, b).won = 0 /\ b[1] # t /\ j \in Nat
      /\ j \in DOMAIN Rec(l, b).req.evts /\ Rec(l, b).req.evts[j] = Opposite(e)
  BY <1>2 DEF Met, Base, Items
<1>4. id \in In(m) /\ id[1] = t /\ id[2] = Len(m[t]) /\ Rec(m, id) = r /\ b \in In(m) /\ Rec(m, b) = Rec(l, b)
  BY <1>1, <1>3
<1>5. k = Commit(Commit(m, id, i), b, j)
  BY <1>2
<1>6. Meeting(m, k)
  BY <1>1, <1>3, <1>4, <1>5, PairMeets
<1>7. PICK n : n = Commit(m, id, i)
  OBVIOUS
<1>8. n \in Logs /\ In(n) = In(m) /\ ReqsKept(m, n) /\ Len(n[t]) = Len(m[t])
  <2>1. n \in Logs /\ In(n) = In(m) /\ ReqsKept(m, n)
    BY <1>1, <1>4, <1>7, CommitKeeps, ZenonT(60)
  <2>2. \A u \in Threads : Len(n[u]) = Len(m[u])
    BY <1>1, <1>4, <1>7, CommitProps
  <2> QED BY <2>1, <2>2
<1>9. k = Commit(n, b, j) /\ b \in In(n)
  BY <1>4, <1>5, <1>7, <1>8
<1>10. ReqsKept(n, k) /\ Len(k[t]) = Len(n[t])
  <2>1. ReqsKept(n, k)
    BY <1>3, <1>8, <1>9, CommitKeeps
  <2>2. \A u \in Threads : Len(k[u]) = Len(n[u])
    BY <1>3, <1>8, <1>9, CommitProps
  <2> QED BY <2>1, <2>2
<1>11. Rec(k, id).req = r.req
  BY <1>4, <1>8, <1>10 DEF ReqsKept
<1>12. Len(k[t]) = Len(m[t]) /\ k[t][Len(k[t])].req = r.req
  BY <1>4, <1>8, <1>10, <1>11 DEF Rec
<1> QED BY <1>6, <1>12 DEF Started

\* send and recv begin a synchronization, and may meet at once.
LEMMA DirectSteps ==
    ASSUME TypeOK, RegionOK, SInv, NEW t \in Threads, NEW c \in Chans, NEW op \in {"send", "recv"},
           op = "send" => send(t, c), op = "recv" => recv(t, c), agenda' \in Seq(Tasks)
    PROVE  Steps(Bar(log, agenda, inQ, outQ), Bar(log', agenda', inQ', outQ'))
<1>0. Direct(t, op, c)
  BY DirectFacts
<1>1. PICK m, id :
            /\ Opened(t, op, c, m) /\ id = <<t, Len(log[t]) + 1>>
            /\ \/ log' = m /\ agenda' = <<>> /\ phase' = [phase EXCEPT ![t] = "blocked"]
               \/ \E x \in Items :
                     /\ Met(log, live, t, [op |-> op, on |-> c], x)
                     /\ log' = Commit(Commit(m, id, 1), x.id, x.i)
                     /\ phase' = [phase EXCEPT ![x.id[1]] = "run"]
                     /\ \A a \in ToSet(agenda') : a.kind = "set"
  BY <1>0 DEF Direct
<1>2. phase[t] = "run" /\ Len(log[t]) < MaxSync /\ agenda = <<>>
  BY <1>0 DEF Direct
<1>3. PICK rec : DirectRec(rec, op, c) /\ Extended(log, m, t, rec)
  BY <1>1 DEF Opened
<1>4. PICK l : l = log
  OBVIOUS
<1>5. /\ l \in Logs /\ Len(l[t]) < MaxSync /\ Extended(l, m, t, rec) /\ id = <<t, Len(l[t]) + 1>>
      /\ rec \in Records /\ rec.won = 0 /\ rec.req.evts = <<[op |-> op, on |-> c]>>
  BY <1>1, <1>2, <1>3, <1>4 DEF TypeOK, DirectRec
<1>6. l[t] # <<>> => l[t][Len(l[t])].won # 0
  BY <1>2, <1>4, <1>5, RunningDecided DEF SInv
<1>7. Bar(log, agenda, inQ, outQ) = l
  BY <1>2, <1>4, BarEmpty
<1>8. CASE log' = m /\ agenda' = <<>>
  <2>1. m[t][Len(m[t])] = rec
    BY <1>5, ExtendedLast
  <2>2. Started(l, m)
    BY <1>5, <1>6, <2>1 DEF Started
  <2> QED BY <1>7, <1>8, <2>2, BarEmpty DEF Steps
<1>9. ASSUME NEW x \in Items,
             Met(log, live, t, [op |-> op, on |-> c], x), log' = Commit(Commit(m, id, 1), x.id, x.i),
             \A a \in ToSet(agenda') : a.kind = "set"
      PROVE  Steps(Bar(log, agenda, inQ, outQ), Bar(log', agenda', inQ', outQ'))
  <2>1. PICK e, i : e = [op |-> op, on |-> c] /\ i = 1
    OBVIOUS
  <2>2. i \in Nat /\ i \in DOMAIN rec.req.evts /\ e = rec.req.evts[i] /\ e.op \in {"send", "recv"}
    BY <1>5, <2>1
  <2>3. PICK k, L : k = log' /\ L = live
    OBVIOUS
  <2>4. k = Commit(Commit(m, id, i), x.id, x.i) /\ Met(l, L, t, e, x)
    BY <1>4, <1>9, <2>1, <2>3
  <2>5. Started(l, k)
    BY <1>5, <1>6, <2>2, <2>4, OpenedMeets
  <2>6. \A a \in ToSet(agenda') : a.kind # "do"
    BY <1>9
  <2>7. Bar(log', agenda', inQ', outQ') = k
    BY <2>3, <2>6, BarNone
  <2> QED BY <1>7, <2>5, <2>7 DEF Steps
<1> QED BY <1>1, <1>8, <1>9

\* A region that goes on keeps its decision.
LEMMA OnwardBar ==
    ASSUME NEW ag \in Seq(Tasks), Orderly(ag), NEW bg \in Seq(Tasks), Orderly(bg), NEW S,
           GoesOn(ag, bg, S), \A a \in S : a.kind # "do", NEW l, NEW iq, NEW oq
    PROVE  Bar(l, bg, iq, oq) = Bar(l, ag, iq, oq)
<1>1. CASE \A a \in ToSet(ag) : a.kind # "do"
  <2>1. \A a \in ToSet(bg) : a.kind # "do"
    BY <1>1 DEF GoesOn
  <2> QED BY <1>1, <2>1, BarNone
<1>2. ASSUME NEW d \in ToSet(ag), d.kind = "do"
      PROVE  Bar(l, bg, iq, oq) = Bar(l, ag, iq, oq)
  <2>1. d \in ToSet(bg)
    BY <1>2 DEF GoesOn
  <2>2. Bar(l, ag, iq, oq) = Done(l, iq, oq, d)
    BY <1>2, BarDo
  <2>3. Bar(l, bg, iq, oq) = Done(l, iq, oq, d)
    BY <1>2, <2>1, BarDo
  <2> QED BY <2>2, <2>3
<1> QED BY <1>1, <1>2

\* doSet decides nothing.
LEMMA SetSteps ==
    ASSUME TypeOK, RegionOK, doSet, agenda' \in Seq(Tasks), Orderly(agenda')
    PROVE  Steps(Bar(log, agenda, inQ, outQ), Bar(log', agenda', inQ', outQ'))
<1>1. PICK h \in ToSet(agenda), v \in CVars :
              /\ h.kind = "set" /\ v = <<h.id[1], h.id[2], h.i>> /\ h.id = <<v[1], v[2]>>
              /\ h.id \in In(log) /\ h.i \in DOMAIN Rec(log, h.id).req.nacks
              /\ \A u \in CVars : u # v => cvar'[u].set = cvar[u].set
              /\ cvar'[v].set = 1 /\ cvar[v].set = 0
              /\ log' = log /\ phase' = phase /\ live' = live /\ inQ' = inQ /\ outQ' = outQ
              /\ failure' = failure
              /\ GoesOn(agenda, agenda', {Wake(x) : x \in ToSet(cvar[v].waiting)})
  BY SetFacts
<1>2. PICK S : S = {Wake(x) : x \in ToSet(cvar[v].waiting)}
  OBVIOUS
<1>3. \A a \in S : a.kind # "do"
  BY <1>2 DEF Wake
<1>4. GoesOn(agenda, agenda', S) /\ log' = log /\ inQ' = inQ /\ outQ' = outQ
  BY <1>1, <1>2
<1>5. agenda \in Seq(Tasks) /\ Orderly(agenda)
  BY DEF TypeOK, RegionOK
<1>6. Bar(log, agenda', inQ, outQ) = Bar(log, agenda, inQ, outQ)
  BY <1>3, <1>4, <1>5, OnwardBar
<1> QED BY <1>4, <1>6 DEF Steps

\* What a pending decision may concern.
Pends(l, iq, oq, d) ==
    /\ d.id \in In(l) /\ d.i \in Nat /\ d.i # 0 /\ Rec(l, d.id).won = 0
    /\ Base(l, d).op \in {"send", "recv"} =>
          LET x == Partner(l, iq, oq, d) IN
          x.id \in In(l) /\ x.i \in Nat /\ Rec(l, x.id).won = 0 /\ x.id # d.id

\* The log with a decision taken as done.
LEMMA DoneProps ==
    ASSUME NEW l \in Logs, NEW iq, NEW oq, NEW d, Pends(l, iq, oq, d)
    PROVE  /\ Done(l, iq, oq, d) \in Logs /\ ReqsKept(l, Done(l, iq, oq, d))
           /\ Rec(Done(l, iq, oq, d), d.id).won = d.i
           /\ \A a \in In(l) : Rec(l, a).won # 0 => Rec(Done(l, iq, oq, d), a) = Rec(l, a)
<1>1. PICK id, i : id = d.id /\ i = d.i
  OBVIOUS
<1>2. id \in In(l) /\ i \in Nat /\ Rec(l, id).won = 0
  BY <1>1 DEF Pends
<1>3. PICK m : m = Commit(l, id, i)
  OBVIOUS
<1>4. /\ m \in Logs /\ In(m) = In(l) /\ Rec(m, id) = [req |-> Rec(l, id).req, won |-> i]
      /\ \A a \in In(l) : a # id => Rec(m, a) = Rec(l, a)
      /\ \A t \in Threads : Len(m[t]) = Len(l[t])
  BY <1>2, <1>3, CommitProps
<1>5. ReqsKept(l, m) /\ Rec(m, id).won = i /\ \A a \in In(l) : Rec(l, a).won # 0 => Rec(m, a) = Rec(l, a)
  BY <1>2, <1>4 DEF ReqsKept
<1>6. PICK o : o = Done(l, iq, oq, d)
  OBVIOUS
<1>7. CASE Base(l, d).op \notin {"send", "recv"}
  <2>1. o = m
    BY <1>1, <1>3, <1>6, <1>7 DEF Done
  <2> QED BY <1>1, <1>4, <1>5, <1>6, <2>1
<1>8. CASE Base(l, d).op \in {"send", "recv"}
  <2>1. PICK b, j : b = Partner(l, iq, oq, d).id /\ j = Partner(l, iq, oq, d).i
    OBVIOUS
  <2>2. b \in In(l) /\ j \in Nat /\ Rec(l, b).won = 0 /\ b # id
    BY <1>1, <1>8, <2>1 DEF Pends
  <2>3. o = Commit(m, b, j) /\ b \in In(m)
    BY <1>1, <1>3, <1>4, <1>6, <1>8, <2>1, <2>2 DEF Done
  <2>4. /\ o \in Logs /\ In(o) = In(m) /\ Rec(o, b) = [req |-> Rec(m, b).req, won |-> j]
        /\ \A a \in In(m) : a # b => Rec(o, a) = Rec(m, a)
        /\ \A t \in Threads : Len(o[t]) = Len(m[t])
    BY <1>4, <2>2, <2>3, CommitProps
  <2>5. ReqsKept(m, o)
    BY <2>4 DEF ReqsKept
  <2>6. ReqsKept(l, o)
    BY <1>5, <2>5 DEF ReqsKept
  <2>7. Rec(o, id).won = i /\ \A a \in In(l) : Rec(l, a).won # 0 => Rec(o, a) = Rec(l, a)
    BY <1>2, <1>4, <1>5, <2>2, <2>4
  <2> QED BY <1>1, <1>6, <2>4, <2>6, <2>7
<1> QED BY <1>7, <1>8

\* A commit of a third synchronization does not disturb the decision.
LEMMA DoneSwap ==
    ASSUME NEW l \in Logs, NEW iq, NEW oq, NEW d, Pends(l, iq, oq, d), NEW a \in In(l), NEW k \in Nat,
           a # d.id, Base(l, d).op \in {"send", "recv"} => a # Partner(l, iq, oq, d).id
    PROVE  /\ Done(Commit(l, a, k), iq, oq, d) = Commit(Done(l, iq, oq, d), a, k)
           /\ Rec(Done(l, iq, oq, d), a) = Rec(l, a)
<1>1. PICK id, i : id = d.id /\ i = d.i
  OBVIOUS
<1>2. id \in In(l) /\ i \in Nat /\ a # id
  BY <1>1 DEF Pends
<1>3. PICK m : m = Commit(l, a, k)
  OBVIOUS
<1>4. m \in Logs /\ In(m) = In(l) /\ ReqsKept(l, m)
  BY <1>3, CommitKeeps
<1>5. Base(m, d) = Base(l, d)
  BY <1>1, <1>2, <1>4 DEF Base, ReqsKept
<1>6. Partner(m, iq, oq, d) = Partner(l, iq, oq, d)
  BY <1>5 DEF Partner
<1>7. PICK n : n = Commit(l, id, i)
  OBVIOUS
<1>8. /\ n \in Logs /\ In(n) = In(l) /\ Rec(n, id) = [req |-> Rec(l, id).req, won |-> i]
      /\ \A b \in In(l) : b # id => Rec(n, b) = Rec(l, b)
      /\ \A t \in Threads : Len(n[t]) = Len(l[t])
  BY <1>2, <1>7, CommitProps
<1>9. Commit(m, id, i) = Commit(n, a, k)
  BY <1>2, <1>3, <1>7, CommitSwap
<1>10. CASE Base(l, d).op \notin {"send", "recv"}
  <2>1. Done(m, iq, oq, d) = Commit(m, id, i)
    BY <1>1, <1>5, <1>10 DEF Done
  <2>2. Done(l, iq, oq, d) = n
    BY <1>1, <1>7, <1>10 DEF Done
  <2> QED BY <1>2, <1>3, <1>8, <1>9, <2>1, <2>2
<1>11. CASE Base(l, d).op \in {"send", "recv"}
  <2>1. PICK b, j : b = Partner(l, iq, oq, d).id /\ j = Partner(l, iq, oq, d).i
    OBVIOUS
  <2>2. b \in In(l) /\ j \in Nat /\ a # b
    BY <1>11, <2>1 DEF Pends
  <2>3. Done(m, iq, oq, d) = Commit(Commit(m, id, i), b, j)
    BY <1>1, <1>5, <1>6, <1>11, <2>1 DEF Done
  <2>4. Done(l, iq, oq, d) = Commit(n, b, j)
    BY <1>1, <1>7, <1>11, <2>1 DEF Done
  <2>5. a \in In(n) /\ b \in In(n)
    BY <1>8, <2>2
  <2>6. Commit(Commit(n, a, k), b, j) = Commit(Commit(n, b, j), a, k)
    BY <1>8, <2>2, <2>5, CommitSwap
  <2>7. PICK o : o = Commit(n, b, j)
    OBVIOUS
  <2>8. /\ o \in Logs /\ In(o) = In(n) /\ Rec(o, b) = [req |-> Rec(n, b).req, won |-> j]
        /\ \A c \in In(n) : c # b => Rec(o, c) = Rec(n, c)
        /\ \A t \in Threads : Len(o[t]) = Len(n[t])
    BY <1>8, <2>2, <2>5, <2>7, CommitProps, ZenonT(60)
  <2>9. Rec(o, a) = Rec(l, a)
    BY <1>2, <1>8, <2>2, <2>5, <2>8
  <2> QED BY <1>3, <1>9, <2>3, <2>4, <2>6, <2>7, <2>9
<1> QED BY <1>10, <1>11

\* The doFn on the agenda, and its partner.
LEMMA PendingShape ==
    ASSUME TypeOK, RegionOK, SInv, NEW d \in ToSet(agenda), d.kind = "do"
    PROVE  /\ Pends(log, inQ, outQ, d) /\ d.id \notin live
           /\ Base(log, d).op \in {"send", "recv"} => Stands(prog, log, live, agenda, Partner(log, inQ, outQ, d))
           /\ \A a, k : DoFn(a, k) \in ToSet(agenda) => a = d.id /\ k = d.i
<1>1. /\ agenda \in Seq(Tasks) /\ log \in Logs /\ Orderly(agenda) /\ d.id \in In(log)
      /\ live \subseteq In(log)
  BY TasksLogged DEF TypeOK, RegionOK
<1>2. d \in Tasks
  BY <1>1, Elements
<1>3. DoOK(d) /\ PhaseOK
  BY DEF RegionOK, AgendaOK
<1>4. d.id[1] \in Threads /\ d.id \in Trans
  BY <1>1, LogShape
<1>5. phase[d.id[1]] = "forced" /\ d.id = CurId(d.id[1]) /\ d.i \in DOMAIN Sync(d.id).req.evts
  BY <1>3 DEF DoOK
<1>6. d.id \notin live
  BY <1>3, <1>4, <1>5 DEF PhaseOK
<1>7. Rec(log, d.id).won = 0
  <2>1. Sync(CurId(d.id[1])).won = 0
    BY <1>3, <1>4, <1>5, LiveShape
  <2> QED BY <1>5, <2>1 DEF Sync, Rec
<1>8. Rec(log, d.id).req.evts \in Seq(Events(CVars)) /\ Sync(d.id) = Rec(log, d.id)
  BY <1>1, LogShape DEF Sync, Rec
<1>9. d.i \in Nat /\ d.i # 0 /\ Base(log, d) \in Events(CVars) /\ Evt(d.id, d.i) = Base(log, d)
  BY <1>5, <1>8 DEF Base, Evt
<1>10. ASSUME Base(log, d).op \in {"send", "recv"}
       PROVE  /\ Stands(prog, log, live, agenda, Partner(log, inQ, outQ, d))
              /\ LET x == Partner(log, inQ, outQ, d) IN
                 x.id \in In(log) /\ x.i \in Nat /\ Rec(log, x.id).won = 0 /\ x.id # d.id
  <2>1. PICK x : x = Partner(log, inQ, outQ, d)
    OBVIOUS
  <2>2. Stands(prog, log, live, agenda, x)
    BY <1>10, <2>1 DEF SInv, PartnerOK
  <2>3. x.id \in live
    BY <2>2 DEF Stands
  <2>4. Rec(log, x.id).won = 0
    <3>1. Sync(x.id).won = 0
      BY <1>3, <2>3, LiveShape
    <3> QED BY <3>1 DEF Sync, Rec
  <2>5. PICK c \in Chans : c = Base(log, d).on
    BY <1>9, <1>10 DEF Events, ChanEvents
  <2>6. PICK q \in Seq(Items) : q = IF Base(log, d).op = "send" THEN inQ[c] ELSE outQ[c]
    <3>1. inQ[c] \in Seq(Items) /\ outQ[c] \in Seq(Items)
      BY DEF TypeOK
    <3> QED BY <3>1
  <2>7. q # <<>>
    BY <1>3, <1>9, <1>10, <2>5, <2>6 DEF DoOK
  <2>8. x = Head(q)
    BY <2>1, <2>5, <2>6 DEF Partner
  <2>9. x \in Items
    BY <2>7, <2>8, Elements
  <2> QED BY <1>1, <1>6, <2>1, <2>2, <2>3, <2>4, <2>9 DEF Items
<1>11. ASSUME NEW a, NEW k, DoFn(a, k) \in ToSet(agenda)
       PROVE  a = d.id /\ k = d.i
  <2>1. PICK b : b = DoFn(a, k)
    OBVIOUS
  <2>2. b.kind = "do" /\ b.id = a /\ b.i = k /\ b \in ToSet(agenda)
    BY <1>11, <2>1 DEF DoFn
  <2>3. agenda # <<>>
    <3>1. ToSet(<<>>) = {}
      BY SmallLists
    <3> QED BY <3>1
  <2>4. b = d
    BY <1>1, <2>2, <2>3, OrderlyTail
  <2> QED BY <2>2, <2>4
<1>12. Pends(log, inQ, outQ, d)
  BY <1>1, <1>7, <1>9, <1>10 DEF Pends
<1> QED BY <1>6, <1>10, <1>11, <1>12

\* A pending decision counts in the nacks it sets.
LEMMA SetSoundsPending ==
    ASSUME TypeOK, RegionOK, SInv, NEW d \in ToSet(agenda), d.kind = "do",
           NEW v \in CVars, cvar[v].set > 0
    PROVE  Sounded(Done(log, inQ, outQ, d), v)
<1>1. PICK l, b : l = log /\ b = Done(log, inQ, outQ, d)
  OBVIOUS
<1>2. Known(log, cvar) /\ l \in Logs
  BY <1>1 DEF SInv, TypeOK
<1>3. PICK a \in In(log), k \in Nat :
              /\ a = <<v[1], v[2]>> /\ a[1] = v[1] /\ a[2] = v[2]
              /\ Decided(a, k) /\ k \notin Rec(log, a).req.nacks[v[3]]
  BY <1>2, SetDecided
<1>4. /\ Pends(log, inQ, outQ, d)
      /\ \A c, n : DoFn(c, n) \in ToSet(agenda) => c = d.id /\ n = d.i
  BY PendingShape
<1>5. /\ ReqsKept(l, b) /\ Rec(b, d.id).won = d.i
      /\ \A c \in In(l) : Rec(l, c).won # 0 => Rec(b, c) = Rec(l, c)
  BY <1>1, <1>2, <1>4, DoneProps
<1>6. k # 0 /\ (Rec(l, a).won = k \/ DoFn(a, k) \in ToSet(agenda))
  BY <1>1, <1>3 DEF Decided, Sync, Rec
<1>7. Rec(b, a).won = k
  <2>1. CASE Rec(l, a).won = k
    BY <1>1, <1>3, <1>5, <1>6, <2>1
  <2>2. CASE DoFn(a, k) \in ToSet(agenda)
    BY <1>4, <1>5, <2>2
  <2> QED BY <1>6, <2>1, <2>2
<1>8. k \notin Rec(b, a).req.nacks[v[3]]
  BY <1>1, <1>3, <1>5 DEF ReqsKept
<1>9. Rec(b, a) = b[v[1]][v[2]]
  BY <1>3 DEF Rec
<1>10. Sounded(b, v)
  BY <1>6, <1>7, <1>8, <1>9 DEF Sounded
<1> QED BY <1>1, <1>10

\* doWake decides the waiter, for a time-out or a nack that was set.
LEMMA WakeSteps ==
    ASSUME TypeOK, RegionOK, SInv, doWake, agenda' \in Seq(Tasks), Orderly(agenda')
    PROVE  Steps(Bar(log, agenda, inQ, outQ), Bar(log', agenda', inQ', outQ'))
<1>1. /\ inQ' = inQ /\ outQ' = outQ /\ cvar' = cvar /\ failure' = failure
      /\ \/ /\ log' = log /\ phase' = phase /\ live' = live
            /\ GoesOn(agenda, agenda', {})
         \/ \E h \in ToSet(agenda) :
               /\ h.kind = "wake" /\ h.id \in live /\ Choice(log, h.id, h.i)
               /\ Base(log, h).op \in {"cvar", "timeout"}
               /\ log' = Commit(log, h.id, h.i) /\ live' = live \ {h.id}
               /\ phase' = [phase EXCEPT ![h.id[1]] = "run"]
               /\ GoesOn(agenda, agenda', {Set(h.id, j) : j \in Lost(Rec(log, h.id).req, h.i)})
  BY WakeFacts
<1>2. agenda \in Seq(Tasks) /\ Orderly(agenda)
  BY DEF TypeOK, RegionOK
<1>3. CASE log' = log /\ GoesOn(agenda, agenda', {})
  <2>1. \A a \in {} : a.kind # "do"
    OBVIOUS
  <2>2. Bar(log, agenda', inQ, outQ) = Bar(log, agenda, inQ, outQ)
    BY <1>2, <1>3, <2>1, OnwardBar
  <2> QED BY <1>1, <1>3, <2>2 DEF Steps
<1>4. ASSUME NEW h \in ToSet(agenda),
             h.kind = "wake", h.id \in live, Choice(log, h.id, h.i),
             Base(log, h).op \in {"cvar", "timeout"}, log' = Commit(log, h.id, h.i),
             GoesOn(agenda, agenda', {Set(h.id, j) : j \in Lost(Rec(log, h.id).req, h.i)})
      PROVE  Steps(Bar(log, agenda, inQ, outQ), Bar(log', agenda', inQ', outQ'))
  <2>1. PICK S : S = {Set(h.id, j) : j \in Lost(Rec(log, h.id).req, h.i)}
    OBVIOUS
  <2>2. GoesOn(agenda, agenda', S) /\ \A a \in S : a.kind # "do"
    BY <1>4, <2>1 DEF Set
  <2>3. PICK l, m, iq, oq : l = log /\ m = log' /\ iq = inQ /\ oq = outQ
    OBVIOUS
  <2>4. Bar(m, agenda', iq, oq) = Bar(m, agenda, iq, oq)
    BY <1>2, <2>2, OnwardBar
  <2>5. PICK id, i, e : id = h.id /\ i = h.i /\ e = Base(log, h)
    OBVIOUS
  <2>6. /\ l \in Logs /\ id \in In(l) /\ Rec(l, id).won = 0 /\ i \in Nat /\ i \in DOMAIN Rec(l, id).req.evts
        /\ e = Rec(l, id).req.evts[i] /\ e \in Events(CVars) /\ e.op \in {"cvar", "timeout"}
        /\ m = Commit(l, id, i)
    BY <1>4, <2>3, <2>5 DEF TypeOK, Choice, Base
  <2>7. e.op = "cvar" => e.on \in CVars /\ cvar[e.on].set > 0
    <3>1. e.op = "cvar" => e.on \in CVars
      BY <2>6 DEF Events, ChanEvents
    <3>2. e.op = "cvar" => cvar[e.on].set > 0
      BY <1>4, <2>5 DEF SInv, Nacking
    <3> QED BY <3>1, <3>2
  <2>8. CASE \A a \in ToSet(agenda) : a.kind # "do"
    <3>1. Bar(l, agenda, iq, oq) = l /\ Bar(m, agenda, iq, oq) = m
      BY <1>2, <2>8, BarNone
    <3>2. Known(log, cvar)
      BY DEF SInv
    <3>3. e.op = "cvar" => Sounded(l, e.on)
      BY <2>3, <2>7, <2>8, <3>2, SetSounds
    <3>4. Single(l, m)
      BY <2>6, <3>3 DEF Single, Open
    <3> QED BY <1>1, <2>3, <2>4, <3>1, <3>4 DEF Steps
  <2>9. ASSUME NEW d \in ToSet(agenda), d.kind = "do"
        PROVE  Steps(Bar(log, agenda, inQ, outQ), Bar(log', agenda', inQ', outQ'))
    <3>1. Bar(l, agenda, iq, oq) = Done(l, iq, oq, d) /\ Bar(m, agenda, iq, oq) = Done(m, iq, oq, d)
      BY <1>2, <2>9, BarDo
    <3>2. /\ Pends(l, iq, oq, d) /\ d.id \notin live
          /\ Base(l, d).op \in {"send", "recv"} => Stands(prog, l, live, agenda, Partner(l, iq, oq, d))
      BY <2>3, <2>9, PendingShape
    <3>3. id # d.id
      BY <1>4, <2>5, <3>2
    <3>4. Base(l, d).op \in {"send", "recv"} => id # Partner(l, iq, oq, d).id
      <4> SUFFICES ASSUME Base(l, d).op \in {"send", "recv"} PROVE id # Partner(l, iq, oq, d).id
        OBVIOUS
      <4>1. PICK x : x = Partner(l, iq, oq, d)
        OBVIOUS
      <4>2. PICK N : Within(prog, l, agenda, N, x)
        BY <3>2, <4>1 DEF Stands
      <4>3. e.op = "cvar" /\ NackName(e.on) \in N
        BY <1>4, <2>3, <2>5, <4>2 DEF Within
      <4>4. x.id # id
        BY <2>6, <4>2, <4>3 DEF Within
      <4> QED BY <4>1, <4>4
    <3>5. PICK b : b = Done(l, iq, oq, d)
      OBVIOUS
    <3>6. Done(m, iq, oq, d) = Commit(b, id, i) /\ Rec(b, id) = Rec(l, id)
      BY <2>6, <3>2, <3>3, <3>4, <3>5, DoneSwap
    <3>7. b \in Logs /\ ReqsKept(l, b)
      BY <2>6, <3>2, <3>5, DoneProps
    <3>8. id \in In(b)
      BY <2>6, <3>7 DEF ReqsKept
    <3>9. e.op = "cvar" => Sounded(b, e.on)
      BY <2>3, <2>7, <2>9, <3>5, SetSoundsPending
    <3>10. Single(b, Commit(b, id, i))
      BY <2>6, <3>6, <3>8, <3>9 DEF Single, Open
    <3> QED BY <1>1, <2>3, <2>4, <3>1, <3>5, <3>6, <3>10 DEF Steps
  <2> QED BY <2>8, <2>9
<1> QED BY <1>1, <1>3, <1>4

\* The mapped log is a log.
LEMMA BarLogs ==
    ASSUME IInv, SInv
    PROVE  LogBar \in Logs
<1>1. TypeOK /\ RegionOK
  BY DEF IInv, SInv
<1>2. agenda \in Seq(Tasks) /\ Orderly(agenda) /\ log \in Logs
  BY <1>1 DEF TypeOK, RegionOK
<1>3. CASE \A a \in ToSet(agenda) : a.kind # "do"
  BY <1>2, <1>3, BarNone, BarIsLogBar
<1>4. ASSUME NEW d \in ToSet(agenda), d.kind = "do"
      PROVE  LogBar \in Logs
  <2>1. LogBar = Done(log, inQ, outQ, d)
    BY <1>2, <1>4, BarDo, BarIsLogBar
  <2>2. Pends(log, inQ, outQ, d)
    BY <1>1, <1>4, PendingShape
  <2>3. PICK l, iq, oq : l = log /\ iq = inQ /\ oq = outQ
    OBVIOUS
  <2>4. Done(l, iq, oq, d) \in Logs
    BY <1>2, <2>2, <2>3, DoneProps
  <2> QED BY <2>1, <2>3, <2>4
<1> QED BY <1>3, <1>4

\* Every step of Event is, over the mapped logs, a step of Rendezvous.
LEMMA NextSteps ==
    ASSUME IInv, SInv, [Next]_vars, IInv', SInv'
    PROVE  Steps(LogBar, LogBar')
<1>1. CASE UNCHANGED vars
  <2>1. log' = log /\ inQ' = inQ /\ outQ' = outQ /\ agenda' = agenda
    BY <1>1 DEF vars
  <2>2. LogBar' = LogBar
    BY <2>1, BarIsLogBar
  <2> QED BY <2>2 DEF Steps
<1>2. CASE Next
  <2>1. TypeOK /\ RegionOK
    BY DEF IInv, SInv
  <2>2. agenda' \in Seq(Tasks) /\ Orderly(agenda')
    BY DEF IInv, SInv, TypeOK, RegionOK
  <2>3. \A t \in Threads : \A e \in prog.direct[t] : e.on \in Chans
    <3>1. \A t \in Threads : prog.direct[t] \subseteq ChanEvents
      BY <2>1, EventAssumption DEF TypeOK
    <3> QED BY <3>1 DEF ChanEvents
  <2> DEFINE Goal == Steps(Bar(log, agenda, inQ, outQ), Bar(log', agenda', inQ', outQ'))
  <2>4. ASSUME doSet PROVE Goal
    BY <2>1, <2>2, <2>4, SetSteps
  <2>5. ASSUME doWake PROVE Goal
    BY <2>1, <2>2, <2>5, WakeSteps
  <2>6. ASSUME doFnSend \/ doFnRecv PROVE Goal
    BY <2>1, <2>2, <2>6, DoSteps
  <2>7. ASSUME doFnOther PROVE Goal
    BY <2>1, <2>7, OtherSteps
  <2>8. ASSUME NEW t \in Threads, NEW r \in prog.menu[t], force(t, r) PROVE Goal
    BY <2>1, <2>8, ForceSteps
  <2>9. ASSUME NEW t \in Threads, syncReady(t) PROVE Goal
    BY <2>1, <2>2, <2>9, ReadySteps
  <2>10. ASSUME NEW t \in Threads, syncBlock(t) PROVE Goal
    BY <2>1, <2>10, BlockSteps
  <2>11. ASSUME NEW t \in Threads, timeoutFires(t) PROVE Goal
    BY <2>1, <2>2, <2>11, TimeoutSteps
  <2>12. ASSUME NEW t \in Threads, NEW e \in prog.direct[t],
                \/ e.op = "send" /\ send(t, e.on)
                \/ e.op = "recv" /\ recv(t, e.on)
         PROVE  Goal
    <3>1. PICK op, c : op = e.op /\ c = e.on
      OBVIOUS
    <3>2. op \in {"send", "recv"} /\ c \in Chans
      BY <2>3, <2>12, <3>1
    <3>3. /\ op = "send" => send(t, c)
          /\ op = "recv" => recv(t, c)
      BY <2>12, <3>1
    <3> QED BY <2>1, <2>2, <3>2, <3>3, DirectSteps
  <2>13. Goal
    BY <1>2, <2>4, <2>5, <2>6, <2>7, <2>8, <2>9, <2>10, <2>11, <2>12 DEF Next, RegionStep
  <2> QED BY <2>13, BarIsLogBar
<1> QED BY <1>1, <1>2

\* Event implements Rendezvous, for any number of threads, channels and
\* synchronizations and any Separate programs: whatever the queues, the
\* priorities and the cascades of nacks do, an offer is decided once, a send
\* and a receive are decided together, and a nack fires only after a loss.
THEOREM EventRefines ==
    ASSUME \A p \in Programs : Separate(p)
    PROVE  Spec => Implements
<1>1. Init => Abs!Init
  <2> SUFFICES ASSUME Init PROVE Abs!Init
    OBVIOUS
  <2>1. log = [t \in Threads |-> <<>>] /\ agenda = <<>>
    BY DEF Init
  <2>2. LogBar = log
    BY <2>1, BarEmpty, BarIsLogBar
  <2> QED BY <2>1, <2>2 DEF Abs!Init
<1>2. IInv /\ SInv => LogBar \in Logs
  BY BarLogs
<1>3. /\ IInv /\ SInv /\ LogBar \in Logs
      /\ [Next]_vars
      /\ (IInv /\ SInv /\ LogBar \in Logs)'
      => [Abs!Next]_LogBar
  BY NextSteps, StepsRefine
<1>4. Spec => [](IInv /\ SInv)
  BY PartnersStand
<1> QED BY <1>1, <1>2, <1>3, <1>4, PTL DEF Spec, Implements, Abs!Spec
=============================================================================
