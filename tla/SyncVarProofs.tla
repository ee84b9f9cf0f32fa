--------------------------- MODULE SyncVarProofs ---------------------------
(***************************************************************************)
(* Proofs about a synchronous variable for any sets of threads and values. *)
(***************************************************************************)
EXTENDS SyncVar, TLAPS

\* Every value belongs to one owner: it is fresh, it has been in the cell, or
\* one waiting (or resumed) swap brings it.
Used == fresh \cup placed

Reserved ==
    /\ fresh \cap placed = {}
    /\ \A k \in 1 .. Len(readQ) : readQ[k].op = "swap" => readQ[k].new \in Values \ Used
    /\ \A j, k \in 1 .. Len(readQ) :
          readQ[j].op = "swap" /\ readQ[k].op = "swap" /\ readQ[j].new = readQ[k].new => j = k

CurReserved ==
    cur # NoOne /\ cur.op = "swap" =>
        /\ cur.new \in Values \ Used
        /\ \A k \in 1 .. Len(readQ) : readQ[k].op = "swap" => readQ[k].new # cur.new

IInv ==
    /\ TypeOK
    /\ NoWaiterOnFull
    /\ BlockedIsQueued
    /\ RelayCarriesContents
    /\ Conservation
    /\ Reserved
    /\ CurReserved

\* Cancelling the items of a thread changes nothing but their dead flags.
LEMMA CancelledProps ==
    ASSUME NEW q \in Seq(QItems), NEW t \in Threads
    PROVE  /\ Cancelled(q, t) \in Seq(QItems)
           /\ Len(Cancelled(q, t)) = Len(q) /\ Len(q) \in Nat
           /\ DOMAIN q = 1 .. Len(q) /\ DOMAIN Cancelled(q, t) = 1 .. Len(q)
           /\ \A k \in 1 .. Len(q) :
                 /\ Cancelled(q, t)[k].t = q[k].t
                 /\ Cancelled(q, t)[k].op = q[k].op
                 /\ Cancelled(q, t)[k].new = q[k].new
                 /\ Cancelled(q, t)[k].dead <=> q[k].dead \/ q[k].t = t
<1>1. DOMAIN q = 1 .. Len(q) /\ Len(q) \in Nat
  OBVIOUS
<1>2. \A k \in 1 .. Len(q) : q[k] \in QItems
  OBVIOUS
<1>3. \A k \in 1 .. Len(q) : Cancelled(q, t)[k] = [q[k] EXCEPT !.dead = q[k].dead \/ q[k].t = t]
  BY <1>1 DEF Cancelled
<1>4. ASSUME NEW k \in 1 .. Len(q)
      PROVE  /\ Cancelled(q, t)[k] \in QItems
             /\ Cancelled(q, t)[k].t = q[k].t
             /\ Cancelled(q, t)[k].op = q[k].op
             /\ Cancelled(q, t)[k].new = q[k].new
             /\ Cancelled(q, t)[k].dead <=> q[k].dead \/ q[k].t = t
  <2>1. q[k] \in [t : Threads, op : Ops, new : Values \cup {NONE}, dead : BOOLEAN]
    BY <1>2 DEF QItems
  <2>2. (q[k].dead \/ q[k].t = t) \in BOOLEAN
    BY <2>1
  <2> QED
    BY <1>3, <2>1, <2>2 DEF QItems
<1>5. Cancelled(q, t) \in [1 .. Len(q) -> QItems]
  BY <1>1, <1>4 DEF Cancelled
<1>6. Cancelled(q, t) \in Seq(QItems) /\ Len(Cancelled(q, t)) = Len(q)
  BY <1>1, <1>5
<1> QED
  BY <1>1, <1>4, <1>5, <1>6

\* The suffix of a queue behind its k-th item.
LEMMA SuffixProps ==
    ASSUME NEW q \in Seq(QItems), NEW k \in 1 .. Len(q)
    PROVE  /\ SubSeq(q, k + 1, Len(q)) \in Seq(QItems)
           /\ Len(SubSeq(q, k + 1, Len(q))) = Len(q) - k
           /\ \A i \in 1 .. Len(q) - k : SubSeq(q, k + 1, Len(q))[i] = q[i + k]
<1>1. Len(q) \in Nat /\ k \in Nat /\ k <= Len(q) /\ k >= 1
  OBVIOUS
<1>2. SubSeq(q, k + 1, Len(q)) \in Seq(QItems)
  BY <1>1
<1>3. Len(SubSeq(q, k + 1, Len(q))) = Len(q) - k
  BY <1>1
<1>4. \A i \in 1 .. Len(q) - k : SubSeq(q, k + 1, Len(q))[i] = q[i + k]
  BY <1>1
<1> QED
  BY <1>2, <1>3, <1>4

-----------------------------------------------------------------------------
(* What relayMsg does: nobody waits and the region ends, or the first live  *)
(* waiter, item d, is resumed and what lies behind it stays.                *)

Relayed(v, d) ==
    /\ readQ' \in Seq(QItems)
    /\ waiting' \in [Threads -> BOOLEAN] /\ choice' \in [Threads -> BOOLEAN]
    /\ d \in 0 .. Len(readQ)
    /\ Len(readQ') = Len(readQ) - d
    /\ \A i \in 1 .. Len(readQ) - d :
          readQ'[i].op = readQ[i + d].op /\ readQ'[i].new = readQ[i + d].new
    /\ BlockedIsQueued'
    /\ \/ cur' = NoOne /\ msg' = NONE /\ NoLive(readQ')
       \/ /\ cur' # NoOne /\ cur' \in Items /\ msg' = v
          /\ d >= 1 /\ cur'.op = readQ[d].op /\ cur'.new = readQ[d].new

\* relayMsg skips a dead prefix of readQ and resumes the first live reader, or nobody.
LEMMA RelayProps ==
    ASSUME TypeOK, BlockedIsQueued, NEW v, relayMsg(v)
    PROVE  \E d \in Nat : Relayed(v, d)
<1>1. readQ \in Seq(QItems) /\ Len(readQ) \in Nat /\ DOMAIN readQ = 1 .. Len(readQ)
      /\ waiting \in [Threads -> BOOLEAN] /\ choice \in [Threads -> BOOLEAN]
  BY DEF TypeOK
<1>2. CASE NoLive(readQ) /\ Leave /\ UNCHANGED <<readQ, waiting, choice>>
  <2>1. Relayed(v, 0)
    BY <1>1, <1>2 DEF Relayed, Leave, NoLive, BlockedIsQueued
  <2> QED
    BY <2>1
<1>3. ASSUME NEW k \in DOMAIN readQ, FirstLive(readQ, k),
             cur' = Plain(readQ[k]), msg' = v,
             readQ' = Cancelled(SubSeq(readQ, k + 1, Len(readQ)), readQ[k].t),
             waiting' = [waiting EXCEPT ![readQ[k].t] = FALSE],
             UNCHANGED choice
      PROVE  Relayed(v, k)
  <2> DEFINE s == SubSeq(readQ, k + 1, Len(readQ))
             t == readQ[k].t
  <2>1. k \in 1 .. Len(readQ) /\ readQ[k] \in QItems /\ t \in Threads
    <3>1. k \in 1 .. Len(readQ) /\ readQ[k] \in QItems
      BY <1>1
    <3>2. readQ[k].t \in Threads
      BY <3>1 DEF QItems
    <3> QED
      BY <3>1, <3>2
  <2>2. /\ s \in Seq(QItems) /\ Len(s) = Len(readQ) - k
        /\ \A i \in 1 .. Len(readQ) - k : s[i] = readQ[i + k]
    BY <1>1, <2>1, SuffixProps
  <2>3. /\ readQ' \in Seq(QItems) /\ Len(readQ') = Len(readQ) - k
        /\ DOMAIN readQ' = 1 .. Len(readQ) - k
        /\ \A i \in 1 .. Len(readQ) - k :
              /\ readQ'[i].t = readQ[i + k].t
              /\ readQ'[i].op = readQ[i + k].op
              /\ readQ'[i].new = readQ[i + k].new
              /\ readQ'[i].dead <=> readQ[i + k].dead \/ readQ[i + k].t = t
    <3> HIDE DEF s, t
    <3>1. readQ' = Cancelled(s, t)
      BY <1>3 DEF s, t
    <3>2. /\ Cancelled(s, t) \in Seq(QItems) /\ Len(Cancelled(s, t)) = Len(s)
          /\ DOMAIN Cancelled(s, t) = 1 .. Len(s)
          /\ \A i \in 1 .. Len(s) :
                /\ Cancelled(s, t)[i].t = s[i].t
                /\ Cancelled(s, t)[i].op = s[i].op
                /\ Cancelled(s, t)[i].new = s[i].new
                /\ Cancelled(s, t)[i].dead <=> s[i].dead \/ s[i].t = t
      BY <2>1, <2>2, CancelledProps
    <3> QED
      BY <2>2, <3>1, <3>2
  <2>4. waiting' \in [Threads -> BOOLEAN] /\ choice' \in [Threads -> BOOLEAN]
    BY <1>1, <1>3, <2>1
  <2>5. \A u \in Threads : waiting'[u] = IF u = t THEN FALSE ELSE waiting[u]
    BY <1>1, <1>3, <2>1
  <2>6. BlockedIsQueued'
    <3> SUFFICES ASSUME NEW u \in Threads
                 PROVE  waiting'[u] <=>
                          \E i \in DOMAIN readQ' : readQ'[i].t = u /\ ~readQ'[i].dead
      BY DEF BlockedIsQueued
    <3>1. CASE u = t
      BY <2>3, <2>5, <3>1
    <3>2. CASE u # t
      <4>1. ASSUME waiting[u]
            PROVE  \E i \in DOMAIN readQ' : readQ'[i].t = u /\ ~readQ'[i].dead
        <5>1. PICK j \in 1 .. Len(readQ) : readQ[j].t = u /\ ~readQ[j].dead
          BY <1>1, <4>1 DEF BlockedIsQueued
        <5>2. j > k
          <6>1. j \notin 1 .. k - 1
            BY <1>3, <5>1 DEF FirstLive
          <6>2. j # k
            BY <3>2, <5>1
          <6> QED
            BY <1>1, <2>1, <6>1, <6>2
        <5>3. j - k \in 1 .. Len(readQ) - k /\ (j - k) + k = j
          BY <1>1, <2>1, <5>2
        <5>4. readQ'[j - k].t = u /\ ~readQ'[j - k].dead
          BY <2>3, <3>2, <5>1, <5>3
        <5> QED
          BY <2>3, <5>3, <5>4
      <4>2. ASSUME NEW i \in DOMAIN readQ', readQ'[i].t = u, ~readQ'[i].dead
            PROVE  waiting[u]
        <5>1. i \in 1 .. Len(readQ) - k /\ i + k \in 1 .. Len(readQ)
          BY <1>1, <2>1, <2>3
        <5>2. readQ[i + k].t = u /\ ~readQ[i + k].dead
          BY <2>3, <4>2, <5>1
        <5> QED
          BY <1>1, <5>1, <5>2 DEF BlockedIsQueued
      <4> QED
        BY <2>5, <3>2, <4>1, <4>2
    <3> QED
      BY <3>1, <3>2
  <2>7. /\ cur' \in Items /\ cur' # NoOne
        /\ cur'.op = readQ[k].op /\ cur'.new = readQ[k].new
    BY <1>3, <2>1, SyncVarAssumption DEF Plain, Items, QItems
  <2> QED
    BY <1>1, <1>3, <2>1, <2>3, <2>4, <2>6, <2>7 DEF Relayed
<1>4. ASSUME NEW k \in DOMAIN readQ, FirstLive(readQ, k),
             cur' = Plain(readQ[k]), msg' = v,
             readQ' = Cancelled(SubSeq(readQ, k + 1, Len(readQ)), readQ[k].t),
             waiting' = [waiting EXCEPT ![readQ[k].t] = FALSE],
             UNCHANGED choice
      PROVE  \E d \in Nat : Relayed(v, d)
  <2>1. Relayed(v, k)
    BY <1>3, <1>4
  <2>2. k \in Nat
    BY <1>1
  <2> QED
    BY <2>1, <2>2
<1> QED
  BY <1>2, <1>4 DEF relayMsg

\* A relay hands reservations on: what is used afterwards must not be what a
\* waiting swap brings.
LEMMA ReservedRelay ==
    ASSUME TypeOK, Reserved, NEW v, NEW d \in Nat, Relayed(v, d),
           fresh' \cap placed' = {},
           \A k \in 1 .. Len(readQ) : readQ[k].op = "swap" => readQ[k].new \notin Used'
    PROVE  Reserved' /\ CurReserved'
<1>1. Len(readQ) \in Nat /\ d <= Len(readQ) /\ Len(readQ') = Len(readQ) - d
  BY DEF TypeOK, Relayed
<1>2. \A i \in 1 .. Len(readQ') :
         i + d \in 1 .. Len(readQ)
         /\ readQ'[i].op = readQ[i + d].op /\ readQ'[i].new = readQ[i + d].new
  BY <1>1 DEF Relayed
<1>3. \A k \in 1 .. Len(readQ) : readQ[k].op = "swap" => readQ[k].new \in Values \ Used'
  BY DEF Reserved
<1>4. \A j, k \in 1 .. Len(readQ) :
         readQ[j].op = "swap" /\ readQ[k].op = "swap" /\ readQ[j].new = readQ[k].new => j = k
  BY DEF Reserved
<1>5. \A i \in 1 .. Len(readQ') : readQ'[i].op = "swap" => readQ'[i].new \in Values \ Used'
  BY <1>2, <1>3
<1>6. ASSUME NEW i \in 1 .. Len(readQ'), NEW j \in 1 .. Len(readQ'),
             readQ'[i].op = "swap", readQ'[j].op = "swap", readQ'[i].new = readQ'[j].new
      PROVE  i = j
  <2>1. i + d = j + d
    BY <1>2, <1>4, <1>6
  <2> QED
    BY <1>1, <2>1
<1>7. Reserved'
  BY <1>5, <1>6 DEF Reserved
<1>8. ASSUME cur' # NoOne, cur'.op = "swap"
      PROVE  /\ cur'.new \in Values \ Used'
             /\ \A i \in 1 .. Len(readQ') : readQ'[i].op = "swap" => readQ'[i].new # cur'.new
  <2>1. d \in 1 .. Len(readQ) /\ cur'.op = readQ[d].op /\ cur'.new = readQ[d].new
    BY <1>1, <1>8 DEF Relayed
  <2>2. \A i \in 1 .. Len(readQ') : i + d # d
    BY <1>1
  <2> QED
    BY <1>2, <1>3, <1>4, <1>8, <2>1, <2>2
<1> QED
  BY <1>7, <1>8 DEF CurReserved

\* NoWaiterOnFull and RelayCarriesContents after a relay of the contents.
LEMMA RelayEnds ==
    ASSUME NEW v \in Values, NEW d \in Nat, Relayed(v, d), value' = v
    PROVE  NoWaiterOnFull' /\ RelayCarriesContents'
BY SyncVarAssumption DEF Relayed, NoWaiterOnFull, RelayCarriesContents

-----------------------------------------------------------------------------
\* The cell starts empty and nobody waits.
LEMMA InitInv == Init => IInv
<1> SUFFICES ASSUME Init PROVE IInv
  OBVIOUS
<1>1. readQ = <<>> /\ readQ \in Seq(QItems) /\ Len(readQ) = 0 /\ DOMAIN readQ = {}
  BY DEF Init
<1>2. TypeOK
  BY <1>1 DEF Init, TypeOK
<1>3. NoWaiterOnFull /\ BlockedIsQueued /\ RelayCarriesContents /\ Conservation
  BY <1>1, SyncVarAssumption
     DEF Init, NoWaiterOnFull, BlockedIsQueued, RelayCarriesContents, Conservation
<1>4. Reserved /\ CurReserved
  BY <1>1 DEF Init, Reserved, CurReserved
<1> QED
  BY <1>2, <1>3, <1>4 DEF IInv

\* put fills the empty cell and relays.
LEMMA PutInv ==
    ASSUME IInv, NEW t \in Threads, NEW x \in Values, put(t, x) PROVE IInv'
<1>1. /\ value = NONE /\ x \in fresh /\ value' = x /\ fresh' = fresh \ {x}
      /\ placed' = placed \cup {x} /\ relayMsg(x) /\ taken' = taken
  BY DEF put
<1>2. PICK d \in Nat : Relayed(x, d)
  BY <1>1, RelayProps DEF IInv
<1>3. TypeOK'
  BY <1>1, <1>2 DEF IInv, TypeOK, Relayed
<1>4. NoWaiterOnFull' /\ RelayCarriesContents'
  BY <1>1, <1>2, RelayEnds
<1>5. BlockedIsQueued'
  BY <1>2 DEF Relayed
<1>6. x \notin placed
  BY <1>1 DEF IInv, Reserved
<1>7. Conservation'
  BY <1>1, <1>6, SyncVarAssumption DEF IInv, Conservation
<1>8. Used' = Used /\ fresh' \cap placed' = {}
  BY <1>1 DEF IInv, Reserved, Used
<1>9. Reserved' /\ CurReserved'
  BY <1>2, <1>8, ReservedRelay DEF IInv, Reserved
<1> QED
  BY <1>3, <1>4, <1>5, <1>7, <1>9 DEF IInv

\* A resumed get relays what it was given.
LEMMA ResumeGetInv ==
    ASSUME IInv, resumeGet PROVE IInv'
<1>1. cur # NoOne /\ relayMsg(msg) /\ UNCHANGED <<value, fresh, placed, taken>>
  BY DEF resumeGet
<1>2. msg = value /\ value \in Values
  BY <1>1 DEF IInv, TypeOK, RelayCarriesContents
<1>3. PICK d \in Nat : Relayed(msg, d)
  BY <1>1, RelayProps DEF IInv
<1>4. TypeOK'
  BY <1>1, <1>2, <1>3 DEF IInv, TypeOK, Relayed
<1>5. NoWaiterOnFull' /\ RelayCarriesContents'
  BY <1>1, <1>2, <1>3, RelayEnds
<1>6. BlockedIsQueued'
  BY <1>3 DEF Relayed
<1>7. Conservation'
  BY <1>1 DEF IInv, Conservation
<1>8. Used' = Used /\ fresh' \cap placed' = {}
  BY <1>1 DEF IInv, Reserved, Used
<1>9. Reserved' /\ CurReserved'
  BY <1>3, <1>8, ReservedRelay DEF IInv, Reserved
<1> QED
  BY <1>4, <1>5, <1>6, <1>7, <1>9 DEF IInv

\* A resumed swap replaces the contents and relays the new ones.
LEMMA ResumeSwapInv ==
    ASSUME IInv, resumeSwap PROVE IInv'
<1>1. /\ cur # NoOne /\ cur.op = "swap" /\ taken' = [taken EXCEPT ![msg] = taken[msg] + 1]
      /\ value' = cur.new /\ placed' = placed \cup {cur.new} /\ relayMsg(cur.new)
      /\ fresh' = fresh
  BY DEF resumeSwap
<1>2. msg = value /\ value \in Values
  BY <1>1 DEF IInv, TypeOK, RelayCarriesContents
<1>3. cur.new \in Values /\ cur.new \notin fresh /\ cur.new \notin placed
  BY <1>1 DEF IInv, CurReserved, Used
<1>4. PICK d \in Nat : Relayed(cur.new, d)
  BY <1>1, RelayProps DEF IInv
<1>5. TypeOK'
  <2>1. taken' \in [Values -> Nat]
    BY <1>1, <1>2 DEF IInv, TypeOK
  <2> QED
    BY <1>1, <1>3, <1>4, <2>1 DEF IInv, TypeOK, Relayed
<1>6. NoWaiterOnFull' /\ RelayCarriesContents'
  BY <1>1, <1>3, <1>4, RelayEnds
<1>7. BlockedIsQueued'
  BY <1>4 DEF Relayed
<1>8. Conservation'
  <2>1. \A y \in Values : taken'[y] = IF y = value THEN taken[y] + 1 ELSE taken[y]
    BY <1>1, <1>2 DEF IInv, TypeOK
  <2>2. value \in placed
    BY <1>2 DEF IInv, Conservation
  <2> QED
    BY <1>1, <1>3, <2>1, <2>2 DEF IInv, Conservation
<1>9. fresh' \cap placed' = {}
  BY <1>1, <1>3 DEF IInv, Reserved
<1>10. \A k \in 1 .. Len(readQ) : readQ[k].op = "swap" => readQ[k].new \notin Used'
  BY <1>1 DEF IInv, Reserved, CurReserved, Used
<1>11. Reserved' /\ CurReserved'
  BY <1>4, <1>9, <1>10, ReservedRelay DEF IInv
<1> QED
  BY <1>5, <1>6, <1>7, <1>8, <1>11 DEF IInv

\* A resumed take empties the cell and leaves the region.
LEMMA ResumeTakeInv ==
    ASSUME IInv, resumeTake PROVE IInv'
<1>1. /\ cur # NoOne /\ taken' = [taken EXCEPT ![msg] = taken[msg] + 1] /\ value' = NONE
      /\ cur' = NoOne /\ msg' = NONE
      /\ UNCHANGED <<readQ, waiting, choice, fresh, placed>>
  BY DEF resumeTake, Leave
<1>2. msg = value /\ value \in Values
  BY <1>1 DEF IInv, TypeOK, RelayCarriesContents
<1>3. taken' \in [Values -> Nat]
  BY <1>1, <1>2 DEF IInv, TypeOK
<1>4. TypeOK'
  BY <1>1, <1>3 DEF IInv, TypeOK
<1>5. NoWaiterOnFull' /\ BlockedIsQueued' /\ RelayCarriesContents'
  BY <1>1 DEF IInv, NoWaiterOnFull, BlockedIsQueued, RelayCarriesContents
<1>6. Conservation'
  <2>1. \A y \in Values : taken'[y] = IF y = value THEN taken[y] + 1 ELSE taken[y]
    BY <1>1, <1>2 DEF IInv, TypeOK
  <2> QED
    BY <1>1, <1>2, <2>1, SyncVarAssumption DEF IInv, Conservation
<1>7. Reserved' /\ CurReserved'
  BY <1>1 DEF IInv, Reserved, CurReserved, Used
<1> QED
  BY <1>4, <1>5, <1>6, <1>7 DEF IInv

\* take on a full cell.
LEMMA TakeInv ==
    ASSUME IInv, NEW t \in Threads, take(t) PROVE IInv'
<1>1. /\ cur = NoOne /\ value # NONE /\ value' = NONE
      /\ taken' = [taken EXCEPT ![value] = taken[value] + 1]
      /\ UNCHANGED <<readQ, waiting, choice, cur, msg, fresh, placed>>
  BY DEF take, Runs
<1>2. value \in Values
  BY <1>1 DEF IInv, TypeOK
<1>3. taken' \in [Values -> Nat]
  BY <1>1, <1>2 DEF IInv, TypeOK
<1>4. TypeOK'
  BY <1>1, <1>3 DEF IInv, TypeOK
<1>5. NoWaiterOnFull' /\ BlockedIsQueued' /\ RelayCarriesContents'
  BY <1>1 DEF IInv, NoWaiterOnFull, BlockedIsQueued, RelayCarriesContents
<1>6. Conservation'
  <2>1. \A y \in Values : taken'[y] = IF y = value THEN taken[y] + 1 ELSE taken[y]
    BY <1>1, <1>2 DEF IInv, TypeOK
  <2> QED
    BY <1>1, <1>2, <2>1, SyncVarAssumption DEF IInv, Conservation
<1>7. Reserved' /\ CurReserved'
  BY <1>1 DEF IInv, Reserved, CurReserved, Used
<1> QED
  BY <1>4, <1>5, <1>6, <1>7 DEF IInv

\* swap on a full cell.
LEMMA SwapInv ==
    ASSUME IInv, NEW t \in Threads, NEW x \in Values, swap(t, x) PROVE IInv'
<1>1. /\ cur = NoOne /\ value # NONE /\ value' = x /\ x \in fresh
      /\ taken' = [taken EXCEPT ![value] = taken[value] + 1]
      /\ fresh' = fresh \ {x} /\ placed' = placed \cup {x}
      /\ UNCHANGED <<readQ, waiting, choice, cur, msg>>
  BY DEF swap, Runs
<1>2. value \in Values /\ x \notin placed
  BY <1>1 DEF IInv, TypeOK, Reserved
<1>3. taken' \in [Values -> Nat]
  BY <1>1, <1>2 DEF IInv, TypeOK
<1>4. TypeOK'
  BY <1>1, <1>3 DEF IInv, TypeOK
<1>5. NoWaiterOnFull' /\ BlockedIsQueued' /\ RelayCarriesContents'
  BY <1>1 DEF IInv, NoWaiterOnFull, BlockedIsQueued, RelayCarriesContents, NoLive
<1>6. Conservation'
  <2>1. \A y \in Values : taken'[y] = IF y = value THEN taken[y] + 1 ELSE taken[y]
    BY <1>1, <1>2 DEF IInv, TypeOK
  <2>2. value \in placed
    BY <1>2 DEF IInv, Conservation
  <2> QED
    BY <1>1, <1>2, <2>1, <2>2 DEF IInv, Conservation
<1>7. Used' = Used /\ fresh' \cap placed' = {}
  BY <1>1, <1>2 DEF IInv, Reserved, Used
<1>8. Reserved' /\ CurReserved'
  BY <1>1, <1>7 DEF IInv, Reserved, CurReserved
<1> QED
  BY <1>4, <1>5, <1>6, <1>8 DEF IInv

\* An item is added at the rear.
LEMMA EnqueueProps ==
    ASSUME NEW q \in Seq(QItems), NEW w \in QItems
    PROVE  /\ Append(q, w) \in Seq(QItems)
           /\ Len(q) \in Nat /\ Len(Append(q, w)) = Len(q) + 1
           /\ DOMAIN q = 1 .. Len(q) /\ DOMAIN Append(q, w) = 1 .. Len(q) + 1
           /\ \A k \in 1 .. Len(q) : Append(q, w)[k] = q[k]
           /\ Append(q, w)[Len(q) + 1] = w
           /\ \A k \in 1 .. Len(q) + 1 : k \in 1 .. Len(q) \/ k = Len(q) + 1
OBVIOUS

\* Enqueueing a live item of u makes u, and nobody else, found in the queue.
LEMMA EnqueueFound ==
    ASSUME NEW q \in Seq(QItems), NEW w \in QItems, ~w.dead, NEW u
    PROVE  (\E k \in DOMAIN Append(q, w) : Append(q, w)[k].t = u /\ ~Append(q, w)[k].dead)
             <=> w.t = u \/ \E k \in DOMAIN q : q[k].t = u /\ ~q[k].dead
<1>1. ASSUME w.t = u \/ \E k \in DOMAIN q : q[k].t = u /\ ~q[k].dead
      PROVE  \E k \in DOMAIN Append(q, w) : Append(q, w)[k].t = u /\ ~Append(q, w)[k].dead
  <2>1. CASE w.t = u
    <3>1. Len(q) + 1 \in DOMAIN Append(q, w)
      BY EnqueueProps
    <3> QED
      BY <2>1, <3>1, EnqueueProps
  <2>2. CASE \E k \in DOMAIN q : q[k].t = u /\ ~q[k].dead
    <3>1. PICK k \in 1 .. Len(q) : q[k].t = u /\ ~q[k].dead
      BY <2>2, EnqueueProps
    <3>2. k \in DOMAIN Append(q, w) /\ Append(q, w)[k] = q[k]
      BY EnqueueProps
    <3> QED
      BY <3>1, <3>2
  <2> QED
    BY <1>1, <2>1, <2>2
<1>2. ASSUME NEW k \in DOMAIN Append(q, w), Append(q, w)[k].t = u, ~Append(q, w)[k].dead
      PROVE  w.t = u \/ \E j \in DOMAIN q : q[j].t = u /\ ~q[j].dead
  <2>1. CASE k \in 1 .. Len(q)
    BY <1>2, <2>1, EnqueueProps
  <2>2. CASE k = Len(q) + 1
    BY <1>2, <2>2, EnqueueProps
  <2>3. k \in 1 .. Len(q) \/ k = Len(q) + 1
    BY EnqueueProps
  <2> QED
    BY <2>1, <2>2, <2>3
<1> QED
  BY <1>1, <1>2

\* A reading operation on an empty cell waits.
LEMMA BlockInv ==
    ASSUME IInv, NEW t \in Threads, NEW op \in Ops, NEW b \in BOOLEAN, block(t, op, b)
    PROVE  IInv'
<1>1. PICK x \in IF op = "swap" THEN fresh ELSE {NONE} :
         readQ' = Append(readQ, Waiter(t, op, x)) /\ fresh' = fresh \ {x}
  BY DEF block
<1>2. /\ cur = NoOne /\ ~waiting[t] /\ value = NONE
      /\ waiting' = [waiting EXCEPT ![t] = TRUE] /\ choice' = [choice EXCEPT ![t] = b]
      /\ UNCHANGED <<value, cur, msg, placed, taken>>
  BY DEF block, Runs
<1> DEFINE w == Waiter(t, op, x)
<1>3. x \in Values \cup {NONE} /\ (op = "swap" => x \in fresh) /\ (op # "swap" => x \notin fresh)
  BY <1>1, SyncVarAssumption DEF IInv, TypeOK
<1>4. w \in QItems /\ ~w.dead /\ w.t = t /\ w.op = op /\ w.new = x
  BY <1>3 DEF Waiter, QItems
<1>5. readQ \in Seq(QItems) /\ waiting \in [Threads -> BOOLEAN]
  BY DEF IInv, TypeOK
<1> HIDE DEF w
<1>6. readQ' = Append(readQ, w)
  BY <1>1 DEF w
<1>7. /\ readQ' \in Seq(QItems) /\ Len(readQ) \in Nat /\ Len(readQ') = Len(readQ) + 1
      /\ \A k \in 1 .. Len(readQ) : readQ'[k] = readQ[k]
      /\ readQ'[Len(readQ) + 1] = w
      /\ \A k \in 1 .. Len(readQ') : k \in 1 .. Len(readQ) \/ k = Len(readQ) + 1
  BY <1>4, <1>5, <1>6, EnqueueProps
<1>8. TypeOK'
  <2>1. waiting' \in [Threads -> BOOLEAN] /\ choice' \in [Threads -> BOOLEAN]
    BY <1>2 DEF IInv, TypeOK
  <2> QED
    BY <1>1, <1>2, <1>7, <2>1 DEF IInv, TypeOK
<1>9. NoWaiterOnFull' /\ RelayCarriesContents' /\ Conservation'
  BY <1>2 DEF IInv, NoWaiterOnFull, RelayCarriesContents, Conservation
<1>10. BlockedIsQueued'
  <2>1. \A u \in Threads : waiting'[u] <=> u = t \/ waiting[u]
    BY <1>2, <1>5
  <2>2. \A u : (\E k \in DOMAIN readQ' : readQ'[k].t = u /\ ~readQ'[k].dead)
                 <=> t = u \/ \E k \in DOMAIN readQ : readQ[k].t = u /\ ~readQ[k].dead
    BY <1>4, <1>5, <1>6, EnqueueFound
  <2> QED
    BY <2>1, <2>2 DEF IInv, BlockedIsQueued
<1>11. \A k \in 1 .. Len(readQ') : readQ'[k].op = "swap" =>
          readQ'[k].new \in Values \ Used' /\ (k \in 1 .. Len(readQ) => readQ[k].new # x)
  <2> SUFFICES ASSUME NEW k \in 1 .. Len(readQ'), readQ'[k].op = "swap"
               PROVE  /\ readQ'[k].new \in Values \ Used'
                      /\ k \in 1 .. Len(readQ) => readQ[k].new # x
    OBVIOUS
  <2>1. Used' = (fresh \ {x}) \cup placed
    BY <1>1, <1>2 DEF Used
  <2>2. CASE k \in 1 .. Len(readQ)
    <3>1. readQ'[k] = readQ[k] /\ readQ[k].new \in Values \ Used
      BY <1>7, <2>2 DEF IInv, Reserved
    <3>2. x \in Used \/ x \notin Values
      BY <1>1, SyncVarAssumption DEF Used
    <3> QED
      BY <2>1, <3>1, <3>2 DEF Used
  <2>3. CASE k = Len(readQ) + 1
    <3>1. op = "swap" /\ readQ'[k].new = x /\ k \notin 1 .. Len(readQ)
      BY <1>4, <1>7, <2>3
    <3>2. x \in Values /\ x \notin placed
      BY <1>3, <3>1 DEF IInv, TypeOK, Reserved
    <3> QED
      BY <2>1, <3>1, <3>2
  <2> QED
    BY <1>7, <2>2, <2>3
<1>12. ASSUME NEW j \in 1 .. Len(readQ'), NEW k \in 1 .. Len(readQ'),
              readQ'[j].op = "swap", readQ'[k].op = "swap", readQ'[j].new = readQ'[k].new
       PROVE  j = k
  BY <1>4, <1>7, <1>11, <1>12 DEF IInv, Reserved
<1>13. Reserved'
  BY <1>1, <1>2, <1>11, <1>12 DEF IInv, Reserved
<1>14. CurReserved'
  BY <1>2 DEF CurReserved
<1> QED
  BY <1>8, <1>9, <1>10, <1>13, <1>14 DEF IInv

\* A choice of two gets or takes on the variable waits with two items.
LEMMA BlockTwiceInv ==
    ASSUME IInv, NEW t \in Threads, NEW op1 \in Ops, NEW op2 \in Ops, blockTwice(t, op1, op2)
    PROVE  IInv'
<1> DEFINE w1 == Waiter(t, op1, NONE)
           w2 == Waiter(t, op2, NONE)
           q == Append(readQ, w1)
<1>1. /\ cur = NoOne /\ ~waiting[t] /\ value = NONE /\ op1 # "swap" /\ op2 # "swap"
      /\ readQ' = Append(q, w2)
      /\ waiting' = [waiting EXCEPT ![t] = TRUE] /\ choice' = [choice EXCEPT ![t] = TRUE]
      /\ UNCHANGED <<value, cur, msg, fresh, placed, taken>>
  BY DEF blockTwice, Runs
<1>2. /\ w1 \in QItems /\ ~w1.dead /\ w1.t = t /\ w1.op = op1
      /\ w2 \in QItems /\ ~w2.dead /\ w2.t = t /\ w2.op = op2
  BY DEF Waiter, QItems
<1>3. readQ \in Seq(QItems) /\ waiting \in [Threads -> BOOLEAN]
  BY DEF IInv, TypeOK
<1> HIDE DEF w1, w2
<1>4. /\ q \in Seq(QItems) /\ Len(readQ) \in Nat /\ Len(q) = Len(readQ) + 1
      /\ \A k \in 1 .. Len(readQ) : q[k] = readQ[k]
      /\ q[Len(readQ) + 1] = w1
  BY <1>2, <1>3, EnqueueProps
<1>5. \A u : (\E k \in DOMAIN q : q[k].t = u /\ ~q[k].dead)
               <=> t = u \/ \E k \in DOMAIN readQ : readQ[k].t = u /\ ~readQ[k].dead
  BY <1>2, <1>3, EnqueueFound
<1> HIDE DEF q
<1>6. /\ readQ' \in Seq(QItems) /\ Len(readQ') = Len(readQ) + 2
      /\ \A k \in 1 .. Len(q) : readQ'[k] = q[k]
      /\ readQ'[Len(q) + 1] = w2
  BY <1>1, <1>2, <1>4, EnqueueProps
<1>7. \A u : (\E k \in DOMAIN readQ' : readQ'[k].t = u /\ ~readQ'[k].dead)
               <=> t = u \/ \E k \in DOMAIN readQ : readQ[k].t = u /\ ~readQ[k].dead
  <2> SUFFICES ASSUME NEW u
               PROVE  (\E k \in DOMAIN readQ' : readQ'[k].t = u /\ ~readQ'[k].dead)
                        <=> t = u \/ \E k \in DOMAIN readQ : readQ[k].t = u /\ ~readQ[k].dead
    OBVIOUS
  <2>1. (\E k \in DOMAIN readQ' : readQ'[k].t = u /\ ~readQ'[k].dead)
          <=> t = u \/ \E k \in DOMAIN q : q[k].t = u /\ ~q[k].dead
    BY <1>1, <1>2, <1>4, EnqueueFound
  <2> QED
    BY <1>5, <2>1
<1>8. TypeOK'
  <2>1. waiting' \in [Threads -> BOOLEAN] /\ choice' \in [Threads -> BOOLEAN]
    BY <1>1 DEF IInv, TypeOK
  <2> QED
    BY <1>1, <1>6, <2>1 DEF IInv, TypeOK
<1>9. NoWaiterOnFull' /\ RelayCarriesContents' /\ Conservation'
  BY <1>1 DEF IInv, NoWaiterOnFull, RelayCarriesContents, Conservation
<1>10. BlockedIsQueued'
  <2>1. \A u \in Threads : waiting'[u] <=> u = t \/ waiting[u]
    BY <1>1, <1>3
  <2> QED
    BY <1>7, <2>1 DEF IInv, BlockedIsQueued
<1>11. \A k \in 1 .. Len(readQ') : readQ'[k].op = "swap" =>
          k \in 1 .. Len(readQ) /\ readQ'[k] = readQ[k]
  <2> SUFFICES ASSUME NEW k \in 1 .. Len(readQ'), readQ'[k].op = "swap"
               PROVE  k \in 1 .. Len(readQ) /\ readQ'[k] = readQ[k]
    OBVIOUS
  <2>1. k # Len(readQ) + 2 /\ k # Len(readQ) + 1
    BY <1>1, <1>2, <1>4, <1>6
  <2> QED
    BY <1>4, <1>6, <2>1
<1>12. Reserved'
  BY <1>1, <1>11 DEF IInv, Reserved, Used
<1>13. CurReserved'
  BY <1>1 DEF CurReserved
<1> QED
  BY <1>8, <1>9, <1>10, <1>12, <1>13 DEF IInv

\* Another event of the choice commits.
LEMMA CancelInv ==
    ASSUME IInv, NEW t \in Threads, cancel(t) PROVE IInv'
<1>1. /\ readQ' = Cancelled(readQ, t)
      /\ waiting' = [waiting EXCEPT ![t] = FALSE] /\ choice' = [choice EXCEPT ![t] = FALSE]
      /\ UNCHANGED <<value, cur, msg, fresh, placed, taken>>
  BY DEF cancel
<1>2. readQ \in Seq(QItems) /\ waiting \in [Threads -> BOOLEAN]
  BY DEF IInv, TypeOK
<1>3. /\ readQ' \in Seq(QItems) /\ Len(readQ') = Len(readQ) /\ Len(readQ) \in Nat
      /\ DOMAIN readQ = 1 .. Len(readQ) /\ DOMAIN readQ' = 1 .. Len(readQ)
      /\ \A k \in 1 .. Len(readQ) :
            /\ readQ'[k].t = readQ[k].t
            /\ readQ'[k].op = readQ[k].op
            /\ readQ'[k].new = readQ[k].new
            /\ readQ'[k].dead <=> readQ[k].dead \/ readQ[k].t = t
  BY <1>1, <1>2, CancelledProps
<1>4. TypeOK'
  <2>1. waiting' \in [Threads -> BOOLEAN] /\ choice' \in [Threads -> BOOLEAN]
    BY <1>1 DEF IInv, TypeOK
  <2> QED
    BY <1>1, <1>3, <2>1 DEF IInv, TypeOK
<1>5. NoWaiterOnFull'
  BY <1>1, <1>3 DEF IInv, NoWaiterOnFull, NoLive
<1>6. BlockedIsQueued'
  <2>1. \A u \in Threads : waiting'[u] <=> u # t /\ waiting[u]
    BY <1>1, <1>2
  <2> QED
    BY <1>3, <2>1 DEF IInv, BlockedIsQueued
<1>7. RelayCarriesContents' /\ Conservation'
  BY <1>1 DEF IInv, RelayCarriesContents, Conservation
<1>8. Reserved'
  BY <1>1, <1>3 DEF IInv, Reserved, Used
<1>9. CurReserved'
  BY <1>1, <1>3 DEF IInv, CurReserved, Used
<1> QED
  BY <1>4, <1>5, <1>6, <1>7, <1>8, <1>9 DEF IInv

\* The invariant is inductive.
LEMMA NextInv == IInv /\ [Next]_vars => IInv'
<1> SUFFICES ASSUME IInv, [Next]_vars PROVE IInv'
  OBVIOUS
<1>1. CASE UNCHANGED vars
  <2>1. TypeOK' /\ NoWaiterOnFull' /\ BlockedIsQueued' /\ RelayCarriesContents' /\ Conservation'
    BY <1>1 DEF IInv, vars, TypeOK, NoWaiterOnFull, NoLive, BlockedIsQueued,
       RelayCarriesContents, Conservation
  <2>2. Reserved' /\ CurReserved'
    BY <1>1 DEF IInv, vars, Reserved, CurReserved, Used
  <2> QED
    BY <2>1, <2>2 DEF IInv
<1> QED
  BY <1>1, PutInv, TakeInv, SwapInv, BlockInv, BlockTwiceInv, CancelInv,
     ResumeGetInv, ResumeTakeInv, ResumeSwapInv DEF Next

-----------------------------------------------------------------------------
(* The theorems.                                                            *)

\* The inductive invariant holds in every reachable state.
THEOREM Invariance == Spec => []IInv
BY InitInv, NextInv, PTL DEF Spec

\* Every variable keeps its type, for any sets of threads and values.
THEOREM TypeCorrect == Spec => []TypeOK
<1>1. IInv => TypeOK
  BY DEF IInv
<1> QED
  BY <1>1, Invariance, PTL

\* No wake-up is lost: nobody waits for a cell that is full.
THEOREM NoLostWakeup == Spec => []NoWaiterOnFull
<1>1. IInv => NoWaiterOnFull
  BY DEF IInv
<1> QED
  BY <1>1, Invariance, PTL

\* A thread is blocked exactly while a live item of it is in the queue.
THEOREM QueueTracksWaiters == Spec => []BlockedIsQueued
<1>1. IInv => BlockedIsQueued
  BY DEF IInv
<1> QED
  BY <1>1, Invariance, PTL

\* A relay always carries what the cell holds.
THEOREM RelaysAreCurrent == Spec => []RelayCarriesContents
<1>1. IInv => RelayCarriesContents
  BY DEF IInv
<1> QED
  BY <1>1, Invariance, PTL

\* No value is lost, duplicated or removed twice.
THEOREM ValuesConserved == Spec => []Conservation
<1>1. IInv => Conservation
  BY DEF IInv
<1> QED
  BY <1>1, Invariance, PTL
=============================================================================
