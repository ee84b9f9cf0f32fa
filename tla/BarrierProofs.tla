--------------------------- MODULE BarrierProofs ---------------------------
(***************************************************************************)
(* Proofs about the barrier for any finite set of enrollments.             *)
(***************************************************************************)
EXTENDS Barrier, FiniteSetTheorems, TLAPS

\* CountsAgree and NobodyLeftBehind are inductive together: that list,
\* statuses and blocked threads agree is what keeps the counters right, and
\* the comparison of the counters is what keeps a member still to come.
IInv == TypeOK /\ CountsAgree /\ NobodyLeftBehind

\* The membership sets are finite, and their cardinalities are numbers.
LEMMA Finite ==
    /\ IsFiniteSet(Enrolled) /\ IsFiniteSet(Waiting)
    /\ Cardinality(Enrolled) \in Nat /\ Cardinality(Waiting) \in Nat
<1>1. Enrolled \subseteq Enrollments /\ Waiting \subseteq Enrollments
  BY DEF Enrolled, Waiting
<1>2. IsFiniteSet(Enrolled) /\ IsFiniteSet(Waiting)
  BY <1>1, BarrierAssumption, FS_Subset
<1> QED
  BY <1>2, FS_CardinalityType

\* The barrier starts empty.
LEMMA InitInv == Init => IInv
<1> SUFFICES ASSUME Init PROVE IInv
  OBVIOUS
<1>1. TypeOK
  BY DEF Init, TypeOK, None
<1>2. Enrolled = {} /\ Waiting = {}
  BY DEF Init, Enrolled, Waiting
<1>3. CountsAgree /\ NobodyLeftBehind
  BY <1>2, FS_EmptySet DEF Init, CountsAgree, NobodyLeftBehind
<1> QED
  BY <1>1, <1>3 DEF IInv

\* Enrolling adds a member, for whom the blocked threads wait.
LEMMA EnrollInv ==
    ASSUME IInv, NEW e \in Enrollments, enroll(e) PROVE IInv'
<1>1. TypeOK'
  BY DEF IInv, TypeOK, enroll
<1>2. Enrolled' = Enrolled \cup {e} /\ Waiting' = Waiting /\ e \notin Enrolled
  BY DEF IInv, TypeOK, enroll, Enrolled, Waiting
<1>3. Cardinality(Enrolled \cup {e}) = Cardinality(Enrolled) + 1
  BY <1>2, Finite, FS_AddElement
<1>4. CountsAgree'
  BY <1>2, <1>3 DEF IInv, CountsAgree, enroll
<1>5. e \in Enrolled' /\ e \notin blocked'
  BY <1>2 DEF IInv, CountsAgree, enroll, Enrolled, Waiting
<1>6. NobodyLeftBehind'
  BY <1>5 DEF IInv, NobodyLeftBehind, enroll
<1> QED
  BY <1>1, <1>4, <1>6 DEF IInv

\* Resigning removes one that does not wait.
LEMMA ResignInv ==
    ASSUME IInv, NEW e \in Enrollments, resign(e) PROVE IInv'
<1>1. e \in Enrolled /\ Enrolled' = Enrolled \ {e} /\ Waiting' = Waiting
  BY DEF IInv, TypeOK, resign, Enrolled, Waiting
<1>2. Cardinality(Enrolled \ {e}) = Cardinality(Enrolled) - 1
      /\ Cardinality(Enrolled \ {e}) \in Nat
  <2>1. IsFiniteSet(Enrolled \ {e}) /\ Cardinality(Enrolled \ {e}) = Cardinality(Enrolled) - 1
    BY <1>1, Finite, FS_RemoveElement
  <2> QED
    BY <2>1, FS_CardinalityType
<1>3. nEnrolled' = Cardinality(Enrolled') /\ nEnrolled' \in Nat
  BY <1>1, <1>2 DEF IInv, CountsAgree, resign
<1>4. TypeOK'
  BY <1>3 DEF IInv, TypeOK, resign
<1>5. CountsAgree'
  BY <1>1, <1>3 DEF IInv, CountsAgree, resign
<1>6. NobodyLeftBehind'
  <2>1. blocked' = blocked /\ began' = began /\ round' = round
    BY DEF resign
  <2>2. blocked \subseteq Enrolled \ {e}
    BY DEF IInv, CountsAgree, Waiting, Enrolled, resign
  <2>3. ASSUME blocked # {}, Enrolled' \subseteq blocked PROVE abandoned' = blocked
    BY <1>1, <2>2, <2>3 DEF resign
  <2> QED
    BY <2>1, <2>3 DEF IInv, NobodyLeftBehind
<1> QED
  BY <1>4, <1>5, <1>6 DEF IInv

\* A wait that is not the last adds a blocked thread and leaves a member to
\* come: if all were blocked, the counters would be equal.
LEMMA WaitBlockInv ==
    ASSUME IInv, NEW e \in Enrollments, waitBlock(e) PROVE IInv'
<1>1. Waiting' = Waiting \cup {e} /\ Enrolled' = Enrolled /\ e \notin Waiting
  BY DEF IInv, TypeOK, waitBlock, Enrolled, Waiting
<1>2. Cardinality(Waiting \cup {e}) = Cardinality(Waiting) + 1
  BY <1>1, Finite, FS_AddElement
<1>3. TypeOK'
  BY DEF IInv, TypeOK, waitBlock
<1>4. CountsAgree'
  BY <1>1, <1>2 DEF IInv, CountsAgree, waitBlock
<1>5. ~(Enrolled' \subseteq blocked')
  <2> SUFFICES ASSUME Enrolled' \subseteq blocked' PROVE FALSE
    OBVIOUS
  <2>1. blocked' = Waiting \cup {e}
    BY DEF IInv, CountsAgree, waitBlock
  <2>2. Waiting \cup {e} \subseteq Enrolled
    BY DEF waitBlock, Waiting, Enrolled
  <2>3. Enrolled = Waiting \cup {e}
    BY <1>1, <2>1, <2>2
  <2> QED
    BY <1>2, <2>3 DEF IInv, CountsAgree, waitBlock
<1>6. NobodyLeftBehind'
  <2>1. \A d \in blocked' : began'[d] = round'
    BY DEF IInv, TypeOK, NobodyLeftBehind, waitBlock
  <2> QED
    BY <1>5, <2>1 DEF NobodyLeftBehind
<1> QED
  BY <1>3, <1>4, <1>6 DEF IInv

\* The last wait releases everybody.
LEMMA WaitLastInv ==
    ASSUME IInv, NEW e \in Enrollments, waitLast(e) PROVE IInv'
<1>1. Waiting' = {} /\ Enrolled' = Enrolled /\ blocked' = {}
  BY DEF IInv, TypeOK, CountsAgree, waitLast, Enrolled, Waiting
<1>2. TypeOK'
  <2>1. PICK raises \in BOOLEAN :
          /\ state' = IF raises THEN state ELSE state + 1
          /\ result' = [d \in Enrollments |->
                IF d \in waiting \cup {e} THEN (IF raises THEN RAISE ELSE VALUE(state + 1))
                ELSE result[d]]
    BY DEF waitLast
  <2>2. state' \in Nat /\ state + 1 \in Nat
    BY <2>1 DEF IInv, TypeOK
  <2>3. result' \in [Enrollments -> {"none", "RAISE", "VALUE"} \X Nat]
    BY <2>1, <2>2 DEF IInv, TypeOK, RAISE, VALUE
  <2> QED
    BY <2>2, <2>3 DEF IInv, TypeOK, waitLast
<1>3. CountsAgree'
  BY <1>1, FS_EmptySet DEF IInv, CountsAgree, waitLast
<1>4. NobodyLeftBehind'
  BY <1>1 DEF NobodyLeftBehind
<1> QED
  BY <1>2, <1>3, <1>4 DEF IInv

\* The invariant is inductive.
LEMMA NextInv == IInv /\ [Next]_vars => IInv'
<1> SUFFICES ASSUME IInv, [Next]_vars PROVE IInv'
  OBVIOUS
<1>1. ASSUME UNCHANGED vars PROVE IInv'
  BY <1>1 DEF IInv, vars, TypeOK, CountsAgree, NobodyLeftBehind, Enrolled, Waiting
<1> QED
  BY <1>1, EnrollInv, ResignInv, WaitBlockInv, WaitLastInv DEF Next, waitFails

\* The inductive invariant holds in every reachable state.
THEOREM Invariance == Spec => []IInv
BY InitInv, NextInv, PTL DEF Spec

\* Every variable keeps its type; in particular no counter becomes negative.
THEOREM TypeCorrect == Spec => []TypeOK
<1>1. IInv => TypeOK
  BY DEF IInv
<1> QED
  BY <1>1, Invariance, PTL

\* Counters, waiting list and statuses agree for any number of enrollments.
THEOREM CountersCorrect == Spec => []CountsAgree
<1>1. IInv => CountsAgree
  BY DEF IInv
<1> QED
  BY <1>1, Invariance, PTL

\* A blocked thread is blocked in the round that is going on, and somebody
\* has still to come unless the only one to come has resigned: for any finite
\* set of enrollments and any number of rounds.
THEOREM NobodyPassedBy == Spec => []NobodyLeftBehind
<1>1. IInv => NobodyLeftBehind
  BY DEF IInv
<1> QED
  BY <1>1, Invariance, PTL

\* In a state that satisfies the invariant, the last of the members to wait
\* finds all the others in the waiting list: this is where counting threads
\* stands in for looking at them.
LEMMA LastMeansAll ==
    ASSUME IInv, NEW e \in Enrollments, waitLast(e)
    PROVE  e \in Enrolled \ blocked /\ Enrolled = blocked \cup {e} /\ waiting = blocked
<1>1. e \in Enrolled /\ e \notin Waiting /\ Waiting \subseteq Enrolled \ {e}
  BY DEF Enrolled, Waiting, waitLast
<1>2. IsFiniteSet(Enrolled \ {e}) /\ Cardinality(Enrolled \ {e}) = Cardinality(Enrolled) - 1
  BY <1>1, Finite, FS_RemoveElement
<1>3. Cardinality(Waiting) = Cardinality(Enrolled \ {e})
  BY <1>2, Finite DEF IInv, CountsAgree, waitLast
<1>4. Waiting = Enrolled \ {e}
  BY <1>1, <1>2, <1>3, FS_Subset
<1> QED
  BY <1>1, <1>4 DEF IInv, CountsAgree

\* A round ends for all the members at once, not before the last has come,
\* and gives all of them the same result, and no step leaves a blocked thread
\* behind, for any number of enrollments.
THEOREM MembersPassTogether == Spec => PassTogether
<1>1. IInv /\ Next => RoundIsWhole
  <2> SUFFICES ASSUME IInv, Next, round' # round \/ ~(blocked \subseteq blocked') PROVE RoundIsWhole
    BY DEF RoundIsWhole
  <2>1. PICK e \in Enrollments : waitLast(e)
    BY DEF Next, enroll, waitBlock, waitFails, resign, vars
  <2>2. e \in Enrolled \ blocked /\ Enrolled = blocked \cup {e} /\ waiting = blocked
    BY <2>1, LastMeansAll
  <2>3. \A d \in Enrolled : d \in Enrollments /\ d \in waiting \cup {e}
    BY <2>2 DEF Enrolled
  <2>4. \A d \in Enrolled : sts'[d] = "ENROLLED"
    BY <2>1, <2>3 DEF waitLast
  <2>5. blocked' = {} /\ round' = round + 1
    BY <2>1, <2>2 DEF waitLast
  <2>6. PICK raises \in BOOLEAN :
           /\ state' = IF raises THEN state ELSE state + 1
           /\ result' = [d \in Enrollments |->
                 IF d \in waiting \cup {e} THEN (IF raises THEN RAISE ELSE VALUE(state + 1))
                 ELSE result[d]]
    BY <2>1 DEF waitLast
  <2>7. CASE raises
    BY <2>2, <2>3, <2>4, <2>5, <2>6, <2>7 DEF RoundIsWhole
  <2>8. CASE ~raises
    BY <2>2, <2>3, <2>4, <2>5, <2>6, <2>8 DEF RoundIsWhole
  <2> QED
    BY <2>7, <2>8
<1>2. IInv /\ [Next]_vars => [NobodyLeftBehind' /\ RoundIsWhole]_vars
  BY <1>1, NextInv DEF IInv
<1> QED
  BY <1>2, Invariance, PTL DEF Spec, PassTogether
=============================================================================
