------------------------------ MODULE Barrier ------------------------------
(***************************************************************************)
(* Barrier synchronization with a global state (barrier.sml).  The state   *)
(* is a number and the update function counts, so that it tells how many   *)
(* barrier synchronizations have succeeded; an update may also raise an    *)
(* exception, which leaves the state alone and is delivered to everybody.  *)
(* Every operation is one atomic region.  Beside the code's own counters,  *)
(* list and statuses the model keeps what the threads see: who is blocked  *)
(* in a wait, since which round, and what the last wait returned.          *)
(***************************************************************************)
EXTENDS Naturals, FiniteSets

CONSTANTS
    Enrollments,   \* the enrollments that may be created
    MaxRounds      \* bound: barrier synchronizations

ASSUME BarrierAssumption ==
    /\ IsFiniteSet(Enrollments)
    /\ MaxRounds \in Nat

VARIABLES
    state,       \* the global state of the barrier
    nEnrolled, nWaiting,
    waiting,     \* the enrollments whose threads are in the waiting list
    sts,         \* status of each enrollment
    blocked,     \* the enrollments whose threads are suspended in wait
    round,       \* history: barrier synchronizations so far
    began,       \* history: the round in which the last wait on e blocked
    abandoned,   \* history: blocked threads, everybody else having resigned
    result       \* what the last wait on e returned

vars == <<state, nEnrolled, nWaiting, waiting, sts, blocked, round, began, abandoned, result>>

\* The values of datatype result.
None == <<"none", 0>>
RAISE == <<"RAISE", 0>>
VALUE(x) == <<"VALUE", x>>

\* The members, by the status of their enrollments.
Enrolled == {e \in Enrollments : sts[e] \in {"ENROLLED", "WAITING"}}
Waiting == {e \in Enrollments : sts[e] = "WAITING"}

Init ==
    /\ state = 0
    /\ nEnrolled = 0 /\ nWaiting = 0 /\ waiting = {}
    /\ sts = [e \in Enrollments |-> "NEW"]
    /\ blocked = {} /\ round = 0 /\ abandoned = {}
    /\ began = [e \in Enrollments |-> 0]
    /\ result = [e \in Enrollments |-> None]

\* A new member is somebody the others wait for.
enroll(e) ==
    /\ sts[e] = "NEW"
    /\ nEnrolled' = nEnrolled + 1
    /\ sts' = [sts EXCEPT ![e] = "ENROLLED"]
    /\ abandoned' = {}
    /\ UNCHANGED <<state, nWaiting, waiting, blocked, round, began, result>>

\* wait by the last thread: update the state, or catch the exception that
\* the update raises, and wake every thread of the list with the same result
waitLast(e) ==
    /\ sts[e] = "ENROLLED" /\ nWaiting + 1 = nEnrolled /\ round < MaxRounds
    /\ \E raises \in BOOLEAN :
          /\ state' = IF raises THEN state ELSE state + 1
          /\ result' = [d \in Enrollments |->
                IF d \in waiting \cup {e} THEN (IF raises THEN RAISE ELSE VALUE(state + 1))
                ELSE result[d]]
    /\ sts' = [d \in Enrollments |-> IF d \in waiting THEN "ENROLLED" ELSE sts[d]]
    /\ blocked' = blocked \ waiting
    /\ nWaiting' = 0 /\ waiting' = {}
    /\ round' = round + 1
    /\ UNCHANGED <<nEnrolled, began, abandoned>>

waitBlock(e) ==
    /\ sts[e] = "ENROLLED" /\ nWaiting + 1 # nEnrolled
    /\ nWaiting' = nWaiting + 1
    /\ waiting' = waiting \cup {e}
    /\ sts' = [sts EXCEPT ![e] = "WAITING"]
    /\ blocked' = blocked \cup {e}
    /\ began' = [began EXCEPT ![e] = round]
    /\ UNCHANGED <<state, nEnrolled, round, abandoned, result>>

\* wait on an enrollment that is waiting or resigned raises Fail
waitFails(e) ==
    /\ sts[e] \in {"WAITING", "RESIGNED"}
    /\ UNCHANGED vars

\* Mutant: an enrollment is resigned while a thread waits on it.
resignAnyway(e) ==
    /\ sts[e] \in {"ENROLLED", "WAITING"}
    /\ sts' = [sts EXCEPT ![e] = "RESIGNED"]
    /\ nEnrolled' = nEnrolled - 1
    /\ abandoned' = IF blocked = Enrolled \ {e} THEN blocked ELSE abandoned
    /\ UNCHANGED <<state, nWaiting, waiting, blocked, round, began, result>>

\* a second resignation is ignored; resigning while waiting raises Fail
resign(e) ==
    /\ sts[e] = "ENROLLED"
    /\ sts' = [sts EXCEPT ![e] = "RESIGNED"]
    /\ nEnrolled' = nEnrolled - 1
    /\ abandoned' = IF blocked = Enrolled \ {e} THEN blocked ELSE abandoned
    /\ UNCHANGED <<state, nWaiting, waiting, blocked, round, began, result>>

Next ==
    \E e \in Enrollments :
        enroll(e) \/ waitLast(e) \/ waitBlock(e) \/ waitFails(e) \/ resign(e)

Spec == Init /\ [][Next]_vars

-----------------------------------------------------------------------------
(* Properties.                                                              *)

TypeOK ==
    /\ state \in Nat /\ nEnrolled \in Nat /\ nWaiting \in Nat /\ round \in Nat
    /\ waiting \subseteq Enrollments /\ blocked \subseteq Enrollments
    /\ abandoned \subseteq Enrollments
    /\ sts \in [Enrollments -> {"NEW", "ENROLLED", "WAITING", "RESIGNED"}]
    /\ began \in [Enrollments -> Nat]
    /\ result \in [Enrollments -> {"none", "RAISE", "VALUE"} \X Nat]

\* The copies of the membership agree through enrollments, waits, releases
\* and resignations: the counters count, and the waiting list and the status
\* WAITING are those of the blocked threads.
CountsAgree ==
    /\ waiting = Waiting /\ blocked = Waiting
    /\ nWaiting = Cardinality(Waiting)
    /\ nEnrolled = Cardinality(Enrolled)

\* A thread that is blocked in wait is blocked in the round that is going on,
\* not in one that has passed it by, and there is a member that has still to
\* come and complete the round (wait, barrier.sml:60-87).  The exception is
\* the resignation of the only member that the blocked threads waited for
\* (resign, barrier.sml:98-101): all of the enrolled threads are then waiting,
\* "at which point the state is updated", says barrier.mldoc:73-75, but it is
\* not, and they are abandoned until somebody enrolls.
NobodyLeftBehind ==
    /\ \A e \in blocked : began[e] = round
    /\ blocked # {} /\ Enrolled \subseteq blocked => abandoned = blocked

\* A round ends for everybody and not too early: a step that ends a round or
\* lets a blocked thread go finds every member but one blocked, that one has
\* just come, all of them go on, and all return the same result, which is the
\* new state or - with the state as it was - the exception of the update.
RoundIsWhole ==
    round' # round \/ ~(blocked \subseteq blocked') =>
        /\ \E e \in Enrolled \ blocked : Enrolled = blocked \cup {e}
        /\ blocked' = {} /\ round' = round + 1
        /\ \A d \in Enrolled : sts'[d] = "ENROLLED"
        /\ \/ state' = state + 1 /\ \A d \in Enrolled : result'[d] = VALUE(state')
           \/ state' = state /\ \A d \in Enrolled : result'[d] = RAISE

\* All members pass a barrier together: no step of wait, enroll or resign
\* leaves a thread behind or lets one go too early, over any number of rounds.
PassTogether == [][NobodyLeftBehind' /\ RoundIsWhole]_vars
=============================================================================
