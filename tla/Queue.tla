------------------------------- MODULE Queue -------------------------------
(***************************************************************************)
(* The functional queues of queue.sml - a front list and a reversed rear   *)
(* list - and the operations with which channel.sml, sync-var.sml and      *)
(* mailbox.sml work on queues whose entries may have been cancelled.       *)
(* A cancelled entry stays where it is until a clean-up comes across it.   *)
(***************************************************************************)
EXTENDS Naturals, Sequences, SequencesExt, Subsequence

CONSTANTS
    Items,    \* bound: every item is enqueued at most once
    NoItem

VARIABLES
    front,    \* oldest first
    rear,     \* newest first
    live,     \* items whose transaction id holds TRANS
    fresh,    \* items not yet enqueued
    seen,     \* the item at the head when cleanAndChk last found one, in a region
    got,      \* the item last removed for a caller
    raised    \* getIdFromTrans has raised Match in the last dequeue

vars == <<front, rear, live, fresh, seen, got, raised>>

Init ==
    /\ front = <<>> /\ rear = <<>>
    /\ live = {} /\ fresh = Items
    /\ seen = NoItem /\ got = NoItem /\ raised = FALSE

Live(l) == Filter(l, live)

\* clean: drop the cancelled items at the head of a list
clean(l) ==
    LET alive == {k \in DOMAIN l : l[k] \in live}
    IN  IF alive = {} THEN <<>> ELSE SubSeq(l, Min(alive), Len(l))

\* cleanRev (r, l): reverse r onto l without its cancelled items
cleanRev(r, l) == Reverse(Live(r)) \o l

cleanAll(l) == Live(l)

New(x) == x \in fresh /\ fresh' = fresh \ {x} /\ live' = live \cup {x}

\* Q.enqueue, and the inlined copies of it
enqueue(x) ==
    /\ New(x)
    /\ rear' = <<x>> \o rear
    /\ seen' = NoItem
    /\ UNCHANGED <<front, got, raised>>

\* Channel.cleanAndEnqueue
cleanAndEnqueue(x) ==
    /\ New(x)
    /\ \/ /\ cleanAll(front) = <<>>
          /\ front' = cleanRev(rear, <<x>>) /\ rear' = <<>>
       \/ /\ cleanAll(front) # <<>>
          /\ front' = cleanAll(front) /\ rear' = <<x>> \o cleanAll(rear)
    /\ seen' = NoItem
    /\ UNCHANGED <<got, raised>>

\* Mutant: the cleaned front list is looked at and not stored.
cleanAndChkLooks ==
    /\ \/ /\ clean(front) # <<>>
          /\ seen' = Head(clean(front))
          /\ UNCHANGED <<front, rear>>
       \/ /\ clean(front) = <<>>
          /\ front' = cleanRev(rear, <<>>) /\ rear' = <<>>
          /\ seen' = IF Live(rear) # <<>> THEN Head(front') ELSE NoItem
    /\ UNCHANGED <<live, fresh, got, raised>>

\* cleanAndChk: is there a live item? if so, it is now at the head of front
cleanAndChk ==
    /\ \/ /\ clean(front) # <<>>
          /\ front' = clean(front) /\ seen' = Head(front')
          /\ UNCHANGED rear
       \/ /\ clean(front) = <<>> /\ Live(rear) # <<>>
          /\ front' = cleanRev(rear, <<>>) /\ seen' = Head(front')
          /\ rear' = <<>>
       \/ /\ clean(front) = <<>> /\ Live(rear) = <<>>
          /\ rear' = <<>> /\ seen' = NoItem
          /\ UNCHANGED front
    /\ UNCHANGED <<live, fresh, got, raised>>

\* cleanAndRemove: remove the oldest live item, which is then cancelled by
\* getIdFromTrans
cleanAndRemove ==
    LET f == clean(front)
        r == cleanRev(rear, <<>>)
    IN  /\ \/ /\ f # <<>>
              /\ got' = Head(f) /\ front' = Tail(f)
              /\ UNCHANGED rear
           \/ /\ f = <<>> /\ r # <<>>
              /\ got' = Head(r) /\ front' = Tail(r) /\ rear' = <<>>
           \/ /\ f = <<>> /\ r = <<>>
              /\ got' = NoItem /\ rear' = <<>>
              /\ UNCHANGED front
        /\ live' = live \ {got'}
        /\ seen' = NoItem
        /\ UNCHANGED <<fresh, raised>>

\* Q.dequeue in the doFn of an event whose poll found the queue nonempty;
\* with an empty front the rear is reversed.  The item found is cancelled by
\* getIdFromTrans, whose only pattern is TRANS: for an item that has been
\* cancelled since the poll it raises Match, and the item is gone.
dequeue ==
    LET all == IF front # <<>> THEN front ELSE Reverse(rear) IN
    /\ seen # NoItem
    /\ front' = Tail(all)
    /\ rear' = IF front # <<>> THEN rear ELSE <<>>
    /\ \/ Head(all) \in live /\ got' = Head(all) /\ raised' = FALSE
       \/ Head(all) \notin live /\ raised' = TRUE /\ UNCHANGED got
    /\ live' = live \ {Head(all)}
    /\ seen' = NoItem
    /\ UNCHANGED fresh

\* another event of the choice to which x belongs commits, in a later region
\* or, by a nack that is set there, between the poll and the doFn of a region
cancel(x) ==
    /\ x \in live
    /\ live' = live \ {x}
    /\ UNCHANGED <<front, rear, fresh, seen, got, raised>>

\* Q.reset: resetChan, Scheduler.reset.  The waiting threads are forgotten;
\* nobody else holds their transaction ids.
reset ==
    /\ front' = <<>> /\ rear' = <<>>
    /\ live' = {}
    /\ seen' = NoItem
    /\ UNCHANGED <<fresh, got, raised>>

\* Q.remove, with the predicate "is in P": the front is searched from its
\* head, then the rear from its head; Remove is raised if there is no match
Matches(l, P) == {k \in DOMAIN l : l[k] \in P}
RemoveFrom(l, P) == RemoveAt(l, Min(Matches(l, P)))

remove(P) ==
    /\ Matches(front, P) # {} \/ Matches(rear, P) # {}
    /\ IF Matches(front, P) # {}
       THEN front' = RemoveFrom(front, P) /\ UNCHANGED rear
       ELSE rear' = RemoveFrom(rear, P) /\ UNCHANGED front
    /\ seen' = NoItem
    /\ live' = live \cap ToSet(front' \o rear')
    /\ UNCHANGED <<fresh, got, raised>>

Next ==
    \/ cleanAndChk \/ cleanAndRemove \/ dequeue \/ reset
    \/ \E x \in Items : enqueue(x) \/ cleanAndEnqueue(x) \/ cancel(x)
    \/ \E P \in SUBSET Items : remove(P)

Spec == Init /\ [][Next]_vars

-----------------------------------------------------------------------------
(* Properties.                                                              *)

Contents == front \o Reverse(rear)

Abs == INSTANCE LiveQueue WITH q <- Live(Contents)

\* A thread that blocks on a channel sweeps it: after cleanAndEnqueue no
\* cancelled item is left, so choices that lose again and again do not fill
\* the queue (Q.enqueue has no such effect).
BlockingSweeps ==
    [][\A x \in Items : cleanAndEnqueue(x) => Live(Contents)' = Contents']_vars

\* The doFn of an event meets what its poll saw (event.sml:407-413,
\* channel.sml:148-149), whatever was cancelled in between: if that item
\* itself was not, it is handed out, and if it was, Match is raised and no
\* live item is lost.
DequeueMeetsPoll ==
    [][dequeue => \/ seen \in live /\ got' = seen /\ ~raised'
                  \/ seen \notin live /\ raised' /\ live' = live]_vars

\* Q.remove takes out one item, and one that satisfies the predicate; it need
\* not be "the first item that satisfies" it (queue.sml:41), because the rear
\* list is searched newest first.
RemovesOne ==
    [][\A P \in SUBSET Items :
          remove(P) => \E k \in Matches(Contents, P) : Contents' = RemoveAt(Contents, k)]_vars

\* The two lists with their lazy clean-ups implement a queue from which
\* cancelled items vanish immediately: every live item is handed out once,
\* oldest first, none is dropped by a clean-up; whoever blocks leaves no
\* cancelled item behind, a dequeue meets what its poll saw or raises Match,
\* and a removal takes one item that matches.
Implements == Abs!Spec /\ BlockingSweeps /\ DequeueMeetsPoll /\ RemovesOne
=============================================================================
