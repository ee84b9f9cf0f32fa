----------------------------- MODULE LiveQueue -----------------------------
(* What the waiting queues promise: a first-in first-out queue from which a *)
(* cancelled entry disappears at once.  got is the item last handed out.    *)
EXTENDS Naturals, Sequences

CONSTANTS Items, NoItem
VARIABLES q, got

Init == q = <<>> /\ got = NoItem

Put == \E x \in Items : q' = Append(q, x) /\ UNCHANGED got

Take ==
    \/ q # <<>> /\ got' = Head(q) /\ q' = Tail(q)
    \/ q = <<>> /\ got' = NoItem /\ UNCHANGED q

Cancel ==
    /\ \E k \in DOMAIN q : q' = SubSeq(q, 1, k - 1) \o SubSeq(q, k + 1, Len(q))
    /\ UNCHANGED got

Reset == q' = <<>> /\ UNCHANGED got

Next == Put \/ Take \/ Cancel \/ Reset
Spec == Init /\ [][Next]_<<q, got>>
=============================================================================
