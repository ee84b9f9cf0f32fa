------------------------------- MODULE MCEvent -------------------------------
(* Programs for the runs of module Event.                                   *)
EXTENDS Event

CONSTANTS t1, t2, t3, c1, c2

ChanSet == {c1, c2}
SendOn(c) == [op |-> "send", on |-> c]
RecvOn(c) == [op |-> "recv", on |-> c]
Always == [op |-> "always", on |-> <<>>]
Timeout == [op |-> "timeout", on |-> <<>>]
NackOf(u, j) == [op |-> "cvar", on |-> <<u, j>>]
Choose(evts) == [evts |-> evts, nacks |-> <<>>]
WithNacks(evts, nacks) == [evts |-> evts, nacks |-> nacks]

\* Choices over two channels, in both directions and on one channel, with
\* time-outs, against direct sends and receives.
ChoiceMenu ==
    [t \in {t1, t2, t3} |->
        CASE t = t1 -> {Choose(<<SendOn(c1), RecvOn(c2)>>), Choose(<<SendOn(c1), RecvOn(c1)>>),
                        Choose(<<RecvOn(c1), Timeout>>)}
          [] t = t2 -> {Choose(<<RecvOn(c1), SendOn(c2)>>), Choose(<<RecvOn(c1), RecvOn(c2), SendOn(c1)>>)}
          [] t = t3 -> {Choose(<<RecvOn(c1), RecvOn(c2)>>), Choose(<<SendOn(c2), Always>>)}]
ChoiceDirect ==
    [t \in {t1, t2, t3} |->
        CASE t = t1 -> {SendOn(c2)} [] t = t2 -> {RecvOn(c2), SendOn(c1)} [] t = t3 -> {RecvOn(c1), SendOn(c1)}]

\* Nested withNacks whose nack events other threads wait for, so that one
\* commit sets a cvar whose waiter's commit sets another.
NackMenu ==
    [t \in {t1, t2, t3} |->
        CASE t = t1 -> {WithNacks(<<RecvOn(c1), SendOn(c1), Timeout>>, <<{1}, {1, 2}>>)}
          [] t = t2 -> {WithNacks(<<NackOf(t1, 1), NackOf(t1, 2), Timeout>>, <<{1}, {2, 3}>>),
                        WithNacks(<<SendOn(c1), RecvOn(c2)>>, <<{1}>>)}
          [] t = t3 -> {Choose(<<NackOf(t2, 1), RecvOn(c1)>>), Choose(<<NackOf(t2, 2), NackOf(t1, 1)>>)}]
NackDirect ==
    [t \in {t1, t2, t3} |->
        CASE t = t1 -> {SendOn(c2)} [] t = t2 -> {} [] t = t3 -> {SendOn(c1)}]

Program(menu, direct) == [menu |-> menu, direct |-> direct]
ChoicesAndNacks == {Program(ChoiceMenu, ChoiceDirect), Program(NackMenu, NackDirect)}
\* the condition of the theorems on matched commits and on the refinement
ASSUME ProgramsSeparate == \A p \in Programs : Separate(p)
==============================================================================
