---------------------------- MODULE LiteralSpec -----------------------------
(***************************************************************************)
(* What the byte code of literals means: a machine on a stack of literals  *)
(* that knows neither memory nor collections.  The three versions of the   *)
(* run-time system's interpreter implement it.  A literal is <<kind, n>>   *)
(* or <<kind, fields>>; a number n is a pair, as in LiteralCode.           *)
(***************************************************************************)
EXTENDS Integers, Sequences, SequencesExt, TLC

VARIABLES
    src,      \* the instruction last executed
    stack,    \* the literals, the top one last
    slots,    \* the saved literals
    literal   \* the result, << >> before RETURN

vars == <<src, stack, slots, literal>>

Unit == <<"int", <<0, 0>>>>

Tops(n) == SubSeq(stack, Len(stack) - n + 1, Len(stack))
Below(n) == SubSeq(stack, 1, Len(stack) - n)

Pushes(lit) == stack' = Append(stack, lit) /\ UNCHANGED <<slots, literal>>
Builds(kind, n) == stack' = Append(Below(n), <<kind, Tops(n)>>) /\ UNCHANGED <<slots, literal>>

NumberKinds == ("INT63" :> "int") @@ ("INT" :> "int") @@ ("RAWINT64" :> "raw") @@ ("INT64" :> "boxed")
           @@ ("RAW32" :> "boxed") @@ ("RAW" :> "rawdata") @@ ("RAW64" :> "rawdata")
           @@ ("RAW32L" :> "rawdata") @@ ("RAW64L" :> "rawdata") @@ ("STR8" :> "string")

Execute(i) ==
    /\ src' = i
    /\ CASE i[1] \in DOMAIN NumberKinds -> Pushes(<<NumberKinds[i[1]], i[2]>>)
         [] i[1] = "REAL64"           -> Pushes(<<"real", 0>>)
         [] i = <<"RECORD", 0>>       -> Pushes(Unit)
         [] i[1] = "RECORD" /\ i # <<"RECORD", 0>> -> Builds("record", i[2])
         [] i[1] = "RAWBLOCK"         -> Builds("rawrecord", i[2])
         [] i[1] = "MIXED"            -> Builds("mixed", i[2] + i[3])
         [] i[1] \in {"VEC", "VECTOR"} -> Builds("vector", i[2])
         [] i[1] = "SAVE"   -> slots' = [slots EXCEPT ![i[2] + 1] = Last(stack)]
                               /\ UNCHANGED <<stack, literal>>
         [] i[1] = "LOAD"   -> Pushes(slots[i[2] + 1])
         [] i[1] = "LIT"    -> Pushes(stack[Len(stack) - i[2]])
         [] i[1] = "RETURN" -> literal' = Last(stack) /\ UNCHANGED <<stack, slots>>

Init ==
    /\ src = <<"none">> /\ stack = << >> /\ literal = << >>
    /\ slots = [i \in DOMAIN slots |-> Unit]

\* Any instruction but the end, and nothing after it
Next == literal = << >> /\ Execute(src')

Spec == Init /\ [][Next]_vars
=============================================================================
