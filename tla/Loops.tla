-------------------------------- MODULE Loops --------------------------------
(***************************************************************************)
(* Loops over a sequence, as functions, so that they can be reasoned       *)
(* about: what is made of a start by one element after the other, and the  *)
(* elements that are in a set (an array's filter).                         *)
(***************************************************************************)
EXTENDS Integers, Sequences

\* step: a function of what there is and the next element.
Loop(step, start, s) ==
    LET made[n \in 0 .. Len(s)] == IF n = 0 THEN start ELSE step[<<made[n - 1], s[n]>>]
    IN made[Len(s)]

\* The elements of s that are in S, in their order.
Picked(s, S) ==
    LET kept[n \in 0 .. Len(s)] ==
            IF n = 0 THEN <<>> ELSE IF s[n] \in S THEN Append(kept[n - 1], s[n]) ELSE kept[n - 1]
    IN kept[Len(s)]
=============================================================================
