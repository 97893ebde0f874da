--------------------------- MODULE MCSessionFile ----------------------------
(* SessionFile for TLC: two threads of one process and one of another.     *)
EXTENDS SessionFile

CONSTANTS w1, w2, w3, p1, p2

MCWriters   == {w1, w2, w3}
MCProcesses == {p1, p2}
MCProcessOf == [w \in {w1, w2, w3} |-> IF w = w3 THEN p2 ELSE p1]
MCOpsOf     == [w \in {w1, w2, w3} |->
                   CASE w = w1 -> {"append"}
                     [] w = w2 -> {"save", "rename", "delete"}
                     [] w = w3 -> {"append", "update"}]
=============================================================================
