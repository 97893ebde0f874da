------------------------------ MODULE MCPreview ------------------------------
(* Small instances of Preview. *)
EXTENDS Preview, TLC

CONSTANTS t1, t2

TwoTasks == {t1, t2}
TwoPorts == 1 .. 2
Symm     == Permutations({t1, t2})
=============================================================================
