--------------------------- MODULE MCPermission ---------------------------
(* Instances of Permission for TLC. *)
EXTENDS Permission, TLC

CONSTANTS r1, r2

TwoResponders == {r1, r2}
OneResponder  == {r1}
Symm          == Permutations(TwoResponders)
=============================================================================
