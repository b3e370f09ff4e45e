-------------------------- MODULE MCExprTransform --------------------------
(***************************************************************************)
(* Trees of up to four nodes, edited in every way and then transformed     *)
(* with the help of two new nodes.  The nodes beside the root, and the two *)
(* new ones, are alike at first, so they may be exchanged.                 *)
(***************************************************************************)
EXTENDS ExprTransform, TLC

CONSTANTS n0, n1, n2, n3, n4, n5

Alike == {p @@ q : p \in Permutations(Known \ {Root}), q \in Permutations(New)}
=============================================================================
