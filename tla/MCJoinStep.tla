----------------------------- MODULE MCJoinStep -----------------------------
(***************************************************************************)
(* Queries over two and three tables of up to two rows, with equal rows    *)
(* and rows without a partner.  SafeJoins are the joins the engine makes   *)
(* as SQL does.                                                            *)
(***************************************************************************)
EXTENDS JoinStep

MCValue == {1, 2}

Tables(V, n) == UNION {[1..k -> [1..1 -> V]] : k \in 0..n}

TwoTables(V) == {<<t, u>> : t \in Tables(V, 2), u \in Tables(V, 2)}
ThreeTables(V) ==
  {<<t, u, w>> : t \in Tables(V, 2), u \in Tables(V, 2), w \in Tables(V, 1)}

MCColumns == TwoTables(MCValue) \union ThreeTables(MCValue)

Make(side, key, condition) == [side |-> side, key |-> key, condition |-> condition]
Is(column, value) == {[column |-> column, value |-> value]}

(* Joins by key, without a rest for LEFT and RIGHT; joins without a key    *)
(* only as INNER or CROSS.                                                 *)
SafeJoins(k) ==
  {Make("INNER", key, c) : key \in 0..k, c \in {{}, Is(1, 1) \union Is(k + 1, 2)}}
    \union {Make(side, key, {}) : side \in {"LEFT", "RIGHT"}, key \in 1..k}

MCJoins == {<<j>> : j \in SafeJoins(1)} \union {<<j, k>> : j \in SafeJoins(1), k \in SafeJoins(2)}

(* The proofs of JoinStepProofs are about these queries.                   *)
ASSUME MCQueriesAreSafe == SafeQueries

MCWheres == {{}, Is(2, 1)}
=============================================================================
