----------------------------- MODULE Condition -----------------------------
(***************************************************************************)
(* Conditions as the optimizer rewrites them.  A condition is the sequence *)
(* of its nodes in the order in which a walk meets them, each before its   *)
(* children: a column, the text of a comparison, a constant, or the class  *)
(* of a node with children.  Nodes have no identity: two that Python       *)
(* would call equal are equal.                                             *)
(*                                                                         *)
(* sqlglot/expressions.py and the helpers of sqlglot/optimizer/simplify.py.*)
(***************************************************************************)
EXTENDS Naturals, Sequences, FiniteSets, SequencesExt, TLC

CONSTANTS
  Columns,      \* names of columns that are TRUE, FALSE or NULL
  Comparisons,  \* from the text of a comparison of the column x to its operator and number
  Rank          \* the order of what texts are made of

Connectors == {"AND", "OR"}
Literals == {"TRUE", "FALSE", "NULL"}
Labels == Columns \union DOMAIN Comparisons \union Literals \union Connectors \union {"NOT", "PAREN"}

(* The sequences that are conditions, and more.                            *)
Conditions == Seq(Labels)

Other(kind) == IF kind = "AND" THEN "OR" ELSE "AND"

Arity(label) == IF label \in Connectors THEN 2 ELSE IF label \in {"NOT", "PAREN"} THEN 1 ELSE 0

-----------------------------------------------------------------------------
(* Where the last node below a node is.                                    *)
End[t \in Conditions, i \in Nat] ==
  CASE Arity(t[i]) = 0 -> i
    [] Arity(t[i]) = 1 -> End[t, i + 1]
    [] Arity(t[i]) = 2 -> End[t, End[t, i + 1] + 1]

Node(t, i) == SubSeq(t, i, End[t, i])

Class(t) == Head(t)

(* The child of NOT and PAREN, and the children of a connector.            *)
Left(t) == Node(t, 2)

Right(t) == SubSeq(t, End[t, 2] + 1, Len(t))

(* replace                                                                 *)
Put(t, i, s) == SubSeq(t, 1, i - 1) \o s \o SubSeq(t, End[t, i] + 1, Len(t))

(* unnest: the first node that is no parenthesis.                          *)
Unnested(t, i) == Min({j \in i..Len(t) : t[j] # "PAREN"})

Unnest(t) == SubSeq(t, Unnested(t, 1), Len(t))

(* flatten(unnest=False): where the operands of a chain are.               *)
Operands(t) ==
  LET at[i \in DOMAIN t] == IF t[i] = Class(t) THEN at[i + 1] \o at[End[t, i + 1] + 1] ELSE <<i>> IN at[1]

(* flatten, with the nodes themselves.                                     *)
Flattened(t) ==
  LET at == Operands(t) IN [i \in DOMAIN at |-> Unnest(Node(t, at[i]))]

(* _wrap                                                                   *)
Wrap(t) == IF Class(t) \in Connectors THEN <<"PAREN">> \o t ELSE t

(* _combine                                                                *)
Combined(kind, ts) ==
  IF Len(ts) = 1 THEN ts[1]
  ELSE FoldLeft(LAMBDA l, r : <<kind>> \o l \o Wrap(r), Wrap(ts[1]), Tail(ts))

(* not_                                                                    *)
Negated(t) == <<"NOT">> \o Wrap(t)

(* Gen, as the ranks of what the text is made of.                          *)
Gen[t \in Conditions] ==
  CASE Class(t) = "NOT" -> <<Rank["NOT"]>> \o Gen[Left(t)]
    [] Class(t) = "PAREN" -> <<Rank["("]>> \o Gen[Left(t)] \o <<Rank[")"]>>
    [] Class(t) \in Connectors -> Gen[Left(t)] \o <<Rank[Class(t)]>> \o Gen[Right(t)]
    [] Arity(Class(t)) = 0 -> <<Rank[Class(t)]>>

(* The order of texts.                                                     *)
Less(s, u) ==
  \/ Len(s) < Len(u) /\ SubSeq(u, 1, Len(s)) = s
  \/ \E i \in (DOMAIN s) \intersect (DOMAIN u) : s[i] < u[i] /\ SubSeq(s, 1, i - 1) = SubSeq(u, 1, i - 1)

(* The dictionary of uniq_sort: of operands with one text the first gives  *)
(* the place and the last the node.                                        *)
Entries == Seq([text : Seq(Nat), node : Conditions])

Deduped[seen \in Entries, rest \in Entries] ==
  IF rest = <<>> THEN seen
  ELSE LET same == {i \in DOMAIN seen : seen[i].text = Head(rest).text}
       IN Deduped[IF same = {} THEN Append(seen, Head(rest)) ELSE [seen EXCEPT ![Max(same)] = Head(rest)], Tail(rest)]

Arranged(kind, entries) == Combined(kind, [i \in DOMAIN entries |-> entries[i].node])

(* Mutant: operands are taken to be sorted.                                *)
AnyOrder(entries) == TRUE

InOrder(entries) == \A i \in 2..Len(entries) : ~Less(entries[i].text, entries[i - 1].text)

(* uniq_sort                                                               *)
Sorted[t \in Conditions, ops \in Seq(Conditions), deduped \in Entries] ==
  IF ~InOrder(deduped) THEN Arranged(Class(t), SortSeq(deduped, LAMBDA d, e : Less(d.text, e.text)))
  ELSE IF Len(deduped) < Len(ops) THEN Arranged(Class(t), deduped)
  ELSE t

UniqSorted[t \in Conditions, ops \in Seq(Conditions)] ==
  Sorted[t, ops, Deduped[<<>>, [i \in DOMAIN ops |-> [text |-> Gen[ops[i]], node |-> ops[i]]]]]

UniqSort[t \in Conditions] == IF Class(t) \in Connectors THEN UniqSorted[t, Flattened(t)] ELSE t

(* flatten                                                                 *)
Flat[t \in Conditions] ==
  LET side(s) == IF Class(Unnest(s)) = Class(t) THEN Unnest(s) ELSE s
  IN IF Class(t) \in Connectors THEN <<Class(t)>> \o side(Left(t)) \o side(Right(t)) ELSE t

-----------------------------------------------------------------------------
(* Meaning, in SQL's logic: FALSE is 0, NULL 1 and TRUE 2.                 *)

Compare(op, a, b) ==
  CASE op = "<" -> a < b [] op = "<=" -> a <= b [] op = "=" -> a = b
    [] op = "<>" -> a # b [] op = ">" -> a > b [] op = ">=" -> a >= b

Truth == [FALSE |-> 0, NULL |-> 1, TRUE |-> 2]

Compared(c, x) ==
  IF x = <<>> THEN 1 ELSE IF Compare(Comparisons[c].op, x[1], Comparisons[c].number) THEN 2 ELSE 0

(* The rows that tell conditions apart: a column is FALSE, NULL or TRUE,   *)
(* x is NULL, which is no number, or one beside those it is compared with. *)
Rows ==
  LET near == UNION {{n - 1, n, n + 1} : n \in {Comparisons[c].number : c \in DOMAIN Comparisons}}
  IN [columns : [Columns -> 0..2], x : {<<>>} \union {<<n>> : n \in near}]

(* The value of a condition for a row.                                     *)
Value(t, row) ==
  LET value[i \in DOMAIN t] ==
        CASE t[i] = "AND" -> Min({value[i + 1], value[End[t, i + 1] + 1]})
          [] t[i] = "OR" -> Max({value[i + 1], value[End[t, i + 1] + 1]})
          [] t[i] = "NOT" -> 2 - value[i + 1]
          [] t[i] = "PAREN" -> value[i + 1]
          [] t[i] \in Literals -> Truth[t[i]]
          [] t[i] \in Columns -> row.columns[t[i]]
          [] OTHER -> Compared(t[i], row.x)
  IN value[1]
=============================================================================
