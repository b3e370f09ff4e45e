----------------------------- MODULE MCSimplify -----------------------------
(* simplify on conditions over two columns and the comparisons of x with 1 *)
(* and 2, a family of conditions for each group of rules.                  *)
EXTENDS Simplify

Texts == <<"x < 1", "x < 2", "x <= 1", "x <= 2", "x <> 1", "x <> 2",
           "x = 1", "x = 2", "x > 1", "x > 2", "x >= 1", "x >= 2">>

ComparisonsValue ==
  [i \in 1..12 |-> [op |-> <<"<", "<=", "<>", "=", ">", ">=">>[(i + 1) \div 2], number |-> 2 - (i % 2)]]

ComparisonsByText == [c \in ToSet(Texts) |-> ComparisonsValue[CHOOSE i \in 1..12 : Texts[i] = c]]

Order == <<"(", "A", "B", "FALSE", "NOT", "NULL", "TRUE">> \o Texts \o <<"AND", "OR", ")">>

RankValue == [w \in ToSet(Order) |-> CHOOSE i \in DOMAIN Order : Order[i] = w]

Not(l) == <<"NOT">> \o l

Paren(l) == <<"PAREN">> \o l

Pair(ls, rs) == {<<k>> \o l \o r : k \in Connectors, l \in ls, r \in rs}

Chain(ls) == {<<k, k>> \o a \o b \o c : k \in Connectors, a \in ls, b \in ls, c \in ls}

A == <<"A">>

B == <<"B">>

(* Absorption, elimination, De Morgan's laws.                              *)
Groups == {Paren(g) : g \in Pair({A, Not(A)}, {B, Not(B)})}

Logic ==
  LET units == {A, Not(B)} \union Groups \union {Not(g) : g \in Groups}
  IN Pair(units, units) \union Chain({A, Not(B), Not(Not(A))} \union {Paren(g) : g \in Pair({A, Not(A)}, {B})})

(* Constants.                                                              *)
Constants ==
  LET literals == {<<c>> : c \in Literals}
  IN Chain({A, Not(A)} \union literals) \union {Not(Paren(g)) : g \in Pair(literals \union {A}, literals)}

(* Comparisons of the column with each other.                              *)
Ranges ==
  LET compared == {<<c>> : c \in ToSet(Texts)}
  IN Pair(compared, compared)
     \union Pair({Paren(g) : g \in Pair(compared, {A})}, {<<"x < 1">>, <<"x <= 1">>, <<"x > 1">>, <<"x >= 2">>})

(* The distributive law: both ways to a normal form, some of them too far. *)
Nested ==
  LET groups == Pair({A, Not(A)}, {B, <<"NULL">>}) \union {<<k>> \o A \o Paren(g) : k \in Connectors, g \in Pair({A}, {B})}
  IN Pair({A} \union {Paren(g) : g \in groups}, {Not(B)} \union {Paren(g) : g \in groups})
     \union {Not(Paren(g)) : g \in Pair({B} \union {Paren(g) : g \in groups}, {A, Paren(<<"OR", "A", "B">>)})}

InputsValue ==
  [condition : Logic \union Constants \union Ranges, form : {"none"}] \union [condition : Nested, form : Connectors]

(* Comparisons of which one is negated.                                    *)
NegatedRanges ==
  LET compared == {<<c>> : c \in ToSet(Texts)}
  IN [condition : Pair(compared, {Not(c) : c \in compared}), form : {"none"}]
=============================================================================
