---------------------------- MODULE ExprGenerator ----------------------------
(***************************************************************************)
(* The other way: how the generator writes a tree of ExprParser            *)
(* (sqlglot/generator.py), and how the builders of sqlglot/expressions.py  *)
(* put trees together and where they add parentheses.  The generator adds  *)
(* none: what it writes is read back as the same tree only if a Paren node *)
(* stands wherever one is needed.                                          *)
(*                                                                         *)
(* The explicit stacks of connector_sql and binary, which save the Python  *)
(* stack, write what the recursion here writes; spaces, line breaks and    *)
(* comments are left out.                                                  *)
(***************************************************************************)
EXTENDS Integers, Sequences, ExprParser

IsConnector(tree) == tree[1] \in {"OR", "AND"}

(* The classes that derive from Binary; IN and BETWEEN do not. *)
IsBinary(tree) == Len(tree) = 3 /\ tree[1] \in UNION {Binary[k] : k \in DOMAIN Binary}

RECURSIVE Write(_), WriteItems(_)

WriteItems(trees) ==
  CASE trees = <<>> -> <<>>
    [] Len(trees) = 1 -> Write(trees[1])
    [] OTHER -> Write(trees[1]) \o <<",">> \o WriteItems(Tail(trees))

(* connector_sql, binary *)
WriteBinary(tree) == Write(tree[2]) \o <<tree[1]>> \o Write(tree[3])

(* NOT, minus and ~ before their operand *)
WriteUnary(tree) == <<tree[1]>> \o Write(tree[2])

WriteBetween(tree) ==
  Write(tree[2]) \o <<"BETWEEN">> \o Write(tree[3]) \o <<"AND">> \o Write(tree[4])

WriteIn(tree) ==
  Write(tree[2]) \o <<"IN">>
    \o (IF tree[3][1] = "field" THEN Write(tree[3][2])
        ELSE <<"(">> \o WriteItems(Tail(tree[3])) \o <<")">>)

WriteAlias(tree) ==
  Write(tree[2]) \o <<"AS">>
    \o (IF tree[3][1] = "list" THEN <<"(">> \o WriteItems(Tail(tree[3])) \o <<")">>
        ELSE Write(tree[3]))

Write(tree) ==
  CASE tree[1] = "BETWEEN" -> WriteBetween(tree)
    [] tree[1] = "IN" -> WriteIn(tree)
    [] tree[1] = "AS" -> WriteAlias(tree)
    [] tree[1] \in {"paren", "tuple"} -> <<"(">> \o WriteItems(Tail(tree)) \o <<")">>
    [] IsBinary(tree) -> WriteBinary(tree)
    [] Len(tree) = 2 -> WriteUnary(tree)
    [] OTHER -> tree

-----------------------------------------------------------------------------
(* The builders. *)

Wrapped(tree, must) == IF must THEN <<"paren", tree>> ELSE tree

(* and_ and or_ put a parenthesis around every connector. *)
Combine(connector, left, right) ==
  Node2(connector, Wrapped(left, IsConnector(left)), Wrapped(right, IsConnector(right)))

(* not_, and ~ on an expression *)
Not(tree) == <<"NOT", Wrapped(tree, IsConnector(tree))>>

(* -expression *)
Negative(tree) == <<"-", Wrapped(tree, IsBinary(tree))>>

(* The operators of Condition, and eq, neq and is_: binary operands get a  *)
(* parenthesis, unless one of the two is of the class that is being made.  *)
Operator(class, left, right) ==
  LET plain == left[1] = class \/ right[1] = class
  IN Node2(class, Wrapped(left, ~plain /\ IsBinary(left)), Wrapped(right, ~plain /\ IsBinary(right)))
=============================================================================
