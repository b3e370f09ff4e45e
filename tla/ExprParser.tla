----------------------------- MODULE ExprParser -----------------------------
(***************************************************************************)
(* How the parser reads a condition (sqlglot/parser.py, the default        *)
(* dialect): precedence climbing over a list of tokens with a cursor.      *)
(*                                                                         *)
(* A token is a string.  A tree is a tuple, the label and then the         *)
(* children, <<"+", <<"1">>, <<"2">>>>; None stands for Python's None.      *)
(* Every operator below takes the tokens s and the place i of the cursor,  *)
(* and returns the tree it read and the place it left the cursor at.  The  *)
(* methods of the parser call each other; here they are given the function *)
(* parse, what is read at a level from a place.                            *)
(*                                                                         *)
(* The parser stops at its first error (ErrorLevel.IMMEDIATE).  Here an    *)
(* error leaves None where a tree must be, and a tree with a None in it is *)
(* not accepted; reading on after it makes no difference.                  *)
(*                                                                         *)
(* Left out: functions (ISNULL is one before a parenthesis), types, casts, *)
(* intervals, queries, columns other than IS and ISNULL (keywords that are *)
(* names where no operator can stand), DISTINCT FROM, LIKE and its         *)
(* relatives, and the comments trees carry.                                *)
(***************************************************************************)
EXTENDS Integers, Sequences

None == <<>>

Read(tree, at) == [tree |-> tree, at |-> at]

Token(s, i) == IF i <= Len(s) THEN s[i] ELSE "end"

(* Operators by how loosely they bind: what stands at one level is made of  *)
(* operands of the next.                                                    *)
Binary == <<{"OR"}, {"AND"}, {"=", "<>"}, {"<", ">"}, {"IS"}, {"&", "|"}, {"+", "-"}, {"*", "/"}>>

DisjunctionLevel == 1
EqualityLevel == 3
RangeLevel == 5
BitwiseLevel == 6
UnaryLevel == 9

Numbers == {"1", "2", "3", "4"}

Names == {"IS", "ISNULL"}

Node2(label, left, right) == <<label, left, right>>

(* Every child that must be there is there. *)
RECURSIVE Complete(_)
Complete(tree) ==
  /\ tree # None
  /\ \A k \in 2..Len(tree) : Complete(tree[k])

(* A list with one more in front, unless that is missing *)
After(tree, rest) == [trees |-> (IF tree = None THEN <<>> ELSE <<tree>>) \o rest.trees, at |-> rest.at]

NoMore(at) == [trees |-> <<>>, at |-> at]

Name(s, i) == IF Token(s, i) \in Names THEN Read(<<Token(s, i)>>, i + 1) ELSE Read(None, i)

(* The names of AS (name, name); a name may be missing, not all of them. *)
RECURSIVE NamesFrom(_, _)
NamesFrom(s, i) ==
  LET name == Name(s, i)
  IN After(name.tree, IF Token(s, name.at) = "," THEN NamesFrom(s, name.at + 1) ELSE NoMore(name.at))

(* In a parenthesis an expression may have a name, or names, AS before it   *)
(* or not.                                                                  *)
NamedBy(s, this, names) ==
  IF names.trees = <<>> \/ Token(s, names.at) # ")" THEN Read(<<"AS", None>>, names.at)
  ELSE Read(<<"AS", this, <<"list">> \o names.trees>>, names.at + 1)

AliasedAt(s, this, at) ==
  CASE Token(s, at) = "(" -> NamedBy(s, this, NamesFrom(s, at + 1))
    [] Token(s, at) \in Names -> Read(Node2("AS", this, <<Token(s, at)>>), at + 1)
    [] OTHER -> Read(this, at)

Aliased(parse, s, i) ==
  LET this == parse[DisjunctionLevel, i]
  IN AliasedAt(s, this.tree, this.at + (IF Token(s, this.at) = "AS" THEN 1 ELSE 0))

(* Expressions with commas between them; what is missing between two commas *)
(* is skipped.                                                              *)
RECURSIVE Items(_, _, _, _)
Items(parse, aliased, s, i) ==
  LET first == IF aliased THEN Aliased(parse, s, i) ELSE parse[DisjunctionLevel, i]
  IN After(first.tree,
           IF Token(s, first.at) = "," THEN Items(parse, aliased, s, first.at + 1) ELSE NoMore(first.at))

(* A parenthesis around one expression, or a tuple *)
Closed(s, items) ==
  IF Token(s, items.at) # ")" THEN Read(<<"paren", None>>, items.at)
  ELSE Read(CASE items.trees = <<>> -> <<"tuple">>
              [] Len(items.trees) > 1 \/ s[items.at - 1] = "," -> <<"tuple">> \o items.trees
              [] OTHER -> <<"paren">> \o items.trees,
            items.at + 1)

Paren(parse, s, i) == Closed(s, Items(parse, TRUE, s, i + 1))

Primary(parse, s, i) ==
  CASE Token(s, i) \in Numbers \union {"NULL"} -> Read(<<Token(s, i)>>, i + 1)
    [] Token(s, i) = "(" -> Paren(parse, s, i)
    [] OTHER -> Read(None, i)

MoreToTheRight(parse, level, s, left) ==
  IF Token(s, left.at) \notin Binary[level] THEN left
  ELSE LET right == parse[level, left.at + 1]
       IN Read(Node2(Token(s, left.at), left.tree, right.tree), right.at)

(* The loop: operands of the next level while an operator of this one stands *)
(* between them; the tree so far becomes the left operand.                  *)
RECURSIVE More(_, _, _, _)
More(parse, level, s, left) ==
  IF Token(s, left.at) \notin Binary[level] THEN left
  ELSE LET right == parse[level + 1, left.at + 1]
       IN More(parse, level, s, Read(Node2(Token(s, left.at), left.tree, right.tree), right.at))

(* BETWEEN low AND high; the AND may be missing. *)
Between(parse, s, this, i) ==
  LET low == parse[BitwiseLevel, i]
      high == parse[BitwiseLevel, low.at + (IF Token(s, low.at) = "AND" THEN 1 ELSE 0)]
  IN Read(<<"BETWEEN", this, low.tree, high.tree>>, high.at)

IsOrNone(negate, this, operand, back) ==
  CASE operand.tree = None -> Read(None, back)
    [] negate -> Read(<<"NOT", Node2("IS", this, operand.tree)>>, operand.at)
    [] OTHER -> Read(Node2("IS", this, operand.tree), operand.at)

IsGoingOn(parse, s, this, i) ==
  LET negate == Token(s, i) = "NOT"
  IN IsOrNone(negate, this, Primary(parse, s, i + (IF negate THEN 1 ELSE 0)), i)

(* IS takes a literal or a parenthesis.  Without one the cursor goes back   *)
(* to the IS and nothing is read.                                           *)
Is(parse, s, this, i) ==
  LET negate == Token(s, i) = "NOT"
  IN IsOrNone(negate, this, Primary(parse, s, i + (IF negate THEN 1 ELSE 0)), i - 1)

(* IN ( items ), or IN and one column, literal or nothing. *)
InItems(s, this, items) ==
  IF Token(s, items.at) = ")" THEN Read(<<"IN", this, <<"list">> \o items.trees>>, items.at + 1)
  ELSE Read(None, items.at)

InField(this, field) ==
  IF field.tree = None THEN Read(<<"IN", this, <<"list">>>>, field.at)
  ELSE Read(<<"IN", this, <<"field", field.tree>>>>, field.at)

In(parse, s, this, i) ==
  CASE Token(s, i) = "(" -> InItems(s, this, Items(parse, FALSE, s, i + 1))
    [] Token(s, i) \in Names -> InField(this, Name(s, i))
    [] OTHER -> InField(this, Primary(parse, s, i))

(* A range: an operand, NOT or not, one of BETWEEN, IN, IS or ISNULL,       *)
(* NOTNULL or not, and an IS after that.  The NOT is read before it is known what it negates,   *)
(* and is left behind when an IS turns out to be none.                      *)
Known(s, range) ==
  IF Token(s, range.at) # "NOTNULL" THEN range
  ELSE Read(<<"NOT", Node2("IS", range.tree, <<"NULL">>)>>, range.at + 1)

Negated(negate, range) == IF negate THEN Read(<<"NOT", range.tree>>, range.at) ELSE range

AndIs(parse, s, range) ==
  IF Token(s, range.at) = "IS" THEN Is(parse, s, range.tree, range.at + 1) ELSE range

RangeOf(parse, s, i) ==
  LET this == parse[BitwiseLevel, i]
      negate == Token(s, this.at) = "NOT"
      at == this.at + (IF negate THEN 1 ELSE 0)
      found == CASE Token(s, at) = "BETWEEN" -> Between(parse, s, this.tree, at + 1)
                 [] Token(s, at) = "IN" -> In(parse, s, this.tree, at + 1)
                 [] Token(s, at) = "IS" -> Is(parse, s, this.tree, at + 1)
                 [] Token(s, at) = "ISNULL" -> Read(Node2("IS", this.tree, <<"NULL">>), at + 1)
                 [] OTHER -> Read(this.tree, at)
  IN IF Token(s, at) = "IS" /\ found.tree = None THEN Read(this.tree, found.at)
     ELSE AndIs(parse, s, Negated(negate, Known(s, found)))

(* NOT takes an equality, minus and ~ the next operand; plus is dropped. *)
Unary(parse, s, i) ==
  LET equality == parse[EqualityLevel, i + 1]
      operand == parse[UnaryLevel, i + 1]
  IN CASE Token(s, i) = "NOT" -> Read(<<"NOT", equality.tree>>, equality.at)
       [] Token(s, i) \in {"-", "~"} -> Read(<<Token(s, i), operand.tree>>, operand.at)
       [] Token(s, i) = "+" -> operand
       [] Token(s, i) \in Names -> Read(<<Token(s, i)>>, i + 1)
       [] OTHER -> Primary(parse, s, i)

(* A level: the two that are not loops over the operators of one, or such  *)
(* a loop.                                                                 *)
Parse(parse, level, s, i) ==
  CASE level = RangeLevel -> RangeOf(parse, s, i)
    [] level = UnaryLevel -> Unary(parse, s, i)
    [] OTHER -> More(parse, level, s, parse[level + 1, i])

(* condition(): the whole text is one condition, or it is an error. *)
Condition(s) ==
  LET parse[level \in 1..UnaryLevel, i \in 1..(Len(s) + 1)] == Parse(parse, level, s, i)
      read == parse[DisjunctionLevel, 1]
  IN IF read.at = Len(s) + 1 /\ Complete(read.tree) THEN read.tree ELSE None
=============================================================================
