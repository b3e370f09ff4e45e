---------------------------- MODULE ConditionText ----------------------------
(***************************************************************************)
(* A condition on its way through the library: a text is read              *)
(* (ExprParser), the tree may be built into a larger one, it is written    *)
(* and read again (ExprGenerator).  Texts are sequences of tokens.         *)
(***************************************************************************)
EXTENDS Integers, Sequences, SequencesExt, ExprGenerator

CONSTANTS
  Texts,       \* the texts to begin with
  Bases,       \* those of them something is built from
  Operands,    \* the texts of the other operand
  Classes      \* the binary classes made by operators of Condition

ASSUME TextsAssumption == Bases \subseteq Texts /\ \A s \in Texts \union Operands : s \in Seq(STRING)

VARIABLES
  phase,       \* how far it has come
  given,       \* the text it began as
  tree,        \* the tree in hand
  safe,        \* FALSE once an operator got operands it leaves without parentheses
  again        \* the tree its text is read as

vars == <<phase, given, tree, safe, again>>

Init ==
  /\ phase = "given"
  /\ given \in Texts
  /\ tree = None
  /\ safe = TRUE
  /\ again = None

-----------------------------------------------------------------------------
(* A NOT after the operand it negates: NOT before BETWEEN or IN or before   *)
(* nothing, IS NOT, NOTNULL.  It ends up in front of the operand, where it  *)
(* takes in more.                                                           *)
NotAfterOperand(s) ==
  \E i \in 1..Len(s) :
    \/ s[i] = "NOTNULL"
    \/ s[i] = "NOT" /\ i > 1 /\ s[i - 1] \in Numbers \union Names \union {")", "NOT"}

(* An ISNULL after a range, in the operand of a NOT.  A range that is        *)
(* complete does not read it, so it takes in the NOT; as IS NULL it does not. *)
IsNullAfterRange(s) ==
  \E h, i, j \in 1..Len(s) :
    /\ h < i /\ s[h] = "NOT"
    /\ i < j /\ s[i] \in {"BETWEEN", "IN", "IS", "ISNULL"}
    /\ s[j] = "ISNULL"
    /\ LET between == SubSeq(s, i, j)
           CountOf(token) == Len(SelectSeq(between, LAMBDA t : t = token))
       IN /\ CountOf("(") = CountOf(")")
          /\ \A k \in DOMAIN between : between[k] \notin UNION {Binary[l] : l \in EqualityLevel..(RangeLevel - 1)}

(* (1,) is a tuple of one, and is written as a parenthesis. *)
CommaAtEnd(s) == \E i \in 2..Len(s) : s[i - 1] = "," /\ s[i] = ")"

ReadText ==
  /\ phase = "given"
  /\ tree' = Condition(given)
  /\ phase' = IF tree' = None THEN "refused" ELSE "read"
  /\ safe' = ~(NotAfterOperand(given) \/ IsNullAfterRange(given) \/ CommaAtEnd(given))
  /\ UNCHANGED <<given, again>>

Build(made, isSafe) ==
  /\ phase = "read"
  /\ given \in Bases
  /\ phase' = "built"
  /\ tree' = made
  /\ safe' = (safe /\ isSafe)
  /\ UNCHANGED <<given, again>>

BuildConnector ==
  \E text \in Operands, connector \in {"AND", "OR"} :
    Build(Combine(connector, tree, Condition(text)), TRUE)

BuildUnary ==
  \/ Build(Not(tree), TRUE)
  \/ Build(Negative(tree), tree[1] \notin {"IN", "BETWEEN"})

IsPrimary(node) == node[1] \in Numbers \union {"NULL", "paren", "tuple"}

(* NOT, IN and BETWEEN, which the operators never wrap, or minus before one. *)
RECURSIVE IsBare(_)
IsBare(node) ==
  \/ node[1] \in {"NOT", "IN", "BETWEEN"}
  \/ node[1] = "-" /\ Len(node) = 2 /\ IsBare(node[2])

(* Operands neither of which is of the class made, and which are wrapped   *)
(* when they bind looser than it.                                          *)
OperandsFit(class, left, right) ==
  /\ left[1] # class /\ right[1] # class
  /\ class \in {"AND", "OR"} \/ ~IsBare(left)
  /\ class \in {"AND", "OR", "=", "<>", "<", ">"} \/ right[1] \notin {"IN", "BETWEEN"}
  /\ class = "IS" => IsBinary(right) \/ IsPrimary(right)

BuildOperator ==
  \E text \in Operands, class \in Classes :
    LET other == Condition(text)
    IN \/ Build(Operator(class, tree, other), OperandsFit(class, tree, other))
       \/ Build(Operator(class, other, tree), OperandsFit(class, other, tree))

WriteAndReadAgain ==
  /\ phase \in {"read", "built"}
  /\ phase' = "again"
  /\ again' = Condition(Write(tree))
  /\ UNCHANGED <<given, tree, safe>>

Next == ReadText \/ BuildConnector \/ BuildUnary \/ BuildOperator \/ WriteAndReadAgain

Spec == Init /\ [][Next]_vars

-----------------------------------------------------------------------------
(* When a tree needs no parentheses that it has not got.                    *)

Level(node) ==
  CASE node[1] \in {"IN", "BETWEEN"} -> RangeLevel
    [] IsBinary(node) -> CHOOSE k \in DOMAIN Binary : node[1] \in Binary[k]
    [] node[1] \in {"NOT", "-", "~"} -> UnaryLevel
    [] OTHER -> UnaryLevel + 1

OperatorLevel(op) == IF op \in {"IN", "BETWEEN"} THEN RangeLevel ELSE CHOOSE k \in DOMAIN Binary : op \in Binary[k]

(* NOT reads an equality: does it read on over op after its operand?  Not   *)
(* if the operand ends in a range that is complete.                         *)
RECURSIVE ReadsOn(_, _)
ReadsOn(operand, op) ==
  LET level == OperatorLevel(op)
  IN CASE level < RangeLevel -> level >= EqualityLevel
       [] Level(operand) < RangeLevel -> ReadsOn(operand[3], op)
       [] Level(operand) > RangeLevel -> TRUE
       [] level > RangeLevel -> operand[1] = "BETWEEN"
       [] OTHER -> op = "IS" /\ (operand[1] = "IS" => Level(operand[2]) > RangeLevel)

(* A NOT at the end of node would take in an op that follows it. *)
RECURSIVE TakesIn(_, _)
TakesIn(node, op) ==
  \/ node[1] = "NOT" /\ ReadsOn(node[2], op)
  \/ /\ node[1] \in {"NOT", "-", "~", "BETWEEN"} \/ IsBinary(node)
     /\ Len(node) > 1
     /\ TakesIn(node[Len(node)], op)

(* An operand on the left of op, if its level is at least this one *)
FitsLeft(node, level, op) == Level(node) >= level /\ ~TakesIn(node, op)

FitsRight(node, level) == Level(node) > level

(* IS is looked for twice, after an operand and after a range. *)
FitsIs(node) ==
  /\ FitsLeft(node[2], RangeLevel, "IS")
  /\ node[2][1] = "IS" /\ Len(node[2]) = 3 => Level(node[2][2]) > RangeLevel
  /\ IsPrimary(node[3])

FitsHere(node) ==
  CASE Len(node) = 1 -> TRUE
    [] node[1] = "tuple" -> Len(node) # 2
    [] node[1] = "NOT" -> Level(node[2]) >= EqualityLevel
    [] node[1] \in {"-", "~"} /\ Len(node) = 2 -> Level(node[2]) >= UnaryLevel
    [] node[1] = "BETWEEN" -> /\ FitsLeft(node[2], BitwiseLevel, node[1])
                              /\ \A k \in 3..4 : FitsRight(node[k], RangeLevel)
    [] node[1] = "IN" -> FitsLeft(node[2], BitwiseLevel, node[1])
    [] node[1] = "IS" -> FitsIs(node)
    [] IsBinary(node) -> FitsLeft(node[2], Level(node), node[1]) /\ FitsRight(node[3], Level(node))
    [] OTHER -> TRUE

RECURSIVE Fits(_)
Fits(node) == FitsHere(node) /\ \A k \in 2..Len(node) : Fits(node[k])

-----------------------------------------------------------------------------
(* What is read, and what and_, or_, not_, minus and (for operands the      *)
(* operators know to wrap) the operators build, binds as it is nested: each *)
(* operator's operands bind tighter, on the left as tight.                  *)
(* _parse_tokens, _parse_range, _binop, _combine                            *)
TreesFit == phase \in {"read", "built"} /\ safe => Fits(tree)

RECURSIVE HasName(_)
HasName(node) == node[1] = "AS" \/ \E k \in 2..Len(node) : HasName(node[k])

NumbersOf(s) == SelectSeq(s, LAMBDA token : token \in Numbers)

NotsOf(s) == Len(SelectSeq(s, LAMBDA token : token \in {"NOT", "NOTNULL"}))

(* Reading keeps every operand, in its place, and every NOT (but for the    *)
(* one in (x NOT IS), where IS becomes a name).                             *)
NothingLost ==
  phase = "read" =>
    /\ NumbersOf(Write(tree)) = NumbersOf(given)
    /\ HasName(tree) \/ NotsOf(Write(tree)) = NotsOf(given)

(* Writing is the reverse of reading for the trees that fit, and for no     *)
(* others: the generator adds no parentheses.                               *)
FittingReadsBack == phase = "again" => (again = tree <=> Fits(tree))

(* From text to tree and from tree to text nothing changes.                 *)
(* Parser.parse, Generator.generate                                         *)
RoundTrip == NothingLost /\ FittingReadsBack
=============================================================================
