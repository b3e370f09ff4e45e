------------------------------ MODULE Simplify ------------------------------
(***************************************************************************)
(* A condition is first brought to a normal form, when one is asked for    *)
(* (see NormalForm), and then simplified, as the rules of the optimizer    *)
(* do.  simplify rewrites it until a pass changes nothing.  A pass         *)
(* visits every node twice: on the way down it sorts and absorbs what a    *)
(* chain of one connector holds, on the way up it removes negations,       *)
(* nested chains, constants, comparisons that say nothing new, operands    *)
(* that contradict each other and parentheses.  Each step rewrites one     *)
(* node and sees what the steps before it left.                            *)
(*                                                                         *)
(* sqlglot/optimizer/simplify.py, without the rules for arithmetic, dates, *)
(* CASE, COALESCE and XOR, which no node of these conditions meets.        *)
(***************************************************************************)
EXTENDS NormalForm

CONSTANT Inputs  \* the conditions that are given, each with the form it is asked for

VARIABLES
  given,   \* the condition as it was given
  form,    \* the connector a normal form has on top, or "none"
  normal,  \* what normalize made of it
  tree,    \* what it is now
  before,  \* what it was when the pass began
  way,     \* "normalize", "down", "up" or "done"
  at       \* the node to visit, 0 when the pass is over

vars == <<given, form, normal, tree, before, way, at>>

(* The class of a node's parent.                                           *)
Parent(t, p) ==
  LET above == {q \in 1..(p - 1) : \/ Arity(t[q]) > 0 /\ q + 1 = p
                                   \/ Arity(t[q]) = 2 /\ End[t, q + 1] + 1 = p}
  IN IF above = {} THEN "none" ELSE t[Max(above)]

-----------------------------------------------------------------------------
(* On the way down                                                         *)

(* Where the sides of an operand are that is a chain of the other          *)
(* connector.                                                              *)
Sides(op) == <<Unnested(op, 2), Unnested(op, End[op, 2] + 1)>>

Side(op, k) == Node(op, Sides(op)[k])

(* Its operands; of any other operand itself.                              *)
Parts(op, dual) == IF Class(op) = dual THEN ToSet(Flattened(op)) ELSE {op}

(* A pair: the place of the other operand, and what the two share.         *)
Pairings == Seq([other : Nat, complement : Conditions])

(* pairs: the operands that differ from this one in the sign of one side,  *)
(* with the other side.                                                    *)
Pairs(op, ops, dual) ==
  LET sides == {Side(op, 1), Side(op, 2)}
      pair(i, signed, same) ==
        IF Class(signed) = "NOT" /\ {Left(signed), same} = sides THEN <<[other |-> i, complement |-> same]>> ELSE <<>>
      both(i) == pair(i, Side(ops[i], 1), Side(ops[i], 2)) \o pair(i, Side(ops[i], 2), Side(ops[i], 1))
  IN FlattenSeq([i \in DOMAIN ops |-> IF Class(ops[i]) = dual THEN both(i) ELSE <<>>])

(* The operands as they are now, and which were replaced and so are no     *)
(* more in the tree.                                                       *)
Replacement == [now : Seq(Conditions), gone : SUBSET Nat]

(* The operands after each pair has replaced this one and the other by     *)
(* what they share.                                                        *)
Eliminated[i \in Nat, now \in Seq(Conditions), gone \in SUBSET Nat, pairs \in Pairings] ==
  IF pairs = <<>> THEN [now |-> now, gone |-> gone]
  ELSE LET both == {i, Head(pairs).other}
       IN Eliminated[i, [j \in DOMAIN now |-> IF j \in both \ gone THEN Head(pairs).complement ELSE now[j]], gone \union both, Tail(pairs)]

(* The loop of absorb_and_eliminate.  What it looks up is what the         *)
(* operands were before the first replacement.                             *)
Absorbed[dual \in Connectors, ops \in Seq(Conditions), i \in Nat, state \in Replacement] ==
  LET op == ops[i]
      denied == {k \in 1..2 : Class(Side(op, k)) = "NOT" /\ Left(Side(op, k)) \in ToSet(ops)}
      neutral == <<IF dual = "AND" THEN "TRUE" ELSE "FALSE">>
      idle == <<IF dual = "AND" THEN "FALSE" ELSE "TRUE">>
      contains == \E j \in DOMAIN ops : Parts(ops[j], dual) \subseteq Parts(op, dual) /\ Parts(ops[j], dual) # Parts(op, dual)
      next(s) == Absorbed[dual, ops, i + 1, s]
  IN IF i > Len(ops) THEN state.now
     ELSE IF Class(op) # dual THEN next(state)
     ELSE IF denied # {}
          THEN next(IF i \in state.gone THEN state
                    ELSE [state EXCEPT !.now[i] = Put(state.now[i], Sides(op)[Min(denied)], neutral)])
     ELSE IF contains
          THEN next(IF i \in state.gone THEN state ELSE [now |-> [state.now EXCEPT ![i] = idle], gone |-> state.gone \union {i}])
     ELSE next(Eliminated[i, state.now, state.gone, Pairs(op, ops, dual)])

(* The operands of a chain replaced, the last one first.                   *)
WithOperands[t \in Conditions, places \in Seq(Nat), ops \in Seq(Conditions)] ==
  IF places = <<>> THEN t
  ELSE WithOperands[Put(t, Last(places), ops[Len(places)]), Front(places), ops]

AbsorbAndEliminate[t \in Conditions, places \in Seq(Nat)] ==
  LET ops == [i \in DOMAIN places |-> Node(t, places[i])]
  IN WithOperands[t, places, Absorbed[Other(Class(t)), ops, 1, [now |-> ops, gone |-> {}]]]

(* The node a visit on the way down leaves at the top of a chain.          *)
Absorption[t \in Conditions] ==
  IF Class(t) \in Connectors
  THEN AbsorbAndEliminate[t, [i \in DOMAIN Operands(t) |-> Unnested(t, Operands(t)[i])]]
  ELSE t

RewrittenDown[t \in Conditions] == Absorption[UniqSort[t]]

-----------------------------------------------------------------------------
(* On the way up                                                           *)

Opposite == ("<" :> ">=") @@ (">=" :> "<") @@ (">" :> "<=") @@ ("<=" :> ">") @@ ("=" :> "<>") @@ ("<>" :> "=")

Complement(text) ==
  CHOOSE c \in DOMAIN Comparisons :
    Comparisons[c] = [op |-> Opposite[Comparisons[text].op], number |-> Comparisons[text].number]

SimplifyNot(t) ==
  LET this == Left(t)
      inner == Unnest(this)
      negated == <<Negated(Left(inner)), Negated(Right(inner))>>
  IN IF Class(t) # "NOT" THEN t
     ELSE CASE Class(inner) = "NULL" -> inner
            [] Class(this) \in DOMAIN Comparisons -> <<Complement(Class(this))>>
            [] Class(inner) \in Connectors -> <<"PAREN">> \o Combined(Other(Class(inner)), negated)
            [] Class(this) = "TRUE" -> <<"FALSE">>
            [] Class(this) = "FALSE" -> <<"TRUE">>
            [] Class(this) = "NOT" -> Left(this)
            [] OTHER -> t

(* _simplify_comparison: the one of two comparisons that says it all, or   *)
(* that both cannot be.                                                    *)
Below == {"<", "<="}
Above == {">", ">="}

Excluded(a, b) ==
  \/ a.op = "<" /\ b.op \in Above /\ a.number <= b.number
  \/ a.op = ">" /\ b.op \in Below /\ a.number >= b.number
  \/ a.op = "=" /\ b.op # "=" /\ ~Compare(b.op, a.number, b.number)

SimplifyComparison(kind, left, right) ==
  LET l == Comparisons[left]
      r == Comparisons[right]
      leftIfLess == IF kind = "OR" THEN l.number > r.number ELSE l.number <= r.number
      leftIfMore == IF kind = "OR" THEN l.number < r.number ELSE l.number >= r.number
  IN CASE {l.op, r.op} \subseteq Below -> {IF leftIfLess THEN left ELSE right}
       [] {l.op, r.op} \subseteq Above -> {IF leftIfMore THEN left ELSE right}
       [] kind = "AND" /\ (Excluded(l, r) \/ Excluded(r, l)) -> {"FALSE"}
       [] kind = "AND" /\ ~Excluded(l, r) /\ l.op = "=" /\ r.op # "=" -> {left}
       [] kind = "AND" /\ ~Excluded(r, l) /\ r.op = "=" /\ l.op # "=" -> {right}
       [] OTHER -> {}

(* _simplify_connectors: what two operands come to, or nothing.            *)
Met(kind, a, b) ==
  LET classes == {Class(a), Class(b)}
      absorbing == IF kind = "AND" THEN "FALSE" ELSE "TRUE"
      neutral == IF kind = "AND" THEN "TRUE" ELSE "FALSE"
  IN IF absorbing \in classes THEN {<<absorbing>>}
     ELSE IF "NULL" \in classes /\ (kind = "AND" \/ classes \subseteq {"NULL", "FALSE"}) THEN {<<"NULL">>}
     ELSE IF Class(a) = neutral THEN {b}
     ELSE IF Class(b) = neutral THEN {a}
     ELSE IF classes \subseteq DOMAIN Comparisons THEN {<<c>> : c \in SimplifyComparison(kind, Class(a), Class(b))}
     ELSE {}

(* _flat_simplify: the first operand of the queue meets the others in      *)
(* turn; what it comes to with one of them takes the front of the queue.   *)
FlatSimplified[kind \in Connectors, queue \in Seq(Conditions)] ==
  IF queue = <<>> THEN <<>>
  ELSE LET a == Head(queue)
           others == Tail(queue)
           met == {i \in DOMAIN others : Met(kind, a, others[i]) # {}}
       IN IF met = {} THEN <<a>> \o FlatSimplified[kind, others]
          ELSE FlatSimplified[kind, <<CHOOSE r \in Met(kind, a, others[Min(met)]) : TRUE>> \o RemoveAt(others, Min(met))]

SimplifyConnectors(t) ==
  IF Class(t) \notin Connectors THEN t
  ELSE LET operands == [i \in DOMAIN Operands(t) |-> Node(t, Operands(t)[i])]
           left == FlatSimplified[Class(t), operands]
       IN IF Len(left) = Len(operands) THEN t
          ELSE FoldLeft(LAMBDA l, r : <<Class(t)>> \o l \o r, left[1], Tail(left))

RemoveComplements[t \in Conditions] ==
  LET ops == ToSet(Flattened(t))
  IN IF Class(t) \in Connectors /\ \E op \in ops : Class(op) = "NOT" /\ Left(op) \in ops
     THEN <<IF Class(t) = "AND" THEN "FALSE" ELSE "TRUE">>
     ELSE t

(* simplify_parens                                                         *)
SimplifyParens[t \in Conditions, parent \in Labels \union {"none"}] ==
  IF Class(t) = "PAREN" /\ ~(Class(Left(t)) \in Connectors /\ parent \in Connectors \union {"NOT"})
  THEN Left(t)
  ELSE t

(* What is done to the top of a chain only.                                *)
Chained[t \in Conditions, parent \in Labels \union {"none"}] ==
  IF Class(t) # parent THEN RemoveComplements[SimplifyConnectors(t)] ELSE t

(* The node a visit on the way up leaves below such a parent.              *)
RewrittenUp[t \in Conditions, parent \in Labels \union {"none"}] ==
  SimplifyParens[Chained[Flat[SimplifyNot(t)], parent], parent]

-----------------------------------------------------------------------------
Init ==
  /\ \E input \in Inputs : given = input.condition /\ form = input.form
  /\ normal = given
  /\ tree = given
  /\ before = given
  /\ way = IF form = "none" THEN "down" ELSE "normalize"
  /\ at = 1

(* The connector that normalize works at, for there is no more than one    *)
(* that is below no other.                                                 *)
Site == SelectInSeq(given, LAMBDA label : label \in Connectors)

(* One call of distributive_law by while_changing.                         *)
Distribute ==
  /\ way = "normalize"
  /\ Site > 0
  /\ \E new \in {Distributed[Node(tree, Site), form, FALSE]} :
       /\ new \notin {TooFar, Node(tree, Site)}
       /\ tree' = Put(tree, Site, new)
  /\ UNCHANGED <<given, form, normal, before, way, at>>

(* normalize returns, with the condition as it was if the way is too far.  *)
Normalize ==
  /\ way = "normalize"
  /\ \E new \in {IF Site = 0 THEN tree ELSE Distributed[Node(tree, Site), form, FALSE]} :
       /\ Site > 0 => new \in {TooFar, Node(tree, Site)}
       /\ tree' = IF new = TooFar THEN given ELSE tree
  /\ normal' = tree'
  /\ before' = tree'
  /\ way' = "down"
  /\ UNCHANGED <<given, form, at>>

(* root or not same_parent: a node that is not the first of its chain is   *)
(* left as it is.  Then its children, the left one first.                  *)
Down ==
  /\ way = "down"
  /\ tree' = IF Class(Node(tree, at)) # Parent(tree, at) THEN Put(tree, at, RewrittenDown[Node(tree, at)]) ELSE tree
  /\ at' = IF at < Len(tree') THEN at + 1 ELSE at
  /\ way' = IF at < Len(tree') THEN way ELSE "up"
  /\ UNCHANGED <<given, form, normal, before>>

(* The nodes again, in the opposite order.                                 *)
Up ==
  /\ way = "up"
  /\ at > 0
  /\ tree' = Put(tree, at, RewrittenUp[Node(tree, at), Parent(tree, at)])
  /\ at' = at - 1
  /\ UNCHANGED <<given, form, normal, before, way>>

(* Mutant: the hash is taken once, before the first pass.                  *)
AgainSinceTheStart ==
  /\ way = "up"
  /\ at = 0
  /\ tree # before
  /\ way' = "down"
  /\ at' = 1
  /\ UNCHANGED <<given, form, normal, before, tree>>

(* while_changing                                                          *)
Again ==
  /\ way = "up"
  /\ at = 0
  /\ tree # before
  /\ before' = tree
  /\ way' = "down"
  /\ at' = 1
  /\ UNCHANGED <<given, form, normal, tree>>

(* Mutant: one pass only.                                                  *)
ReturnAtOnce ==
  /\ way = "up"
  /\ at = 0
  /\ way' = "done"
  /\ UNCHANGED <<given, form, normal, tree, before, at>>

Return ==
  /\ way = "up"
  /\ at = 0
  /\ tree = before
  /\ way' = "done"
  /\ UNCHANGED <<given, form, normal, tree, before, at>>

Next == Distribute \/ Normalize \/ Down \/ Up \/ Again \/ Return

Spec == Init /\ [][Next]_vars /\ WF_vars(Next)

-----------------------------------------------------------------------------
(* u has the value of t for every row for which t has one: NULL may become *)
(* TRUE or FALSE (A OR NOT A is made TRUE), and nothing else changes.      *)
SameWhereDefined(t, u) == \A row \in Rows : Value(t, row) # 1 => Value(u, row) = Value(t, row)

(* Some label stands below a NOT.                                          *)
Negates(t, labels) ==
  \E p \in DOMAIN t : t[p] = "NOT" /\ \E q \in p..End[t, p] : t[q] \in labels

Plain(t) == "NULL" \notin ToSet(t) /\ ~Negates(t, DOMAIN Comparisons)

(* What simplify returns means what it was given, unless that has the      *)
(* constant NULL or negates a comparison (see MeaningKept).                *)
PlainMeaningKept == way = "done" /\ Plain(given) => SameWhereDefined(given, tree)

(* normalize keeps the value for every row, also where it is NULL.         *)
NormalMeansTheSame ==
  way = "down" /\ tree = before => \A row \in Rows : Value(normal, row) = Value(given, row)

(* It makes the form it was asked for, with no more predicates than the    *)
(* distance allows, or leaves the condition as it was.                     *)
NormalInBounds ==
  way = "down" /\ form # "none" /\ normal # given =>
    /\ Normalized(Node(normal, Site), form, FALSE)
    /\ Predicates(normal) <= Predicates(given) + MaxDistance

(* Every condition without the constant NULL keeps its meaning.            *)
MeaningKept == way = "done" /\ "NULL" \notin ToSet(given) => SameWhereDefined(given, tree)

(* No rule has anything left to do in what simplify returns: a chain has   *)
(* no operand twice, none with its negation, no TRUE or FALSE and no chain *)
(* of its own connector, and only columns are negated.                     *)
NothingLeft ==
  way = "done" => \A p \in DOMAIN tree :
    LET node == Node(tree, p)
        ops == Flattened(node)
    IN /\ Class(node) = "NOT" => Class(Left(node)) \in Columns
       /\ Class(node) = "PAREN" => Class(Left(node)) \in Connectors /\ Parent(tree, p) = Other(Class(Left(node)))
       /\ Class(node) \in Connectors =>
            /\ IsInjective(ops)
            /\ \A op \in ToSet(ops) : Class(op) = "NOT" => Left(op) \notin ToSet(ops)
            /\ {Class(op) : op \in ToSet(ops)} \intersect {"TRUE", "FALSE"} = {}

(* simplify comes to an end: no pass undoes what another did.              *)
Terminates == <>(way = "done")
=============================================================================
