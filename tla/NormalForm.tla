----------------------------- MODULE NormalForm -----------------------------
(***************************************************************************)
(* The rule that brings a condition to conjunctive or disjunctive normal   *)
(* form by the distributive law, unless that makes it too long.            *)
(*                                                                         *)
(* A form is named by the connector it has on top, "AND" or "OR".          *)
(*                                                                         *)
(* sqlglot/optimizer/normalize.py                                          *)
(***************************************************************************)
EXTENDS Condition

CONSTANT MaxDistance  \* max_distance

ASSUME MaxDistanceAssumption == MaxDistance \in Nat

(* normalized: no connector of the form stands below one of the other      *)
(* kind, where the condition itself may stand below one.                   *)
Normalized(t, form, below) ==
  \A i \in DOMAIN t :
    t[i] = form => ~below /\ \A j \in 1..(i - 1) : t[j] = Other(form) => End[t, j] < i

(* _predicate_lengths: how many conjuncts or disjuncts there will be, and  *)
(* how many predicates in all of them.                                     *)
Length == [count : Nat, sum : Nat]

SideBySide[l \in Length, r \in Length] == [count |-> l.count + r.count, sum |-> l.sum + r.sum]

EachWithEach[l \in Length, r \in Length] ==
  [count |-> l.count * r.count, sum |-> l.sum * r.count + r.sum * l.count]

Lengths[t \in Conditions, form \in Connectors, depth \in Nat] ==
  LET node == Unnest(t)
      side(s) == Lengths[s, form, depth + 1]
  IN IF depth > MaxDistance THEN [count |-> 1, sum |-> depth]
     ELSE IF Class(node) = form THEN SideBySide[side(Left(node)), side(Right(node))]
     ELSE IF Class(node) = Other(form) THEN EachWithEach[side(Left(node)), side(Right(node))]
     ELSE [count |-> 1, sum |-> 1]

ConnectorCount(t) == Cardinality({i \in DOMAIN t : t[i] \in Connectors})

Predicates(t) == Cardinality({i \in DOMAIN t : Arity(t[i]) = 0})

(* Mutant: the distance as the number of conjuncts or disjuncts.           *)
IsTooFarByCount(t, form) == Lengths[t, form, 0].count > MaxDistance

(* normalization_distance, compared with max_distance.                     *)
IsTooFar(t, form) == Lengths[t, form, 0].sum > MaxDistance + ConnectorCount(t) + 1

(* What stands for an OptimizeError.                                       *)
TooFar == <<>>

Merged(c, d, form) == UniqSort[Flat[Combined(Other(form), <<c, d>>)]]

(* Mutant: only one side meets it.                                         *)
OverLeftOnly(c, b, form) == Combined(form, <<Merged(c, Left(b), form), Right(b)>>)

(* A predicate or chain put over both sides of a chain of the form.        *)
Over(c, b, form) == Combined(form, <<Merged(c, Left(b), form), Merged(c, Right(b), form)>>)

(* _distribute                                                             *)
Spread[a \in Conditions, b \in Conditions, form \in Connectors] ==
  IF Class(a) \in Connectors
  THEN <<Class(a)>> \o Over(Left(a), b, form) \o Over(Right(a), b, form)
  ELSE Over(a, b, form)

(* What distributive_law does at a node whose children are done.           *)
Law[t \in Conditions, form \in Connectors] ==
  IF t = TooFar THEN TooFar
  ELSE IF Class(t) # Other(form) THEN t
  ELSE LET a == Unnest(Left(t))
           b == Unnest(Right(t))
       IN IF Class(a) = form /\ (Class(b) = form => ConnectorCount(a) <= ConnectorCount(b)) THEN Spread[b, a, form]
          ELSE IF Class(b) = form THEN Spread[a, b, form]
          ELSE t

(* replace_children, of which none may be too far.                         *)
WithChildren[label \in Labels, children \in Seq(Conditions)] ==
  IF TooFar \in ToSet(children) THEN TooFar ELSE <<label>> \o FlattenSeq(children)

(* distributive_law, below a connector of the other kind or not.           *)
Distributed[t \in Conditions, form \in Connectors, below \in BOOLEAN] ==
  IF Normalized(t, form, below) THEN t
  ELSE IF IsTooFar(t, form) THEN TooFar
  ELSE LET child(c) == Distributed[c, form, below \/ Class(t) = Other(form)]
           children == CASE Arity(Class(t)) = 0 -> <<>>
                         [] Arity(Class(t)) = 1 -> <<child(Left(t))>>
                         [] Arity(Class(t)) = 2 -> <<child(Left(t)), child(Right(t))>>
       IN Law[WithChildren[Class(t), children], form]
=============================================================================
