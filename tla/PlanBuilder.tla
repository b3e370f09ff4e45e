---------------------------- MODULE PlanBuilder ----------------------------
(***************************************************************************)
(* The planner: the steps a query becomes, what each depends on and the    *)
(* names they go by.                                                       *)
(*                                                                         *)
(* sqlglot/planner.py, Step.from_expression, Scan.from_expression,         *)
(* Join.from_joins and SetOperation.from_expression, for queries whose     *)
(* subqueries are common table expressions, as the optimizer leaves them.  *)
(*                                                                         *)
(* A step is its number in the order in which the planner makes them.      *)
(* Python renames steps after others were built on them, so the number     *)
(* stays and the name changes.  LIMIT decides no name and is left out.     *)
(***************************************************************************)
EXTENDS Naturals, SequencesExt, TLC

CONSTANT NoName  \* Python's None

(***************************************************************************)
(* A clause is what stands in it: columns, an aggregation of a column, an  *)
(* aggregation of an operand that is computed first; none if it is absent. *)
(*                                                                         *)
(* A select has with, from, joins, exprs, where, group, having, order and  *)
(* distinct; a set operation with, left, right and order.  A source is a   *)
(* table and its alias, a common table expression its name and query.      *)
(***************************************************************************)
Clause == SUBSET {"column", "aggregation", "operand"}

Aggregations == {"aggregation", "operand"}

Select(from, joins, exprs) ==
  [kind |-> "Select", with |-> <<>>, from |-> from, joins |-> joins, exprs |-> exprs,
   where |-> {}, group |-> {}, having |-> {}, order |-> {}, distinct |-> FALSE]

SetOperation(left, right) ==
  [kind |-> "SetOperation", with |-> <<>>, left |-> left, right |-> right, joins |-> <<>>,
   exprs |-> {}, where |-> {}, group |-> {}, having |-> {}, order |-> {}, distinct |-> FALSE]

(* The steps made so far: the fields of each, its dependencies, and the    *)
(* step that stands for what has been planned of the current query.        *)
NoSteps == [nodes |-> <<>>, deps |-> <<>>, step |-> 0]

Fresh(kind) ==
  [kind |-> kind, name |-> NoName, source |-> NoName, joined |-> {},
   projects |-> FALSE, filters |-> FALSE, operands |-> FALSE]

Add(plan, node, deps) ==
  [nodes |-> Append(plan.nodes, node), deps |-> Append(plan.deps, deps), step |-> Len(plan.nodes) + 1]

NameOf(plan) == plan.nodes[plan.step].name

Named(plan, name) == [plan EXCEPT !.nodes[plan.step].name = name]

(* left.name or "left"                                                     *)
NamedOr(plan, name) == IF NameOf(plan) = NoName THEN Named(plan, name) ELSE plan

-----------------------------------------------------------------------------
(* alias_or_name                                                           *)
Alias(source) == source.alias

(* Scan.from_expression; a query without FROM scans nothing.               *)
Scanned(plan, from, ctes) ==
  IF from = <<>> THEN Add(plan, Fresh("Scan"), {})
  ELSE LET source == Head(from)
       IN Add(plan, [Fresh("Scan") EXCEPT !.name = Alias(source), !.source = source.table],
              IF source.table \in DOMAIN ctes THEN {ctes[source.table]} ELSE {})

(* Join.from_joins, and the source the joins start from.                   *)
Joined(plan, joins, ctes) ==
  LET scan(p, join) == Scanned(p, <<join>>, ctes)
      scans == FoldLeft(scan, plan, joins)
      join == [Fresh("Join") EXCEPT !.name = NameOf(plan), !.source = NameOf(plan),
                 !.joined = {joins[k].alias : k \in DOMAIN joins}]
  IN IF joins = <<>> THEN plan
     ELSE Add(scans, join, {plan.step} \union (Len(plan.nodes) + 1)..Len(scans.nodes))

Filtered(plan, where) == [plan EXCEPT !.nodes[plan.step].filters = where # {}]

Aggregated(plan, query) ==
  LET node == [Fresh("Aggregate") EXCEPT
                 !.name = NameOf(plan), !.source = NameOf(plan), !.filters = query.having # {},
                 !.operands = "operand" \in query.exprs \union query.having \union query.order]
  IN IF query.group = {} /\ query.exprs \intersect Aggregations = {} THEN plan
     ELSE Add(plan, node, {plan.step})

Ordered(plan, query) ==
  IF query.order = {} THEN plan
  ELSE Add(plan, [Fresh("Sort") EXCEPT !.name = NameOf(plan)], {plan.step})

Projected(plan, query) == [plan EXCEPT !.nodes[plan.step].projects = query.exprs # {}]

(* DISTINCT groups by every projection.                                    *)
Distinct(plan, query) ==
  IF ~query.distinct THEN plan
  ELSE Add(plan, [Fresh("Aggregate") EXCEPT !.name = NameOf(plan), !.source = NameOf(plan)], {plan.step})

(* The step of a set operation, when both sides have been planned.         *)
United(left, both) ==
  Add(both, [Fresh("SetOperation") EXCEPT !.joined = {NameOf(left), NameOf(both)}], {left.step, both.step})

RECURSIVE FromExpression(_, _, _), Defined(_, _)

(* The common table expressions one after the other: each may name those   *)
(* before it, and hides one of the same name.                              *)
Defined(with, made) ==
  IF with = <<>> THEN made
  ELSE LET cte == Head(with)
           plan == Named(FromExpression(cte.query, made.ctes, made.plan), cte.name)
       IN Defined(Tail(with), [plan |-> plan, ctes |-> (cte.name :> plan.step) @@ made.ctes])

(* Step.from_expression.  ctes has the steps of the common table           *)
(* expressions that the query may name.                                    *)
FromExpression(query, ctes, plan) ==
  LET with == Defined(query.with, [plan |-> plan, ctes |-> ctes])
      left == NamedOr(FromExpression(query.left, with.ctes, with.plan), "left")
      both == NamedOr(FromExpression(query.right, with.ctes, left), "right")
      source == IF query.kind = "SetOperation" THEN United(left, both) ELSE Scanned(with.plan, query.from, with.ctes)
      rows == Filtered(Joined(source, query.joins, with.ctes), query.where)
  IN Distinct(Projected(Ordered(Aggregated(rows, query), query), query), query)

(* Plan.__init__                                                           *)
PlanOf(query) == FromExpression(query, [n \in {} |-> 0], NoSteps)
=============================================================================
