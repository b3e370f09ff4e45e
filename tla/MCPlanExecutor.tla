--------------------------- MODULE MCPlanExecutor ---------------------------
(***************************************************************************)
(* The steps the planner makes for                                         *)
(*                                                                         *)
(*   WITH t AS (SELECT x.a AS a, x.b AS b FROM x AS x),                    *)
(*        p AS (SELECT DISTINCT t.a AS a FROM t AS t),                     *)
(*        q AS (SELECT l.a AS a, MAX(l.b + 1) AS m                         *)
(*              FROM t AS l JOIN p AS r ON l.a = r.a                       *)
(*              WHERE l.b > 0 GROUP BY l.a ORDER BY l.a),                  *)
(*        u AS (SELECT t.b AS b FROM t AS t),                              *)
(*        v AS (SELECT t.b AS b FROM t AS t UNION ALL SELECT 1 AS b),      *)
(*        w AS (WITH t AS (SELECT p.a AS a FROM p AS p)                    *)
(*              SELECT MAX(t.a) AS b FROM t AS t HAVING MAX(t.a) > 1)      *)
(*   SELECT p.a AS a, t.b AS b, q.m AS m, v.b AS c FROM p AS p             *)
(*   JOIN t AS t ON p.a = t.a JOIN q AS q ON q.a = p.a                     *)
(*   JOIN v AS v ON v.b = p.a JOIN w AS w ON w.b = t.b ORDER BY p.a        *)
(*                                                                         *)
(* The step of t is shared by five others, that of p by three; another t   *)
(* hides it inside w.  u is not reachable from the root but is a dependent *)
(* of t all the same.                                                      *)
(* The DISTINCT of p returns its table under the inner name t as well, and *)
(* the grouping of q under the names l and r and under None.  The second   *)
(* side of v has no name of its own.                                       *)
(***************************************************************************)
EXTENDS PlanExecutor, Sequences

MCName == {"t", "p", "q", "u", "v", "w", "x", "l", "r", "left", "right", "None"}
MCNoName == "None"

Planner == INSTANCE PlanBuilder WITH NoName <- MCNoName

As(table, alias) == [table |-> table, alias |-> alias]

By(name, query) == [name |-> name, query |-> query]

From(sources, exprs) == Planner!Select(SubSeq(sources, 1, 1), Tail(sources), exprs)

Plain == {"column"}

MCQuery ==
  LET t == From(<<As("x", "x")>>, Plain)
      p == [From(<<As("t", "t")>>, Plain) EXCEPT !.distinct = TRUE]
      q == [From(<<As("t", "l"), As("p", "r")>>, {"column", "operand"}) EXCEPT
              !.where = Plain, !.group = Plain, !.order = Plain]
      u == From(<<As("t", "t")>>, Plain)
      v == Planner!SetOperation(From(<<As("t", "t")>>, Plain), Planner!Select(<<>>, <<>>, Plain))
      w == [From(<<As("t", "t")>>, {"aggregation"}) EXCEPT
              !.with = <<By("t", From(<<As("p", "p")>>, Plain))>>, !.having = {"aggregation"}]
  IN [From(<<As("p", "p"), As("t", "t"), As("q", "q"), As("v", "v"), As("w", "w")>>, Plain) EXCEPT
        !.with = <<By("t", t), By("p", p), By("q", q), By("u", u), By("v", v), By("w", w)>>,
        !.order = Plain]

MCPlan == Planner!PlanOf(MCQuery)

MCStep == DOMAIN MCPlan.nodes
MCRoot == MCPlan.step
MCDeps == MCPlan.deps
MCNode == MCPlan.nodes

(* What the proofs assume of the plans the planner makes.                  *)
MCReturned ==
  LET returned[s \in MCStep] == NamesReturned(s, UNION {returned[d] : d \in MCDeps[s]})
  IN returned

ASSUME MCNamesApart == NamesApart(MCReturned)
ASSUME MCTablesApart == TablesApart
=============================================================================
