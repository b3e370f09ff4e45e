------------------------------ MODULE JoinStep ------------------------------
(***************************************************************************)
(* A Join step of the Python engine: the tables of the query are joined to *)
(* the source one after the other, each by a hash join when the condition  *)
(* gives a key and by a nested loop otherwise; what is left of the         *)
(* condition filters the rows of each join, WHERE and LIMIT the rows of    *)
(* the step.                                                               *)
(*                                                                         *)
(* sqlglot/executor/python.py, PythonExecutor.join, hash_join,             *)
(* nested_loop_join and _project_and_filter; the key and the rest of a     *)
(* condition come from optimizer/eliminate_joins.py, join_condition.       *)
(*                                                                         *)
(* Every table has one column; a row is the tuple of the columns of the    *)
(* tables joined so far.                                                   *)
(***************************************************************************)
EXTENDS Naturals, Sequences, FiniteSets

CONSTANTS
  Value,     \* what a column holds, apart from Null
  Null,      \* Python's None
  Columns,   \* the contents the tables may have: a set of sequences of sets
  Joins,     \* the joins a query may make: a set of sequences of JoinType
  Wheres,    \* the WHERE conditions
  Limits,    \* the limits
  Infinity   \* math.inf, no LIMIT

Cell == Value \union {Null}

(* A condition: the comparisons `column = value` that are to hold, none    *)
(* for no condition.  The comparison functions of env.py return None,      *)
(* which is false, when an argument is None.                               *)
Condition == SUBSET [column : Nat \ {0}, value : Value]

(***************************************************************************)
(* side      the side of the join                                          *)
(* key       the column of the source that equals the joined table's, 0 if *)
(*           the condition gives no key                                    *)
(* condition the rest of the condition                                     *)
(***************************************************************************)
JoinType ==
  [side : {"INNER", "LEFT", "RIGHT", "FULL"}, key : Nat,
   condition : Condition]

ASSUME JoinAssumption ==
  /\ Null \notin Value
  /\ Columns \subseteq Seq(Seq([1..1 -> Cell]))
  /\ \A js \in Joins :
       /\ js \in Seq(JoinType)
       /\ \A k \in DOMAIN js :
            js[k].key <= k /\ \A c \in js[k].condition : c.column <= k + 1
  /\ Wheres \subseteq Condition
  /\ Infinity \in Limits /\ Limits \ {Infinity} \subseteq Nat

VARIABLES
  inputs,    \* inputs[k]: the rows of the k-th table of the query
  joins,     \* step.joins
  where,     \* step.condition
  limit,     \* step.limit
  projects,  \* step.projections is not empty
  phase,     \* the part of the step that runs next
  done,      \* how many joins are finished
  source,    \* the rows of source_context
  read,      \* how many rows the loop that is running has read
  results,   \* hash_join: the entries of the dictionary, in order
  table,     \* the rows of the join being made
  sink       \* the rows the step returns

query == <<inputs, joins, where, limit, projects>>
vars == <<query, phase, done, source, read, results, table, sink>>

-----------------------------------------------------------------------------
Holds(condition, row) == \A c \in condition : row[c.column] = c.value

(* The rows of which a condition holds, in order: kept[n] are those of the *)
(* first n rows.                                                           *)
KeptOf(condition, rows) ==
  LET kept[n \in 0..Len(rows)] ==
        IF n = 0 THEN <<>>
        ELSE IF Holds(condition, rows[n]) THEN Append(kept[n - 1], rows[n]) ELSE kept[n - 1]
  IN kept

Kept(condition, rows) == KeptOf(condition, rows)[Len(rows)]

(* itertools.product of two lists of rows, concatenated.                   *)
Product(as, bs) ==
  [n \in 1..(Len(as) * Len(bs)) |->
     as[((n - 1) \div Len(bs)) + 1] \o bs[((n - 1) % Len(bs)) + 1]]

Current == joins[done + 1]
Joined == inputs[done + 2]
Nulls(n) == <<[k \in 1..n |-> Null]>>

(* results[key][0].append(row): the dictionary keeps the order in which    *)
(* keys came.                                                              *)
Insert(key, field, row) ==
  IF \E k \in DOMAIN results : results[k].key = key
  THEN [k \in DOMAIN results |->
          IF results[k].key = key
          THEN [results[k] EXCEPT ![field] = Append(@, row)]
          ELSE results[k]]
  ELSE Append(results, [[key |-> key, a |-> <<>>, b |-> <<>>] EXCEPT ![field] = <<row>>])

-----------------------------------------------------------------------------
Init ==
  /\ inputs \in Columns
  /\ joins \in {js \in Joins : Len(js) = Len(inputs) - 1}
  /\ where \in Wheres
  /\ projects \in BOOLEAN
  /\ limit \in IF projects THEN Limits ELSE {Infinity}
  /\ phase = "next"
  /\ done = 0
  /\ source = inputs[1]
  /\ read = 0
  /\ results = <<>>
  /\ table = <<>>
  /\ sink = <<>>

(* `if join.get("source_key")`: which of the two joins is made.            *)
Begin ==
  /\ phase = "next"
  /\ done < Len(joins)
  /\ phase' = IF Current.key # 0 THEN "source" ELSE "nested"
  /\ read' = 0
  /\ results' = <<>>
  /\ table' = <<>>
  /\ UNCHANGED <<query, done, source, sink>>

(* hash_join: `for reader, ctx in source_context`.                         *)
HashSource ==
  /\ phase = "source"
  /\ IF read < Len(source)
     THEN /\ results' = Insert(source[read + 1][Current.key], "a", source[read + 1])
          /\ read' = read + 1
          /\ UNCHANGED phase
     ELSE phase' = "joined" /\ read' = 0 /\ UNCHANGED results
  /\ UNCHANGED <<query, done, source, table, sink>>

(* hash_join: `for reader, ctx in join_context`.                           *)
HashJoined ==
  /\ phase = "joined"
  /\ IF read < Len(Joined)
     THEN /\ results' = Insert(Joined[read + 1][1], "b", Joined[read + 1])
          /\ read' = read + 1
          /\ UNCHANGED phase
     ELSE phase' = "emit" /\ read' = 0 /\ UNCHANGED results
  /\ UNCHANGED <<query, done, source, table, sink>>

(* Mutant: LEFT completes the joined table's rows.                         *)
GroupsSwapped(entry) ==
  CASE Current.side = "RIGHT" /\ entry.b = <<>> -> [a |-> entry.a, b |-> Nulls(1)]
    [] Current.side = "LEFT" /\ entry.a = <<>>  -> [a |-> Nulls(done + 1), b |-> entry.b]
    [] OTHER -> entry

(* The groups of an entry of the dictionary as each side completes them.   *)
GroupsOf(entry) ==
  CASE Current.side = "LEFT" /\ entry.b = <<>>  -> [a |-> entry.a, b |-> Nulls(1)]
    [] Current.side = "RIGHT" /\ entry.a = <<>> -> [a |-> Nulls(done + 1), b |-> entry.b]
    [] OTHER -> entry

(* hash_join: `for a_group, b_group in results.values()`.                  *)
Emit ==
  /\ phase = "emit"
  /\ IF read < Len(results)
     THEN LET groups == GroupsOf(results[read + 1])
          IN /\ table' = table \o Product(groups.a, groups.b)
             /\ read' = read + 1
             /\ UNCHANGED phase
     ELSE phase' = "filter" /\ read' = 0 /\ UNCHANGED table
  /\ UNCHANGED <<query, done, source, results, sink>>

(* nested_loop_join: one turn of the outer loop.                           *)
NestedLoop ==
  /\ phase = "nested"
  /\ IF read < Len(source)
     THEN /\ table' = table \o Product(<<source[read + 1]>>, Joined)
          /\ read' = read + 1
          /\ UNCHANGED phase
     ELSE phase' = "filter" /\ read' = 0 /\ UNCHANGED table
  /\ UNCHANGED <<query, done, source, results, sink>>

(* source_context.filter(condition)                                        *)
Filter ==
  /\ phase = "filter"
  /\ table' = Kept(Current.condition, table)
  /\ phase' = "made"
  /\ UNCHANGED <<query, done, source, read, results, sink>>

(* The loop over step.joins goes on with the rows of this join.            *)
Continue ==
  /\ phase = "made"
  /\ source' = table
  /\ done' = done + 1
  /\ phase' = "next"
  /\ UNCHANGED <<query, read, results, table, sink>>

(* A step with neither a condition nor projections returns source_context. *)
LastJoinMade ==
  /\ phase = "next"
  /\ done = Len(joins)
  /\ IF where = {} /\ ~projects
     THEN phase' = "done" /\ sink' = source
     ELSE phase' = "project" /\ UNCHANGED sink
  /\ read' = 0
  /\ UNCHANGED <<query, done, source, results, table>>

(* Mutant: LIMIT counts the rows read.                                     *)
ProjectLimitRead ==
  /\ phase = "project"
  /\ IF read = Len(source) \/ (limit # Infinity /\ read >= limit)
     THEN phase' = "done" /\ UNCHANGED <<read, sink>>
     ELSE /\ read' = read + 1
          /\ sink' = IF Holds(where, source[read + 1])
                     THEN Append(sink, source[read + 1])
                     ELSE sink
          /\ UNCHANGED phase
  /\ UNCHANGED <<query, done, source, results, table>>

(* _project_and_filter                                                     *)
Project ==
  /\ phase = "project"
  /\ IF read = Len(source) \/ (limit # Infinity /\ Len(sink) >= limit)
     THEN phase' = "done" /\ UNCHANGED <<read, sink>>
     ELSE /\ read' = read + 1
          /\ sink' = IF Holds(where, source[read + 1])
                     THEN Append(sink, source[read + 1])
                     ELSE sink
          /\ UNCHANGED phase
  /\ UNCHANGED <<query, done, source, results, table>>

Done == phase = "done" /\ UNCHANGED vars

Next ==
  \/ Begin \/ HashSource \/ HashJoined \/ Emit \/ NestedLoop
  \/ Filter \/ Continue \/ LastJoinMade \/ Project \/ Done

Spec == Init /\ [][Next]_vars

-----------------------------------------------------------------------------
(* A row has a cell of each table joined so far.                           *)
Rows(n) == [1..n -> Cell]

(* An entry of the dictionary: a key, and the rows of each side that have  *)
(* it.                                                                     *)
Entry == [key : Cell, a : Seq(Rows(done + 1)), b : Seq(Rows(1))]

TypeOK ==
  /\ inputs \in Seq(Seq(Rows(1))) /\ joins \in Seq(JoinType) /\ Len(inputs) = Len(joins) + 1
  /\ phase \in {"next", "source", "joined", "emit", "nested", "filter", "made", "project", "done"}
  /\ done \in 0..Len(joins) /\ read \in Nat
  /\ source \in Seq(Rows(done + 1))
  /\ phase \in {"source", "joined", "emit"} => results \in Seq(Entry)
  /\ phase \in {"source", "joined", "emit", "nested", "filter", "made"}
       => table \in Seq(Rows(done + 2))
  /\ sink \in Seq(Rows(done + 1))

(* What SQL says a join returns, as the pairs of a row of each side (0 for *)
(* the row of nulls of the other side).                                    *)
Matches(m, n) ==
  /\ Current.key # 0 => /\ source[m][Current.key] = Joined[n][1]
                        /\ Joined[n][1] # Null
  /\ Holds(Current.condition, source[m] \o Joined[n])

Pairs ==
  LET both == {p \in (DOMAIN source) \X (DOMAIN Joined) : Matches(p[1], p[2])}
      onlySource == {<<m, 0>> : m \in {k \in DOMAIN source : \A p \in both : p[1] # k}}
      onlyJoined == {<<0, n>> : n \in {k \in DOMAIN Joined : \A p \in both : p[2] # k}}
  IN both \union (IF Current.side \in {"LEFT", "FULL"} THEN onlySource ELSE {})
          \union (IF Current.side \in {"RIGHT", "FULL"} THEN onlyJoined ELSE {})

RowOf(p) ==
  (IF p[1] = 0 THEN Nulls(done + 1)[1] ELSE source[p[1]])
    \o (IF p[2] = 0 THEN Nulls(1)[1] ELSE Joined[p[2]])

(* Every row comes as often in `table` as in the result of SQL.            *)
JoinIsSQL ==
  phase = "made" =>
    /\ Len(table) = Cardinality(Pairs)
    /\ \A p \in Pairs :
         Cardinality({n \in DOMAIN table : table[n] = RowOf(p)})
           = Cardinality({q \in Pairs : RowOf(q) = RowOf(p)})

(* The queries of which the engine makes SQL's joins: no joined table      *)
(* holds Null, which equals None in the dictionary; a LEFT or RIGHT join   *)
(* has a key, as a nested loop completes no side, and no other condition,  *)
(* which would drop the rows of nulls; there is no FULL join, of which     *)
(* hash_join completes neither side.                                       *)
SafeQueries ==
  /\ \A tables \in Columns : \A k \in 2..Len(tables) : tables[k] \in Seq([1..1 -> Value])
  /\ \A js \in Joins : \A k \in DOMAIN js :
       /\ js[k].side \in {"INNER", "LEFT", "RIGHT"}
       /\ js[k].side # "INNER" => js[k].key # 0 /\ js[k].condition = {}

(* WHERE is applied before LIMIT, and LIMIT keeps the first rows.          *)
WhereThenLimit ==
  phase = "done" =>
    LET kept == Kept(where, source)
    IN sink = IF limit # Infinity /\ limit < Len(kept) THEN SubSeq(kept, 1, limit) ELSE kept
=============================================================================
