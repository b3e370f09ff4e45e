--------------------------- MODULE AggregateStep ---------------------------
(***************************************************************************)
(* The grouping loop of the Python engine: an Aggregate step sorts the     *)
(* rows it is given by their group key and walks over them once, handing   *)
(* the range of rows of each group to the aggregation functions; HAVING    *)
(* and the projections are applied to the rows it made.                    *)
(*                                                                         *)
(* sqlglot/executor/python.py, PythonExecutor.aggregate; context.py,       *)
(* Context.sort, set_index and set_range.  Indices count from 0 and ranges *)
(* exclude their end, as they do in Python.                                *)
(***************************************************************************)
EXTENDS Integers, Sequences, FiniteSets, Functions

CONSTANTS
  Key,        \* the values a group key can have
  Null,       \* Python's None, which sorts after every key
  NoGroup,    \* `group` before the first row, and of the row of an empty table
  Infinity,   \* math.inf, the limit of a step without LIMIT
  Limits,     \* the limits a step may have
  MaxRows     \* bound: the number of rows of the table

Group == Key \union {Null}

ASSUME AggregateAssumption ==
  /\ Key \subseteq Int
  /\ Null \notin Key
  /\ NoGroup \notin Group
  /\ Infinity \in Limits
  /\ Limits \ {Infinity} \subseteq Nat
  /\ MaxRows \in Nat

VARIABLES
  keys,      \* keys[r]: the group key of row r
  grouped,   \* whether the step has a GROUP BY
  limit,     \* step.limit
  accepts,   \* the groups that HAVING accepts
  bare,      \* whether the step has neither HAVING nor projections
  phase,     \* the part of aggregate() that runs next
  sorted,    \* the rows in the order of context.table after the sort
  i, group, start, end,   \* the loop
  table,     \* the rows made, as the group and the range of each
  sink,      \* the rows the step returns
  read       \* _project_and_filter: how many rows of `table` it has read

inputs == <<keys, grouped, limit, accepts, bare>>
loop == <<i, group, start, end, table>>
vars == <<inputs, phase, sorted, loop, sink, read>>

-----------------------------------------------------------------------------
Row == DOMAIN keys
Length == Len(keys)

(* Context.sort compares the pairs (k is None, k).                         *)
Precedes(g, h) == g # Null /\ (h = Null \/ g < h)

(* list.sort is stable: rows with the same key stay in order.              *)
Sorted(p) ==
  \A q, r \in Row : q < r =>
    \/ Precedes(keys[p[q]], keys[p[r]])
    \/ keys[p[q]] = keys[p[r]] /\ p[q] < p[r]

(* The key of the row at index j of the sorted table.                      *)
KeyAt(j) == keys[sorted[j + 1]]

(* The rows of a range of the sorted table.                                *)
RowsIn(lo, hi) == {sorted[j + 1] : j \in lo..(hi - 1)}

Reached(n) == limit # Infinity /\ n >= limit

(* add_row() with the range that set_range(lo, hi) left.                   *)
WithRow(rows, g, lo, hi) == Append(rows, [group |-> g, lo |-> lo, hi |-> hi])

-----------------------------------------------------------------------------
Init ==
  /\ \E n \in 0..MaxRows : keys \in [1..n -> Group]
  /\ grouped \in BOOLEAN
  /\ ~grouped => \A q, r \in Row : keys[q] = keys[r]    \* the empty tuple
  /\ limit \in Limits
  /\ accepts \in SUBSET (Group \union {NoGroup})
  /\ bare \in BOOLEAN
  /\ bare => accepts = Group \union {NoGroup}
  /\ phase = "sort"
  /\ sorted = <<>>
  /\ i = 0 /\ group = NoGroup /\ start = 0 /\ end = 1
  /\ table = <<>>
  /\ sink = <<>>
  /\ read = 0

(* Mutant of Sort: the rows stay as they came.                             *)
SortNothing ==
  /\ phase = "sort"
  /\ sorted' = [r \in Row |-> r]
  /\ phase' = "loop"
  /\ UNCHANGED <<inputs, loop, sink, read>>

(* context.sort(group_by)                                                  *)
Sort ==
  /\ phase = "sort"
  /\ sorted' \in {p \in Bijection(Row, Row) : Sorted(p)}
  /\ phase' = "loop"
  /\ UNCHANGED <<inputs, loop, sink, read>>

(* Mutant of GroupEnd: an index too far.                                   *)
GroupEndLate(e) == e - 1

(* Where the group that ends before row i ends: `end` was moved on already.*)
GroupEnd(e) == e - 2

(* Where the group that ends with the table ends.                          *)
TableEnd(e) == e - 1

(* Mutant of MadeLast: no row is made for the group the table ends with.   *)
MadeNothing(rows, lo, e) == rows

(* The rows made when row i was read, with that of the group the table     *)
(* ends with if row i is the last.                                         *)
MadeLast(rows, lo, e) ==
  IF i = Length - 1 THEN WithRow(rows, KeyAt(i), lo, TableEnd(e)) ELSE rows

(* One turn of the loop.                                                   *)
Turn ==
  LET closes == group # NoGroup /\ KeyAt(i) # group
      made == IF closes THEN WithRow(table, group, start, GroupEnd(end')) ELSE table
  IN /\ phase = "loop"
     /\ i < Length
     /\ group' = KeyAt(i)
     /\ end' = end + 1
     /\ start' = IF closes THEN GroupEnd(end') ELSE start
     /\ \/ /\ Reached(Len(made))
           /\ table' = made
           /\ i' = i
           /\ phase' = "output"
        \/ /\ ~Reached(Len(made))
           /\ table' = MadeLast(made, start', end')
           /\ i' = i + 1
           /\ phase' = IF i = Length - 1 THEN "output" ELSE "loop"
     /\ UNCHANGED <<inputs, sorted, sink, read>>

(* An empty table: an aggregation without GROUP BY makes a row all the     *)
(* same.                                                                   *)
Empty ==
  /\ phase = "loop"
  /\ Length = 0
  /\ table' = IF ~Reached(0) /\ ~grouped THEN WithRow(table, NoGroup, 0, 0) ELSE table
  /\ phase' = "output"
  /\ UNCHANGED <<inputs, sorted, i, group, start, end, sink, read>>

(* A step with neither HAVING nor projections returns the table itself.    *)
HandOver ==
  /\ phase = "output"
  /\ bare
  /\ sink' = table
  /\ phase' = "done"
  /\ UNCHANGED <<inputs, sorted, loop, read>>

(* One turn of the loop of _project_and_filter, or its end.                *)
Output ==
  /\ phase = "output"
  /\ ~bare
  /\ \/ /\ read = Len(table) \/ Reached(Len(sink))
        /\ phase' = "done"
        /\ UNCHANGED <<sink, read>>
     \/ /\ read < Len(table) /\ ~Reached(Len(sink))
        /\ read' = read + 1
        /\ sink' = IF table[read + 1].group \in accepts
                   THEN Append(sink, table[read + 1])
                   ELSE sink
        /\ UNCHANGED phase
  /\ UNCHANGED <<inputs, sorted, loop>>

Done == phase = "done" /\ UNCHANGED vars

Next == Sort \/ Turn \/ Empty \/ HandOver \/ Output \/ Done

Spec == Init /\ [][Next]_vars

-----------------------------------------------------------------------------
(* A row made of a group from a range of rows that the table has.          *)
Entry == [group : Group \union {NoGroup}, lo : 0..Length, hi : 0..Length]

TypeOK ==
  /\ phase \in {"sort", "loop", "output", "done"}
  /\ keys \in Seq(Group)
  /\ i \in 0..Length /\ start \in 0..Length /\ end \in 1..(Length + 1)
  /\ group \in Group \union {NoGroup}
  /\ table \in Seq(Entry)
  /\ sink \in Seq(Entry) /\ read \in 0..Len(table)

(* What an aggregation function is handed is exactly the rows of its       *)
(* group: no row is left out, none of another group comes in.              *)
GroupsExact ==
  \A k \in DOMAIN table :
    table[k].group # NoGroup =>
      RowsIn(table[k].lo, table[k].hi) = {r \in Row : keys[r] = table[k].group}

(* No group is returned twice, however its rows were scattered.            *)
OneRowPerGroup ==
  \A k, m \in DOMAIN table : k # m => table[k].group # table[m].group

(* The groups the query asks for, before HAVING and LIMIT.                 *)
Groups ==
  IF Length = 0 /\ ~grouped THEN {NoGroup} ELSE {keys[r] : r \in Row}

Least(n, lim) == IF lim # Infinity /\ lim < n THEN lim ELSE n

(* Without HAVING a query returns as many groups as there are and LIMIT    *)
(* allows; without LIMIT it returns every group HAVING accepts.            *)
AnswerComplete ==
  phase = "done" /\ (limit = Infinity \/ Groups \subseteq accepts) =>
    /\ Len(sink) = Least(Cardinality(Groups \intersect accepts), limit)
    /\ \A k \in DOMAIN sink : sink[k].group \in accepts
=============================================================================
