---------------------------- MODULE PlanExecutor ----------------------------
(***************************************************************************)
(* The scheduler of the Python engine: Plan.dag collects the steps that    *)
(* the root needs, PythonExecutor.execute runs them from a queue, hands    *)
(* each step the tables of its dependencies and drops the tables that no   *)
(* step needs any more.                                                    *)
(*                                                                         *)
(* sqlglot/planner.py, Plan and Step; sqlglot/executor/python.py,          *)
(* PythonExecutor.execute and the context each kind of step returns.       *)
(*                                                                         *)
(* `queue`, `nodes` and `node.dependencies` are Python sets of objects     *)
(* hashed by address: set.pop and the iteration order are nondeterministic.*)
(***************************************************************************)
EXTENDS Naturals, FiniteSets, Functions

CONSTANTS
  Step,      \* every step the planner made, reachable from Root or not
  Root,      \* Plan.root
  Deps,      \* Step.dependencies
  Name,      \* the names steps and tables go by
  NoName,    \* Python's None: the name of a step that was given none
  Node       \* the fields of a step that decide which tables it returns

(***************************************************************************)
(* kind     the class of the step                                          *)
(* name     Step.name, after the planner's renamings                       *)
(* source   the name a Scan or Aggregate scans, a Join's source_name, or   *)
(*          NoName                                                         *)
(* joined   the other names a Join or a SetOperation looks up              *)
(* projects whether the step has projections                               *)
(* filters  whether the step has a condition                               *)
(* operands whether an Aggregate computes operands of its aggregations     *)
(***************************************************************************)
NodeType ==
  [kind : {"Scan", "Aggregate", "Join", "Sort", "SetOperation"},
   name : Name, source : Name, joined : SUBSET Name,
   projects : BOOLEAN, filters : BOOLEAN, operands : BOOLEAN]

Dependents(s) == {t \in Step : s \in Deps[t]}

ASSUME PlanAssumption ==
  /\ IsFiniteSet(Step) /\ Root \in Step
  /\ Deps \in [Step -> SUBSET Step]
  /\ Node \in [Step -> NodeType]
  /\ NoName \in Name

(* The planner adds dependencies only to steps it made before: no cycles,  *)
(* so every set of steps has one whose dependencies are all outside it.    *)
ASSUME AcyclicAssumption ==
  \A S \in SUBSET Step : S # {} => \E s \in S : Deps[s] \cap S = {}

(* Nothing is built on top of the root, and a join that keeps the tables   *)
(* of its inputs apart is an inner step of its select: nobody renames it.  *)
ASSUME RootAssumption ==
  /\ Dependents(Root) = {}
  /\ \A s \in Step : /\ Node[s].kind = "Join"
                     /\ ~Node[s].projects
                     => Node[s].name = Node[s].source

VARIABLES
  phase,     \* where execute() is: building the dag, running, or how it ended
  nodes,     \* Plan.dag: steps still to be looked at
  dag,       \* Plan.dag: the keys of the dictionary
  queue,     \* steps that may run
  finished,  \* steps that ran
  contexts,  \* the keys of the dictionary `contexts`
  tables,    \* tables[s]: the tables of the context step s returned
  seen       \* seen[s]: the tables of the context step s was run with

planVars == <<nodes, dag>>
runVars == <<queue, finished, contexts, tables, seen>>
vars == <<phase, planVars, runVars>>

-----------------------------------------------------------------------------
(* A context maps names to tables; a table is known by the step that made  *)
(* it and the name it made it for.                                         *)
IsContext(c) == DOMAIN c \subseteq Name
NoTables == [n \in {} |-> <<Root, n>>]

(* A fresh table of step s under each of the names N.                      *)
Made(s, N) == [n \in N |-> <<s, n>>]

Names(D) == UNION {DOMAIN tables[d] : d \in D}

(* The orders in which a set can be iterated over.                         *)
Orders(S) == Injection(1..Cardinality(S), S)

(* The dictionary execute() builds from the contexts of the dependencies,  *)
(* taken in the order o: for a name that several have, the last one wins.  *)
Merge(s, o) ==
  [n \in Names(Deps[s]) |->
     LET has == {i \in DOMAIN o : n \in DOMAIN tables[o[i]]}
         last == CHOOSE i \in has : \A j \in has : j <= i
     IN tables[o[last]][n]]

(* The names a step looks up in the context it is run with.                *)
Needs(s) ==
  CASE Node[s].kind = "Join"         -> {Node[s].source} \union Node[s].joined
    [] Node[s].kind = "SetOperation" -> Node[s].joined
    [] OTHER                         -> {}

(* Mutant of HandedOn: the scan passes the rest of its context on as well.  *)
HandedOnWithOthers(n, in) ==
  [m \in {n.name} \union DOMAIN in |-> IF m = n.name THEN in[n.source] ELSE in[m]]

(* Mutant of HandedOn: under the name the table had.                       *)
HandedOnUnderOldName(n, in) == [m \in {n.source} |-> in[n.source]]

(* A Scan of a name in its context that neither projects nor filters hands *)
(* on the very table it found.                                             *)
HandedOn(n, in) == [m \in {n.name} |-> in[n.source]]

(* The tables of the context that step s returns when it is run with the   *)
(* tables `in`.                                                            *)
Output(s, in) ==
  LET n == Node[s]
      bare == ~n.projects /\ ~n.filters
  IN CASE n.kind = "Scan" /\ bare /\ n.source \in DOMAIN in \ {NoName} ->
            HandedOn(n, in)
       [] n.kind = "Join" /\ ~n.projects ->
            Made(s, {n.source} \union n.joined)
       [] n.kind = "Aggregate" /\ bare ->
            [m \in {n.name} \union DOMAIN in
                   \union (IF n.operands THEN {NoName} ELSE {}) |-> <<s, n.name>>]
       [] OTHER -> Made(s, {n.name})

-----------------------------------------------------------------------------
Init ==
  /\ phase = "dag"
  /\ nodes = {Root}
  /\ dag = {}
  /\ queue = {}
  /\ finished = {}
  /\ contexts = {}
  /\ tables = [s \in Step |-> NoTables]
  /\ seen = [s \in Step |-> NoTables]

(* Mutant of Collect: the node is not popped.                              *)
CollectForever(s) ==
  /\ phase = "dag"
  /\ s \in nodes
  /\ nodes' = nodes \union Deps[s]
  /\ dag' = dag \union {s}
  /\ UNCHANGED <<phase, runVars>>

(* One turn of the loop of Plan.dag.                                       *)
Collect(s) ==
  /\ phase = "dag"
  /\ s \in nodes
  /\ nodes' = (nodes \ {s}) \union Deps[s]
  /\ dag' = dag \union {s}
  /\ UNCHANGED <<phase, runVars>>

(* Mutant of Start: the queue starts with every step, not with the leaves. *)
StartWithEveryStep ==
  /\ phase = "dag"
  /\ nodes = {}
  /\ phase' = "run"
  /\ queue' = dag
  /\ UNCHANGED <<planVars, finished, contexts, tables, seen>>

(* queue = set(plan.leaves)                                                *)
Start ==
  /\ phase = "dag"
  /\ nodes = {}
  /\ phase' = "run"
  /\ queue' = {s \in dag : Deps[s] = {}}
  /\ UNCHANGED <<planVars, finished, contexts, tables, seen>>

(* Mutant of Ready: every dependent.                                       *)
ReadyAtOnce(s) == Dependents(s)

(* Mutant of Ready: looked up before the context of s is stored.           *)
ReadyTooEarly(s) == {t \in Dependents(s) : Deps[t] \subseteq contexts}

(* The dependents of s that may run once s has.                            *)
Ready(s) == {t \in Dependents(s) : Deps[t] \subseteq contexts \union {s}}

(* Mutant of Spent: looks the dependents up in `contexts`.                 *)
SpentByContexts(s) == {d \in Deps[s] : Dependents(d) \subseteq contexts \union {s}}

(* The dependencies of s that nobody needs once s has run.                 *)
Spent(s) == {d \in Deps[s] : Dependents(d) \subseteq finished \union {s}}

(* One turn of the loop of execute() for a step that succeeds.  The new    *)
(* members of the queue are chosen before any context is dropped.          *)
Run(s, o) ==
  LET in == Merge(s, o)
  IN /\ phase = "run"
     /\ s \in queue
     /\ Needs(s) \subseteq DOMAIN in
     /\ seen' = [seen EXCEPT ![s] = in]
     /\ tables' = [tables EXCEPT ![s] = Output(s, in)]
     /\ finished' = finished \union {s}
     /\ queue' = (queue \ {s}) \union Ready(s)
     /\ contexts' = (contexts \union {s}) \ Spent(s)
     /\ UNCHANGED <<phase, planVars>>

(* A step fails, on a value or on a name it does not find: ExecuteError.   *)
Raise(s) ==
  /\ phase = "run"
  /\ s \in queue
  /\ phase' = "raised"
  /\ queue' = queue \ {s}
  /\ UNCHANGED <<planVars, finished, contexts, tables, seen>>

(* contexts[root].tables[root.name], a KeyError if either is missing.      *)
Return ==
  /\ phase = "run"
  /\ queue = {}
  /\ phase' = IF Root \in contexts /\ Node[Root].name \in DOMAIN tables[Root]
              THEN "returned"
              ELSE "lost"
  /\ UNCHANGED <<planVars, runVars>>

Ended == phase \in {"returned", "raised", "lost"} /\ UNCHANGED vars

Next ==
  \/ \E s \in Step : Collect(s)
  \/ Start
  \/ \E s \in Step : \E o \in Orders(Deps[s]) : Run(s, o)
  \/ \E s \in Step : Raise(s)
  \/ Return
  \/ Ended

Spec == Init /\ [][Next]_vars

(* The loops of a single thread run on until they end.                     *)
FairSpec == Spec /\ WF_vars(Next)

-----------------------------------------------------------------------------
TypeOK ==
  /\ phase \in {"dag", "run", "returned", "raised", "lost"}
  /\ nodes \subseteq Step
  /\ dag \subseteq Step
  /\ queue \subseteq Step
  /\ finished \subseteq Step
  /\ contexts \subseteq Step
  /\ DOMAIN tables = Step /\ \A s \in Step : IsContext(tables[s])
  /\ DOMAIN seen = Step /\ \A s \in Step : IsContext(seen[s])

(* A step waiting in the queue has not run, and the tables of everything   *)
(* it reads are still in `contexts`: `contexts[dep]` never fails and no    *)
(* step runs twice, whatever the order in which the queue is emptied.      *)
QueuedCanRun ==
  \A s \in queue : s \notin finished /\ Deps[s] \subseteq contexts

(* A step that has run and that others were built on keeps its tables      *)
(* exactly until the last of them has run.                                 *)
HeldExactlyWhileNeeded ==
  \A s \in finished :
    Dependents(s) # {} =>
      (s \in contexts <=> \E t \in Dependents(s) : t \notin finished)

(* The queue never runs dry before the answer is there: execute() either   *)
(* raises ExecuteError or finds the root's table.                          *)
ResultNeverLost == phase # "lost"

(* The names a step reads.  A scan of a name that it does not find, and an *)
(* aggregate's scan of its own result, read a base table of that name.     *)
Reads(s) ==
  Needs(s) \union (IF Node[s].kind = "Scan" /\ Deps[s] # {} THEN {Node[s].source} ELSE {})

(* Every step finds the tables it reads among those its dependencies hand  *)
(* on, under the names the planner gave them before it renamed steps.      *)
NamesFound == \A s \in queue : Deps[s] \subseteq contexts => Reads(s) \subseteq Names(Deps[s])

(* Each name a join or a set operation looks up gives it the table of the  *)
(* dependency that goes by that name, whatever the order in which the      *)
(* contexts of its dependencies were merged.                               *)
InputsIntact ==
  \A s \in finished :
    \A d \in Deps[s] :
      Node[d].name \in Needs(s) => seen[s][Node[d].name] = tables[d][Node[d].name]

(* A join reads each of its inputs through a table, with a row reader, of  *)
(* its own.                                                                *)
JoinInputsDistinct ==
  \A s \in finished :
    Node[s].kind = "Join" =>
      \A m, n \in Needs(s) : m # n => seen[s][m] # seen[s][n]

-----------------------------------------------------------------------------
(* What the three properties above need of a plan.                         *)

Bare(s) == ~Node[s].projects /\ ~Node[s].filters

(* The names of the tables step s returns when it is run with tables of    *)
(* the names `in`.                                                         *)
NamesReturned(s, in) ==
  CASE Node[s].kind = "Join" /\ ~Node[s].projects -> {Node[s].source} \union Node[s].joined
    [] Node[s].kind = "Aggregate" /\ Bare(s) ->
         {Node[s].name} \union in \union (IF Node[s].operands THEN {NoName} ELSE {})
    [] OTHER -> {Node[s].name}

(* Every name a step reads is that of one of its dependencies, and a name  *)
(* it looks up is that of no other table they return; returned[s] are the  *)
(* names the context of s may have.                                        *)
NamesApart(returned) ==
  /\ returned \in [Step -> SUBSET Name]
  /\ \A s \in Step :
       /\ NamesReturned(s, UNION {returned[d] : d \in Deps[s]}) \subseteq returned[s]
       /\ Reads(s) \subseteq {Node[d].name : d \in Deps[s]}
       /\ \A d, e \in Deps[s] : d # e /\ Node[d].name \in Needs(s) => Node[d].name \notin returned[e]

(* The scans that hand on a table, and the step that made the tables which *)
(* a step returns.                                                         *)
HandsOn(s) == Node[s].kind = "Scan" /\ Bare(s) /\ Node[s].source # NoName /\ Deps[s] # {}

MadeBy(s) == IF HandsOn(s) THEN CHOOSE d \in Deps[s] : TRUE ELSE s

(* A scan hands on a table that its one dependency has made, and no two    *)
(* inputs of a join are tables of one step: a common table expression is   *)
(* not joined to itself.                                                   *)
TablesApart ==
  /\ \A s \in Step : HandsOn(s) => \E d \in Step : Deps[s] = {d} /\ ~HandsOn(d)
  /\ \A s \in Step :
       Node[s].kind = "Join" => \A d, e \in Deps[s] : MadeBy(d) = MadeBy(e) => d = e

-----------------------------------------------------------------------------
(* execute() ends.                                                         *)
Terminates == <>(phase \in {"returned", "raised", "lost"})

Evaluation == INSTANCE PlanEvaluation WITH
  evaluated <- finished,
  outcome <- CASE phase \in {"dag", "run"} -> "pending"
               [] phase = "returned" -> "returned"
               [] OTHER -> "raised"

(* The scheduler keeps the promises of PlanEvaluation.                     *)
ImplementsEvaluation == Evaluation!Spec
=============================================================================
