------------------------- MODULE PlanExecutorProofs -------------------------
(***************************************************************************)
(* For every acyclic plan, whatever the order in which the sets of steps   *)
(* are emptied: the scheduler runs each step once, with the tables of its  *)
(* dependencies at hand, drops each table exactly when nobody needs it,    *)
(* never stops without the answer, and implements PlanEvaluation.  Where   *)
(* the names of a plan are apart, each step also finds the tables it       *)
(* reads, and each of them is the one the planner meant.                   *)
(***************************************************************************)
EXTENDS PlanExecutor, FiniteSetTheorems, TLAPS

(* The dag is closed under dependencies up to the steps still to visit.    *)
DagInv ==
  /\ Root \in dag \union nodes
  /\ \A s \in dag : Deps[s] \subseteq dag \union nodes
  /\ phase = "dag" => queue = {} /\ finished = {} /\ contexts = {}
  /\ phase # "dag" => nodes = {}

(* What has run was built on steps that have run.                          *)
FinishedInv ==
  /\ contexts \subseteq finished
  /\ \A s \in finished : Deps[s] \subseteq finished
  /\ \A s \in finished : Node[s].name \in DOMAIN tables[s]

(* A step of the dag that could run has not been forgotten.                *)
NoStepForgotten ==
  phase = "run" =>
    \A s \in dag \ finished : Deps[s] \subseteq contexts => s \in queue

IInv ==
  /\ TypeOK
  /\ DagInv
  /\ FinishedInv
  /\ QueuedCanRun
  /\ HeldExactlyWhileNeeded
  /\ \A s \in finished \ contexts : Dependents(s) # {}
  /\ NoStepForgotten
  /\ ResultNeverLost

-----------------------------------------------------------------------------
(* No step depends on itself.                                              *)
LEMMA NoSelfDependency == \A s \in Step : s \notin Deps[s]
<1>1. SUFFICES ASSUME NEW s \in Step PROVE s \notin Deps[s]
  OBVIOUS
<1>2. {s} \in SUBSET Step /\ {s} # {}
  OBVIOUS
<1>3. PICK t \in {s} : Deps[t] \cap {s} = {}
  BY <1>2, AcyclicAssumption
<1>4. QED
  BY <1>3

(* A context is looked up, and answers, by names only.                     *)
LEMMA MergeIsContext ==
  ASSUME TypeOK, NEW s \in Step, NEW o
  PROVE  IsContext(Merge(s, o))
<1>1. \A d \in Deps[s] : d \in Step
  BY PlanAssumption
<1>2. Names(Deps[s]) \subseteq Name
  BY <1>1 DEF Names, TypeOK, IsContext
<1>3. QED
  BY <1>2 DEF Merge, IsContext

(* Every step returns a context that has its own name, and only names.     *)
LEMMA OutputIsContext ==
  ASSUME NEW s \in Step, NEW in, IsContext(in)
  PROVE  IsContext(Output(s, in)) /\ Node[s].name \in DOMAIN Output(s, in)
<1>1. Node[s] \in NodeType
  BY PlanAssumption
<1>2. Node[s].name \in Name /\ Node[s].source \in Name /\ Node[s].joined \subseteq Name
  BY <1>1 DEF NodeType
<1>3. Node[s].kind = "Join" /\ ~Node[s].projects => Node[s].name = Node[s].source
  BY RootAssumption
<1>4. NoName \in Name
  BY PlanAssumption
<1>5. QED
  BY <1>2, <1>3, <1>4 DEF Output, HandedOn, IsContext, Made

-----------------------------------------------------------------------------
(* If the queue is empty, the root has run and its tables are kept: take   *)
(* the steps of the dag that have not run; one of them depends on none of  *)
(* the others, so its dependencies have all run, their tables are held for *)
(* it, and it would be in the queue.                                       *)
LEMMA EmptyQueueMeansAnswer ==
  ASSUME IInv, phase = "run", queue = {}
  PROVE  Root \in finished /\ Root \in contexts
<1>1. Root \in dag /\ \A s \in dag : Deps[s] \subseteq dag
  BY DEF IInv, DagInv
<1>2. dag \ finished = {}
  <2>1. SUFFICES ASSUME dag \ finished # {} PROVE FALSE
    OBVIOUS
  <2>2. dag \ finished \in SUBSET Step
    BY DEF IInv, TypeOK
  <2>3. PICK s \in dag \ finished : Deps[s] \cap (dag \ finished) = {}
    BY <2>1, <2>2, AcyclicAssumption
  <2>4. Deps[s] \subseteq finished
    BY <1>1, <2>3
  <2>5. \A d \in Deps[s] : d \in Step /\ s \in Dependents(d)
    BY <2>2, <2>3, PlanAssumption DEF Dependents
  <2>6. Deps[s] \subseteq contexts
    BY <2>3, <2>4, <2>5 DEF IInv, HeldExactlyWhileNeeded
  <2>7. s \in queue
    BY <2>3, <2>6 DEF IInv, NoStepForgotten
  <2>8. QED
    BY <2>7
<1>3. Root \in finished
  BY <1>1, <1>2
<1>4. Root \in contexts
  BY <1>3, RootAssumption DEF IInv
<1>5. QED
  BY <1>3, <1>4

-----------------------------------------------------------------------------
LEMMA InitIInv == Init => IInv
<1> SUFFICES ASSUME Init PROVE IInv
  OBVIOUS
<1>1. TypeOK
  BY PlanAssumption DEF Init, TypeOK, IsContext, NoTables
<1>2. DagInv
  BY DEF Init, DagInv
<1>3. QED
  BY <1>1, <1>2 DEF Init, IInv, FinishedInv, QueuedCanRun, HeldExactlyWhileNeeded,
                    NoStepForgotten, ResultNeverLost

(* The step with the work in it: one step of the plan runs.                *)
LEMMA RunIInv ==
  ASSUME IInv, NEW s \in Step, NEW o \in Orders(Deps[s]), Run(s, o)
  PROVE  IInv'
<1> DEFINE in == Merge(s, o)
           ready == {t \in Dependents(s) : Deps[t] \subseteq contexts \union {s}}
           spent == {d \in Deps[s] : Dependents(d) \subseteq finished \union {s}}
<1>1. /\ phase = "run" /\ s \in queue
      /\ seen' = [seen EXCEPT ![s] = in]
      /\ tables' = [tables EXCEPT ![s] = Output(s, in)]
      /\ finished' = finished \union {s}
      /\ queue' = (queue \ {s}) \union ready
      /\ contexts' = (contexts \union {s}) \ spent
      /\ UNCHANGED <<phase, nodes, dag>>
  BY DEF Run, Ready, Spent, planVars
<1>2. TypeOK /\ DagInv /\ FinishedInv /\ QueuedCanRun /\ HeldExactlyWhileNeeded
      /\ NoStepForgotten /\ \A t \in finished \ contexts : Dependents(t) # {}
  BY DEF IInv
<1>3. s \notin finished /\ Deps[s] \subseteq contexts /\ s \notin Deps[s]
  BY <1>1, <1>2, NoSelfDependency DEF QueuedCanRun
<1>4. /\ \A t \in Step : Deps[t] \subseteq Step
      /\ \A t, d \in Step : t \in Dependents(d) <=> d \in Deps[t]
      /\ \A d \in Step : Dependents(d) \subseteq Step
  BY PlanAssumption DEF Dependents
<1>5. contexts \subseteq finished /\ finished \subseteq Step /\ queue \subseteq Step
  BY <1>2 DEF FinishedInv, TypeOK
<1>6. ready \subseteq Step /\ spent \subseteq Step
  BY <1>4
<1>7. s \notin spent
  BY <1>3
<1>8. IsContext(in) /\ IsContext(Output(s, in)) /\ Node[s].name \in DOMAIN Output(s, in)
  BY <1>2, MergeIsContext, OutputIsContext
<1>9. TypeOK'
  <2>1. DOMAIN tables' = Step /\ DOMAIN seen' = Step
    BY <1>1, <1>2 DEF TypeOK
  <2>2. \A t \in Step : IsContext(tables'[t]) /\ IsContext(seen'[t])
    BY <1>1, <1>2, <1>8 DEF TypeOK
  <2>3. QED
    BY <1>1, <1>2, <1>6, <2>1, <2>2 DEF TypeOK, IsContext
<1>10. DagInv'
  BY <1>1, <1>2 DEF DagInv
<1>11. FinishedInv'
  <2>1. \A t \in finished' : Deps[t] \subseteq finished'
    BY <1>1, <1>2, <1>3, <1>5 DEF FinishedInv
  <2>2. \A t \in finished' : Node[t].name \in DOMAIN tables'[t]
    BY <1>1, <1>2, <1>5, <1>8 DEF FinishedInv, TypeOK
  <2>3. QED
    BY <1>1, <1>5, <2>1, <2>2 DEF FinishedInv
<1>12. QueuedCanRun'
  <2>1. SUFFICES ASSUME NEW t \in queue'
                 PROVE  t \notin finished' /\ Deps[t] \subseteq contexts'
    BY DEF QueuedCanRun
  <2>2. t \in Step /\ Deps[t] \subseteq contexts \union {s}
    BY <1>1, <1>2, <1>5, <1>6 DEF QueuedCanRun
  <2>3. t \notin finished'
    <3>1. CASE t \in queue \ {s}
      BY <1>1, <1>2, <3>1 DEF QueuedCanRun
    <3>2. CASE t \in ready
      <4>1. s \in Deps[t] /\ t # s
        BY <1>3, <1>4, <3>2
      <4>2. t \notin finished
        BY <1>2, <1>3, <4>1 DEF FinishedInv
      <4>3. QED
        BY <1>1, <4>1, <4>2
    <3>3. QED
      BY <1>1, <2>1, <3>1, <3>2
  <2>4. ASSUME NEW d \in Deps[t] PROVE d \notin spent
    <3>1. d \in Step /\ t \in Dependents(d)
      BY <1>4, <2>2, <2>4
    <3>2. QED
      BY <1>1, <2>3, <3>1
  <2>5. QED
    BY <1>1, <2>2, <2>3, <2>4
<1>13. HeldExactlyWhileNeeded'
  <2>1. SUFFICES ASSUME NEW t \in finished', Dependents(t) # {}
                 PROVE  t \in contexts' <=> \E e \in Dependents(t) : e \notin finished'
    BY DEF HeldExactlyWhileNeeded, Dependents
  <2>2. CASE t = s
    <3>1. PICK e \in Dependents(s) : TRUE
      BY <2>1, <2>2
    <3>2. \A d \in Step : d \in finished => Deps[d] \subseteq finished
      BY <1>2 DEF FinishedInv
    <3>3. e \notin finished'
      BY <1>1, <1>3, <1>4, <3>1, <3>2
    <3>4. QED
      BY <1>1, <1>7, <2>2, <3>1, <3>3
  <2>3. CASE t # s /\ t \in Deps[s]
    <3>1. t \in contexts
      BY <1>3, <2>3
    <3>2. t \in contexts' <=> ~(Dependents(t) \subseteq finished')
      BY <1>1, <2>3, <3>1
    <3>3. QED
      BY <3>2
  <2>4. CASE t # s /\ t \notin Deps[s]
    <3>1. t \in finished /\ t \in Step /\ s \notin Dependents(t)
      BY <1>1, <1>4, <1>5, <2>1, <2>4
    <3>2. t \in contexts' <=> t \in contexts
      BY <1>1, <2>4
    <3>3. (\E e \in Dependents(t) : e \notin finished') <=> \E e \in Dependents(t) : e \notin finished
      BY <1>1, <3>1
    <3>4. QED
      BY <1>2, <2>1, <3>1, <3>2, <3>3 DEF HeldExactlyWhileNeeded
  <2>5. QED
    BY <2>2, <2>3, <2>4
<1>14. \A t \in finished' \ contexts' : Dependents(t) # {}
  BY <1>1, <1>2, <1>3, <1>4, <1>5, <1>7
<1>15. NoStepForgotten'
  <2>1. SUFFICES ASSUME NEW t \in dag' \ finished', Deps[t] \subseteq contexts'
                 PROVE  t \in queue'
    BY DEF NoStepForgotten
  <2>2. t \in dag \ finished /\ t # s /\ t \in Step /\ Deps[t] \subseteq contexts \union {s}
    BY <1>1, <1>2, <2>1 DEF TypeOK
  <2>3. CASE s \in Deps[t]
    BY <1>1, <1>4, <2>2, <2>3
  <2>4. CASE s \notin Deps[t]
    BY <1>1, <1>2, <2>2, <2>4 DEF NoStepForgotten
  <2>5. QED
    BY <2>3, <2>4
<1>16. QED
  BY <1>1, <1>9, <1>10, <1>11, <1>12, <1>13, <1>14, <1>15 DEF IInv, ResultNeverLost, Dependents

LEMMA NextIInv == IInv /\ [Next]_vars => IInv'
<1> SUFFICES ASSUME IInv, [Next]_vars PROVE IInv'
  OBVIOUS
<1> USE DEF IInv, planVars, runVars, vars
<1>1. ASSUME NEW s \in Step, Collect(s) PROVE IInv'
  <2>1. Deps[s] \subseteq Step
    BY PlanAssumption
  <2>2. TypeOK' /\ DagInv'
    BY <1>1, <2>1 DEF Collect, TypeOK, DagInv, IsContext
  <2>3. QED
    BY <1>1, <2>2 DEF Collect, FinishedInv, QueuedCanRun, HeldExactlyWhileNeeded,
                      NoStepForgotten, ResultNeverLost, Dependents
<1>2. CASE Start
  <2>1. \A s \in dag : Deps[s] = {} <=> Deps[s] \subseteq {}
    OBVIOUS
  <2>2. TypeOK' /\ DagInv'
    BY <1>2 DEF Start, TypeOK, DagInv, IsContext
  <2>3. QED
    BY <1>2, <2>1, <2>2 DEF Start, DagInv, FinishedInv, QueuedCanRun,
         HeldExactlyWhileNeeded, NoStepForgotten, ResultNeverLost, Dependents
<1>3. ASSUME NEW s \in Step, NEW o \in Orders(Deps[s]), Run(s, o) PROVE IInv'
  BY <1>3, RunIInv
<1>4. ASSUME NEW s \in Step, Raise(s) PROVE IInv'
  <2>1. TypeOK' /\ DagInv'
    BY <1>4 DEF Raise, TypeOK, DagInv, IsContext
  <2>2. QED
    BY <1>4, <2>1 DEF Raise, FinishedInv, QueuedCanRun, HeldExactlyWhileNeeded,
                      NoStepForgotten, ResultNeverLost, Dependents
<1>5. CASE Return
  <2>1. Root \in finished /\ Root \in contexts
    BY <1>5, EmptyQueueMeansAnswer DEF Return
  <2>2. phase' = "returned"
    BY <1>5, <2>1 DEF Return, FinishedInv
  <2>3. TypeOK' /\ DagInv'
    BY <1>5, <2>2 DEF Return, TypeOK, DagInv, IsContext
  <2>4. QED
    BY <1>5, <2>2, <2>3 DEF Return, FinishedInv, QueuedCanRun, HeldExactlyWhileNeeded,
                            NoStepForgotten, ResultNeverLost, Dependents
<1>6. CASE UNCHANGED vars
  BY <1>6 DEF TypeOK, DagInv, IsContext, FinishedInv, QueuedCanRun, HeldExactlyWhileNeeded,
              NoStepForgotten, ResultNeverLost, Dependents
<1>7. QED
  BY <1>1, <1>2, <1>3, <1>4, <1>5, <1>6 DEF Next, Ended

(* The inductive invariant holds throughout every execution.               *)
THEOREM Invariance == Spec => []IInv
<1>1. QED
  BY InitIInv, NextIInv, PTL DEF Spec

(* The variables keep their types.                                         *)
THEOREM TypeCorrect == Spec => []TypeOK
<1>1. IInv => TypeOK
  BY DEF IInv
<1>2. QED
  BY <1>1, Invariance, PTL

(* execute() never looks up the tables of a dependency that are not there, *)
(* and never runs a step twice.                                            *)
THEOREM QueuedStepsCanRun == Spec => []QueuedCanRun
<1>1. IInv => QueuedCanRun
  BY DEF IInv
<1>2. QED
  BY <1>1, Invariance, PTL

(* execute() holds the tables of a step exactly while somebody needs them. *)
THEOREM TablesHeldWhileNeeded == Spec => []HeldExactlyWhileNeeded
<1>1. IInv => HeldExactlyWhileNeeded
  BY DEF IInv
<1>2. QED
  BY <1>1, Invariance, PTL

(* When the queue is empty the answer is there.                            *)
THEOREM AnswerFound == Spec => []ResultNeverLost
<1>1. IInv => ResultNeverLost
  BY DEF IInv
<1>2. QED
  BY <1>1, Invariance, PTL

-----------------------------------------------------------------------------
LEMMA InitImplements == Init => Evaluation!Init
  BY DEF Init, Evaluation!Init

LEMMA StepImplements ==
  IInv /\ IInv' /\ [Next]_vars => [Evaluation!Next]_(Evaluation!evalVars)
<1> SUFFICES ASSUME IInv, IInv', [Next]_vars
             PROVE  [Evaluation!Next]_(Evaluation!evalVars)
  OBVIOUS
<1> USE DEF Evaluation!evalVars, planVars, runVars, vars
<1>1. ASSUME NEW s \in Step, Collect(s) PROVE UNCHANGED Evaluation!evalVars
  BY <1>1 DEF Collect
<1>2. CASE Start
  BY <1>2 DEF Start
<1>3. ASSUME NEW s \in Step, NEW o \in Orders(Deps[s]), Run(s, o)
      PROVE  Evaluation!Evaluate(s)
  <2>1. s \notin finished /\ Deps[s] \subseteq finished
    BY <1>3 DEF Run, IInv, QueuedCanRun, FinishedInv
  <2>2. QED
    BY <1>3, <2>1 DEF Run, Evaluation!Evaluate
<1>4. ASSUME NEW s \in Step, Raise(s) PROVE Evaluation!Raise
  BY <1>4 DEF Raise, Evaluation!Raise
<1>5. ASSUME Return PROVE Evaluation!Return
  <2>1. Root \in finished
    BY <1>5, EmptyQueueMeansAnswer DEF Return
  <2>2. phase = "run" /\ phase' = "returned" /\ finished' = finished
    BY <1>5 DEF Return, IInv, ResultNeverLost
  <2>3. QED
    BY <2>1, <2>2 DEF Evaluation!Return
<1>6. CASE UNCHANGED vars
  BY <1>6
<1>7. QED
  BY <1>1, <1>2, <1>3, <1>4, <1>5, <1>6 DEF Next, Ended, Evaluation!Next

(* The scheduler implements PlanEvaluation.                                *)
THEOREM Refinement == Spec => ImplementsEvaluation
<1>1. QED
  BY InitImplements, StepImplements, Invariance, PTL
  DEF Spec, ImplementsEvaluation, Evaluation!Spec

-----------------------------------------------------------------------------
(* The tables that steps hand on, in a plan whose names are apart.         *)
NamesInv(R) == \A s \in finished : DOMAIN tables[s] \subseteq R[s]

(* A step returns the names foretold of it.                                *)
LEMMA OutputNames ==
  ASSUME NEW s \in Step, NEW in
  PROVE  DOMAIN Output(s, in) = NamesReturned(s, DOMAIN in)
<1>1. Node[s].kind \in {"Scan", "Aggregate", "Join", "Sort", "SetOperation"}
  BY PlanAssumption DEF NodeType
<1>2. CASE Node[s].kind = "Scan"
  BY <1>2 DEF Output, NamesReturned, HandedOn, Made, Bare
<1>3. CASE Node[s].kind = "Aggregate"
  BY <1>3 DEF Output, NamesReturned, Made, Bare
<1>4. CASE Node[s].kind = "Join"
  BY <1>4 DEF Output, NamesReturned, Made, Bare
<1>5. CASE Node[s].kind \in {"Sort", "SetOperation"}
  BY <1>5 DEF Output, NamesReturned, Made, Bare
<1>6. QED
  BY <1>1, <1>2, <1>3, <1>4, <1>5

(* More names in, more names out.                                          *)
LEMMA NamesReturnedGrow ==
  ASSUME NEW s \in Step, NEW A, NEW B, A \subseteq B
  PROVE  NamesReturned(s, A) \subseteq NamesReturned(s, B)
<1>1. Node[s].kind \in {"Scan", "Aggregate", "Join", "Sort", "SetOperation"}
  BY PlanAssumption DEF NodeType
<1>2. CASE Node[s].kind = "Aggregate" /\ Bare(s)
  BY <1>2 DEF NamesReturned
<1>3. CASE ~(Node[s].kind = "Aggregate" /\ Bare(s))
  BY <1>3 DEF NamesReturned
<1>4. QED
  BY <1>2, <1>3

(* The order in which the contexts are merged goes through all of them.    *)
LEMMA OrdersReachAll ==
  ASSUME NEW s \in Step, NEW o \in Orders(Deps[s])
  PROVE  /\ DOMAIN o = 1..Cardinality(Deps[s])
         /\ \A i, j \in DOMAIN o : o[i] = o[j] => i = j
         /\ \A i \in DOMAIN o : o[i] \in Deps[s]
         /\ \A d \in Deps[s] : \E i \in DOMAIN o : o[i] = d
<1> DEFINE k == Cardinality(Deps[s])
<1>1. IsFiniteSet(Deps[s])
  BY FS_Subset, PlanAssumption
<1>2. k \in Nat
  BY <1>1, FS_CardinalityType
<1>3. Cardinality(1..k) = k
  <2>1. Cardinality(1..k) = IF 1 > k THEN 0 ELSE k - 1 + 1
    BY <1>2, FS_Interval
  <2>2. QED
    BY <1>2, <2>1
<1>4. o \in Injection(1..k, Deps[s])
  BY DEF Orders
<1>5. o \in Surjection(1..k, Deps[s])
  BY <1>1, <1>3, <1>4, FS_Injection
<1>6. o \in [1..k -> Deps[s]] /\ IsInjective(o)
  BY <1>4 DEF Injection
<1>7. \A d \in Deps[s] : \E i \in 1..k : o[i] = d
  BY <1>5 DEF Surjection
<1>8. QED
  BY <1>6, <1>7 DEF IsInjective

(* A name that one dependency alone has is looked up there.                *)
LEMMA MergeFinds ==
  ASSUME NEW s \in Step, NEW o \in Orders(Deps[s]), NEW d \in Deps[s],
         NEW n \in DOMAIN tables[d],
         \A e \in Deps[s] : n \in DOMAIN tables[e] => e = d
  PROVE  n \in DOMAIN Merge(s, o) /\ Merge(s, o)[n] = tables[d][n]
<1> DEFINE has == {i \in DOMAIN o : n \in DOMAIN tables[o[i]]}
           last == CHOOSE i \in has : \A j \in has : j <= i
<1>1. PICK i \in DOMAIN o : o[i] = d
  BY OrdersReachAll
<1>2. has = {i}
  <2>1. ASSUME NEW j \in has PROVE j = i
    <3>1. o[j] \in Deps[s] /\ n \in DOMAIN tables[o[j]]
      BY OrdersReachAll
    <3>2. o[j] = o[i]
      BY <1>1, <3>1
    <3>3. QED
      BY <3>2, OrdersReachAll
  <2>2. i \in has
    BY <1>1
  <2>3. QED
    BY <2>1, <2>2
<1>3. i \in Nat
  <2>1. DOMAIN o = 1..Cardinality(Deps[s])
    BY OrdersReachAll
  <2>2. IsFiniteSet(Deps[s])
    BY FS_Subset, PlanAssumption
  <2>3. Cardinality(Deps[s]) \in Nat
    BY <2>2, FS_CardinalityType
  <2>4. QED
    BY <1>1, <2>1, <2>3
<1>4. \A j \in has : j <= i
  BY <1>2, <1>3
<1>5. last \in has
  BY <1>2, <1>4
<1>6. n \in Names(Deps[s])
  BY DEF Names
<1>7. Merge(s, o)[n] = tables[o[last]][n]
  BY <1>6 DEF Merge
<1>8. QED
  BY <1>1, <1>2, <1>5, <1>6, <1>7 DEF Merge

(* What has run keeps its tables, and those it was run with.               *)
LEMMA RunKeepsTables ==
  ASSUME IInv, NEW s \in Step, NEW o \in Orders(Deps[s]), Run(s, o)
  PROVE  /\ s \in Step \ finished /\ finished' = finished \union {s}
         /\ Deps[s] \subseteq finished
         /\ tables'[s] = Output(s, Merge(s, o)) /\ seen'[s] = Merge(s, o)
         /\ \A t \in finished : tables'[t] = tables[t] /\ seen'[t] = seen[t]
<1>1. s \in queue /\ finished' = finished \union {s}
      /\ seen' = [seen EXCEPT ![s] = Merge(s, o)]
      /\ tables' = [tables EXCEPT ![s] = Output(s, Merge(s, o))]
  BY DEF Run
<1>2. s \notin finished /\ Deps[s] \subseteq finished
  BY <1>1 DEF IInv, QueuedCanRun, FinishedInv
<1>3. DOMAIN tables = Step /\ DOMAIN seen = Step /\ finished \subseteq Step
  BY DEF IInv, TypeOK
<1>4. QED
  BY <1>1, <1>2, <1>3

LEMMA NextNamesInv ==
  ASSUME NEW R, NamesApart(R), IInv, NamesInv(R), [Next]_vars
  PROVE  NamesInv(R)'
<1> USE DEF planVars, runVars, vars
<1>1. ASSUME NEW s \in Step, NEW o \in Orders(Deps[s]), Run(s, o) PROVE NamesInv(R)'
  <2>1. Deps[s] \subseteq finished /\ finished' = finished \union {s}
        /\ tables'[s] = Output(s, Merge(s, o))
        /\ \A t \in finished : tables'[t] = tables[t]
    BY <1>1, RunKeepsTables
  <2> DEFINE in == DOMAIN Merge(s, o)
             all == UNION {R[d] : d \in Deps[s]}
  <2>2. in \subseteq all
    BY <2>1 DEF Merge, Names, NamesInv
  <2>3. NamesReturned(s, all) \subseteq R[s]
    BY DEF NamesApart
  <2>4. DOMAIN tables'[s] = NamesReturned(s, in)
    BY <2>1, OutputNames
  <2>5. NamesReturned(s, in) \subseteq NamesReturned(s, all)
    <3> HIDE DEF in, all
    <3>1. QED
      BY <2>2, NamesReturnedGrow
  <2>6. QED
    BY <2>1, <2>3, <2>4, <2>5 DEF NamesInv
<1>2. ASSUME UNCHANGED <<finished, tables>> PROVE NamesInv(R)'
  BY <1>2 DEF NamesInv
<1>3. QED
  BY <1>1, <1>2 DEF Next, Collect, Start, Raise, Return, Ended

(* Every step finds the tables it reads among those of its dependencies,   *)
(* in every plan where the names it reads are names of dependencies.       *)
THEOREM EveryNameFound ==
  ASSUME NEW R, NamesApart(R)
  PROVE  Spec => []NamesFound
<1>1. IInv => NamesFound
  <2>1. SUFFICES ASSUME IInv, NEW s \in queue, Deps[s] \subseteq contexts
                 PROVE  Reads(s) \subseteq Names(Deps[s])
    BY DEF NamesFound
  <2>2. s \in Step
    BY <2>1 DEF IInv, TypeOK
  <2>3. Reads(s) \subseteq {Node[d].name : d \in Deps[s]}
    BY <2>2 DEF NamesApart
  <2>4. \A d \in Deps[s] : Node[d].name \in DOMAIN tables[d]
    BY <2>1 DEF IInv, FinishedInv
  <2>5. QED
    BY <2>3, <2>4 DEF Names
<1>2. QED
  BY <1>1, Invariance, PTL

-----------------------------------------------------------------------------
LEMMA NextInputsIntact ==
  ASSUME NEW R, NamesApart(R), IInv, NamesInv(R), InputsIntact, [Next]_vars
  PROVE  InputsIntact'
<1> USE DEF planVars, runVars, vars
<1>1. ASSUME NEW s \in Step, NEW o \in Orders(Deps[s]), Run(s, o) PROVE InputsIntact'
  <2>1. /\ s \notin finished /\ finished' = finished \union {s} /\ Deps[s] \subseteq finished
        /\ seen'[s] = Merge(s, o)
        /\ \A t \in finished : tables'[t] = tables[t] /\ seen'[t] = seen[t]
    BY <1>1, RunKeepsTables
  <2>2. SUFFICES ASSUME NEW t \in finished', NEW d \in Deps[t], Node[d].name \in Needs(t)
                 PROVE  seen'[t][Node[d].name] = tables'[d][Node[d].name]
    BY DEF InputsIntact, Needs
  <2>3. CASE t \in finished
    <3>1. d \in finished
      BY <2>3 DEF IInv, FinishedInv
    <3>2. seen[t][Node[d].name] = tables[d][Node[d].name]
      BY <2>2, <2>3 DEF InputsIntact
    <3>3. QED
      BY <2>1, <2>3, <3>1, <3>2
  <2>4. CASE t = s
    <3> DEFINE n == Node[d].name
    <3>1. d \in Deps[s] /\ d \in finished
      BY <2>1, <2>4
    <3>2. n \in DOMAIN tables[d]
      BY <3>1 DEF IInv, FinishedInv
    <3>3. ASSUME NEW e \in Deps[s], n \in DOMAIN tables[e] PROVE e = d
      <4>1. n \in R[e]
        BY <2>1, <3>3 DEF NamesInv
      <4>2. d # e /\ n \in Needs(s) => n \notin R[e]
        BY <3>1 DEF NamesApart
      <4>3. QED
        BY <2>2, <2>4, <4>1, <4>2
    <3>4. Merge(s, o)[n] = tables[d][n]
      <4> HIDE DEF n
      <4>1. QED
        BY <3>1, <3>2, <3>3, MergeFinds
    <3>5. QED
      BY <2>1, <2>4, <3>1, <3>4
  <2>5. QED
    BY <2>1, <2>3, <2>4
<1>2. ASSUME UNCHANGED <<finished, tables, seen>> PROVE InputsIntact'
  BY <1>2 DEF InputsIntact, Needs
<1>3. QED
  BY <1>1, <1>2 DEF Next, Collect, Start, Raise, Return, Ended

LEMMA InitTables ==
  ASSUME NEW R, Init
  PROVE  NamesInv(R) /\ InputsIntact
BY DEF Init, NamesInv, InputsIntact

LEMMA InputsStayInv ==
  ASSUME NEW R, NamesApart(R)
  PROVE  Spec => [](NamesInv(R) /\ InputsIntact)
<1>1. Init => NamesInv(R) /\ InputsIntact
  BY InitTables
<1>2. IInv /\ (NamesInv(R) /\ InputsIntact) /\ [Next]_vars => (NamesInv(R) /\ InputsIntact)'
  BY NextNamesInv, NextInputsIntact
<1>3. QED
  BY <1>1, <1>2, Invariance, PTL DEF Spec

(* A join or a set operation is given, under each name it looks up, the    *)
(* table of the dependency of that name, however the contexts were merged, *)
(* in every plan where no other dependency returns a table of that name.   *)
THEOREM InputsStayIntact ==
  ASSUME NEW R, NamesApart(R)
  PROVE  Spec => []InputsIntact
<1>1. QED
  BY InputsStayInv, PTL

-----------------------------------------------------------------------------
(* The step a table is known by is the one that made it.                   *)
MadeInv == \A s \in finished : \A n \in DOMAIN tables[s] : tables[s][n][1] = MadeBy(s)

(* What a step that hands nothing on returns, it has made.                 *)
LEMMA OutputMade ==
  ASSUME NEW s \in Step, NEW in,
         ~(Node[s].kind = "Scan" /\ Bare(s) /\ Node[s].source \in DOMAIN in \ {NoName}),
         NEW n \in DOMAIN Output(s, in)
  PROVE  Output(s, in)[n][1] = s
<1>1. Node[s].kind \in {"Scan", "Aggregate", "Join", "Sort", "SetOperation"}
  BY PlanAssumption DEF NodeType
<1>2. CASE Node[s].kind = "Scan"
  BY <1>2 DEF Output, Made, Bare
<1>3. CASE Node[s].kind = "Aggregate"
  BY <1>3 DEF Output, Made, Bare
<1>4. CASE Node[s].kind = "Join"
  BY <1>4 DEF Output, Made, Bare
<1>5. CASE Node[s].kind \in {"Sort", "SetOperation"}
  BY <1>5 DEF Output, Made, Bare
<1>6. QED
  BY <1>1, <1>2, <1>3, <1>4, <1>5

LEMMA NextMadeInv ==
  ASSUME NEW R, NamesApart(R), TablesApart, IInv, MadeInv, [Next]_vars
  PROVE  MadeInv'
<1> USE DEF planVars, runVars, vars
<1>1. ASSUME NEW s \in Step, NEW o \in Orders(Deps[s]), Run(s, o) PROVE MadeInv'
  <2> DEFINE in == Merge(s, o)
             name == Node[s].source
  <2>1. /\ s \notin finished /\ finished' = finished \union {s} /\ Deps[s] \subseteq finished
        /\ tables'[s] = Output(s, in)
        /\ \A t \in finished : tables'[t] = tables[t]
    BY <1>1, RunKeepsTables
  <2>2. ASSUME NEW n \in DOMAIN Output(s, in) PROVE Output(s, in)[n][1] = MadeBy(s)
    <3>1. CASE HandsOn(s)
      <4>1. PICK d \in Step : Deps[s] = {d} /\ ~HandsOn(d)
        BY <3>1 DEF TablesApart
      <4>2. name \in Reads(s)
        BY <3>1 DEF HandsOn, Reads
      <4>3. name = Node[d].name
        BY <4>1, <4>2 DEF NamesApart
      <4>4. name \in DOMAIN tables[d] /\ d \in finished
        BY <2>1, <4>1, <4>3 DEF IInv, FinishedInv
      <4>5. name \in DOMAIN in /\ in[name] = tables[d][name]
        <5> HIDE DEF name
        <5>1. d \in Deps[s] /\ name \in DOMAIN tables[d]
          BY <4>1, <4>4
        <5>2. \A e \in Deps[s] : name \in DOMAIN tables[e] => e = d
          BY <4>1
        <5>3. QED
          BY <5>1, <5>2, MergeFinds
      <4>6. Output(s, in) = HandedOn(Node[s], in)
        BY <3>1, <4>5 DEF Output, HandsOn, Bare
      <4>7. Output(s, in)[n] = in[name]
        BY <4>6 DEF HandedOn
      <4>8. tables[d][name][1] = MadeBy(d)
        BY <4>4 DEF MadeInv
      <4>9. MadeBy(d) = d /\ MadeBy(s) = d
        BY <3>1, <4>1 DEF MadeBy
      <4>10. QED
        BY <4>5, <4>7, <4>8, <4>9
    <3>2. CASE ~HandsOn(s)
      <4>1. MadeBy(s) = s
        BY <3>2 DEF MadeBy
      <4>2. Deps[s] = {} => DOMAIN in = {}
        BY DEF Merge, Names
      <4>3. ~(Node[s].kind = "Scan" /\ Bare(s) /\ name \in DOMAIN in \ {NoName})
        BY <3>2, <4>2 DEF HandsOn
      <4>4. QED
        BY <2>2, <4>1, <4>3, OutputMade
    <3>3. QED
      BY <3>1, <3>2
  <2>3. SUFFICES ASSUME NEW t \in finished', NEW n \in DOMAIN tables'[t]
                 PROVE  tables'[t][n][1] = MadeBy(t)
    BY DEF MadeInv, MadeBy, HandsOn, Bare
  <2>4. CASE t \in finished
    BY <2>1, <2>3, <2>4 DEF MadeInv
  <2>5. CASE t = s
    BY <2>1, <2>2, <2>3, <2>5
  <2>6. QED
    BY <2>1, <2>4, <2>5
<1>2. ASSUME UNCHANGED <<finished, tables>> PROVE MadeInv'
  BY <1>2 DEF MadeInv, MadeBy, HandsOn, Bare
<1>3. QED
  BY <1>1, <1>2 DEF Next, Collect, Start, Raise, Return, Ended

(* A join reads each of its inputs through a table of its own, in every    *)
(* plan where no common table expression is joined to itself.              *)
THEOREM JoinInputsStayDistinct ==
  ASSUME NEW R, NamesApart(R), TablesApart
  PROVE  Spec => []JoinInputsDistinct
<1>1. Init => MadeInv
  BY DEF Init, MadeInv
<1>2. IInv /\ MadeInv /\ [Next]_vars => MadeInv'
  BY NextMadeInv
<1>3. IInv /\ InputsIntact /\ MadeInv => JoinInputsDistinct
  <2>1. SUFFICES ASSUME IInv, InputsIntact, MadeInv, NEW s \in finished, Node[s].kind = "Join",
                        NEW m \in Needs(s), NEW n \in Needs(s), m # n
                 PROVE  seen[s][m] # seen[s][n]
    BY DEF JoinInputsDistinct
  <2>2. s \in Step
    BY <2>1 DEF IInv, TypeOK
  <2>3. Needs(s) \subseteq {Node[d].name : d \in Deps[s]}
    BY <2>2 DEF NamesApart, Reads
  <2>4. PICK d \in Deps[s], e \in Deps[s] : m = Node[d].name /\ n = Node[e].name
    BY <2>3
  <2>5. d \in finished /\ e \in finished
    BY <2>1 DEF IInv, FinishedInv
  <2>6. tables[d][m][1] = MadeBy(d) /\ tables[e][n][1] = MadeBy(e)
    BY <2>1, <2>4, <2>5 DEF MadeInv, IInv, FinishedInv
  <2>7. seen[s][m] = tables[d][m] /\ seen[s][n] = tables[e][n]
    BY <2>1, <2>4 DEF InputsIntact
  <2>8. MadeBy(d) # MadeBy(e)
    BY <2>1, <2>2, <2>4 DEF TablesApart
  <2>9. QED
    BY <2>6, <2>7, <2>8
<1>4. QED
  BY <1>1, <1>2, <1>3, Invariance, InputsStayInv, PTL DEF Spec
=============================================================================
