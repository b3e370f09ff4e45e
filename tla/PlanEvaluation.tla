--------------------------- MODULE PlanEvaluation ---------------------------
(***************************************************************************)
(* What executing a query plan promises, independently of how the steps    *)
(* are scheduled: a step is evaluated at most once and only after all the  *)
(* steps it depends on, a result is returned only once the root of the     *)
(* plan has been evaluated, and an error ends the execution.               *)
(*                                                                         *)
(* sqlglot/executor/python.py, PythonExecutor.execute.                     *)
(***************************************************************************)

CONSTANTS
  Step,     \* the steps of the plan, reachable from the root or not
  Root,     \* the step whose table is the answer of the query
  Deps      \* Deps[s]: the steps whose tables step s reads

VARIABLES
  evaluated,  \* the steps whose tables have been produced
  outcome     \* "pending", or how the execution ended

evalVars == <<evaluated, outcome>>

Init ==
  /\ evaluated = {}
  /\ outcome = "pending"

Evaluate(s) ==
  /\ outcome = "pending"
  /\ s \notin evaluated
  /\ Deps[s] \subseteq evaluated
  /\ evaluated' = evaluated \union {s}
  /\ UNCHANGED outcome

Return ==
  /\ outcome = "pending"
  /\ Root \in evaluated
  /\ outcome' = "returned"
  /\ UNCHANGED evaluated

Raise ==
  /\ outcome = "pending"
  /\ outcome' = "raised"
  /\ UNCHANGED evaluated

Next ==
  \/ \E s \in Step : Evaluate(s)
  \/ Return
  \/ Raise

Spec == Init /\ [][Next]_evalVars
=============================================================================
