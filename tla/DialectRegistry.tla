-------------------------- MODULE DialectRegistry --------------------------
(***************************************************************************)
(* Dialects are imported when they are first asked for, by whichever       *)
(* thread asks, and a dialect's class enters the registry while it is      *)
(* being made.                                                             *)
(*                                                                         *)
(* sqlglot/dialects/__init__.py, __getattr__ with its reentrant lock;      *)
(* sqlglot/dialects/dialect.py, the metaclass _Dialect: classes, get,      *)
(* __getitem__, _try_load, __new__; which dialects a dialect's module      *)
(* imports, and how, is read off the modules.  Python's import system is   *)
(* external: one thread executes a module, others that import it wait, and *)
(* a module that was executed is not executed again.                       *)
(*                                                                         *)
(* The interpreter may switch threads between any two of the steps below.  *)
(* Modules that cannot be imported are left out.                           *)
(***************************************************************************)
EXTENDS Integers, Sequences, FiniteSets, SequencesExt

CONSTANTS
  Thread,
  DIALECTS,  \* the names of the dialects that have a module, a sequence
  Custom,    \* the names of dialects that a user's program may define
  Base,      \* the key of the class Dialect itself
  Imports,   \* the dialects a dialect's module imports, in order
  Programs,  \* the calls of each thread, one program picked at the start
  NoThread   \* no thread

Module == ToSet(DIALECTS)

Call == [kind : {"get", "attribute", "classes", "define"}, name : Module \union Custom]

(* An import goes by the name of a module, or through the attribute of the *)
(* package sqlglot.dialects and so through __getattr__.                    *)
Import == [module : Module, attribute : BOOLEAN]

(* Imports follow the order of some sequence: none is circular.  A user's  *)
(* own class does not go by the name of a dialect of this package.         *)
ASSUME RegistryAssumption ==
  /\ Custom \intersect Module = {} /\ Base \notin Module \union Custom
  /\ NoThread \notin Thread
  /\ Imports \in [Module -> Seq(Import)]
  /\ \E order \in [Module -> 1..Len(DIALECTS)] :
       \A m \in Module : \A k \in DOMAIN Imports[m] : order[Imports[m][k].module] < order[m]
  /\ DIALECTS \in Seq(Module)
  /\ \A p \in Programs :
       /\ p \in [Thread -> Seq(Call)]
       /\ \A t \in Thread : \A k \in DOMAIN p[t] : p[t][k].kind = "define" => p[t][k].name \in Custom

VARIABLES
  classes,    \* the keys of _Dialect._classes
  complete,   \* those of them whose class is finished
  status,     \* sys.modules and the modules' locks
  importLock, \* _import_lock: the thread that holds it and how often
  program,    \* the calls each thread has not finished
  pc,         \* where a thread is in its first call
  missed,     \* the key was not in _classes when the call began
  todo,       \* the keys that classes has not tried to load
  stack,      \* the imports a thread is making, the innermost first
  answers     \* history: what the calls of each thread returned

vars == <<classes, complete, status, importLock, program, pc, missed, todo, stack, answers>>

Status == {"absent", "loading", "loaded"}
Frame == [module : Module, attribute : BOOLEAN, phase : {"enter", "find", "body", "leave"}, line : Nat \ {0}]
Answer == [call : Call, missed : BOOLEAN, found : BOOLEAN, complete : BOOLEAN]

Entering(m, attribute) ==
  [module |-> m, attribute |-> attribute, phase |-> IF attribute THEN "enter" ELSE "find", line |-> 1]

At(t, where) == pc[t] = where /\ stack[t] = <<>>

-----------------------------------------------------------------------------
(* The calls.                                                              *)

(* Mutant: __getattr__ imports what is not in the registry only.           *)
NeedsImportUnlessRegistered(call) == call.name \notin classes

(* Mutant: modules that are in sys.modules are not imported.               *)
NeedsImportUnlessInModules(call) == status[call.name] = "absent"

NeedsImport(call) == call.kind = "attribute" \/ call.name \notin classes

(* get and __getitem__ look before they load, __getattr__ does not.  A key *)
(* without a module is not loaded.                                         *)
Begin(t) ==
  /\ At(t, "ready")
  /\ program[t] # <<>>
  /\ LET call == Head(program[t])
     IN /\ call.kind \in {"get", "attribute"}
        /\ missed' = [missed EXCEPT ![t] = call.name \notin classes]
        /\ stack' = [stack EXCEPT ![t] =
                       IF call.name \in Module /\ NeedsImport(call)
                       THEN <<Entering(call.name, call.kind = "attribute")>> ELSE <<>>]
  /\ pc' = [pc EXCEPT ![t] = "return"]
  /\ UNCHANGED <<classes, complete, status, importLock, program, todo, answers>>

(* The second lookup: _classes.get(key), or getattr(module, name).         *)
Return(t) ==
  /\ At(t, "return")
  /\ LET call == Head(program[t])
     IN answers' = [answers EXCEPT ![t] = Append(@,
          [call |-> call, missed |-> missed[t],
           found |-> call.name \in classes, complete |-> call.name \in complete])]
  /\ program' = [program EXCEPT ![t] = Tail(@)]
  /\ pc' = [pc EXCEPT ![t] = "ready"]
  /\ UNCHANGED <<classes, complete, status, importLock, missed, todo, stack>>

(* The property classes: all are loaded unless as many classes as there    *)
(* are modules are registered.                                             *)
AllClasses(t) ==
  /\ At(t, "ready")
  /\ program[t] # <<>> /\ Head(program[t]).kind = "classes"
  /\ LET loads == Len(DIALECTS) # Cardinality(classes)
     IN /\ missed' = [missed EXCEPT ![t] = loads]
        /\ todo' = [todo EXCEPT ![t] = IF loads THEN DIALECTS ELSE <<>>]
  /\ pc' = [pc EXCEPT ![t] = "classes"]
  /\ UNCHANGED <<classes, complete, status, importLock, program, stack, answers>>

TryLoad(t) ==
  /\ At(t, "classes")
  /\ todo[t] # <<>>
  /\ stack' = [stack EXCEPT ![t] = <<Entering(Head(todo[t]), FALSE)>>]
  /\ todo' = [todo EXCEPT ![t] = Tail(@)]
  /\ UNCHANGED <<classes, complete, status, importLock, program, pc, missed, answers>>

ReturnClasses(t) ==
  /\ At(t, "classes")
  /\ todo[t] = <<>>
  /\ answers' = [answers EXCEPT ![t] = Append(@,
       [call |-> Head(program[t]), missed |-> missed[t],
        found |-> Module \subseteq classes, complete |-> Module \subseteq complete])]
  /\ program' = [program EXCEPT ![t] = Tail(@)]
  /\ pc' = [pc EXCEPT ![t] = "ready"]
  /\ UNCHANGED <<classes, complete, status, importLock, missed, todo, stack>>

(* A class statement of the user's: __new__ registers the class and then   *)
(* gives it its tokenizer, parser and generator.                           *)
Define(t) ==
  /\ At(t, "ready")
  /\ program[t] # <<>> /\ Head(program[t]).kind = "define"
  /\ classes' = classes \union {Head(program[t]).name}
  /\ complete' = complete \ {Head(program[t]).name}
  /\ pc' = [pc EXCEPT ![t] = "define"]
  /\ UNCHANGED <<status, importLock, program, missed, todo, stack, answers>>

FinishDefinition(t) ==
  /\ At(t, "define")
  /\ complete' = complete \union {Head(program[t]).name}
  /\ program' = [program EXCEPT ![t] = Tail(@)]
  /\ pc' = [pc EXCEPT ![t] = "ready"]
  /\ UNCHANGED <<classes, status, importLock, missed, todo, stack, answers>>

-----------------------------------------------------------------------------
(* The imports.                                                            *)
InPhase(t, phase) == stack[t] # <<>> /\ Head(stack[t]).phase = phase

Top(t) == Head(stack[t])

GoOn(t, phase, line) ==
  stack' = [stack EXCEPT ![t] = <<[Head(@) EXCEPT !.phase = phase, !.line = line]>> \o Tail(@)]

(* Mutant: a lock that is not reentrant.                                   *)
MayLockOnce(t) == importLock.owner = NoThread

(* An RLock is free for the thread that holds it.                          *)
MayLock(t) == importLock.owner \in {NoThread, t}

Lock(t) ==
  /\ InPhase(t, "enter")
  /\ MayLock(t)
  /\ importLock' = [owner |-> t, count |-> importLock.count + 1]
  /\ GoOn(t, "find", 1)
  /\ UNCHANGED <<classes, complete, status, program, pc, missed, todo, answers>>

(* import_module, external: the first to come executes the module, the     *)
(* others wait until it has been executed.                                 *)
Find(t) ==
  /\ InPhase(t, "find")
  /\ status[Top(t).module] # "loading"
  /\ status' = [status EXCEPT ![Top(t).module] = IF @ = "absent" THEN "loading" ELSE @]
  /\ GoOn(t, IF status[Top(t).module] = "absent" THEN "body" ELSE "leave", 1)
  /\ UNCHANGED <<classes, complete, importLock, program, pc, missed, todo, answers>>

(* The next import at the head of the module.                              *)
ImportDependency(t) ==
  /\ InPhase(t, "body")
  /\ Top(t).line <= Len(Imports[Top(t).module])
  /\ LET import == Imports[Top(t).module][Top(t).line]
     IN stack' = [stack EXCEPT ![t] =
          <<Entering(import.module, import.attribute), [Top(t) EXCEPT !.line = @ + 1]>> \o Tail(@)]
  /\ UNCHANGED <<classes, complete, status, importLock, program, pc, missed, todo, answers>>

(* The class statement of the module, in the two parts of __new__.         *)
Register(t) ==
  /\ InPhase(t, "body")
  /\ Top(t).line = Len(Imports[Top(t).module]) + 1
  /\ classes' = classes \union {Top(t).module}
  /\ GoOn(t, "body", Top(t).line + 1)
  /\ UNCHANGED <<complete, status, importLock, program, pc, missed, todo, answers>>

Complete(t) ==
  /\ InPhase(t, "body")
  /\ Top(t).line = Len(Imports[Top(t).module]) + 2
  /\ complete' = complete \union {Top(t).module}
  /\ status' = [status EXCEPT ![Top(t).module] = "loaded"]
  /\ GoOn(t, "leave", 1)
  /\ UNCHANGED <<classes, importLock, program, pc, missed, todo, answers>>

HeldAfter(t) ==
  IF ~Top(t).attribute THEN importLock
  ELSE IF importLock.count = 1 THEN [owner |-> NoThread, count |-> 0]
  ELSE [importLock EXCEPT !.count = @ - 1]

Leave(t) ==
  /\ InPhase(t, "leave")
  /\ importLock' = HeldAfter(t)
  /\ stack' = [stack EXCEPT ![t] = Tail(@)]
  /\ UNCHANGED <<classes, complete, status, program, pc, missed, todo, answers>>

-----------------------------------------------------------------------------
Init ==
  /\ classes = {Base}
  /\ complete = {Base}
  /\ status = [m \in Module |-> "absent"]
  /\ importLock = [owner |-> NoThread, count |-> 0]
  /\ program \in Programs
  /\ pc = [t \in Thread |-> "ready"]
  /\ missed = [t \in Thread |-> FALSE]
  /\ todo = [t \in Thread |-> <<>>]
  /\ stack = [t \in Thread |-> <<>>]
  /\ answers = [t \in Thread |-> <<>>]

Step(t) ==
  \/ Begin(t) \/ Return(t) \/ AllClasses(t) \/ TryLoad(t) \/ ReturnClasses(t)
  \/ Define(t) \/ FinishDefinition(t)
  \/ Lock(t) \/ Find(t) \/ ImportDependency(t) \/ Register(t) \/ Complete(t) \/ Leave(t)

Finished == \A t \in Thread : program[t] = <<>>

Done == Finished /\ UNCHANGED vars

Next == (\E t \in Thread : Step(t)) \/ Done

Spec == Init /\ [][Next]_vars

(* Every thread that can go on is scheduled again.                         *)
FairSpec == Spec /\ \A t \in Thread : WF_vars(Step(t))

-----------------------------------------------------------------------------
TypeOK ==
  /\ complete \subseteq classes /\ classes \subseteq Module \union Custom \union {Base}
  /\ status \in [Module -> Status]
  /\ importLock \in [owner : Thread \union {NoThread}, count : Int]
  /\ program \in [Thread -> Seq(Call)]
  /\ pc \in [Thread -> {"ready", "return", "classes", "define"}]
  /\ missed \in [Thread -> BOOLEAN]
  /\ todo \in [Thread -> Seq(Module)]
  /\ stack \in [Thread -> Seq(Frame)]
  /\ answers \in [Thread -> Seq(Answer)]

Returned == UNION {ToSet(answers[t]) : t \in Thread}

(* A dialect of this package is found however many threads ask for it, and *)
(* in whatever order its imports are made meanwhile.                       *)
KnownIsFound ==
  \A a \in Returned : a.call.kind \in {"get", "attribute"} /\ a.call.name \in Module => a.found

(* A call that goes through the import system returns finished classes,    *)
(* all of them when all are asked for: it waits for a thread that is       *)
(* making one.                                                             *)
ImportedIsComplete ==
  \A a \in Returned :
    /\ a.call.kind = "attribute" /\ a.call.name \in Module => a.complete
    /\ a.call.kind = "get" /\ a.call.name \in Module /\ a.missed => a.complete
    /\ a.call.kind = "classes" /\ a.missed => a.complete

(* Every call returns.                                                     *)
EveryCallReturns == <>Finished
=============================================================================
