----------------------- MODULE DialectRegistryProofs -----------------------
(***************************************************************************)
(* For any number of threads and dialects, whatever the modules import and *)
(* in whatever order the threads are scheduled: a dialect of this package  *)
(* is found, and a call that goes through the import system returns a      *)
(* finished class.                                                         *)
(***************************************************************************)
EXTENDS DialectRegistry, TLAPS

(* The module a thread's outermost import is of.                           *)
Asked(t) == stack[t][Len(stack[t])].module

(* A module that was executed has a finished class.                        *)
LoadedIsComplete == \A m \in Module : status[m] = "loaded" => m \in complete

(* Users' classes have names of their own.                                 *)
OwnNames(t) ==
  \A k \in DOMAIN program[t] : program[t][k].kind = "define" => program[t][k].name \in Custom

(* An import that is left was made, and a class that is about to be        *)
(* finished is registered.                                                 *)
Frames(t) ==
  \A k \in DOMAIN stack[t] :
    LET frame == stack[t][k]
    IN /\ frame.phase = "leave" => status[frame.module] = "loaded"
       /\ frame.phase = "body" /\ frame.line = Len(Imports[frame.module]) + 2 => frame.module \in classes

OnTheWay(t, m) == status[m] = "loaded" \/ (stack[t] # <<>> /\ Asked(t) = m)

(* What a call needs is there, or its thread is importing it.              *)
Wanted(t) ==
  /\ pc[t] # "ready" => program[t] # <<>>
  /\ pc[t] = "return" =>
       LET call == Head(program[t])
       IN /\ call.kind \in {"get", "attribute"}
          /\ call.name \in Module =>
               IF call.kind = "attribute" \/ missed[t] THEN OnTheWay(t, call.name)
               ELSE call.name \in classes
  /\ pc[t] = "classes" =>
       /\ Head(program[t]).kind = "classes"
       /\ missed[t] => \A m \in Module : OnTheWay(t, m) \/ m \in ToSet(todo[t])
  /\ pc[t] = "define" => Head(program[t]).kind = "define" /\ Head(program[t]).name \in classes

(* What KnownIsFound and ImportedIsComplete say of one answer.             *)
Right(a) ==
  /\ a.call.kind \in {"get", "attribute"} /\ a.call.name \in Module => a.found
  /\ a.call.kind = "attribute" /\ a.call.name \in Module => a.complete
  /\ a.call.kind = "get" /\ a.call.name \in Module /\ a.missed => a.complete
  /\ a.call.kind = "classes" /\ a.missed => a.complete

Answered(t) == \A k \in DOMAIN answers[t] : Right(answers[t][k])

Local(t) == OwnNames(t) /\ Frames(t) /\ Wanted(t) /\ Answered(t)

IInv == TypeOK /\ LoadedIsComplete /\ \A t \in Thread : Local(t)

-----------------------------------------------------------------------------
(* What a sequence consists of.                                            *)
LEMMA Elements ==
  ASSUME NEW S, NEW s \in Seq(S), NEW k \in DOMAIN s
  PROVE  s[k] \in S
  OBVIOUS

(* A sequence with an element put in front.                                *)
LEMMA PushedElements ==
  ASSUME NEW S, NEW s \in Seq(S), NEW e \in S
  PROVE  /\ <<e>> \o s \in Seq(S) /\ <<e>> \o s # <<>>
         /\ Len(<<e>> \o s) = Len(s) + 1
         /\ (<<e>> \o s)[1] = e
         /\ \A k \in DOMAIN s : (<<e>> \o s)[k + 1] = s[k]
         /\ s # <<>> => (<<e>> \o s)[Len(<<e>> \o s)] = s[Len(s)]
  OBVIOUS

(* A sequence without its first element.                                   *)
LEMMA TailElements ==
  ASSUME NEW S, NEW s \in Seq(S), s # <<>>
  PROVE  /\ Tail(s) \in Seq(S) /\ Head(s) \in S /\ Head(s) = s[1]
         /\ Len(Tail(s)) = Len(s) - 1
         /\ \A k \in DOMAIN Tail(s) : k + 1 \in DOMAIN s /\ Tail(s)[k] = s[k + 1]
         /\ Tail(s) # <<>> => Tail(s)[Len(Tail(s))] = s[Len(s)]
         /\ Tail(s) = <<>> => s[Len(s)] = s[1]
<1>1. Len(s) \in Nat /\ Len(s) # 0 /\ s[1] \in S /\ Head(s) = s[1]
  OBVIOUS
<1>2. Tail(s) \in Seq(S) /\ Len(Tail(s)) = Len(s) - 1
  BY <1>1
<1>3. \A k \in 1..Len(s) - 1 : Tail(s)[k] = s[k + 1]
  BY <1>1
<1>4. DOMAIN Tail(s) = 1..Len(s) - 1 /\ DOMAIN s = 1..Len(s)
  BY <1>1, <1>2
<1>5. Tail(s) = <<>> => Len(s) = 1
  BY <1>1, <1>2
<1>6. ASSUME Tail(s) # <<>>
      PROVE  Tail(s)[Len(Tail(s))] = s[Len(s)]
  <2>1. Len(Tail(s)) # 0 /\ Len(s) - 1 \in 1..Len(s) - 1
    BY <1>1, <1>2, <1>6
  <2> QED
    BY <2>1, <1>1, <1>2, <1>3
<1> QED
  BY <1>1, <1>2, <1>3, <1>4, <1>5, <1>6

(* A sequence with an element at its end.                                  *)
LEMMA AppendedElements ==
  ASSUME NEW S, NEW s \in Seq(S), NEW e \in S
  PROVE  /\ Append(s, e) \in Seq(S)
         /\ \A k \in DOMAIN Append(s, e) :
              (k \in DOMAIN s /\ Append(s, e)[k] = s[k]) \/ Append(s, e)[k] = e
  OBVIOUS

(* What a call needs stays there when the registry only grows.             *)
LEMMA WantedKeeps ==
  ASSUME NEW u \in Thread, Wanted(u),
         program'[u] = program[u], pc'[u] = pc[u], missed'[u] = missed[u], todo'[u] = todo[u],
         classes \subseteq classes',
         \A m \in Module : OnTheWay(u, m) => OnTheWay(u, m)'
  PROVE  Wanted(u)'
  BY DEF Wanted

(* A step of another thread changes nothing of what holds of a thread.     *)
LEMMA OthersKeep ==
  ASSUME IInv, NEW u \in Thread,
         program'[u] = program[u], pc'[u] = pc[u], missed'[u] = missed[u],
         todo'[u] = todo[u], stack'[u] = stack[u], answers'[u] = answers[u],
         classes \subseteq classes',
         \A m \in Module : status[m] = "loaded" => status'[m] = "loaded"
  PROVE  Local(u)'
<1>1. Local(u) /\ stack[u] \in Seq(Frame)
  BY DEF IInv, TypeOK
<1>2. OwnNames(u)' /\ Answered(u)'
  BY <1>1 DEF Local, OwnNames, Answered, Right
<1>3. \A k \in DOMAIN stack[u] : stack[u][k].module \in Module
  <2>1. \A k \in DOMAIN stack[u] : stack[u][k] \in Frame
    BY <1>1, Elements
  <2> QED
    BY <2>1 DEF Frame
<1>4. Frames(u)'
  <2>1. Frames(u) /\ stack'[u] = stack[u]
    BY <1>1 DEF Local
  <2> QED
    BY <1>3, <2>1 DEF Frames
<1>5. \A m \in Module : OnTheWay(u, m) => OnTheWay(u, m)'
  BY DEF OnTheWay, Asked
<1>6. Wanted(u)'
  BY <1>1, <1>5, WantedKeeps DEF Local
<1> QED
  BY <1>2, <1>4, <1>6 DEF Local

(* The innermost import of a thread and the ones it is part of.            *)
LEMMA TopFrame ==
  ASSUME IInv, NEW t \in Thread, stack[t] # <<>>
  PROVE  /\ Top(t) \in Frame /\ Top(t).module \in Module /\ Top(t).line \in Nat \ {0}
         /\ Tail(stack[t]) \in Seq(Frame)
         /\ Top(t).phase = "leave" => status[Top(t).module] = "loaded"
         /\ Top(t).phase = "body" /\ Top(t).line = Len(Imports[Top(t).module]) + 2
              => Top(t).module \in classes
<1>1. stack[t] \in Seq(Frame) /\ Frames(t)
  BY DEF IInv, TypeOK, Local
<1>2. Top(t) \in Frame /\ Tail(stack[t]) \in Seq(Frame) /\ Top(t) = stack[t][1] /\ 1 \in DOMAIN stack[t]
  <2>1. Len(stack[t]) \in Nat /\ Len(stack[t]) # 0
    BY <1>1
  <2> QED
    BY <1>1, <2>1, TailElements DEF Top
<1> QED
  BY <1>1, <1>2 DEF Frames, Frame

(* A step of an import that leaves what the thread is waiting for on its   *)
(* way.                                                                    *)
LEMMA ImportStep ==
  ASSUME IInv, NEW t \in Thread, TypeOK', LoadedIsComplete', Frames(t)',
         UNCHANGED <<program, pc, missed, todo, answers>>,
         classes \subseteq classes',
         \A m \in Module : status[m] = "loaded" => status'[m] = "loaded",
         \A u \in Thread \ {t} : stack'[u] = stack[u],
         \A m \in Module : OnTheWay(t, m) => OnTheWay(t, m)'
  PROVE  IInv'
<1>1. \A u \in Thread \ {t} : Local(u)'
  BY OthersKeep
<1>2. Local(t)
  BY DEF IInv
<1>3. OwnNames(t)' /\ Answered(t)'
  BY <1>2 DEF Local, OwnNames, Answered, Right
<1>4. Wanted(t)'
  BY <1>2, WantedKeeps DEF Local
<1> QED
  BY <1>1, <1>3, <1>4 DEF IInv, Local

(* Where the innermost import of a thread goes on.                         *)
LEMMA GoesOn ==
  ASSUME IInv, NEW t \in Thread, stack[t] # <<>>,
         NEW phase \in {"enter", "find", "body", "leave"}, NEW line \in Nat \ {0},
         GoOn(t, phase, line)
  PROVE  /\ stack' \in [Thread -> Seq(Frame)]
         /\ \A u \in Thread \ {t} : stack'[u] = stack[u]
         /\ stack'[t] # <<>> /\ Asked(t)' = Asked(t)
         /\ stack'[t][1] = [Top(t) EXCEPT !.phase = phase, !.line = line]
         /\ \A k \in DOMAIN stack'[t] \ {1} : k \in DOMAIN stack[t] /\ stack'[t][k] = stack[t][k]
<1> DEFINE head == [Top(t) EXCEPT !.phase = phase, !.line = line]
           rest == Tail(stack[t])
<1>1. Top(t) \in Frame /\ rest \in Seq(Frame)
  BY TopFrame
<1>2. head \in Frame /\ head.module = Top(t).module
  BY <1>1 DEF Frame
<1>3. stack \in [Thread -> Seq(Frame)] /\ stack[t] \in Seq(Frame)
  BY DEF IInv, TypeOK
<1>4. stack' = [stack EXCEPT ![t] = <<head>> \o rest]
  BY <1>3 DEF GoOn, Top
<1> HIDE DEF head
<1>5. /\ <<head>> \o rest \in Seq(Frame) /\ <<head>> \o rest # <<>>
      /\ Len(<<head>> \o rest) = Len(rest) + 1
      /\ (<<head>> \o rest)[1] = head
      /\ \A k \in DOMAIN rest : (<<head>> \o rest)[k + 1] = rest[k]
      /\ rest # <<>> => (<<head>> \o rest)[Len(<<head>> \o rest)] = rest[Len(rest)]
  <2> HIDE DEF rest
  <2> QED
    BY <1>1, <1>2, PushedElements
<1>6. /\ Top(t) = stack[t][1] /\ Len(rest) = Len(stack[t]) - 1
      /\ \A k \in DOMAIN rest : k + 1 \in DOMAIN stack[t] /\ rest[k] = stack[t][k + 1]
      /\ rest # <<>> => rest[Len(rest)] = stack[t][Len(stack[t])]
      /\ rest = <<>> => stack[t][Len(stack[t])] = stack[t][1]
  BY <1>3, TailElements DEF Top
<1>7. stack'[t] = <<head>> \o rest
  BY <1>3, <1>4
<1>8. stack' \in [Thread -> Seq(Frame)] /\ \A u \in Thread \ {t} : stack'[u] = stack[u]
  BY <1>3, <1>4, <1>5
<1> HIDE DEF rest
<1>9. Asked(t)' = Asked(t)
  <2>1. CASE rest = <<>>
    <3>1. Len(rest) = 0
      BY <2>1
    <3> QED
      BY <1>2, <1>5, <1>6, <1>7, <2>1, <3>1 DEF Asked
  <2>2. CASE rest # <<>>
    BY <1>5, <1>6, <1>7, <2>2 DEF Asked
  <2> QED
    BY <2>1, <2>2
<1>10. ASSUME NEW k \in DOMAIN stack'[t] \ {1}
       PROVE  k \in DOMAIN stack[t] /\ stack'[t][k] = stack[t][k]
  <2>1. k \in 1..Len(rest) + 1 /\ Len(rest) \in Nat
    BY <1>1, <1>5, <1>7
  <2>2. k - 1 \in DOMAIN rest /\ (k - 1) + 1 = k
    BY <1>1, <2>1
  <2>3. (<<head>> \o rest)[(k - 1) + 1] = rest[k - 1] /\ rest[k - 1] = stack[t][(k - 1) + 1]
        /\ (k - 1) + 1 \in DOMAIN stack[t]
    BY <1>5, <1>6, <2>2
  <2> QED
    BY <1>7, <2>2, <2>3
<1> QED
  BY <1>5, <1>7, <1>8, <1>9, <1>10 DEF head

(* The frames that are not the innermost one stay what they were.          *)
LEMMA FramesKeep ==
  ASSUME IInv, NEW t \in Thread,
         stack'[t] \in Seq(Frame),
         classes \subseteq classes',
         \A m \in Module : status[m] = "loaded" => status'[m] = "loaded",
         \A k \in DOMAIN stack'[t] \ {1} : k \in DOMAIN stack[t] /\ stack'[t][k] = stack[t][k],
         stack'[t] # <<>> =>
           LET frame == stack'[t][1]
           IN /\ frame.phase = "leave" => status'[frame.module] = "loaded"
              /\ frame.phase = "body" /\ frame.line = Len(Imports[frame.module]) + 2
                   => frame.module \in classes'
  PROVE  Frames(t)'
<1> SUFFICES ASSUME NEW k \in DOMAIN stack'[t]
             PROVE  /\ stack'[t][k].phase = "leave" => status'[stack'[t][k].module] = "loaded"
                    /\ stack'[t][k].phase = "body"
                         /\ stack'[t][k].line = Len(Imports[stack'[t][k].module]) + 2
                         => stack'[t][k].module \in classes'
  BY DEF Frames
<1>1. CASE k = 1
  <2>1. stack'[t] # <<>>
    OBVIOUS
  <2> QED
    BY <1>1, <2>1
<1>2. CASE k # 1
  <2>1. k \in DOMAIN stack[t] /\ stack'[t][k] = stack[t][k] /\ Frames(t)
    BY <1>2 DEF IInv, Local
  <2>2. stack'[t][k].module \in Module
    <3>1. stack'[t][k] \in Frame
      BY Elements
    <3> QED
      BY <3>1 DEF Frame
  <2> QED
    BY <2>1, <2>2 DEF Frames
<1> QED
  BY <1>1, <1>2

LEMMA LockKeeps ==
  ASSUME IInv, NEW t \in Thread, Lock(t)
  PROVE  IInv'
<1> USE DEF Lock, InPhase
<1>0. 1 \in Nat \ {0}
  OBVIOUS
<1>1. /\ stack' \in [Thread -> Seq(Frame)]
      /\ \A u \in Thread \ {t} : stack'[u] = stack[u]
      /\ stack'[t] # <<>> /\ Asked(t)' = Asked(t)
      /\ stack'[t][1] = [Top(t) EXCEPT !.phase = "find", !.line = 1]
      /\ \A k \in DOMAIN stack'[t] \ {1} : k \in DOMAIN stack[t] /\ stack'[t][k] = stack[t][k]
  BY <1>0, GoesOn
<1>2. TypeOK' /\ LoadedIsComplete'
  BY <1>1, SMTT(60) DEF IInv, TypeOK, LoadedIsComplete
<1>3. \A m \in Module : status[m] = "loaded" => status'[m] = "loaded"
  OBVIOUS
<1>4. Frames(t)'
  <2>1. Top(t) \in Frame
    BY TopFrame
  <2>2. stack'[t][1].phase = "find"
    BY <1>1, <2>1 DEF Frame
  <2> QED
    BY <1>1, <1>3, <2>2, FramesKeep
<1>5. \A m \in Module : OnTheWay(t, m) => OnTheWay(t, m)'
  BY <1>1, <1>3 DEF OnTheWay
<1> QED
  BY <1>1, <1>2, <1>3, <1>4, <1>5, ImportStep

LEMMA FindKeeps ==
  ASSUME IInv, NEW t \in Thread, Find(t)
  PROVE  IInv'
<1> USE DEF Find, InPhase
<1> DEFINE phase == IF status[Top(t).module] = "absent" THEN "body" ELSE "leave"
<1>1. /\ stack' \in [Thread -> Seq(Frame)]
      /\ \A u \in Thread \ {t} : stack'[u] = stack[u]
      /\ stack'[t] # <<>> /\ Asked(t)' = Asked(t)
      /\ stack'[t][1] = [Top(t) EXCEPT !.phase = phase, !.line = 1]
      /\ \A k \in DOMAIN stack'[t] \ {1} : k \in DOMAIN stack[t] /\ stack'[t][k] = stack[t][k]
  <2>1. stack[t] # <<>> /\ GoOn(t, phase, 1)
    OBVIOUS
  <2>2. phase \in {"enter", "find", "body", "leave"} /\ 1 \in Nat \ {0}
    OBVIOUS
  <2> HIDE DEF phase, Find, InPhase
  <2> QED
    BY <2>1, <2>2, GoesOn
<1>2. Top(t) \in Frame /\ Top(t).module \in Module /\ status \in [Module -> Status]
  BY TopFrame DEF IInv, TypeOK
<1>3. \A m \in Module : status'[m] = "loaded" <=> status[m] = "loaded"
  BY <1>2
<1>4. TypeOK' /\ LoadedIsComplete'
  <2>1. status' \in [Module -> Status]
    BY <1>2 DEF Status
  <2>2. TypeOK'
    BY <1>1, <2>1 DEF IInv, TypeOK
  <2>3. LoadedIsComplete'
    BY <1>3 DEF IInv, LoadedIsComplete
  <2> QED
    BY <2>2, <2>3
<1>5. Frames(t)'
  <2>1. /\ stack'[t][1].phase = phase /\ stack'[t][1].line = 1
        /\ stack'[t][1].module = Top(t).module
    BY <1>1, <1>2 DEF Frame
  <2>2. phase = "leave" => status'[Top(t).module] = "loaded"
    BY <1>2, <1>3 DEF Status
  <2>3. Len(Imports[Top(t).module]) + 2 # 1
    <3>1. Imports[Top(t).module] \in Seq(Import)
      BY <1>2, RegistryAssumption
    <3> QED
      BY <3>1
  <2> QED
    BY <1>1, <1>3, <2>1, <2>2, <2>3, FramesKeep
<1>6. \A m \in Module : OnTheWay(t, m) => OnTheWay(t, m)'
  BY <1>1, <1>3 DEF OnTheWay
<1> QED
  BY <1>1, <1>3, <1>4, <1>5, <1>6, ImportStep

LEMMA RegisterKeeps ==
  ASSUME IInv, NEW t \in Thread, Register(t)
  PROVE  IInv'
<1> USE DEF Register, InPhase
<1>1. /\ Top(t) \in Frame /\ Top(t).module \in Module /\ Top(t).line + 1 \in Nat \ {0}
  BY TopFrame
<1>2. /\ stack' \in [Thread -> Seq(Frame)]
      /\ \A u \in Thread \ {t} : stack'[u] = stack[u]
      /\ stack'[t] # <<>> /\ Asked(t)' = Asked(t)
      /\ stack'[t][1] = [Top(t) EXCEPT !.phase = "body", !.line = Top(t).line + 1]
      /\ \A k \in DOMAIN stack'[t] \ {1} : k \in DOMAIN stack[t] /\ stack'[t][k] = stack[t][k]
  BY <1>1, GoesOn
<1>3. TypeOK' /\ LoadedIsComplete'
  BY <1>1, <1>2 DEF IInv, TypeOK, LoadedIsComplete
<1>4. \A m \in Module : status[m] = "loaded" => status'[m] = "loaded"
  OBVIOUS
<1>5. Frames(t)'
  <2>1. stack'[t][1].phase = "body" /\ stack'[t][1].module \in classes'
    BY <1>1, <1>2 DEF Frame
  <2> QED
    BY <1>2, <1>4, <2>1, FramesKeep
<1>6. \A m \in Module : OnTheWay(t, m) => OnTheWay(t, m)'
  BY <1>2, <1>4 DEF OnTheWay
<1> QED
  BY <1>2, <1>3, <1>4, <1>5, <1>6, ImportStep

LEMMA CompleteKeeps ==
  ASSUME IInv, NEW t \in Thread, Complete(t)
  PROVE  IInv'
<1> USE DEF Complete, InPhase
<1>1. /\ Top(t) \in Frame /\ Top(t).module \in Module /\ Top(t).module \in classes
      /\ status \in [Module -> Status]
  BY TopFrame DEF IInv, TypeOK, Top
<1>2. /\ stack' \in [Thread -> Seq(Frame)]
      /\ \A u \in Thread \ {t} : stack'[u] = stack[u]
      /\ stack'[t] # <<>> /\ Asked(t)' = Asked(t)
      /\ stack'[t][1] = [Top(t) EXCEPT !.phase = "leave", !.line = 1]
      /\ \A k \in DOMAIN stack'[t] \ {1} : k \in DOMAIN stack[t] /\ stack'[t][k] = stack[t][k]
  <2>1. stack[t] # <<>> /\ GoOn(t, "leave", 1) /\ 1 \in Nat \ {0}
    OBVIOUS
  <2> HIDE DEF Complete, InPhase
  <2> QED
    BY <2>1, GoesOn
<1>3. \A m \in Module : status'[m] = "loaded" <=> status[m] = "loaded" \/ m = Top(t).module
  BY <1>1
<1>4. TypeOK'
  <2>1. status' \in [Module -> Status]
    BY <1>1 DEF Status
  <2> QED
    BY <1>1, <1>2, <2>1 DEF IInv, TypeOK
<1>5. LoadedIsComplete'
  BY <1>3 DEF IInv, LoadedIsComplete
<1>6. Frames(t)'
  <2>1. stack'[t][1].phase = "leave" /\ stack'[t][1].module = Top(t).module
    BY <1>1, <1>2 DEF Frame
  <2> QED
    BY <1>1, <1>2, <1>3, <2>1, FramesKeep
<1>7. \A m \in Module : OnTheWay(t, m) => OnTheWay(t, m)'
  BY <1>2, <1>3 DEF OnTheWay
<1> QED
  BY <1>2, <1>3, <1>4, <1>5, <1>6, <1>7, ImportStep

LEMMA LeaveKeeps ==
  ASSUME IInv, NEW t \in Thread, Leave(t)
  PROVE  IInv'
<1> USE DEF Leave, InPhase
<1> DEFINE rest == Tail(stack[t])
<1>1. stack \in [Thread -> Seq(Frame)] /\ stack[t] \in Seq(Frame) /\ stack[t] # <<>>
  BY DEF IInv, TypeOK
<1>2. status[Top(t).module] = "loaded"
  BY <1>1, TopFrame DEF Top
<1>3. /\ rest \in Seq(Frame) /\ Top(t) = stack[t][1]
      /\ \A k \in DOMAIN rest : k + 1 \in DOMAIN stack[t] /\ rest[k] = stack[t][k + 1]
      /\ rest # <<>> => rest[Len(rest)] = stack[t][Len(stack[t])]
      /\ rest = <<>> => stack[t][Len(stack[t])] = stack[t][1]
  BY <1>1, TailElements DEF Top
<1>4. stack'[t] = rest /\ stack' \in [Thread -> Seq(Frame)]
  BY <1>1, <1>3
<1>5. \A u \in Thread \ {t} : stack'[u] = stack[u]
  BY <1>1
<1>6. TypeOK' /\ LoadedIsComplete'
  <2>1. importLock' \in [owner : Thread \union {NoThread}, count : Int]
    <3>1. importLock \in [owner : Thread \union {NoThread}, count : Int] /\ importLock' = HeldAfter(t)
      BY DEF IInv, TypeOK
    <3>2. importLock' \in {importLock, [owner |-> NoThread, count |-> 0],
                          [importLock EXCEPT !.count = @ - 1]}
      BY ONLY <3>1 DEF HeldAfter
    <3> QED
      BY ONLY <3>1, <3>2
  <2> QED
    BY <1>4, <2>1 DEF IInv, TypeOK, LoadedIsComplete
<1>7. \A m \in Module : status[m] = "loaded" <=> status'[m] = "loaded"
  OBVIOUS
<1> HIDE DEF rest
<1>8. Frames(t)'
  <2> SUFFICES ASSUME NEW k \in DOMAIN rest
               PROVE  /\ rest[k].phase = "leave" => status'[rest[k].module] = "loaded"
                      /\ rest[k].phase = "body" /\ rest[k].line = Len(Imports[rest[k].module]) + 2
                           => rest[k].module \in classes'
    BY <1>4 DEF Frames
  <2>1. rest[k].module \in Module
    <3>1. rest[k] \in Frame
      BY <1>3, Elements
    <3> QED
      BY <3>1 DEF Frame
  <2>2. Frames(t) /\ k + 1 \in DOMAIN stack[t] /\ rest[k] = stack[t][k + 1]
    BY <1>3 DEF IInv, Local
  <2> QED
    BY <1>7, <2>1, <2>2 DEF Frames
<1>9. \A m \in Module : OnTheWay(t, m) => OnTheWay(t, m)'
  BY <1>2, <1>3, <1>4, <1>7 DEF OnTheWay, Asked
<1> QED
  BY <1>5, <1>6, <1>7, <1>8, <1>9, ImportStep

LEMMA ImportDependencyKeeps ==
  ASSUME IInv, NEW t \in Thread, ImportDependency(t)
  PROVE  IInv'
<1> DEFINE import == Imports[Top(t).module][Top(t).line]
           first == Entering(import.module, import.attribute)
           second == [Top(t) EXCEPT !.line = @ + 1]
           rest == Tail(stack[t])
           made == <<first, second>> \o rest
<1>1. /\ stack \in [Thread -> Seq(Frame)] /\ stack[t] \in Seq(Frame) /\ stack[t] # <<>>
      /\ Top(t).line <= Len(Imports[Top(t).module])
      /\ Top(t).phase = "body"
      /\ stack' = [stack EXCEPT ![t] = made]
      /\ UNCHANGED <<classes, complete, status, importLock, program, pc, missed, todo, answers>>
  <2>1. stack \in [Thread -> Seq(Frame)] /\ stack[t] \in Seq(Frame)
    BY DEF IInv, TypeOK
  <2>2. stack' = [stack EXCEPT ![t] = made]
    BY ONLY ImportDependency(t) DEF ImportDependency
  <2> QED
    BY <2>1, <2>2 DEF ImportDependency, InPhase, Top
<1>2. /\ Top(t) \in Frame /\ Top(t).module \in Module /\ Top(t).line \in Nat \ {0}
      /\ rest \in Seq(Frame)
  BY <1>1, TopFrame
<1>3. Imports[Top(t).module] \in Seq(Import)
  BY <1>2, RegistryAssumption
<1>4. import \in Import
  <2>1. Top(t).line \in DOMAIN Imports[Top(t).module]
    BY <1>1, <1>2, <1>3
  <2> QED
    BY <1>3, <2>1, Elements
<1>5. first \in Frame /\ first.phase \in {"enter", "find"}
  BY <1>4 DEF Entering, Import, Frame
<1>6. second \in Frame /\ second.module = Top(t).module /\ second.phase = "body"
      /\ second.line = Top(t).line + 1
  <2>1. Top(t).line + 1 \in Nat \ {0}
    BY <1>2
  <2> QED
    BY <1>1, <1>2, <2>1 DEF Frame
<1>7. Len(Imports[Top(t).module]) + 2 # Top(t).line + 1
  BY <1>1, <1>2, <1>3
<1>8. /\ Top(t) = stack[t][1] /\ Len(rest) = Len(stack[t]) - 1
      /\ \A k \in DOMAIN rest : k + 1 \in DOMAIN stack[t] /\ rest[k] = stack[t][k + 1]
      /\ rest # <<>> => rest[Len(rest)] = stack[t][Len(stack[t])]
      /\ rest = <<>> => stack[t][Len(stack[t])] = stack[t][1]
  BY <1>1, TailElements DEF Top
<1> HIDE DEF first, second, rest
<1>9. Len(rest) \in Nat /\ DOMAIN rest = 1..Len(rest) /\ (rest = <<>> <=> Len(rest) = 0)
  BY <1>2
<1>10. /\ made \in Seq(Frame) /\ Len(made) = Len(rest) + 2 /\ DOMAIN made = 1..Len(rest) + 2
       /\ made[1] = first /\ made[2] = second
       /\ \A k \in DOMAIN rest : made[k + 2] = rest[k]
  BY <1>2, <1>5, <1>6
<1> HIDE DEF made
<1>11. stack'[t] = made /\ stack' \in [Thread -> Seq(Frame)]
       /\ \A u \in Thread \ {t} : stack'[u] = stack[u]
  BY <1>1, <1>10
<1>12. TypeOK' /\ LoadedIsComplete'
  BY <1>1, <1>11 DEF IInv, TypeOK, LoadedIsComplete
<1>13. made[Len(made)].module = Asked(t) /\ made # <<>>
  <2>1. CASE rest = <<>>
    BY <1>6, <1>8, <1>9, <1>10, <2>1 DEF Asked
  <2>2. CASE rest # <<>>
    <3>1. Len(rest) \in DOMAIN rest
      BY <1>9, <2>2
    <3>2. made[Len(made)] = rest[Len(rest)]
      BY <1>10, <3>1
    <3> QED
      BY <1>8, <1>9, <1>10, <2>2, <3>2 DEF Asked
  <2> QED
    BY <2>1, <2>2
<1>14. Frames(t)'
  <2> SUFFICES ASSUME NEW k \in DOMAIN made
               PROVE  /\ made[k].phase = "leave" => status[made[k].module] = "loaded"
                      /\ made[k].phase = "body" /\ made[k].line = Len(Imports[made[k].module]) + 2
                           => made[k].module \in classes
    BY <1>1, <1>11 DEF Frames
  <2>1. CASE k = 1
    BY <1>5, <1>10, <2>1
  <2>2. CASE k = 2
    BY <1>6, <1>7, <1>10, <2>2
  <2>3. CASE k \notin {1, 2}
    <3>1. k - 2 \in DOMAIN rest /\ (k - 2) + 2 = k /\ (k - 2) + 1 = k - 1
      BY <1>9, <1>10, <2>3
    <3>2. made[k] = rest[k - 2] /\ k - 1 \in DOMAIN stack[t] /\ rest[k - 2] = stack[t][k - 1]
      BY <1>8, <1>10, <3>1
    <3>3. Frames(t)
      BY DEF IInv, Local
    <3> QED
      BY <3>2, <3>3 DEF Frames
  <2> QED
    BY <2>1, <2>2, <2>3
<1>15. \A m \in Module : OnTheWay(t, m) => OnTheWay(t, m)'
  BY <1>1, <1>11, <1>13 DEF OnTheWay, Asked
<1> QED
  BY <1>1, <1>11, <1>12, <1>14, <1>15, ImportStep

-----------------------------------------------------------------------------
(* A step of a call: the registry only grows, and the other threads stay   *)
(* where they are.                                                         *)
LEMMA CallStep ==
  ASSUME IInv, NEW t \in Thread, TypeOK', LoadedIsComplete', Local(t)',
         classes \subseteq classes', UNCHANGED status,
         \A u \in Thread \ {t} :
           /\ program'[u] = program[u] /\ pc'[u] = pc[u] /\ missed'[u] = missed[u]
           /\ todo'[u] = todo[u] /\ stack'[u] = stack[u] /\ answers'[u] = answers[u]
  PROVE  IInv'
<1>1. \A u \in Thread \ {t} : Local(u)'
  BY OthersKeep
<1> QED
  BY <1>1 DEF IInv

(* The first call of a thread's program and the calls after it.            *)
LEMMA FirstCall ==
  ASSUME IInv, NEW t \in Thread, program[t] # <<>>
  PROVE  /\ Head(program[t]) \in Call /\ Tail(program[t]) \in Seq(Call)
         /\ Head(program[t]).kind = "define" => Head(program[t]).name \in Custom
         /\ \A k \in DOMAIN Tail(program[t]) :
              Tail(program[t])[k].kind = "define" => Tail(program[t])[k].name \in Custom
<1>1. program[t] \in Seq(Call) /\ OwnNames(t)
  BY DEF IInv, TypeOK, Local
<1>2. /\ Tail(program[t]) \in Seq(Call) /\ Head(program[t]) \in Call
      /\ Head(program[t]) = program[t][1] /\ 1 \in DOMAIN program[t]
      /\ \A k \in DOMAIN Tail(program[t]) :
           k + 1 \in DOMAIN program[t] /\ Tail(program[t])[k] = program[t][k + 1]
  <2>1. Len(program[t]) \in Nat /\ Len(program[t]) # 0
    BY <1>1
  <2> QED
    BY <1>1, <2>1, TailElements
<1> QED
  BY <1>1, <1>2 DEF OwnNames

(* An answer that is right is added to the answers of a thread, whose call *)
(* is over.                                                                *)
LEMMA CallEnds ==
  ASSUME IInv, NEW t \in Thread, program[t] # <<>>, stack[t] = <<>>,
         LoadedIsComplete', complete' \subseteq classes', classes' = classes,
         UNCHANGED answers \/ \E a \in Answer : Right(a) /\ answers' = [answers EXCEPT ![t] = Append(@, a)],
         program' = [program EXCEPT ![t] = Tail(@)],
         pc' = [pc EXCEPT ![t] = "ready"],
         UNCHANGED <<status, importLock, missed, todo, stack>>
  PROVE  IInv'
<1>1. /\ program \in [Thread -> Seq(Call)] /\ answers \in [Thread -> Seq(Answer)]
      /\ answers[t] \in Seq(Answer) /\ Answered(t)
  BY DEF IInv, TypeOK, Local
<1>2. answers' \in [Thread -> Seq(Answer)] /\ Answered(t)' /\ \A u \in Thread \ {t} : answers'[u] = answers[u]
  <2>1. CASE UNCHANGED answers
    BY <1>1, <2>1 DEF Answered
  <2>2. ASSUME NEW a \in Answer, Right(a), answers' = [answers EXCEPT ![t] = Append(@, a)]
        PROVE  answers' \in [Thread -> Seq(Answer)] /\ Answered(t)'
    <3>1. /\ Append(answers[t], a) \in Seq(Answer)
          /\ \A k \in DOMAIN Append(answers[t], a) :
               \/ k \in DOMAIN answers[t] /\ Append(answers[t], a)[k] = answers[t][k]
               \/ Append(answers[t], a)[k] = a
      BY <1>1, AppendedElements
    <3>2. answers' \in [Thread -> Seq(Answer)] /\ answers'[t] = Append(answers[t], a)
      BY <1>1, <2>2, <3>1
    <3> QED
      BY <1>1, <2>2, <3>1, <3>2 DEF Answered
  <2> QED
    BY <1>1, <2>1, <2>2
<1>3. /\ Tail(program[t]) \in Seq(Call)
      /\ \A k \in DOMAIN Tail(program[t]) :
           Tail(program[t])[k].kind = "define" => Tail(program[t])[k].name \in Custom
  BY FirstCall
<1>4. TypeOK'
  <2>1. answers' \in [Thread -> Seq(Answer)]
    BY <1>2
  <2>2. program' \in [Thread -> Seq(Call)]
    BY <1>1, <1>3
  <2>3. pc' \in [Thread -> {"ready", "return", "classes", "define"}]
    BY DEF IInv, TypeOK
  <2> QED
    BY <2>1, <2>2, <2>3 DEF IInv, TypeOK
<1>5. OwnNames(t)' /\ Frames(t)' /\ Wanted(t)'
  <2>1. program'[t] = Tail(program[t]) /\ pc'[t] = "ready" /\ stack'[t] = <<>>
    BY <1>1 DEF IInv, TypeOK
  <2>2. OwnNames(t)'
    BY <1>3, <2>1 DEF OwnNames
  <2>3. Frames(t)'
    BY <2>1 DEF Frames
  <2>4. Wanted(t)'
    BY <2>1 DEF Wanted
  <2> QED
    BY <2>2, <2>3, <2>4
<1>6. /\ classes \subseteq classes' /\ UNCHANGED status
      /\ \A u \in Thread \ {t} :
           /\ program'[u] = program[u] /\ pc'[u] = pc[u] /\ missed'[u] = missed[u]
           /\ todo'[u] = todo[u] /\ stack'[u] = stack[u] /\ answers'[u] = answers[u]
  BY <1>1, <1>2 DEF IInv, TypeOK
<1> QED
  BY <1>2, <1>4, <1>5, <1>6, CallStep DEF Local

LEMMA ReturnKeeps ==
  ASSUME IInv, NEW t \in Thread, Return(t)
  PROVE  IInv'
<1> DEFINE call == Head(program[t])
           answer == [call |-> call, missed |-> missed[t],
                      found |-> call.name \in classes, complete |-> call.name \in complete]
<1>1. /\ pc[t] = "return" /\ stack[t] = <<>> /\ Wanted(t) /\ LoadedIsComplete
      /\ complete \subseteq classes /\ missed[t] \in BOOLEAN
  BY DEF IInv, Local, TypeOK, Return, At
<1>2. program[t] # <<>> /\ call \in Call
  BY <1>1, FirstCall DEF Wanted
<1>3. answer \in Answer
  BY <1>1, <1>2 DEF Answer
<1>4. Right(answer)
  <2>1. call.name \in Module =>
          IF call.kind = "attribute" \/ missed[t] THEN call.name \in complete ELSE call.name \in classes
    BY <1>1 DEF Wanted, OnTheWay, LoadedIsComplete
  <2>2. call.kind \in {"get", "attribute"}
    BY <1>1 DEF Wanted
  <2> QED
    BY <1>1, <2>1, <2>2 DEF Right
<1>5. answers' = [answers EXCEPT ![t] = Append(@, answer)]
  BY DEF Return
<1> HIDE DEF answer
<1>6. LoadedIsComplete'
  BY <1>1 DEF Return, LoadedIsComplete
<1> QED
  BY <1>1, <1>2, <1>3, <1>4, <1>5, <1>6, CallEnds DEF Return

LEMMA ReturnClassesKeeps ==
  ASSUME IInv, NEW t \in Thread, ReturnClasses(t)
  PROVE  IInv'
<1> DEFINE answer == [call |-> Head(program[t]), missed |-> missed[t],
                      found |-> Module \subseteq classes, complete |-> Module \subseteq complete]
<1>1. /\ pc[t] = "classes" /\ stack[t] = <<>> /\ todo[t] = <<>> /\ Wanted(t) /\ LoadedIsComplete
      /\ complete \subseteq classes /\ missed[t] \in BOOLEAN
  BY DEF IInv, Local, TypeOK, ReturnClasses, At
<1>2. program[t] # <<>> /\ Head(program[t]) \in Call
  BY <1>1, FirstCall DEF Wanted
<1>3. answer \in Answer
  BY <1>1, <1>2 DEF Answer
<1>4. Right(answer)
  <2>1. missed[t] => Module \subseteq complete
    <3>1. ToSet(todo[t]) = {}
      BY <1>1 DEF ToSet
    <3> QED
      BY <1>1, <3>1 DEF Wanted, OnTheWay, LoadedIsComplete
  <2>2. Head(program[t]).kind = "classes"
    BY <1>1 DEF Wanted
  <2> QED
    BY <1>1, <2>1, <2>2 DEF Right
<1>5. answers' = [answers EXCEPT ![t] = Append(@, answer)]
  BY DEF ReturnClasses
<1> HIDE DEF answer
<1>6. LoadedIsComplete'
  BY <1>1 DEF ReturnClasses, LoadedIsComplete
<1> QED
  BY <1>1, <1>2, <1>3, <1>4, <1>5, <1>6, CallEnds DEF ReturnClasses

LEMMA FinishDefinitionKeeps ==
  ASSUME IInv, NEW t \in Thread, FinishDefinition(t)
  PROVE  IInv'
<1>1. /\ program[t] # <<>> /\ Head(program[t]).name \in classes /\ stack[t] = <<>>
      /\ complete \subseteq classes /\ LoadedIsComplete
  BY DEF IInv, Local, TypeOK, FinishDefinition, At, Wanted
<1>2. LoadedIsComplete' /\ complete' \subseteq classes' /\ classes' = classes
  BY <1>1 DEF FinishDefinition, LoadedIsComplete
<1> QED
  BY <1>1, <1>2, CallEnds DEF FinishDefinition

LEMMA DefineKeeps ==
  ASSUME IInv, NEW t \in Thread, Define(t)
  PROVE  IInv'
<1>1. /\ program[t] # <<>> /\ stack[t] = <<>> /\ Local(t) /\ TypeOK /\ LoadedIsComplete
      /\ Head(program[t]).kind = "define"
  BY DEF IInv, Define, At
<1>2. Head(program[t]).name \in Custom /\ Head(program[t]).name \notin Module
  BY <1>1, FirstCall, RegistryAssumption
<1>3. LoadedIsComplete' /\ TypeOK'
  <2>1. LoadedIsComplete'
    BY <1>1, <1>2 DEF Define, LoadedIsComplete
  <2>2. pc' \in [Thread -> {"ready", "return", "classes", "define"}]
    BY <1>1 DEF Define, TypeOK
  <2> QED
    BY <1>1, <1>2, <2>1, <2>2 DEF Define, TypeOK
<1>4. /\ pc'[t] = "define" /\ program'[t] = program[t] /\ stack'[t] = <<>>
      /\ Head(program[t]).name \in classes' /\ answers'[t] = answers[t]
  BY <1>1 DEF Define, TypeOK
<1>5. Local(t)'
  <2>1. OwnNames(t)' /\ Answered(t)'
    BY <1>1, <1>4 DEF Local, OwnNames, Answered
  <2>2. Frames(t)'
    BY <1>4 DEF Frames
  <2>3. Wanted(t)'
    BY <1>1, <1>4 DEF Wanted
  <2> QED
    BY <2>1, <2>2, <2>3 DEF Local
<1>6. /\ classes \subseteq classes' /\ UNCHANGED status
      /\ \A u \in Thread \ {t} :
           /\ program'[u] = program[u] /\ pc'[u] = pc[u] /\ missed'[u] = missed[u]
           /\ todo'[u] = todo[u] /\ stack'[u] = stack[u] /\ answers'[u] = answers[u]
  BY <1>1 DEF Define, TypeOK
<1> QED
  BY <1>3, <1>5, <1>6, CallStep

(* A thread that makes no import, or has just begun one.                   *)
LEMMA FirstFrame ==
  ASSUME NEW m \in Module, NEW attribute \in BOOLEAN
  PROVE  /\ <<Entering(m, attribute)>> \in Seq(Frame) /\ <<Entering(m, attribute)>> # <<>>
         /\ <<Entering(m, attribute)>>[Len(<<Entering(m, attribute)>>)].module = m
         /\ \A k \in DOMAIN <<Entering(m, attribute)>> :
              <<Entering(m, attribute)>>[k].phase \in {"enter", "find"}
<1>1. Entering(m, attribute) \in Frame /\ Entering(m, attribute).module = m
      /\ Entering(m, attribute).phase \in {"enter", "find"}
  BY DEF Entering, Frame
<1> DEFINE frame == Entering(m, attribute)
<1> HIDE DEF frame
<1>2. <<frame>> \in Seq(Frame) /\ Len(<<frame>>) = 1 /\ DOMAIN <<frame>> = {1} /\ <<frame>>[1] = frame
  BY <1>1 DEF frame
<1> QED
  BY <1>1, <1>2 DEF frame

LEMMA BeginKeeps ==
  ASSUME IInv, NEW t \in Thread, Begin(t)
  PROVE  IInv'
<1> DEFINE call == Head(program[t])
           begun == IF call.name \in Module /\ NeedsImport(call)
                    THEN <<Entering(call.name, call.kind = "attribute")>> ELSE <<>>
<1>1. /\ program[t] # <<>> /\ stack[t] = <<>> /\ Local(t) /\ TypeOK /\ LoadedIsComplete
      /\ call.kind \in {"get", "attribute"}
      /\ missed' = [missed EXCEPT ![t] = call.name \notin classes]
      /\ stack' = [stack EXCEPT ![t] = begun]
      /\ pc' = [pc EXCEPT ![t] = "return"]
      /\ UNCHANGED <<classes, complete, status, importLock, program, todo, answers>>
  BY DEF IInv, Begin, At
<1>2. /\ begun \in Seq(Frame)
      /\ \A k \in DOMAIN begun : begun[k].phase \in {"enter", "find"}
      /\ call.name \in Module /\ NeedsImport(call) => begun # <<>> /\ begun[Len(begun)].module = call.name
  <2>1. CASE call.name \in Module /\ NeedsImport(call)
    <3>1. (call.kind = "attribute") \in BOOLEAN
      OBVIOUS
    <3> QED
      BY <2>1, <3>1, FirstFrame
  <2>2. CASE ~(call.name \in Module /\ NeedsImport(call))
    <3>1. begun = <<>> /\ <<>> \in Seq(Frame)
      BY <2>2
    <3> QED
      BY <2>2, <3>1
  <2> QED
    BY <2>1, <2>2
<1> HIDE DEF begun
<1>3. /\ pc'[t] = "return" /\ program'[t] = program[t] /\ stack'[t] = begun /\ answers'[t] = answers[t]
      /\ missed'[t] = (call.name \notin classes)
  BY <1>1 DEF TypeOK
<1>4. TypeOK' /\ LoadedIsComplete'
  <2>1. stack' \in [Thread -> Seq(Frame)] /\ pc' \in [Thread -> {"ready", "return", "classes", "define"}]
    BY <1>1, <1>2 DEF TypeOK
  <2>2. missed' \in [Thread -> BOOLEAN]
    BY <1>1 DEF TypeOK
  <2> QED
    BY <1>1, <2>1, <2>2 DEF TypeOK, LoadedIsComplete
<1>5. Local(t)'
  <2>1. OwnNames(t)' /\ Answered(t)'
    BY <1>1, <1>3 DEF Local, OwnNames, Answered
  <2>2. Frames(t)'
    BY <1>2, <1>3 DEF Frames
  <2>3. call.name \in Module =>
          IF call.kind = "attribute" \/ missed'[t] THEN OnTheWay(t, call.name)' ELSE call.name \in classes
    <3>1. call.name \in Module /\ NeedsImport(call) => stack'[t] # <<>> /\ stack'[t][Len(stack'[t])].module = call.name
      BY <1>2, <1>3
    <3> QED
      BY <1>1, <1>3, <3>1 DEF OnTheWay, Asked, NeedsImport
  <2>4. Wanted(t)'
    BY <1>1, <1>3, <2>3 DEF Wanted
  <2> QED
    BY <2>1, <2>2, <2>4 DEF Local
<1>6. /\ classes \subseteq classes' /\ UNCHANGED status
      /\ \A u \in Thread \ {t} :
           /\ program'[u] = program[u] /\ pc'[u] = pc[u] /\ missed'[u] = missed[u]
           /\ todo'[u] = todo[u] /\ stack'[u] = stack[u] /\ answers'[u] = answers[u]
  BY <1>1 DEF TypeOK
<1> QED
  BY <1>4, <1>5, <1>6, CallStep

LEMMA AllClassesKeeps ==
  ASSUME IInv, NEW t \in Thread, AllClasses(t)
  PROVE  IInv'
<1> DEFINE loads == Len(DIALECTS) # Cardinality(classes)
<1>1. /\ program[t] # <<>> /\ stack[t] = <<>> /\ Local(t) /\ TypeOK /\ LoadedIsComplete
      /\ Head(program[t]).kind = "classes"
      /\ missed' = [missed EXCEPT ![t] = loads]
      /\ todo' = [todo EXCEPT ![t] = IF loads THEN DIALECTS ELSE <<>>]
      /\ pc' = [pc EXCEPT ![t] = "classes"]
      /\ UNCHANGED <<classes, complete, status, importLock, program, stack, answers>>
  BY DEF IInv, AllClasses, At
<1>2. loads \in BOOLEAN
  OBVIOUS
<1> HIDE DEF loads
<1>3. /\ pc'[t] = "classes" /\ program'[t] = program[t] /\ stack'[t] = <<>> /\ answers'[t] = answers[t]
      /\ missed'[t] = loads /\ (loads => todo'[t] = DIALECTS)
  BY <1>1 DEF TypeOK
<1>4. TypeOK' /\ LoadedIsComplete'
  <2>1. pc' \in [Thread -> {"ready", "return", "classes", "define"}] /\ missed' \in [Thread -> BOOLEAN]
    BY <1>1, <1>2 DEF TypeOK
  <2>2. todo' \in [Thread -> Seq(Module)]
    <3>1. DIALECTS \in Seq(Module) /\ <<>> \in Seq(Module)
      BY RegistryAssumption
    <3> QED
      BY <1>1, <3>1 DEF TypeOK
  <2> QED
    BY <1>1, <2>1, <2>2 DEF TypeOK, LoadedIsComplete
<1>5. Local(t)'
  <2>1. OwnNames(t)' /\ Answered(t)'
    BY <1>1, <1>3 DEF Local, OwnNames, Answered
  <2>2. Frames(t)'
    BY <1>3 DEF Frames
  <2>3. missed'[t] => \A m \in Module : m \in ToSet(todo'[t])
    BY <1>3 DEF Module
  <2>4. Wanted(t)'
    BY <1>1, <1>3, <2>3 DEF Wanted
  <2> QED
    BY <2>1, <2>2, <2>4 DEF Local
<1>6. /\ classes \subseteq classes' /\ UNCHANGED status
      /\ \A u \in Thread \ {t} :
           /\ program'[u] = program[u] /\ pc'[u] = pc[u] /\ missed'[u] = missed[u]
           /\ todo'[u] = todo[u] /\ stack'[u] = stack[u] /\ answers'[u] = answers[u]
  BY <1>1 DEF TypeOK
<1> QED
  BY <1>4, <1>5, <1>6, CallStep

LEMMA TryLoadKeeps ==
  ASSUME IInv, NEW t \in Thread, TryLoad(t)
  PROVE  IInv'
<1> DEFINE m == Head(todo[t])
           begun == <<Entering(m, FALSE)>>
<1>1. /\ pc[t] = "classes" /\ stack[t] = <<>> /\ Local(t) /\ TypeOK /\ LoadedIsComplete
      /\ todo[t] # <<>> /\ todo[t] \in Seq(Module)
      /\ stack' = [stack EXCEPT ![t] = begun]
      /\ todo' = [todo EXCEPT ![t] = Tail(@)]
      /\ UNCHANGED <<classes, complete, status, importLock, program, pc, missed, answers>>
  BY DEF IInv, TypeOK, TryLoad, At
<1>2. /\ m \in Module /\ Tail(todo[t]) \in Seq(Module)
      /\ \A n \in ToSet(todo[t]) : n = m \/ n \in ToSet(Tail(todo[t]))
  <2>1. Len(todo[t]) \in Nat /\ Len(todo[t]) # 0 /\ DOMAIN todo[t] = 1..Len(todo[t])
    BY <1>1
  <2>2. m = todo[t][1] /\ m \in Module /\ Tail(todo[t]) \in Seq(Module) /\ Len(Tail(todo[t])) = Len(todo[t]) - 1
    BY <1>1, TailElements
  <2>3. ASSUME NEW k \in DOMAIN todo[t], k # 1
        PROVE  todo[t][k] \in ToSet(Tail(todo[t]))
    <3>1. k - 1 \in DOMAIN Tail(todo[t]) /\ (k - 1) + 1 = k
      BY <2>1, <2>2, <2>3
    <3>2. Tail(todo[t])[k - 1] = todo[t][k]
      BY <1>1, <3>1, TailElements
    <3> QED
      BY <3>1, <3>2 DEF ToSet
  <2> QED
    BY <2>2, <2>3 DEF ToSet
<1>3. /\ begun \in Seq(Frame) /\ begun # <<>> /\ begun[Len(begun)].module = m
      /\ \A k \in DOMAIN begun : begun[k].phase \in {"enter", "find"}
  BY <1>2, FirstFrame
<1> HIDE DEF begun, m
<1>4. /\ pc'[t] = "classes" /\ program'[t] = program[t] /\ answers'[t] = answers[t]
      /\ missed'[t] = missed[t] /\ stack'[t] = begun /\ todo'[t] = Tail(todo[t])
  BY <1>1 DEF TypeOK
<1>5. TypeOK' /\ LoadedIsComplete'
  <2>1. stack' \in [Thread -> Seq(Frame)] /\ todo' \in [Thread -> Seq(Module)]
    BY <1>1, <1>2, <1>3 DEF TypeOK
  <2> QED
    BY <1>1, <2>1 DEF TypeOK, LoadedIsComplete
<1>6. Local(t)'
  <2>1. OwnNames(t)' /\ Answered(t)'
    BY <1>1, <1>4 DEF Local, OwnNames, Answered
  <2>2. Frames(t)'
    BY <1>3, <1>4 DEF Frames
  <2>3. missed[t] => \A n \in Module : OnTheWay(t, n)' \/ n \in ToSet(todo'[t])
    <3>1. missed[t] => \A n \in Module : status[n] = "loaded" \/ n = m \/ n \in ToSet(Tail(todo[t]))
      BY <1>1, <1>2 DEF Local, Wanted, OnTheWay
    <3>2. \A n \in Module : status[n] = "loaded" \/ n = m => OnTheWay(t, n)'
      BY <1>1, <1>3, <1>4 DEF OnTheWay, Asked
    <3> QED
      BY <1>4, <3>1, <3>2
  <2>4. Wanted(t)'
    BY <1>1, <1>4, <2>3 DEF Wanted, Local
  <2> QED
    BY <2>1, <2>2, <2>4 DEF Local
<1>7. /\ classes \subseteq classes' /\ UNCHANGED status
      /\ \A u \in Thread \ {t} :
           /\ program'[u] = program[u] /\ pc'[u] = pc[u] /\ missed'[u] = missed[u]
           /\ todo'[u] = todo[u] /\ stack'[u] = stack[u] /\ answers'[u] = answers[u]
  BY <1>1 DEF TypeOK
<1> QED
  BY <1>5, <1>6, <1>7, CallStep

-----------------------------------------------------------------------------
LEMMA InitialInvariant ==
  Init => IInv
<1> SUFFICES ASSUME Init
             PROVE  IInv
  OBVIOUS
<1>1. program \in [Thread -> Seq(Call)] /\ \A t \in Thread : OwnNames(t)
  BY RegistryAssumption DEF Init, OwnNames
<1>2. <<>> \in Seq(Module) /\ <<>> \in Seq(Frame) /\ <<>> \in Seq(Answer)
  OBVIOUS
<1>3. TypeOK /\ LoadedIsComplete
  BY <1>1, <1>2 DEF Init, TypeOK, Status, LoadedIsComplete
<1>4. \A t \in Thread : Frames(t) /\ Wanted(t) /\ Answered(t)
  BY DEF Init, Frames, Wanted, Answered
<1> QED
  BY <1>1, <1>3, <1>4 DEF IInv, Local

LEMMA NextInvariant ==
  IInv /\ [Next]_vars => IInv'
<1> SUFFICES ASSUME IInv, [Next]_vars
             PROVE  IInv'
  OBVIOUS
<1>1. ASSUME NEW t \in Thread, Step(t)
      PROVE  IInv'
  BY <1>1, BeginKeeps, ReturnKeeps, AllClassesKeeps, TryLoadKeeps, ReturnClassesKeeps, DefineKeeps,
     FinishDefinitionKeeps, LockKeeps, FindKeeps, ImportDependencyKeeps, RegisterKeeps, CompleteKeeps,
     LeaveKeeps DEF Step
<1>2. CASE UNCHANGED vars
  <2>1. \A t \in Thread : Local(t)'
    BY <1>2, OthersKeep DEF vars
  <2> QED
    BY <1>2, <2>1 DEF IInv, TypeOK, LoadedIsComplete, vars
<1> QED
  BY <1>1, <1>2 DEF Next, Done

LEMMA InvariantAnswers ==
  IInv => KnownIsFound /\ ImportedIsComplete
<1> SUFFICES ASSUME IInv
             PROVE  KnownIsFound /\ ImportedIsComplete
  OBVIOUS
<1>1. \A a \in Returned : Right(a)
  <2> SUFFICES ASSUME NEW t \in Thread, NEW a \in ToSet(answers[t])
               PROVE  Right(a)
    BY DEF Returned
  <2> QED
    BY DEF IInv, Local, Answered, ToSet
<1> QED
  BY <1>1 DEF KnownIsFound, ImportedIsComplete, Right

(* The registry holds dialects, every finished class is in it, and threads *)
(* stay within their calls and imports.                                    *)
THEOREM TypeCorrect == Spec => []TypeOK
<1>1. IInv => TypeOK
  BY DEF IInv
<1> QED
  BY <1>1, InitialInvariant, NextInvariant, PTL DEF Spec

(* However many threads ask for dialects, and however the steps of their   *)
(* imports interleave, a dialect of this package is found.                 *)
THEOREM KnownDialectsAreFound == Spec => []KnownIsFound
  BY InitialInvariant, NextInvariant, InvariantAnswers, PTL DEF Spec

(* What a call through the import system returns is finished: the class    *)
(* that another thread is making is waited for, and the property classes   *)
(* returns after every module it set out to load was executed.             *)
THEOREM ImportedDialectsAreComplete == Spec => []ImportedIsComplete
  BY InitialInvariant, NextInvariant, InvariantAnswers, PTL DEF Spec
=============================================================================
