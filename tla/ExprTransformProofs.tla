------------------------ MODULE ExprTransformProofs ------------------------
(***************************************************************************)
(* For every finite set of nodes: whatever edits are made of a tree, it    *)
(* stays a tree whose nodes refer back to where they hang; transform hands *)
(* every node of the old tree to its function at most once and none it     *)
(* made; what transform has built when it ends is what one gets by         *)
(* rebuilding every node from what was returned for its arguments; and     *)
(* replace changes nothing but the tree at the place of one node.          *)
(***************************************************************************)
EXTENDS ExprTransform, FiniteSetTheorems, WellFoundedInduction, TLAPS

-----------------------------------------------------------------------------
(* Numbers, and recursion over them.                                       *)

LEMMA BelowIsWellFounded ==
  IsWellFoundedOn({p \in Nat \X Nat : p[1] < p[2]}, Nat)
BY NatLessThanWellFounded DEF OpToRel

LEMMA LeastNumber ==
  ASSUME NEW T \in SUBSET Nat, T # {}
  PROVE  \E x \in T : \A y \in T : x <= y
<1> DEFINE R == {p \in Nat \X Nat : p[1] < p[2]}
<1>1. PICK x \in T : \A y \in T : ~ (<<y, x>> \in R)
  <2> HIDE DEF R
  <2> IsWellFoundedOn(R, Nat)
    BY BelowIsWellFounded DEF R
  <2> QED BY WFMin
<1>2. ASSUME NEW y \in T PROVE x <= y
  <2>1. <<y, x>> \notin R
    BY <1>1
  <2>2. x \in Nat /\ y \in Nat
    OBVIOUS
  <2>3. ~(y < x)
    BY <2>1, <2>2
  <2> QED BY <2>2, <2>3
<1> QED BY <1>2

(* What holds of 0 and, if of n - 1, then of n, holds up to N.             *)
LEMMA UpTo ==
  ASSUME NEW N \in Nat, NEW P, 0 \in P, \A n \in 1..N : n - 1 \in P => n \in P
  PROVE  \A n \in 0..N : n \in P
<1> DEFINE T == {n \in 0..N : n \notin P}
<1>1. SUFFICES ASSUME T # {} PROVE FALSE
  OBVIOUS
<1>2. T \in SUBSET Nat
  OBVIOUS
<1>3. PICK x \in T : \A y \in T : x <= y
  <2> HIDE DEF T
  <2> QED BY <1>1, <1>2, LeastNumber
<1>4. x # 0 /\ x \in 0..N /\ x \notin P
  OBVIOUS
<1>5. x - 1 \in 0..N /\ x \in 1..N /\ ~(x <= x - 1)
  BY <1>4
<1>6. x - 1 \in P
  BY <1>3, <1>5
<1> QED BY <1>4, <1>5, <1>6

Recursive(g, N, S, s0, next) ==
  g \in [0..N -> S] /\ g[0] = s0 /\ \A n \in 1..N : g[n] = next[<<n, g[n - 1]>>]

(* Recursion up to N defines a function.                                   *)
LEMMA Recursion ==
  ASSUME NEW N \in Nat, NEW S, NEW s0 \in S, NEW next \in [(1..N) \X S -> S]
  PROVE  \E g : Recursive(g, N, S, s0, next)
<1> USE DEF Recursive
<1> DEFINE Def(g, m) == Recursive(g, m, S, s0, next)
           P == {m \in 0..N : \E g : Def(g, m)}
<1>1. 0 \in P
  <2> DEFINE f == [n \in 0..0 |-> s0]
  <2>1. Def(f, 0)
    OBVIOUS
  <2>2. \E g : Def(g, 0)
    <3> HIDE DEF f, Def
    <3> QED BY <2>1
  <2>3. 0 \in 0..N
    OBVIOUS
  <2> QED BY <2>2, <2>3
<1>2. ASSUME NEW m \in 1..N, m - 1 \in P PROVE m \in P
  <2>1. PICK g : Def(g, m - 1)
    BY <1>2
  <2> DEFINE f == [n \in 0..m |-> IF n = m THEN next[<<m, g[m - 1]>>] ELSE g[n]]
  <2>2. g[m - 1] \in S
    BY <2>1
  <2>3. f \in [0..m -> S]
    <3>1. next[<<m, g[m - 1]>>] \in S
      BY <2>2
    <3>2. ASSUME NEW n \in 0..m, n # m PROVE g[n] \in S
      <4>1. n \in 0..(m - 1)
        BY <3>2
      <4> QED BY <2>1, <4>1
    <3> QED BY <3>1, <3>2
  <2>4. f[0] = s0
    BY <2>1
  <2>5. ASSUME NEW n \in 1..m PROVE f[n] = next[<<n, f[n - 1]>>]
    <3>1. n - 1 \in 0..m /\ n - 1 # m
      OBVIOUS
    <3>2. f[n - 1] = g[n - 1]
      BY <3>1
    <3>3. CASE n = m
      BY <3>2, <3>3
    <3>4. CASE n # m
      <4>1. n \in 1..(m - 1) /\ f[n] = g[n]
        BY <3>4
      <4> QED BY <2>1, <3>2, <4>1
    <3> QED BY <3>3, <3>4
  <2>6. Def(f, m)
    BY <2>3, <2>4, <2>5
  <2>7. \E h : Def(h, m)
    <3> HIDE DEF f, Def
    <3> QED BY <2>6
  <2>8. m \in 0..N
    OBVIOUS
  <2> QED BY <2>7, <2>8
<1>3. \A n \in 0..N : n \in P
  <2> HIDE DEF P
  <2> QED BY <1>1, <1>2, UpTo
<1>4. N \in 0..N
  OBVIOUS
<1>5. PICK g : Def(g, N)
  BY <1>3, <1>4
<1> QED BY <1>5

-----------------------------------------------------------------------------
(* What Below computes: the least set that holds a node and, of each node  *)
(* in it, the children.                                                    *)

Size == Cardinality(Node)

ReachOf(h, n) ==
  LET reach[k \in 0..Size] ==
        IF k = 0 THEN {n}
        ELSE reach[k - 1] \union UNION {Children(h, m) : m \in reach[k - 1]}
  IN reach

LEMMA SizeIsNumber == Size \in Nat
BY TreeAssumption, FS_CardinalityType DEF Size

LEMMA ChildrenAreNodes ==
  ASSUME NEW h \in Heap, NEW n \in Node
  PROVE  Children(h, n) \subseteq Node
<1>1. h.this[n] \in Node \union {None} /\ h.expressions[n] \in Seq(Node)
  BY DEF Heap
<1> DEFINE l == h.expressions[n]
<1>2. \A i \in DOMAIN l : l[i] \in Node
  <2>1. l \in Seq(Node)
    BY <1>1
  <2> HIDE DEF l
  <2> QED BY <2>1
<1> QED BY <1>1, <1>2 DEF Children, ToSet

LEMMA ReachStepByStep ==
  ASSUME NEW h \in Heap, NEW n \in Node
  PROVE  /\ ReachOf(h, n) \in [0..Size -> SUBSET Node]
         /\ ReachOf(h, n)[0] = {n}
         /\ \A k \in 1..Size :
              ReachOf(h, n)[k] = ReachOf(h, n)[k - 1]
                                 \union UNION {Children(h, m) : m \in ReachOf(h, n)[k - 1]}
<1> DEFINE More(T) == T \union UNION {Children(h, m) : m \in T}
           Body(f) == [k \in 0..Size |-> IF k = 0 THEN {n} ELSE More(f[k - 1])]
           reach == ReachOf(h, n)
           S == SUBSET Node
           s0 == {n}
           next == [p \in (1..Size) \X S |-> More(p[2])]
<1>1. \A T \in S : More(T) \in S
  BY ChildrenAreNodes
<1>2. reach = CHOOSE f : f = Body(f)
  BY DEF ReachOf
<1>3. Size \in Nat
  BY SizeIsNumber
<1>4. next \in [(1..Size) \X S -> S]
  <2> HIDE DEF More, S
  <2> QED BY <1>1
<1>5. PICK g : Recursive(g, Size, S, s0, next)
  <2>1. s0 \in S
    OBVIOUS
  <2> HIDE DEF next, S, s0
  <2> QED BY <1>3, <1>4, <2>1, Recursion
<1>6. /\ g \in [0..Size -> S] /\ g[0] = {n}
      /\ \A k \in 1..Size : g[k] = More(g[k - 1])
  <2>1. g \in [0..Size -> S] /\ g[0] = s0 /\ \A k \in 1..Size : g[k] = next[<<k, g[k - 1]>>]
    BY <1>5 DEF Recursive
  <2>2. ASSUME NEW k \in 1..Size PROVE g[k] = More(g[k - 1])
    <3>1. k - 1 \in 0..Size
      BY <1>3
    <3>2. g[k - 1] \in S
      BY <2>1, <3>1
    <3>3. next[<<k, g[k - 1]>>] = More(g[k - 1])
      <4> HIDE DEF More, S
      <4> QED BY <3>2
    <3> QED BY <2>1, <3>3
  <2> QED BY <2>1, <2>2
<1> HIDE DEF reach, next, S, More
<1>7. g = Body(g)
  <2>1. ASSUME NEW k \in 0..Size PROVE g[k] = Body(g)[k]
    <3>1. CASE k = 0
      BY <1>6, <3>1
    <3>2. CASE k # 0
      <4>1. k \in 1..Size
        BY <1>3, <3>2
      <4> QED BY <1>6, <3>2, <4>1
    <3> QED BY <3>1, <3>2
  <2>2. Body(g) = [k \in 0..Size |-> Body(g)[k]]
    OBVIOUS
  <2>3. g = [k \in 0..Size |-> g[k]]
    BY <1>6
  <2> HIDE DEF Body
  <2> QED BY <2>1, <2>2, <2>3
<1>8. reach = Body(reach)
  <2> HIDE DEF Body
  <2> QED BY <1>2, <1>7
<1>9. reach[0] = {n}
  <2>1. 0 \in 0..Size /\ Body(reach)[0] = {n}
    BY <1>3
  <2> HIDE DEF Body
  <2> QED BY <1>8, <2>1
<1>10. ASSUME NEW k \in 1..Size PROVE reach[k] = More(reach[k - 1])
  <2>1. k \in 0..Size /\ k # 0
    BY <1>3
  <2>2. Body(reach)[k] = More(reach[k - 1])
    BY <2>1
  <2> HIDE DEF Body
  <2> QED BY <1>8, <2>2
<1> DEFINE P == {k \in 0..Size : reach[k] \in S}
<1>11. \A k \in 0..Size : k \in P
  <2>1. 0 \in P
    <3>1. 0 \in 0..Size /\ {n} \in S
      BY <1>3 DEF S
    <3> QED BY <1>9, <3>1
  <2>2. ASSUME NEW k \in 1..Size, k - 1 \in P PROVE k \in P
    <3>1. k \in 0..Size /\ reach[k - 1] \in S
      BY <1>3, <2>2
    <3>2. reach[k] \in S
      BY <1>1, <1>10, <3>1
    <3> QED BY <3>1, <3>2
  <2> HIDE DEF P
  <2> QED BY <1>3, <2>1, <2>2, UpTo
<1>12. reach \in [0..Size -> S]
  <2>1. Body(reach) = [k \in 0..Size |-> Body(reach)[k]]
    OBVIOUS
  <2>2. reach = [k \in 0..Size |-> reach[k]]
    <3> HIDE DEF Body
    <3> QED BY <1>8, <2>1
  <2>3. \A k \in 0..Size : reach[k] \in S
    BY <1>11
  <2> QED BY <2>2, <2>3
<1> QED BY <1>9, <1>10, <1>12 DEF reach, More, S

LEMMA BelowIsReach ==
  ASSUME NEW h, NEW n
  PROVE  Below(h, n) = ReachOf(h, n)[Size]
BY DEF Below, ReachOf, Size

Closed(h, T) == \A m \in T : Children(h, m) \subseteq T

(* A set that holds a node and is closed holds all that is below the node. *)
LEMMA BelowIsLeast ==
  ASSUME NEW h \in Heap, NEW n \in Node, NEW T, n \in T, Closed(h, T)
  PROVE  Below(h, n) \subseteq T
<1> DEFINE reach == ReachOf(h, n)
           P == {k \in 0..Size : reach[k] \subseteq T}
<1>1. /\ reach[0] = {n}
      /\ \A k \in 1..Size : reach[k] = reach[k - 1] \union UNION {Children(h, m) : m \in reach[k - 1]}
  BY ReachStepByStep
<1>2. Size \in Nat
  BY SizeIsNumber
<1> HIDE DEF reach
<1>3. 0 \in P
  BY <1>1, <1>2
<1>4. ASSUME NEW k \in 1..Size, k - 1 \in P PROVE k \in P
  <2>1. k \in 0..Size /\ reach[k - 1] \subseteq T
    BY <1>2, <1>4
  <2>2. reach[k] \subseteq T
    BY <1>1, <2>1 DEF Closed
  <2> QED BY <2>1, <2>2
<1>5. \A k \in 0..Size : k \in P
  <2> HIDE DEF P
  <2> QED BY <1>2, <1>3, <1>4, UpTo
<1>6. Size \in P
  BY <1>2, <1>5
<1> QED BY <1>6, BelowIsReach DEF reach

(* Below is that set: as long as it grows it grows by a node in each step, *)
(* and there are no more steps than nodes.                                 *)
LEMMA BelowIsClosed ==
  ASSUME NEW h \in Heap, NEW n \in Node
  PROVE  n \in Below(h, n) /\ Below(h, n) \subseteq Node /\ Closed(h, Below(h, n))
<1> DEFINE reach == ReachOf(h, n)
           P == {k \in 0..Size : n \in reach[k] /\ (Closed(h, reach[k]) \/ Cardinality(reach[k]) >= k + 1)}
<1>1. /\ reach[0] = {n}
      /\ \A k \in 1..Size : reach[k] = reach[k - 1] \union UNION {Children(h, m) : m \in reach[k - 1]}
      /\ reach \in [0..Size -> SUBSET Node]
  BY ReachStepByStep
<1>2. Size \in Nat /\ IsFiniteSet(Node)
  BY SizeIsNumber, TreeAssumption
<1> HIDE DEF reach
<1>3. 0 \in P
  <2>1. Cardinality({n}) = 1
    BY FS_Singleton
  <2>2. 0 \in 0..Size /\ n \in reach[0] /\ Cardinality(reach[0]) = 1
    BY <1>1, <1>2, <2>1
  <2> QED BY <2>2
<1>4. ASSUME NEW k \in 1..Size, k - 1 \in P PROVE k \in P
  <2> DEFINE old == reach[k - 1]
             new == reach[k]
  <2>1. k \in 0..Size /\ k - 1 \in 0..Size /\ n \in old
        /\ (Closed(h, old) \/ Cardinality(old) >= k)
    BY <1>2, <1>4
  <2>2. old \in SUBSET Node /\ new \in SUBSET Node
    BY <1>1, <2>1
  <2>3. new = old \union UNION {Children(h, m) : m \in old}
    BY <1>1
  <2> HIDE DEF old, new
  <2>4. n \in new /\ old \in SUBSET new
    BY <2>1, <2>3
  <2>5. CASE Closed(h, old)
    <3>1. new = old
      BY <2>3, <2>5 DEF Closed
    <3> QED BY <2>1, <2>4, <2>5, <3>1 DEF new
  <2>6. CASE ~Closed(h, old)
    <3>1. new # old
      BY <2>3, <2>6 DEF Closed
    <3>2. IsFiniteSet(new) /\ IsFiniteSet(old)
      BY <1>2, <2>2, FS_Subset
    <3>3. Cardinality(old) <= Cardinality(new) /\ (Cardinality(new) = Cardinality(old) => new = old)
      BY <2>4, <3>2, FS_Subset
    <3>4. Cardinality(old) \in Nat /\ Cardinality(new) \in Nat
      BY <3>2, FS_CardinalityType
    <3>5. Cardinality(old) >= k
      BY <2>1, <2>6
    <3>6. Cardinality(new) >= k + 1
      BY <3>1, <3>3, <3>4, <3>5
    <3> QED BY <2>1, <2>4, <3>6 DEF new
  <2> QED BY <2>5, <2>6
<1>5. \A k \in 0..Size : k \in P
  <2> HIDE DEF P
  <2> QED BY <1>2, <1>3, <1>4, UpTo
<1>6. Size \in P /\ Size \in 0..Size
  BY <1>2, <1>5
<1>7. reach[Size] \in SUBSET Node
  BY <1>1, <1>6
<1>8. Cardinality(reach[Size]) <= Size /\ Cardinality(reach[Size]) \in Nat
  BY <1>2, <1>7, FS_Subset, FS_CardinalityType DEF Size
<1>9. n \in reach[Size] /\ Closed(h, reach[Size])
  BY <1>2, <1>6, <1>8
<1> QED BY <1>7, <1>9, BelowIsReach DEF reach

(* Every node below another one but that one itself is the child of a node *)
(* there.                                                                  *)
LEMMA BelowIsChild ==
  ASSUME NEW h \in Heap, NEW n \in Node, NEW x \in Below(h, n), x # n
  PROVE  \E m \in Below(h, n) : x \in Children(h, m)
<1> DEFINE T == Below(h, n) \ {x}
<1>1. SUFFICES ASSUME \A m \in Below(h, n) : x \notin Children(h, m) PROVE FALSE
  OBVIOUS
<1>2. n \in T /\ Closed(h, T)
  BY <1>1, BelowIsClosed DEF Closed
<1>3. Below(h, n) \subseteq T
  <2> HIDE DEF T
  <2> QED BY <1>2, BelowIsLeast
<1> QED BY <1>3

LEMMA BelowGoesDown ==
  ASSUME NEW h \in Heap, NEW n \in Node, NEW m \in Below(h, n)
  PROVE  Below(h, m) \subseteq Below(h, n)
<1>1. m \in Node /\ Closed(h, Below(h, n))
  BY BelowIsClosed
<1> QED BY <1>1, BelowIsLeast

-----------------------------------------------------------------------------
(* A tree, node by node: a set of nodes that holds with each node its      *)
(* children, none of which is the top, and every node of which is referred *)
(* back to by its children.                                                *)

HangsAt(h, c, n, key, i) == h.parent[c] = n /\ h.arg_key[c] = key /\ h.index[c] = i

RefersBack(h, n) ==
  /\ h.this[n] # None => HangsAt(h, h.this[n], n, "this", None)
  /\ \A i \in 1..Len(h.expressions[n]) : HangsAt(h, h.expressions[n][i], n, "expressions", i - 1)

Sound(h, top, S) ==
  /\ top \in S /\ S \subseteq Node
  /\ \A n \in S : Children(h, n) \subseteq S \ {top} /\ RefersBack(h, n)

LEMMA FieldsOfNode ==
  ASSUME NEW h \in Heap, NEW n \in Node
  PROVE  /\ h.this[n] \in Node \union {None}
         /\ h.expressions[n] \in Seq(Node)
         /\ Len(h.expressions[n]) \in Nat
         /\ DOMAIN h.expressions[n] = 1..Len(h.expressions[n])
         /\ \A i \in 1..Len(h.expressions[n]) : h.expressions[n][i] \in Node
<1>1. h.this[n] \in Node \union {None} /\ h.expressions[n] \in Seq(Node)
  BY DEF Heap
<1> DEFINE l == h.expressions[n]
<1>2. l \in Seq(Node)
  BY <1>1
<1> HIDE DEF l
<1>3. Len(l) \in Nat /\ DOMAIN l = 1..Len(l) /\ \A i \in 1..Len(l) : l[i] \in Node
  BY <1>2
<1> QED BY <1>1, <1>3 DEF l

LEMMA ChildrenAre ==
  ASSUME NEW h \in Heap, NEW n \in Node
  PROVE  /\ \A x \in Children(h, n) :
              (h.this[n] # None /\ x = h.this[n]) \/ \E i \in 1..Len(h.expressions[n]) : x = h.expressions[n][i]
         /\ h.this[n] # None => h.this[n] \in Children(h, n)
         /\ \A i \in 1..Len(h.expressions[n]) : h.expressions[n][i] \in Children(h, n)
<1>1. DOMAIN h.expressions[n] = 1..Len(h.expressions[n])
  BY FieldsOfNode
<1> QED BY <1>1 DEF Children, ToSet

(* A child knows its parent.                                               *)
LEMMA ParentOfChild ==
  ASSUME NEW h \in Heap, NEW n \in Node, RefersBack(h, n), NEW x \in Children(h, n)
  PROVE  h.parent[x] = n
BY ChildrenAre DEF RefersBack, HangsAt

LEMMA PlacesAre ==
  ASSUME NEW h, NEW top, NEW c, NEW p
  PROVE  p \in PlacesOf(h, top, c) <=>
           \/ \E n \in Below(h, top) : h.this[n] = c /\ p = Place(n, "this", None)
           \/ \E n \in Below(h, top), i \in 0..Size :
                i < Len(h.expressions[n]) /\ h.expressions[n][i + 1] = c /\ p = Place(n, "expressions", i)
BY DEF PlacesOf, Place, Size

(* The list of a node to which its children refer back has no more members *)
(* than there are nodes.                                                   *)
LEMMA ListFits ==
  ASSUME NEW h \in Heap, NEW n \in Node, RefersBack(h, n)
  PROVE  Len(h.expressions[n]) <= Size
<1> DEFINE l == h.expressions[n]
           k == Len(l)
<1>1. k \in Nat /\ \A i \in 1..k : l[i] \in Node
  BY FieldsOfNode
<1>2. \A i, j \in 1..k : l[i] = l[j] => i = j
  <2>1. \A i \in 1..k : h.index[l[i]] = i - 1
    BY DEF RefersBack, HangsAt
  <2> HIDE DEF l, k
  <2>2. \A i, j \in 1..k : i - 1 = j - 1 => i = j
    BY <1>1
  <2> QED BY <2>1, <2>2
<1> HIDE DEF l, k
<1> DEFINE f == [i \in 1..k |-> l[i]]
<1>3. f \in Injection(1..k, Node)
  BY <1>1, <1>2 DEF Injection, IsInjective
<1>4. Cardinality(1..k) <= Size
  <2> HIDE DEF f
  <2> QED BY <1>3, TreeAssumption, FS_Injection DEF Size
<1>5. Cardinality(1..k) = k
  <2>1. Cardinality(1..k) = IF 1 > k THEN 0 ELSE k - 1 + 1
    BY <1>1, FS_Interval
  <2> QED BY <1>1, <2>1
<1> QED BY <1>4, <1>5 DEF k, l

LEMMA SoundIsTree ==
  ASSUME NEW h \in Heap, NEW top \in Node, NEW S, Sound(h, top, S)
  PROVE  IsTree(h, top) /\ Below(h, top) \subseteq S
<1>1. Closed(h, S) /\ top \in S
  BY DEF Sound, Closed
<1>2. Below(h, top) \subseteq S /\ S \subseteq Node
  BY <1>1, BelowIsLeast DEF Sound
<1>3. ASSUME NEW c, NEW p \in PlacesOf(h, top, c), c # None PROVE c # top /\ p = BackPlace(h, c)
  <2>1. CASE \E n \in Below(h, top) : h.this[n] = c /\ p = Place(n, "this", None)
    <3>1. PICK n \in Below(h, top) : h.this[n] = c /\ p = Place(n, "this", None)
      BY <2>1
    <3>2. n \in S /\ n \in Node /\ RefersBack(h, n) /\ top \notin Children(h, n)
      BY <1>2 DEF Sound
    <3>3. c # top
      BY <1>3, <3>1, <3>2, ChildrenAre
    <3>4. HangsAt(h, c, n, "this", None)
      BY <1>3, <3>1, <3>2 DEF RefersBack
    <3> QED BY <3>1, <3>3, <3>4 DEF HangsAt, BackPlace
  <2>2. CASE \E n \in Below(h, top), i \in 0..Size :
               i < Len(h.expressions[n]) /\ h.expressions[n][i + 1] = c /\ p = Place(n, "expressions", i)
    <3>1. PICK n \in Below(h, top), i \in 0..Size :
               i < Len(h.expressions[n]) /\ h.expressions[n][i + 1] = c /\ p = Place(n, "expressions", i)
      BY <2>2
    <3>2. n \in S /\ n \in Node /\ RefersBack(h, n) /\ top \notin Children(h, n)
      BY <1>2 DEF Sound
    <3>3. i + 1 \in 1..Len(h.expressions[n]) /\ (i + 1) - 1 = i
      BY <3>1, <3>2, SizeIsNumber, FieldsOfNode
    <3>4. c # top
      BY <3>1, <3>2, <3>3, ChildrenAre
    <3>5. HangsAt(h, c, n, "expressions", i)
      BY <3>1, <3>2, <3>3 DEF RefersBack
    <3> QED BY <3>1, <3>4, <3>5 DEF HangsAt, BackPlace
  <2> QED BY <1>3, <2>1, <2>2, PlacesAre
<1>4. top # None
  BY TreeAssumption
<1>5. PlacesOf(h, top, top) = {}
  BY <1>3, <1>4
<1>6. ASSUME NEW c \in Below(h, top) \ {top} PROVE PlacesOf(h, top, c) = {BackPlace(h, c)}
  <2>1. c # None
    BY <1>2, TreeAssumption
  <2>2. PICK n \in Below(h, top) : c \in Children(h, n)
    BY <1>6, BelowIsChild
  <2>3. n \in Node /\ RefersBack(h, n)
    BY <1>2 DEF Sound
  <2>4. PlacesOf(h, top, c) # {}
    <3>1. CASE c = h.this[n]
      <4>1. Place(n, "this", None) \in PlacesOf(h, top, c)
        BY <3>1, PlacesAre
      <4> QED BY <4>1
    <3>2. CASE \E i \in 1..Len(h.expressions[n]) : c = h.expressions[n][i]
      <4>1. PICK i \in 1..Len(h.expressions[n]) : c = h.expressions[n][i]
        BY <3>2
      <4>2. Len(h.expressions[n]) <= Size /\ Len(h.expressions[n]) \in Nat /\ Size \in Nat
        BY <2>3, ListFits, FieldsOfNode, SizeIsNumber
      <4>3. i - 1 \in 0..Size /\ i - 1 < Len(h.expressions[n]) /\ (i - 1) + 1 = i
        BY <4>2
      <4>4. Place(n, "expressions", i - 1) \in PlacesOf(h, top, c)
        BY <4>1, <4>3, PlacesAre
      <4> QED BY <4>4
    <3> QED BY <2>2, <2>3, <3>1, <3>2, ChildrenAre
  <2> QED BY <1>3, <2>1, <2>4
<1> QED BY <1>2, <1>5, <1>6 DEF IsTree

LEMMA TreeIsSound ==
  ASSUME NEW h \in Heap, NEW top \in Node, IsTree(h, top)
  PROVE  Sound(h, top, Below(h, top))
<1>1. top \in Below(h, top) /\ Below(h, top) \subseteq Node /\ Closed(h, Below(h, top))
  BY BelowIsClosed
<1>2. \A c \in Below(h, top) : \A p \in PlacesOf(h, top, c) : c # top /\ p = BackPlace(h, c)
  BY DEF IsTree
<1>3. ASSUME NEW n \in Below(h, top) PROVE Children(h, n) \subseteq Below(h, top) \ {top} /\ RefersBack(h, n)
  <2>1. n \in Node /\ Children(h, n) \subseteq Below(h, top)
    BY <1>1 DEF Closed
  <2>2. ASSUME h.this[n] # None PROVE h.this[n] # top /\ HangsAt(h, h.this[n], n, "this", None)
    <3>1. h.this[n] \in Below(h, top)
      BY <2>1, <2>2, ChildrenAre
    <3>2. Place(n, "this", None) \in PlacesOf(h, top, h.this[n])
      BY PlacesAre
    <3>3. h.this[n] # top /\ Place(n, "this", None) = BackPlace(h, h.this[n])
      BY <1>2, <3>1, <3>2
    <3> QED BY <3>3 DEF Place, BackPlace, HangsAt
  <2> DEFINE l == h.expressions[n]
  <2>3. Len(l) \in Nat /\ Size \in Nat
    BY <2>1, FieldsOfNode, SizeIsNumber
  <2>4. ASSUME NEW i \in 0..Size, i < Len(l)
        PROVE  l[i + 1] # top /\ HangsAt(h, l[i + 1], n, "expressions", i)
    <3>1. i + 1 \in 1..Len(l)
      BY <2>3, <2>4
    <3>2. l[i + 1] \in Below(h, top)
      BY <2>1, <3>1, ChildrenAre
    <3>3. Place(n, "expressions", i) \in PlacesOf(h, top, l[i + 1])
      BY <2>4, PlacesAre
    <3>4. l[i + 1] # top /\ Place(n, "expressions", i) = BackPlace(h, l[i + 1])
      BY <1>2, <3>2, <3>3
    <3> QED BY <3>4 DEF Place, BackPlace, HangsAt
  <2>5. Len(l) <= Size
    <3>1. SUFFICES ASSUME Len(l) > Size PROVE FALSE
      BY <2>3
    <3> DEFINE f == [i \in 0..Size |-> l[i + 1]]
    <3>2. \A i \in 0..Size : i < Len(l) /\ i + 1 \in 1..Len(l)
      BY <2>3, <3>1
    <3>3. \A i \in 0..Size : h.index[l[i + 1]] = i /\ l[i + 1] \in Node
      <4>1. \A i \in 1..Len(l) : l[i] \in Node
        BY <2>1, FieldsOfNode
      <4> HIDE DEF l
      <4> QED BY <2>4, <3>2, <4>1 DEF HangsAt
    <3>4. f \in Injection(0..Size, Node)
      <4> HIDE DEF l
      <4> QED BY <3>3 DEF Injection, IsInjective
    <3>5. Cardinality(0..Size) <= Size
      <4> HIDE DEF f
      <4> QED BY <3>4, TreeAssumption, FS_Injection DEF Size
    <3>6. Cardinality(0..Size) = Size + 1
      <4>1. Cardinality(0..Size) = IF 0 > Size THEN 0 ELSE Size - 0 + 1
        BY <2>3, FS_Interval
      <4> QED BY <2>3, <4>1
    <3> QED BY <2>3, <3>5, <3>6
  <2>6. ASSUME NEW i \in 1..Len(l) PROVE l[i] # top /\ HangsAt(h, l[i], n, "expressions", i - 1)
    <3>1. i - 1 \in 0..Size /\ i - 1 < Len(l) /\ (i - 1) + 1 = i
      BY <2>3, <2>5
    <3> QED
      <4> HIDE DEF l
      <4> QED BY <2>4, <3>1
  <2>7. top \notin Children(h, n)
    BY <2>1, <2>2, <2>6, ChildrenAre
  <2> QED BY <2>1, <2>2, <2>6, <2>7 DEF RefersBack
<1> QED BY <1>1, <1>3 DEF Sound

-----------------------------------------------------------------------------
(* What is below a child is cut off from the rest of a tree: the only way  *)
(* into it is by that child.                                               *)
LEMMA CutOff ==
  ASSUME NEW h \in Heap, NEW top \in Node, IsTree(h, top),
         NEW n \in Below(h, top), NEW d \in Children(h, n)
  PROVE  /\ d \in Node /\ d \in Below(h, d) /\ Below(h, d) \subseteq Below(h, top)
         /\ top \notin Below(h, d) /\ n \notin Below(h, d)
         /\ \A m \in Below(h, top) \ Below(h, d) :
              \A x \in Children(h, m) \cap Below(h, d) : m = n /\ x = d
<1> DEFINE S == Below(h, top)
           D == Below(h, d)
           T == S \ D
<1>1. Sound(h, top, S) /\ S \subseteq Node /\ Closed(h, S) /\ top \in S
  BY TreeIsSound, BelowIsClosed
<1>2. d \in S /\ d \in Node
  BY <1>1 DEF Closed
<1>3. D \subseteq S /\ d \in D
  BY <1>2, BelowGoesDown, BelowIsClosed
<1>4. \A m \in S : \A x \in Children(h, m) : x # top /\ h.parent[x] = m
  BY <1>1, ParentOfChild DEF Sound
<1> HIDE DEF S, D
<1>5. \A x \in D : x # d => \E m \in D : x \in Children(h, m)
  BY <1>2, BelowIsChild DEF D
<1>6. top \notin D
  BY <1>3, <1>4, <1>5 DEF S
<1>7. \A m \in T : \A x \in Children(h, m) \cap D : m = n /\ x = d
  <2>1. SUFFICES ASSUME NEW m \in T, NEW x \in Children(h, m) \cap D PROVE m = n /\ x = d
    OBVIOUS
  <2>2. h.parent[x] = m
    BY <1>4
  <2>3. x = d
    BY <1>3, <1>4, <1>5, <2>2
  <2>4. h.parent[d] = n
    BY <1>4 DEF S
  <2> QED BY <2>2, <2>3, <2>4
<1>8. n \notin D
  <2>1. SUFFICES ASSUME n \in D PROVE FALSE
    OBVIOUS
  <2>2. Closed(h, T)
    BY <1>1, <1>7, <2>1 DEF Closed
  <2>3. top \in T
    BY <1>1, <1>6
  <2>4. S \subseteq T
    <3> HIDE DEF T
    <3> QED BY <2>2, <2>3, BelowIsLeast DEF S
  <2> QED BY <1>2, <1>3, <2>4
<1> QED BY <1>2, <1>3, <1>6, <1>7, <1>8 DEF S, D

(* What is below a node of a tree is a tree.                               *)
LEMMA SubtreeIsTree ==
  ASSUME NEW h \in Heap, NEW top \in Node, IsTree(h, top), NEW c \in Below(h, top)
  PROVE  /\ c \in Node /\ IsTree(h, c) /\ Sound(h, c, Below(h, c))
         /\ Below(h, c) \subseteq Below(h, top)
<1>1. Sound(h, top, Below(h, top)) /\ c \in Node /\ Below(h, c) \subseteq Below(h, top)
  BY TreeIsSound, BelowIsClosed, BelowGoesDown
<1>2. ASSUME NEW m \in Below(h, c) PROVE c \notin Children(h, m)
  <2>1. m \in Below(h, top)
    BY <1>1
  <2> QED BY <2>1, CutOff
<1>3. c \in Below(h, c) /\ Below(h, c) \subseteq Node /\ Closed(h, Below(h, c))
  BY <1>1, BelowIsClosed
<1>4. \A m \in Below(h, c) : Children(h, m) \subseteq Below(h, c) \ {c} /\ RefersBack(h, m)
  BY <1>1, <1>2, <1>3 DEF Sound, Closed
<1>5. Sound(h, c, Below(h, c))
  BY <1>3, <1>4 DEF Sound
<1> QED BY <1>1, <1>5, SoundIsTree

(* Two nodes of a tree are not below each other.                           *)
LEMMA OneIsAbove ==
  ASSUME NEW h \in Heap, NEW top \in Node, IsTree(h, top),
         NEW d \in Below(h, top), NEW c \in Below(h, d), c # d
  PROVE  d \notin Below(h, c)
<1>1. d \in Node /\ IsTree(h, d) /\ Below(h, d) \subseteq Below(h, top)
  BY SubtreeIsTree
<1>2. PICK n \in Below(h, d) : c \in Children(h, n)
  BY <1>1, BelowIsChild
<1> QED BY <1>1, <1>2, CutOff

-----------------------------------------------------------------------------
(* What the edits do to the fields of the nodes.                           *)

Same(g, h, x) == g.parent[x] = h.parent[x] /\ g.arg_key[x] = h.arg_key[x] /\ g.index[x] = h.index[x]

(* A node that hangs nowhere.                                              *)
Free(h, n) == h.parent[n] = None /\ h.arg_key[n] = None

Distinct(l) == \A i, j \in 1..Len(l) : l[i] = l[j] => i = j

LEMMA HeapFields ==
  ASSUME NEW h
  PROVE  h \in Heap <=>
           /\ h = [this |-> h.this, expressions |-> h.expressions, parent |-> h.parent,
                   arg_key |-> h.arg_key, index |-> h.index]
           /\ h.this \in [Node -> Node \union {None}]
           /\ h.expressions \in [Node -> Seq(Node)]
           /\ h.parent \in [Node -> Node \union {None}]
           /\ h.arg_key \in [Node -> {"this", "expressions", None}]
           /\ h.index \in [Node -> Nat \union {None}]
BY DEF Heap

(* A node whose fields and whose children's references back an edit leaves *)
(* alone.                                                                  *)
LEMMA Untouched ==
  ASSUME NEW h \in Heap, NEW g, NEW m \in Node, RefersBack(h, m),
         g.this[m] = h.this[m], g.expressions[m] = h.expressions[m],
         \A x \in Children(h, m) : Same(g, h, x)
  PROVE  Children(g, m) = Children(h, m) /\ RefersBack(g, m)
<1>1. Children(g, m) = Children(h, m)
  BY DEF Children
<1>2. g.this[m] # None => HangsAt(g, g.this[m], m, "this", None)
  BY ChildrenAre DEF RefersBack, HangsAt, Same
<1>3. ASSUME NEW i \in 1..Len(g.expressions[m])
      PROVE  HangsAt(g, g.expressions[m][i], m, "expressions", i - 1)
  <2>1. HangsAt(h, h.expressions[m][i], m, "expressions", i - 1) /\ h.expressions[m][i] \in Children(h, m)
    BY ChildrenAre DEF RefersBack
  <2> QED BY <2>1 DEF HangsAt, Same
<1> QED BY <1>1, <1>2, <1>3 DEF RefersBack

LEMMA SetThisFields ==
  ASSUME NEW h \in Heap, NEW n \in Node, NEW c \in Node
  PROVE  /\ SetThis(h, n, c) \in Heap
         /\ SetThis(h, n, c).this = [h.this EXCEPT ![n] = c]
         /\ SetThis(h, n, c).expressions = h.expressions
         /\ HangsAt(SetThis(h, n, c), c, n, "this", None)
         /\ \A x \in Node : x # c => Same(SetThis(h, n, c), h, x)
BY DEF SetThis, SetParent, Heap, HangsAt, Same

LEMMA ClearThisFields ==
  ASSUME NEW h \in Heap, NEW n \in Node
  PROVE  /\ ClearThis(h, n) \in Heap
         /\ ClearThis(h, n).this = [h.this EXCEPT ![n] = None]
         /\ ClearThis(h, n).expressions = h.expressions
         /\ \A x \in Node : Same(ClearThis(h, n), h, x)
BY DEF ClearThis, Heap, Same

LEMMA ForgetFields ==
  ASSUME NEW h \in Heap, NEW ms
  PROVE  /\ Forget(h, ms) \in Heap
         /\ Forget(h, ms).this = h.this
         /\ Forget(h, ms).expressions = h.expressions
         /\ \A x \in Node : x \notin ms => Same(Forget(h, ms), h, x)
         /\ \A x \in Node : x \in ms => Free(Forget(h, ms), x)
BY DEF Forget, Heap, Same, Free

LEMMA PositionInList ==
  ASSUME NEW l \in Seq(Node), NEW c \in ToSet(l)
  PROVE  /\ PositionIn(l, c) \in 0..(Len(l) - 1) /\ l[PositionIn(l, c) + 1] = c
         /\ Distinct(l) => \A i \in 1..Len(l) : l[i] = c => PositionIn(l, c) = i - 1
<1>1. Len(l) \in Nat /\ DOMAIN l = 1..Len(l)
  OBVIOUS
<1>2. PICK k \in 1..Len(l) : l[k] = c
  BY <1>1 DEF ToSet
<1>3. k - 1 \in 0..(Len(l) - 1) /\ (k - 1) + 1 = k
  BY <1>1
<1>4. \E i \in 0..(Len(l) - 1) : l[i + 1] = c
  BY <1>2, <1>3
<1>5. PositionIn(l, c) \in 0..(Len(l) - 1) /\ l[PositionIn(l, c) + 1] = c
  BY <1>4 DEF PositionIn
<1>6. ASSUME Distinct(l), NEW i \in 1..Len(l), l[i] = c PROVE PositionIn(l, c) = i - 1
  <2> DEFINE p == PositionIn(l, c)
  <2>1. p \in 0..(Len(l) - 1) /\ l[p + 1] = c
    BY <1>5
  <2> HIDE DEF p
  <2>2. p + 1 \in 1..Len(l) /\ p = (p + 1) - 1
    BY <1>1, <2>1
  <2>3. p + 1 = i
    BY <1>6, <2>1, <2>2 DEF Distinct
  <2> QED BY <2>2, <2>3 DEF p
<1> QED BY <1>5, <1>6

LEMMA SetParentsFields ==
  ASSUME NEW h \in Heap, NEW n \in Node, NEW l \in Seq(Node)
  PROVE  /\ SetParents(h, n, l) \in Heap
         /\ SetParents(h, n, l).this = h.this
         /\ SetParents(h, n, l).expressions = [h.expressions EXCEPT ![n] = l]
         /\ \A x \in Node : x \notin ToSet(l) => Same(SetParents(h, n, l), h, x)
         /\ Distinct(l) => \A i \in 1..Len(l) : HangsAt(SetParents(h, n, l), l[i], n, "expressions", i - 1)
<1> DEFINE g == SetParents(h, n, l)
<1>1. g = [this |-> h.this,
           expressions |-> [h.expressions EXCEPT ![n] = l],
           parent |-> [c \in Node |-> IF c \in ToSet(l) THEN n ELSE h.parent[c]],
           arg_key |-> [c \in Node |-> IF c \in ToSet(l) THEN "expressions" ELSE h.arg_key[c]],
           index |-> [c \in Node |-> IF c \in ToSet(l) THEN PositionIn(l, c) ELSE h.index[c]]]
  <2> DEFINE E == [h.expressions EXCEPT ![n] = l]
             P == [c \in Node |-> IF c \in ToSet(l) THEN n ELSE h.parent[c]]
             A == [c \in Node |-> IF c \in ToSet(l) THEN "expressions" ELSE h.arg_key[c]]
             I == [c \in Node |-> IF c \in ToSet(l) THEN PositionIn(l, c) ELSE h.index[c]]
  <2>1. g = [h EXCEPT !.expressions = E, !.parent = P, !.arg_key = A, !.index = I]
    BY DEF SetParents
  <2> HIDE DEF g, E, P, A, I
  <2>2. g = [this |-> h.this, expressions |-> E, parent |-> P, arg_key |-> A, index |-> I]
    BY <2>1 DEF Heap
  <2> QED BY <2>2 DEF E, P, A, I
<1> HIDE DEF g
<1>2. \A c \in ToSet(l) : PositionIn(l, c) \in Nat
  BY PositionInList
<1>3. g \in Heap
  BY <1>1, <1>2 DEF Heap
<1>4. \A x \in Node : x \notin ToSet(l) => Same(g, h, x)
  BY <1>1 DEF Same
<1>5. ASSUME Distinct(l), NEW i \in 1..Len(l) PROVE HangsAt(g, l[i], n, "expressions", i - 1)
  <2>1. l[i] \in ToSet(l) /\ l[i] \in Node
    BY DEF ToSet
  <2>2. PositionIn(l, l[i]) = i - 1
    BY <1>5, <2>1, PositionInList
  <2> QED BY <1>1, <2>1, <2>2 DEF HangsAt
<1> QED BY <1>1, <1>3, <1>4, <1>5 DEF g

-----------------------------------------------------------------------------
(* What an edit of one node needs for a set to be sound after it: the      *)
(* other nodes of the set are as they should be, and so is the argument of *)
(* the node that is not edited.                                            *)

AllBut(h, top, S, n) ==
  /\ top \in S /\ n \in S /\ S \subseteq Node
  /\ \A m \in S \ {n} : Children(h, m) \subseteq S \ {top} /\ RefersBack(h, m)

ThisHangs(h, top, S, n) ==
  h.this[n] # None => h.this[n] \in S \ {top} /\ HangsAt(h, h.this[n], n, "this", None)

ListHangs(h, top, S, n) ==
  \A i \in 1..Len(h.expressions[n]) :
    /\ h.expressions[n][i] \in S \ {top}
    /\ HangsAt(h, h.expressions[n][i], n, "expressions", i - 1)

LEMMA SoundByNode ==
  ASSUME NEW h \in Heap, NEW top, NEW S, NEW n \in S
  PROVE  Sound(h, top, S) <=> AllBut(h, top, S, n) /\ ThisHangs(h, top, S, n) /\ ListHangs(h, top, S, n)
<1>1. ASSUME Sound(h, top, S)
      PROVE  AllBut(h, top, S, n) /\ ThisHangs(h, top, S, n) /\ ListHangs(h, top, S, n)
  <2>1. n \in Node /\ Children(h, n) \subseteq S \ {top} /\ RefersBack(h, n)
    BY <1>1 DEF Sound
  <2>2. AllBut(h, top, S, n)
    BY <1>1 DEF Sound, AllBut
  <2>3. ThisHangs(h, top, S, n) /\ ListHangs(h, top, S, n)
    BY <2>1, ChildrenAre DEF ThisHangs, ListHangs, RefersBack
  <2> QED BY <2>2, <2>3
<1>2. ASSUME AllBut(h, top, S, n), ThisHangs(h, top, S, n), ListHangs(h, top, S, n)
      PROVE  Sound(h, top, S)
  <2>1. n \in Node
    BY <1>2 DEF AllBut
  <2>2. RefersBack(h, n)
    BY <1>2 DEF ThisHangs, ListHangs, RefersBack
  <2>3. Children(h, n) \subseteq S \ {top}
    BY <1>2, <2>1, ChildrenAre DEF ThisHangs, ListHangs
  <2> QED BY <1>2, <2>2, <2>3 DEF AllBut, Sound
<1> QED BY <1>1, <1>2

(* The other nodes stay as they are if the nodes whose references back an  *)
(* edit of n changes are children of none of them.                         *)
LEMMA OthersStay ==
  ASSUME NEW h \in Heap, NEW g \in Heap, NEW top, NEW S, NEW n \in S, AllBut(h, top, S, n),
         \A m \in Node \ {n} : g.this[m] = h.this[m] /\ g.expressions[m] = h.expressions[m],
         \A m \in S \ {n} : \A x \in Children(h, m) : Same(g, h, x)
  PROVE  AllBut(g, top, S, n)
<1>1. ASSUME NEW m \in S \ {n} PROVE Children(g, m) \subseteq S \ {top} /\ RefersBack(g, m)
  <2>1. m \in Node \ {n} /\ Children(h, m) \subseteq S \ {top} /\ RefersBack(h, m)
    BY DEF AllBut
  <2>2. Children(g, m) = Children(h, m) /\ RefersBack(g, m)
    BY <2>1, Untouched
  <2> QED BY <2>1, <2>2
<1> QED BY <1>1 DEF AllBut

(* A tree that hangs nowhere, whose nodes are among S.                     *)
Fine(g, top, S) == g \in Heap /\ Sound(g, top, S) /\ Free(g, top)

LEMMA PutThisIsSound ==
  ASSUME NEW h \in Heap, NEW top, NEW S, NEW n \in S, NEW c \in S \ {top},
         AllBut(h, top, S, n), ListHangs(h, top, S, n),
         \A m \in S \ {n} : c \notin Children(h, m),
         \A i \in 1..Len(h.expressions[n]) : h.expressions[n][i] # c
  PROVE  /\ SetThis(h, n, c) \in Heap /\ Sound(SetThis(h, n, c), top, S)
         /\ Free(h, top) => Free(SetThis(h, n, c), top)
<1> DEFINE g == SetThis(h, n, c)
<1>1. n \in Node /\ c \in Node
  BY DEF AllBut
<1>2. /\ g \in Heap /\ g.this = [h.this EXCEPT ![n] = c] /\ g.expressions = h.expressions
      /\ HangsAt(g, c, n, "this", None)
      /\ \A x \in Node : x # c => Same(g, h, x)
  BY <1>1, SetThisFields
<1> HIDE DEF g
<1>3. h.this \in [Node -> Node \union {None}]
  BY HeapFields
<1>4. \A m \in S \ {n} : \A x \in Children(h, m) : Same(g, h, x)
  <2>1. \A m \in S \ {n} : Children(h, m) \subseteq Node
    BY ChildrenAreNodes DEF AllBut
  <2> QED BY <1>2, <2>1
<1>5. AllBut(g, top, S, n)
  BY <1>2, <1>3, <1>4, OthersStay
<1>6. ThisHangs(g, top, S, n)
  BY <1>1, <1>2, <1>3 DEF ThisHangs
<1>7. ListHangs(g, top, S, n)
  <2>1. ASSUME NEW i \in 1..Len(h.expressions[n]) PROVE Same(g, h, h.expressions[n][i])
    BY <1>1, <1>2, FieldsOfNode
  <2>2. ASSUME NEW i \in 1..Len(h.expressions[n])
        PROVE  /\ h.expressions[n][i] \in S \ {top}
               /\ HangsAt(g, h.expressions[n][i], n, "expressions", i - 1)
    BY <2>1 DEF ListHangs, HangsAt, Same
  <2> QED BY <1>2, <2>2 DEF ListHangs
<1>8. Free(h, top) => Free(g, top)
  BY <1>2 DEF AllBut, Free, Same
<1> QED BY <1>2, <1>5, <1>6, <1>7, <1>8, SoundByNode DEF g

LEMMA PutThis ==
  ASSUME NEW h \in Heap, NEW top, NEW S, NEW n \in S, NEW c \in S \ {top},
         AllBut(h, top, S, n), ListHangs(h, top, S, n),
         \A m \in S \ {n} : c \notin Children(h, m),
         \A i \in 1..Len(h.expressions[n]) : h.expressions[n][i] # c,
         Free(h, top)
  PROVE  Fine(SetThis(h, n, c), top, S)
BY PutThisIsSound DEF Fine

LEMMA TakeThis ==
  ASSUME NEW h \in Heap, NEW top, NEW S, NEW n \in S,
         AllBut(h, top, S, n), ListHangs(h, top, S, n),
         Free(h, top)
  PROVE  Fine(ClearThis(h, n), top, S)
<1> DEFINE g == ClearThis(h, n)
<1>1. n \in Node
  BY DEF AllBut
<1>2. /\ g \in Heap /\ g.this = [h.this EXCEPT ![n] = None] /\ g.expressions = h.expressions
      /\ \A x \in Node : Same(g, h, x)
  BY <1>1, ClearThisFields
<1> HIDE DEF g
<1>3. h.this \in [Node -> Node \union {None}]
  BY HeapFields
<1>4. \A m \in S \ {n} : \A x \in Children(h, m) : Same(g, h, x)
  <2>1. \A m \in S \ {n} : Children(h, m) \subseteq Node
    BY ChildrenAreNodes DEF AllBut
  <2> QED BY <1>2, <2>1
<1>5. AllBut(g, top, S, n)
  BY <1>2, <1>3, <1>4, OthersStay
<1>6. ThisHangs(g, top, S, n)
  BY <1>1, <1>2, <1>3 DEF ThisHangs
<1>7. ListHangs(g, top, S, n)
  <2>1. ASSUME NEW i \in 1..Len(h.expressions[n]) PROVE Same(g, h, h.expressions[n][i])
    BY <1>1, <1>2, FieldsOfNode
  <2>2. ASSUME NEW i \in 1..Len(h.expressions[n])
        PROVE  /\ h.expressions[n][i] \in S \ {top}
               /\ HangsAt(g, h.expressions[n][i], n, "expressions", i - 1)
    BY <2>1 DEF ListHangs, HangsAt, Same
  <2> QED BY <1>2, <2>2 DEF ListHangs
<1>8. Free(g, top)
  BY <1>2 DEF AllBut, Free, Same
<1> QED BY <1>2, <1>5, <1>6, <1>7, <1>8, SoundByNode DEF Fine, g

LEMMA PutList ==
  ASSUME NEW h \in Heap, NEW top, NEW S, NEW n \in S, NEW l \in Seq(Node), Distinct(l),
         ToSet(l) \subseteq S \ {top},
         AllBut(h, top, S, n), ThisHangs(h, top, S, n),
         \A m \in S \ {n} : Children(h, m) \cap ToSet(l) = {},
         h.this[n] # None => h.this[n] \notin ToSet(l),
         Free(h, top)
  PROVE  Fine(SetParents(h, n, l), top, S)
<1> DEFINE g == SetParents(h, n, l)
<1>1. n \in Node
  BY DEF AllBut
<1>2. /\ g \in Heap /\ g.this = h.this /\ g.expressions = [h.expressions EXCEPT ![n] = l]
      /\ \A x \in Node : x \notin ToSet(l) => Same(g, h, x)
      /\ \A i \in 1..Len(l) : HangsAt(g, l[i], n, "expressions", i - 1)
  BY <1>1, SetParentsFields
<1> HIDE DEF g
<1>3. h.expressions \in [Node -> Seq(Node)] /\ g.expressions[n] = l
  BY <1>1, <1>2, HeapFields
<1>4. \A m \in S \ {n} : \A x \in Children(h, m) : Same(g, h, x)
  <2>1. \A m \in S \ {n} : Children(h, m) \subseteq Node
    BY ChildrenAreNodes DEF AllBut
  <2> QED BY <1>2, <2>1
<1>5. AllBut(g, top, S, n)
  BY <1>2, <1>3, <1>4, OthersStay
<1>6. ThisHangs(g, top, S, n)
  <2>1. S \subseteq Node
    BY DEF AllBut
  <2> QED BY <1>1, <1>2, <2>1 DEF ThisHangs, HangsAt, Same
<1>7. ListHangs(g, top, S, n)
  <2>1. \A i \in 1..Len(l) : l[i] \in S \ {top}
    BY DEF ToSet
  <2> QED BY <1>2, <1>3, <2>1 DEF ListHangs
<1>8. Free(g, top)
  BY <1>2 DEF AllBut, Free, Same
<1> QED BY <1>2, <1>5, <1>6, <1>7, <1>8, SoundByNode DEF Fine, g

LEMMA ForgetIsSound ==
  ASSUME NEW h \in Heap, NEW top, NEW S, NEW ms, Sound(h, top, S), ms \cap (S \ {top}) = {},
         Free(h, top)
  PROVE  Fine(Forget(h, ms), top, S)
<1> DEFINE g == Forget(h, ms)
<1>1. /\ g \in Heap /\ g.this = h.this /\ g.expressions = h.expressions
      /\ \A x \in Node : x \notin ms => Same(g, h, x)
      /\ \A x \in Node : x \in ms => Free(g, x)
  BY ForgetFields
<1> HIDE DEF g
<1>2. ASSUME NEW m \in S PROVE Children(g, m) \subseteq S \ {top} /\ RefersBack(g, m)
  <2>1. m \in Node /\ Children(h, m) \subseteq S \ {top} /\ RefersBack(h, m) /\ S \subseteq Node
    BY DEF Sound
  <2>2. \A x \in Children(h, m) : Same(g, h, x)
    BY <1>1, <2>1
  <2> QED BY <1>1, <2>1, <2>2, Untouched
<1>3. Free(g, top)
  BY <1>1 DEF Sound, Free, Same
<1> QED BY <1>1, <1>2, <1>3 DEF Fine, Sound, g

LEMMA RemoveAtList ==
  ASSUME NEW R, NEW l \in Seq(R), NEW p \in 1..Len(l)
  PROVE  /\ RemoveAt(l, p) \in Seq(R) /\ Len(RemoveAt(l, p)) = Len(l) - 1
         /\ \A j \in 1..(Len(l) - 1) : RemoveAt(l, p)[j] = IF j < p THEN l[j] ELSE l[j + 1]
<1> DEFINE a == SubSeq(l, 1, p - 1)
           b == SubSeq(l, p + 1, Len(l))
           k == Len(l)
<1>1. k \in Nat /\ p \in Nat /\ p >= 1 /\ p <= k
  OBVIOUS
<1>2. a \in Seq(R) /\ Len(a) = p - 1 /\ \A j \in 1..(p - 1) : a[j] = l[j]
  OBVIOUS
<1>3. b \in Seq(R) /\ Len(b) = k - p /\ \A j \in 1..(k - p) : b[j] = l[p + j]
  <2>1. b \in Seq(R)
    OBVIOUS
  <2>2. Len(b) = k - p
    BY <1>1
  <2>3. ASSUME NEW j \in 1..(k - p) PROVE b[j] = l[p + j]
    <3>1. b[j] = l[(p + 1) + j - 1] /\ (p + 1) + j - 1 = p + j
      BY <1>1
    <3> QED BY <3>1
  <2> QED BY <2>1, <2>2, <2>3
<1> HIDE DEF a, b, k
<1>4. a \o b \in Seq(R) /\ Len(a \o b) = k - 1
  <2>1. a \o b \in Seq(R) /\ Len(a \o b) = Len(a) + Len(b)
    <3>1. a \in Seq(R) /\ b \in Seq(R)
      BY <1>2, <1>3
    <3> QED BY <3>1
  <2>2. (p - 1) + (k - p) = k - 1
    BY <1>1
  <2> QED BY <1>2, <1>3, <2>1, <2>2
<1>5. ASSUME NEW j \in 1..(k - 1) PROVE (a \o b)[j] = IF j < p THEN l[j] ELSE l[j + 1]
  <2>1. CASE j < p
    <3>1. j \in 1..(p - 1) /\ (a \o b)[j] = a[j]
      BY <1>1, <1>2, <1>3, <2>1
    <3> QED BY <1>2, <2>1, <3>1
  <2>2. CASE ~(j < p)
    <3>1. j - (p - 1) \in 1..(k - p) /\ (a \o b)[j] = b[j - (p - 1)] /\ p + (j - (p - 1)) = j + 1
      BY <1>1, <1>2, <1>3, <2>2
    <3>2. b[j - (p - 1)] = l[p + (j - (p - 1))]
      BY <1>3, <3>1
    <3> QED BY <2>2, <3>1, <3>2
  <2> QED BY <2>1, <2>2
<1> QED BY <1>4, <1>5 DEF RemoveAt, a, b, k

LEMMA TakeAt ==
  ASSUME NEW h \in Heap, NEW top, NEW S, NEW n \in S, NEW i \in Nat, i < Len(h.expressions[n]),
         AllBut(h, top, S, n), ThisHangs(h, top, S, n), RefersBack(h, n),
         \A j \in 1..Len(h.expressions[n]) : j # i + 1 => h.expressions[n][j] \in S \ {top},
         Free(h, top)
  PROVE  Fine(ClearAt(h, n, i), top, S)
<1> DEFINE g == ClearAt(h, n, i)
           l == h.expressions[n]
           k == Len(l)
           r == RemoveAt(l, i + 1)
           behind == {l[j] : j \in (i + 2)..k}
<1>1. n \in Node /\ S \subseteq Node
  BY DEF AllBut
<1>2. l \in Seq(Node) /\ k \in Nat /\ \A j \in 1..k : l[j] \in Node
  BY <1>1, FieldsOfNode
<1>3. \A j \in 1..k : HangsAt(h, l[j], n, "expressions", j - 1)
  BY DEF RefersBack
<1>4. \A j \in 1..k : j # i + 1 => l[j] \in S \ {top}
  OBVIOUS
<1>5. i < k /\ ~(i >= k) /\ i + 1 \in 1..k
  BY <1>2
<1>6. g = [h EXCEPT !.expressions[n] = r,
                    !.index = [x \in Node |-> IF x \in behind THEN h.index[x] - 1 ELSE h.index[x]]]
  BY <1>5 DEF ClearAt
<1> HIDE DEF l
<1>7. r \in Seq(Node) /\ Len(r) = k - 1 /\ \A j \in 1..(k - 1) : r[j] = IF j < i + 1 THEN l[j] ELSE l[j + 1]
  BY <1>2, <1>5, RemoveAtList
<1>8. \A j \in 1..k : l[j] \in behind <=> j \in (i + 2)..k
  <2>1. ASSUME NEW j \in 1..k, l[j] \in behind PROVE j \in (i + 2)..k
    <3>1. PICK q \in (i + 2)..k : l[j] = l[q]
      BY <2>1
    <3>2. q \in 1..k
      BY <1>2, <3>1
    <3>3. j - 1 = q - 1
      BY <1>3, <3>1, <3>2 DEF HangsAt
    <3> QED BY <3>1, <3>3
  <2> QED BY <2>1
<1>9. \A x \in behind : h.parent[x] = n /\ h.index[x] - 1 \in Nat
  <2>1. ASSUME NEW j \in (i + 2)..k PROVE h.parent[l[j]] = n /\ h.index[l[j]] - 1 \in Nat
    <3>1. j \in 1..k /\ (j - 1) - 1 \in Nat
      BY <1>2
    <3> QED BY <1>3, <3>1 DEF HangsAt
  <2> QED BY <2>1
<1> HIDE DEF r, behind, g, k
<1>10. /\ h.this \in [Node -> Node \union {None}]
       /\ h.expressions \in [Node -> Seq(Node)]
       /\ h.parent \in [Node -> Node \union {None}]
       /\ h.arg_key \in [Node -> {"this", "expressions", None}]
       /\ h.index \in [Node -> Nat \union {None}]
  BY HeapFields
<1>11. /\ g.this = h.this /\ g.expressions = [h.expressions EXCEPT ![n] = r]
       /\ g.parent = h.parent /\ g.arg_key = h.arg_key
       /\ g.index = [x \in Node |-> IF x \in behind THEN h.index[x] - 1 ELSE h.index[x]]
  BY <1>6 DEF Heap
<1>12. g \in Heap
  <2>1. g.expressions \in [Node -> Seq(Node)]
    BY <1>7, <1>10, <1>11
  <2>2. g.index \in [Node -> Nat \union {None}]
    BY <1>9, <1>10, <1>11
  <2>3. g = [this |-> g.this, expressions |-> g.expressions, parent |-> g.parent,
             arg_key |-> g.arg_key, index |-> g.index]
    BY <1>6 DEF Heap
  <2> QED BY <1>10, <1>11, <2>1, <2>2, <2>3, HeapFields
<1>13. \A m \in S \ {n} : \A x \in Children(h, m) : Same(g, h, x)
  <2>1. SUFFICES ASSUME NEW m \in S \ {n}, NEW x \in Children(h, m) PROVE Same(g, h, x)
    OBVIOUS
  <2>2. x \in Node /\ h.parent[x] = m
    BY <1>1, ChildrenAreNodes, ParentOfChild DEF AllBut
  <2>3. x \notin behind
    BY <1>9, <2>2
  <2> QED BY <1>11, <2>2, <2>3 DEF Same
<1>14. AllBut(g, top, S, n)
  BY <1>10, <1>11, <1>12, <1>13, OthersStay
<1>15. ThisHangs(g, top, S, n)
  <2>1. ASSUME h.this[n] # None PROVE h.this[n] \notin behind
    <3>1. h.arg_key[h.this[n]] = "this"
      BY <2>1 DEF ThisHangs, HangsAt
    <3>2. \A j \in 1..k : h.arg_key[l[j]] = "expressions"
      BY <1>3 DEF HangsAt
    <3>3. \A x \in behind : h.arg_key[x] = "expressions"
      <4>1. \A j \in (i + 2)..k : j \in 1..k
        BY <1>5
      <4> QED BY <3>2, <4>1 DEF behind
    <3> QED BY <3>1, <3>3
  <2> QED BY <1>1, <1>11, <2>1 DEF ThisHangs, HangsAt
<1>16. ListHangs(g, top, S, n)
  <2>1. g.expressions[n] = r
    BY <1>1, <1>10, <1>11
  <2>2. ASSUME NEW j \in 1..(k - 1)
        PROVE  r[j] \in S \ {top} /\ HangsAt(g, r[j], n, "expressions", j - 1)
    <3>1. CASE j < i + 1
      <4>1. j \in 1..k /\ j # i + 1 /\ j \notin (i + 2)..k
        BY <1>2, <3>1
      <4>2. r[j] = l[j] /\ l[j] \notin behind
        BY <1>7, <1>8, <3>1, <4>1
      <4> QED BY <1>2, <1>3, <1>4, <1>11, <4>1, <4>2 DEF HangsAt
    <3>2. CASE ~(j < i + 1)
      <4>1. j + 1 \in 1..k /\ j + 1 # i + 1 /\ j + 1 \in (i + 2)..k /\ (j + 1) - 1 = j
        BY <1>2, <3>2
      <4>2. r[j] = l[j + 1] /\ l[j + 1] \in behind
        BY <1>7, <1>8, <3>2, <4>1
      <4>3. HangsAt(h, l[j + 1], n, "expressions", j)
        BY <1>3, <4>1
      <4> QED BY <1>2, <1>4, <1>11, <4>1, <4>2, <4>3 DEF HangsAt
    <3> QED BY <3>1, <3>2
  <2> QED BY <1>7, <2>1, <2>2 DEF ListHangs
<1>17. Free(g, top)
  BY <1>11 DEF Free
<1> QED BY <1>12, <1>14, <1>15, <1>16, <1>17, SoundByNode DEF Fine, g

LEMMA AppendIsSound ==
  ASSUME NEW h \in Heap, NEW top, NEW S, NEW n \in S, NEW c \in S \ {top},
         Sound(h, top, S), \A m \in S : c \notin Children(h, m),
         Free(h, top)
  PROVE  Fine(AppendTo(h, n, c), top, S)
<1> DEFINE g == AppendTo(h, n, c)
           l == h.expressions[n]
           k == Len(l)
           r == Append(l, c)
<1>1. n \in Node /\ c \in Node /\ S \subseteq Node
  BY DEF Sound
<1>2. l \in Seq(Node) /\ k \in Nat /\ \A j \in 1..k : l[j] \in Node /\ l[j] # c
  BY <1>1, FieldsOfNode, ChildrenAre
<1>3. AllBut(h, top, S, n) /\ ThisHangs(h, top, S, n) /\ ListHangs(h, top, S, n)
  BY SoundByNode
<1>4. g \in Heap /\ g.this = h.this /\ g.expressions = [h.expressions EXCEPT ![n] = r]
      /\ HangsAt(g, c, n, "expressions", k)
      /\ \A x \in Node : x # c => Same(g, h, x)
  <2>1. g.this = h.this /\ g.expressions = [h.expressions EXCEPT ![n] = r]
        /\ g.parent = [h.parent EXCEPT ![c] = n]
        /\ g.arg_key = [h.arg_key EXCEPT ![c] = "expressions"]
        /\ g.index = [h.index EXCEPT ![c] = k]
    BY <1>1 DEF AppendTo, SetParent, Heap
  <2>2. g = [this |-> g.this, expressions |-> g.expressions, parent |-> g.parent,
             arg_key |-> g.arg_key, index |-> g.index]
    <3> DEFINE E == [h.expressions EXCEPT ![n] = r]
               P == [h.parent EXCEPT ![c] = n]
               A == [h.arg_key EXCEPT ![c] = "expressions"]
               I == [h.index EXCEPT ![c] = k]
    <3>1. g.this = h.this /\ g.expressions = E /\ g.parent = P /\ g.arg_key = A /\ g.index = I
      BY <2>1
    <3>2. DOMAIN g = DOMAIN h /\ g = [f \in DOMAIN g |-> g[f]]
      BY DEF AppendTo, SetParent
    <3> HIDE DEF g
    <3> QED BY <3>2 DEF Heap
  <2> HIDE DEF g
  <2>3. r \in Seq(Node)
    BY <1>1, <1>2
  <2> HIDE DEF r, k, l
  <2>4. /\ h.this \in [Node -> Node \union {None}]
        /\ h.expressions \in [Node -> Seq(Node)]
        /\ h.parent \in [Node -> Node \union {None}]
        /\ h.arg_key \in [Node -> {"this", "expressions", None}]
        /\ h.index \in [Node -> Nat \union {None}]
    BY HeapFields
  <2>5. g \in Heap
    <3>1. g.expressions \in [Node -> Seq(Node)]
      <4>1. h.expressions \in [Node -> Seq(Node)] /\ r \in Seq(Node)
        BY <2>3, <2>4
      <4>2. [h.expressions EXCEPT ![n] = r] \in [Node -> Seq(Node)]
        BY <4>1
      <4> QED BY <2>1, <4>2
    <3>2. g.index \in [Node -> Nat \union {None}]
      <4> DEFINE Places == Nat \union {None}
      <4>1. k \in Places /\ h.index \in [Node -> Places]
        BY <1>2, <2>4
      <4> HIDE DEF Places
      <4>2. [h.index EXCEPT ![c] = k] \in [Node -> Places]
        BY <4>1
      <4> QED BY <2>1, <4>2 DEF Places
    <3>3. g.parent \in [Node -> Node \union {None}] /\ g.arg_key \in [Node -> {"this", "expressions", None}]
      BY <1>1, <2>1, <2>4
    <3>4. g.this \in [Node -> Node \union {None}]
      BY <2>1, <2>4
    <3> QED BY <2>2, <3>1, <3>2, <3>3, <3>4, HeapFields
  <2> QED BY <1>1, <2>1, <2>4, <2>5 DEF HangsAt, Same
<1> HIDE DEF g
<1>5. h.expressions \in [Node -> Seq(Node)] /\ g.expressions[n] = r
  BY <1>1, <1>4, HeapFields
<1>6. \A m \in S : \A x \in Children(h, m) : Same(g, h, x)
  BY <1>1, <1>4, ChildrenAreNodes
<1>7. AllBut(g, top, S, n)
  BY <1>3, <1>4, <1>5, <1>6, OthersStay
<1>8. ThisHangs(g, top, S, n)
  <2>1. h.this[n] # None => h.this[n] \in Children(h, n)
    BY <1>1, ChildrenAre
  <2> QED BY <1>3, <1>4, <1>6, <2>1 DEF ThisHangs, HangsAt, Same
<1>9. ListHangs(g, top, S, n)
  <2>1. Len(r) = k + 1 /\ r[k + 1] = c /\ \A j \in 1..k : r[j] = l[j]
    BY <1>1, <1>2
  <2>2. ASSUME NEW j \in 1..k PROVE l[j] \in S \ {top} /\ HangsAt(g, l[j], n, "expressions", j - 1)
    <3>1. l[j] \in S \ {top} /\ HangsAt(h, l[j], n, "expressions", j - 1)
      BY <1>3 DEF ListHangs
    <3> QED BY <1>1, <1>2, <1>4, <3>1 DEF HangsAt, Same
  <2> HIDE DEF r, l
  <2>3. ASSUME NEW j \in 1..(k + 1)
        PROVE  r[j] \in S \ {top} /\ HangsAt(g, r[j], n, "expressions", j - 1)
    <3>1. CASE j = k + 1
      <4>1. j - 1 = k
        BY <1>2, <3>1
      <4> QED BY <1>4, <2>1, <3>1, <4>1
    <3>2. CASE j # k + 1
      <4>1. j \in 1..k
        BY <1>2, <3>2
      <4> QED BY <2>1, <2>2, <4>1
    <3> QED BY <3>1, <3>2
  <2> QED BY <1>5, <2>1, <2>3 DEF ListHangs
<1>10. Free(g, top)
  BY <1>4 DEF Sound, Free, Same
<1> QED BY <1>4, <1>7, <1>8, <1>9, <1>10, SoundByNode DEF Fine, g

-----------------------------------------------------------------------------
(* Lists without repetition, put together and taken apart.                 *)

LEMMA PartOfList ==
  ASSUME NEW R, NEW l \in Seq(R), NEW p \in Nat, NEW q \in Nat, 1 <= p, p <= q + 1, q <= Len(l)
  PROVE  /\ SubSeq(l, p, q) \in Seq(R)
         /\ \A x \in ToSet(SubSeq(l, p, q)) : \E j \in p..q : x = l[j]
         /\ Distinct(l) => Distinct(SubSeq(l, p, q))
<1> DEFINE a == SubSeq(l, p, q)
<1>1. Len(l) \in Nat /\ \A j \in 1..Len(l) : l[j] \in R
  OBVIOUS
<1>2. a \in Seq(R)
  OBVIOUS
<1>3. Len(a) = q - p + 1
  BY <1>1
<1>4. ASSUME NEW j \in 1..(q - p + 1) PROVE a[j] = l[p + j - 1] /\ p + j - 1 \in p..q /\ p + j - 1 \in 1..Len(l)
  BY <1>1
<1> HIDE DEF a
<1>5. DOMAIN a = 1..(q - p + 1)
  BY <1>2, <1>3
<1>6. \A x \in ToSet(a) : \E j \in p..q : x = l[j]
  BY <1>4, <1>5 DEF ToSet
<1>7. ASSUME Distinct(l) PROVE Distinct(a)
  <2>1. SUFFICES ASSUME NEW j \in 1..(q - p + 1), NEW k \in 1..(q - p + 1), a[j] = a[k] PROVE j = k
    BY <1>3 DEF Distinct
  <2>2. p + j - 1 = p + k - 1
    BY <1>4, <1>7, <2>1 DEF Distinct
  <2> QED BY <2>2
<1> QED BY <1>2, <1>6, <1>7 DEF a

LEMMA ListsInARow ==
  ASSUME NEW R, NEW a \in Seq(R), NEW b \in Seq(R)
  PROVE  /\ a \o b \in Seq(R)
         /\ ToSet(a \o b) = ToSet(a) \union ToSet(b)
         /\ Distinct(a) /\ Distinct(b) /\ ToSet(a) \cap ToSet(b) = {} => Distinct(a \o b)
<1> DEFINE c == a \o b
           K == Len(a)
           L == Len(b)
<1>1. /\ K \in Nat /\ L \in Nat /\ c \in Seq(R) /\ Len(c) = K + L
      /\ DOMAIN a = 1..K /\ DOMAIN b = 1..L /\ DOMAIN c = 1..(K + L)
      /\ \A n \in 1..(K + L) : c[n] = IF n <= K THEN a[n] ELSE b[n - K]
  OBVIOUS
<1>2. \A n \in 1..(K + L) : IF n <= K THEN n \in 1..K ELSE n - K \in 1..L
  BY <1>1
<1>3. \A n \in 1..K : n \in 1..(K + L) /\ n <= K
  BY <1>1
<1>4. \A n \in 1..L : K + n \in 1..(K + L) /\ ~(K + n <= K) /\ (K + n) - K = n
  BY <1>1
<1> HIDE DEF K, L, c
<1>5. \A n \in 1..K : a[n] \in ToSet(a)
  BY <1>1 DEF ToSet
<1>6. \A n \in 1..L : b[n] \in ToSet(b)
  BY <1>1 DEF ToSet
<1>7. ToSet(c) = ToSet(a) \union ToSet(b)
  <2>1. ASSUME NEW x \in ToSet(c) PROVE x \in ToSet(a) \union ToSet(b)
    <3>1. PICK n \in 1..(K + L) : x = c[n]
      BY <1>1, <2>1 DEF ToSet
    <3>2. CASE n <= K
      BY <1>1, <1>2, <1>5, <3>1, <3>2
    <3>3. CASE ~(n <= K)
      BY <1>1, <1>2, <1>6, <3>1, <3>3
    <3> QED BY <3>2, <3>3
  <2>2. ASSUME NEW x \in ToSet(a) PROVE x \in ToSet(c)
    <3>1. PICK n \in 1..K : x = a[n]
      BY <1>1, <2>2 DEF ToSet
    <3>2. n \in 1..(K + L) /\ c[n] = a[n]
      BY <1>1, <1>3
    <3> QED BY <1>1, <3>1, <3>2 DEF ToSet
  <2>3. ASSUME NEW x \in ToSet(b) PROVE x \in ToSet(c)
    <3>1. PICK n \in 1..L : x = b[n]
      BY <1>1, <2>3 DEF ToSet
    <3>2. K + n \in 1..(K + L) /\ c[K + n] = b[n]
      BY <1>1, <1>4
    <3> QED BY <1>1, <3>1, <3>2 DEF ToSet
  <2> QED BY <2>1, <2>2, <2>3
<1>8. ASSUME Distinct(a), Distinct(b), ToSet(a) \cap ToSet(b) = {} PROVE Distinct(c)
  <2>1. SUFFICES ASSUME NEW m \in 1..(K + L), NEW n \in 1..(K + L), c[m] = c[n] PROVE m = n
    BY <1>1 DEF Distinct
  <2>2. (m <= K <=> n <= K) /\ (m <= K => a[m] = a[n] /\ m \in 1..K /\ n \in 1..K)
        /\ (~(m <= K) => b[m - K] = b[n - K] /\ m - K \in 1..L /\ n - K \in 1..L)
    BY <1>1, <1>2, <1>5, <1>6, <1>8, <2>1
  <2>3. CASE m <= K
    BY <1>8, <2>2, <2>3 DEF Distinct, K
  <2>4. CASE ~(m <= K)
    <3>1. m - K = n - K
      BY <1>8, <2>2, <2>4 DEF Distinct, L
    <3> QED BY <1>1, <3>1
  <2> QED BY <2>3, <2>4
<1> QED BY <1>1, <1>7, <1>8 DEF c

(* A list in the place of one of the members of another.                   *)
LEMMA ListInPlace ==
  ASSUME NEW R, NEW l \in Seq(R), Distinct(l), NEW i \in Nat, i < Len(l),
         NEW new \in Seq(R), Distinct(new),
         \A j \in 1..Len(l) : j # i + 1 => l[j] \notin ToSet(new)
  PROVE  LET r == SubSeq(l, 1, i) \o new \o SubSeq(l, i + 2, Len(l))
         IN /\ r \in Seq(R) /\ Distinct(r)
            /\ \A x \in ToSet(r) : x \in ToSet(new) \/ \E j \in 1..Len(l) : j # i + 1 /\ x = l[j]
<1> DEFINE a == SubSeq(l, 1, i)
           b == SubSeq(l, i + 2, Len(l))
<1>1. Len(l) \in Nat
  OBVIOUS
<1>2. a \in Seq(R) /\ Distinct(a) /\ \A x \in ToSet(a) : \E j \in 1..i : x = l[j]
  BY <1>1, PartOfList
<1>3. b \in Seq(R) /\ Distinct(b) /\ \A x \in ToSet(b) : \E j \in (i + 2)..Len(l) : x = l[j]
  <2>1. i + 2 \in Nat /\ 1 <= i + 2 /\ i + 2 <= Len(l) + 1 /\ Len(l) <= Len(l)
    BY <1>1
  <2> QED BY <1>1, <2>1, PartOfList
<1> HIDE DEF a, b
<1>4. \A j \in 1..i : j \in 1..Len(l) /\ j # i + 1
  BY <1>1
<1>5. \A j \in (i + 2)..Len(l) : j \in 1..Len(l) /\ j # i + 1
  BY <1>1
<1>6. ToSet(a) \cap ToSet(new) = {} /\ ToSet(b) \cap ToSet(new) = {}
  BY <1>2, <1>3, <1>4, <1>5
<1>7. ToSet(a) \cap ToSet(b) = {}
  <2>1. \A j \in 1..i, k \in (i + 2)..Len(l) : j # k
    BY <1>1
  <2> QED BY <1>2, <1>3, <1>4, <1>5, <2>1 DEF Distinct
<1>8. a \o new \in Seq(R) /\ ToSet(a \o new) = ToSet(a) \union ToSet(new) /\ Distinct(a \o new)
  BY <1>2, <1>6, ListsInARow
<1> DEFINE d == a \o new
<1> HIDE DEF d
<1>9. d \in Seq(R) /\ Distinct(d) /\ ToSet(d) \cap ToSet(b) = {}
  BY <1>6, <1>7, <1>8 DEF d
<1>10. d \o b \in Seq(R) /\ ToSet(d \o b) = ToSet(d) \union ToSet(b) /\ Distinct(d \o b)
  BY <1>3, <1>9, ListsInARow
<1>11. ASSUME NEW x \in ToSet(d \o b)
       PROVE  x \in ToSet(new) \/ \E j \in 1..Len(l) : j # i + 1 /\ x = l[j]
  <2>1. x \in ToSet(a) \/ x \in ToSet(new) \/ x \in ToSet(b)
    BY <1>8, <1>10 DEF d
  <2> QED BY <1>2, <1>3, <1>4, <1>5, <2>1
<1> QED BY <1>10, <1>11 DEF a, b, d

(* A node before one of the members of a list.                             *)
LEMMA NodeInList ==
  ASSUME NEW R, NEW l \in Seq(R), Distinct(l), NEW i \in Nat, i < Len(l),
         NEW c \in R, c \notin ToSet(l)
  PROVE  /\ InsertAt(l, i + 1, c) \in Seq(R) /\ Distinct(InsertAt(l, i + 1, c))
         /\ ToSet(InsertAt(l, i + 1, c)) \subseteq ToSet(l) \union {c}
<1> DEFINE a == SubSeq(l, 1, i)
           b == SubSeq(l, i + 1, Len(l))
           new == <<c>>
<1>1. Len(l) \in Nat /\ DOMAIN l = 1..Len(l) /\ (i + 1) - 1 = i
  OBVIOUS
<1>2. a \in Seq(R) /\ Distinct(a) /\ \A x \in ToSet(a) : \E j \in 1..i : x = l[j]
  BY <1>1, PartOfList
<1>3. b \in Seq(R) /\ Distinct(b) /\ \A x \in ToSet(b) : \E j \in (i + 1)..Len(l) : x = l[j]
  <2>1. i + 1 \in Nat /\ 1 <= i + 1 /\ i + 1 <= Len(l) + 1 /\ Len(l) <= Len(l)
    BY <1>1
  <2> QED BY <1>1, <2>1, PartOfList
<1>4. new \in Seq(R) /\ ToSet(new) = {c} /\ Distinct(new)
  BY DEF ToSet, Distinct
<1>5. InsertAt(l, i + 1, c) = a \o new \o b
  BY <1>1 DEF InsertAt
<1> HIDE DEF a, b, new
<1>6. \A j \in 1..i : j \in 1..Len(l)
  BY <1>1
<1>7. \A j \in (i + 1)..Len(l) : j \in 1..Len(l)
  BY <1>1
<1>8. ToSet(a) \subseteq ToSet(l) /\ ToSet(b) \subseteq ToSet(l)
  BY <1>1, <1>2, <1>3, <1>6, <1>7 DEF ToSet
<1>9. ToSet(a) \cap ToSet(b) = {}
  <2>1. \A j \in 1..i, k \in (i + 1)..Len(l) : j # k
    BY <1>1
  <2> QED BY <1>2, <1>3, <1>6, <1>7, <2>1 DEF Distinct
<1>10. a \o new \in Seq(R) /\ ToSet(a \o new) = ToSet(a) \union ToSet(new) /\ Distinct(a \o new)
  BY <1>2, <1>4, <1>8, ListsInARow
<1> DEFINE d == a \o new
<1> HIDE DEF d
<1>11. d \in Seq(R) /\ Distinct(d) /\ ToSet(d) \cap ToSet(b) = {}
  BY <1>4, <1>8, <1>9, <1>10 DEF d
<1>12. d \o b \in Seq(R) /\ ToSet(d \o b) = ToSet(d) \union ToSet(b) /\ Distinct(d \o b)
  BY <1>3, <1>11, ListsInARow
<1> QED BY <1>4, <1>5, <1>8, <1>10, <1>12 DEF d

-----------------------------------------------------------------------------
(* The place a child refers back to is where it hangs.                     *)

LEMMA ListIsDistinct ==
  ASSUME NEW h \in Heap, NEW n \in Node, RefersBack(h, n)
  PROVE  Distinct(h.expressions[n])
<1>1. \A i \in 1..Len(h.expressions[n]) : h.index[h.expressions[n][i]] = i - 1
  BY DEF RefersBack, HangsAt
<1>2. \A i, j \in 1..Len(h.expressions[n]) : i - 1 = j - 1 => i = j
  BY FieldsOfNode
<1> QED BY <1>1, <1>2, SMTT(60) DEF Distinct

LEMMA PlaceOfChild ==
  ASSUME NEW h \in Heap, NEW n \in Node, RefersBack(h, n), NEW d \in Children(h, n)
  PROVE  /\ h.parent[d] = n
         /\ \/ /\ h.arg_key[d] = "this" /\ h.this[n] = d
               /\ \A j \in 1..Len(h.expressions[n]) : h.expressions[n][j] # d
            \/ /\ h.arg_key[d] = "expressions" /\ h.this[n] # d
               /\ h.index[d] \in Nat /\ h.index[d] < Len(h.expressions[n])
               /\ h.expressions[n][h.index[d] + 1] = d
               /\ \A j \in 1..Len(h.expressions[n]) : h.expressions[n][j] = d => j = h.index[d] + 1
<1> DEFINE l == h.expressions[n]
<1>1. Len(l) \in Nat /\ d \in Node /\ d # None
  BY FieldsOfNode, ChildrenAreNodes, TreeAssumption
<1>2. \A j \in 1..Len(l) : HangsAt(h, l[j], n, "expressions", j - 1)
  BY DEF RefersBack
<1> HIDE DEF l
<1>3. CASE h.this[n] = d
  <2>1. HangsAt(h, d, n, "this", None)
    BY <1>1, <1>3 DEF RefersBack
  <2>2. "this" # "expressions"
    OBVIOUS
  <2>3. \A j \in 1..Len(l) : l[j] # d
    BY <1>2, <2>1, <2>2 DEF HangsAt
  <2> QED BY <1>3, <2>1, <2>3 DEF HangsAt, l
<1>4. CASE h.this[n] # d
  <2>1. PICK i \in 1..Len(l) : d = l[i]
    BY <1>4, ChildrenAre DEF l
  <2>2. HangsAt(h, d, n, "expressions", i - 1)
    BY <1>2, <2>1
  <2>3. i - 1 \in Nat /\ i - 1 < Len(l) /\ (i - 1) + 1 = i
    BY <1>1
  <2>4. ASSUME NEW j \in 1..Len(l), l[j] = d PROVE j = i
    <3>1. j - 1 = i - 1
      BY <1>2, <2>2, <2>4 DEF HangsAt
    <3> QED BY <3>1
  <2> QED BY <1>4, <2>1, <2>2, <2>3, <2>4 DEF HangsAt, l
<1> QED BY <1>3, <1>4

(* A node put at a place that is one of a list or else "this".             *)
IsPlace(h, place, n) ==
  /\ place.node = n
  /\ place.key = "this" \/ (place.key # "this" /\ place.index \in Nat /\ place.index < Len(h.expressions[n]))

(* The children of a node beside the one at a place hang where they should *)
(* and are none of the nodes cs.                                           *)
Beside(h, top, S, place, n, cs) ==
  /\ place.key # "this" =>
       /\ ThisHangs(h, top, S, n) /\ (h.this[n] # None => h.this[n] \notin cs)
       /\ \A j \in 1..Len(h.expressions[n]) :
            j # place.index + 1 =>
              /\ h.expressions[n][j] \in S \ {top} /\ h.expressions[n][j] \notin cs
              /\ HangsAt(h, h.expressions[n][j], n, "expressions", j - 1)
  /\ place.key = "this" =>
       ListHangs(h, top, S, n) /\ \A j \in 1..Len(h.expressions[n]) : h.expressions[n][j] \notin cs

LEMMA PutAtPlace ==
  ASSUME NEW h \in Heap, NEW top, NEW S, NEW n \in S, NEW c \in S \ {top}, NEW place,
         AllBut(h, top, S, n), \A m \in S \ {n} : c \notin Children(h, m),
         IsPlace(h, place, n), Beside(h, top, S, place, n, {c}), Distinct(h.expressions[n]),
         Free(h, top)
  PROVE  Fine(SetPlace(h, place, c), top, S)
<1>1. n \in Node /\ c \in Node /\ S \subseteq Node
  BY DEF AllBut
<1>2. CASE place.key = "this"
  <2>1. SetPlace(h, place, c) = SetThis(h, n, c)
    BY <1>2 DEF SetPlace, IsPlace
  <2>2. ListHangs(h, top, S, n) /\ \A j \in 1..Len(h.expressions[n]) : h.expressions[n][j] # c
    BY <1>2 DEF Beside
  <2> QED BY <2>1, <2>2, PutThis
<1>3. CASE place.key # "this"
  <2> DEFINE l == h.expressions[n]
             i == place.index
             r == [l EXCEPT ![i + 1] = c]
  <2>1. l \in Seq(Node) /\ Len(l) \in Nat /\ DOMAIN l = 1..Len(l) /\ \A j \in 1..Len(l) : l[j] \in Node
    BY <1>1, FieldsOfNode
  <2>2. i \in Nat /\ i < Len(l) /\ i + 1 \in 1..Len(l) /\ ~(i >= Len(l))
    BY <1>3, <2>1 DEF IsPlace
  <2>3. \A j \in 1..Len(l) : j # i + 1 => l[j] \in S \ {top} /\ l[j] # c
                                            /\ HangsAt(h, l[j], n, "expressions", j - 1)
    BY <1>3 DEF Beside
  <2>4. SetPlace(h, place, c) = SetParents(h, n, r)
    BY <1>3, <2>2 DEF SetPlace, SetAt, IsPlace
  <2>5. Distinct(l)
    OBVIOUS
  <2> HIDE DEF l, i
  <2>6. r \in Seq(Node) /\ Len(r) = Len(l) /\ DOMAIN r = 1..Len(l)
        /\ \A j \in 1..Len(l) : r[j] = IF j = i + 1 THEN c ELSE l[j]
    BY <1>1, <2>1, <2>2
  <2> HIDE DEF r
  <2>7. Distinct(r)
    BY <2>3, <2>5, <2>6 DEF Distinct
  <2>8. \A x \in ToSet(r) : x = c \/ \E j \in 1..Len(l) : j # i + 1 /\ x = l[j]
    BY <2>6 DEF ToSet
  <2>9. ToSet(r) \subseteq S \ {top}
    BY <2>3, <2>8
  <2>10. ASSUME NEW m \in S \ {n} PROVE Children(h, m) \cap ToSet(r) = {}
    <3>1. SUFFICES ASSUME NEW x \in Children(h, m), x \in ToSet(r) PROVE FALSE
      OBVIOUS
    <3>2. x # c /\ h.parent[x] = m
      BY <1>1, <3>1, ParentOfChild DEF AllBut
    <3> QED BY <2>3, <2>8, <3>1, <3>2 DEF HangsAt
  <2>11. ThisHangs(h, top, S, n) /\ (h.this[n] # None => h.this[n] \notin ToSet(r))
    <3>1. ThisHangs(h, top, S, n) /\ (h.this[n] # None => h.this[n] # c)
      BY <1>3 DEF Beside
    <3>2. ASSUME h.this[n] # None, NEW j \in 1..Len(l), j # i + 1 PROVE h.this[n] # l[j]
      <4>1. h.arg_key[h.this[n]] = "this" /\ h.arg_key[l[j]] = "expressions"
        BY <2>3, <3>1, <3>2 DEF ThisHangs, HangsAt
      <4>2. "this" # "expressions"
        OBVIOUS
      <4> QED BY <4>1, <4>2
    <3> QED BY <2>8, <3>1, <3>2
  <2> QED BY <2>4, <2>6, <2>7, <2>9, <2>10, <2>11, PutList
<1> QED BY <1>2, <1>3

LEMMA PutListAtPlace ==
  ASSUME NEW h \in Heap, NEW top, NEW S, NEW n \in S, NEW place, place.key # "this",
         NEW new \in Seq(Node), Distinct(new), ToSet(new) \subseteq S \ {top},
         AllBut(h, top, S, n), \A m \in S \ {n} : Children(h, m) \cap ToSet(new) = {},
         IsPlace(h, place, n), Beside(h, top, S, place, n, ToSet(new)), Distinct(h.expressions[n]),
         Free(h, top)
  PROVE  Fine(SpliceAt(h, n, place.index, new), top, S)
<1> DEFINE l == h.expressions[n]
           i == place.index
           r == SubSeq(l, 1, i) \o new \o SubSeq(l, i + 2, Len(l))
<1>1. n \in Node /\ S \subseteq Node
  BY DEF AllBut
<1>2. l \in Seq(Node) /\ Len(l) \in Nat
  BY <1>1, FieldsOfNode
<1>3. i \in Nat /\ i < Len(l) /\ ~(i >= Len(l))
  BY <1>2 DEF IsPlace
<1>4. \A j \in 1..Len(l) : j # i + 1 => l[j] \in S \ {top} /\ l[j] \notin ToSet(new)
                                          /\ HangsAt(h, l[j], n, "expressions", j - 1)
  BY DEF Beside
<1>5. SpliceAt(h, n, i, new) = SetParents(h, n, r)
  BY <1>3 DEF SpliceAt
<1>6. Distinct(l)
  OBVIOUS
<1>7. ThisHangs(h, top, S, n) /\ (h.this[n] # None => h.this[n] \notin ToSet(new))
  BY DEF Beside
<1> HIDE DEF l, i
<1>8. r \in Seq(Node) /\ Distinct(r)
      /\ \A x \in ToSet(r) : x \in ToSet(new) \/ \E j \in 1..Len(l) : j # i + 1 /\ x = l[j]
  BY <1>2, <1>3, <1>4, <1>6, ListInPlace
<1> HIDE DEF r
<1>9. ToSet(r) \subseteq S \ {top}
  BY <1>4, <1>8
<1>10. ASSUME NEW m \in S \ {n} PROVE Children(h, m) \cap ToSet(r) = {}
  <2>1. SUFFICES ASSUME NEW x \in Children(h, m), x \in ToSet(r) PROVE FALSE
    OBVIOUS
  <2>2. x \notin ToSet(new) /\ h.parent[x] = m
    BY <1>1, <2>1, ParentOfChild DEF AllBut
  <2> QED BY <1>4, <1>8, <2>1, <2>2 DEF HangsAt
<1>11. h.this[n] # None => h.this[n] \notin ToSet(r)
  <2>1. ASSUME h.this[n] # None, NEW j \in 1..Len(l), j # i + 1 PROVE h.this[n] # l[j]
    <3>1. h.arg_key[h.this[n]] = "this" /\ h.arg_key[l[j]] = "expressions"
      BY <1>4, <1>7, <2>1 DEF ThisHangs, HangsAt
    <3>2. "this" # "expressions"
      OBVIOUS
    <3> QED BY <3>1, <3>2
  <2> QED BY <1>7, <1>8, <2>1
<1> QED BY <1>5, <1>7, <1>8, <1>9, <1>10, <1>11, PutList DEF i

-----------------------------------------------------------------------------
(* What is put into a tree: a set of trees with the tops cs.               *)
Trees(h, X, cs) ==
  /\ X \subseteq Node /\ cs \subseteq X
  /\ \A m \in X : Children(h, m) \subseteq X \ cs /\ RefersBack(h, m)

LEMMA OneTree ==
  ASSUME NEW h \in Heap, NEW c \in Node, IsTree(h, c)
  PROVE  Trees(h, Below(h, c), {c})
BY TreeIsSound DEF Sound, Trees

(* The tree of the caller is one, and it hangs nowhere.                    *)
Whole(h) == h \in Heap /\ IsTree(h, Root) /\ Free(h, Root)

LEMMA WholeIsSound ==
  ASSUME NEW h, Whole(h)
  PROVE  /\ h \in Heap /\ Free(h, Root) /\ IsTree(h, Root)
         /\ Root \in Node /\ Root \in Live(h) /\ Live(h) \subseteq Node
         /\ Sound(h, Root, Live(h))
         /\ \A n \in Live(h) : n \in Node /\ RefersBack(h, n) /\ Distinct(h.expressions[n])
<1>1. Root \in Node
  BY TreeAssumption
<1>2. Sound(h, Root, Live(h)) /\ Root \in Live(h) /\ Live(h) \subseteq Node
  BY <1>1, TreeIsSound, BelowIsClosed DEF Whole, Live
<1>3. \A n \in Live(h) : n \in Node /\ RefersBack(h, n) /\ Distinct(h.expressions[n])
  BY <1>2, ListIsDistinct DEF Whole, Sound
<1> QED BY <1>1, <1>2, <1>3 DEF Whole

LEMMA FineIsWhole ==
  ASSUME NEW g, NEW S, Fine(g, Root, S)
  PROVE  Whole(g)
BY SoundIsTree, TreeAssumption DEF Fine, Whole

(* Trees from outside beside the tree.                                     *)
LEMMA Adding ==
  ASSUME NEW h, Whole(h), NEW X, NEW cs, Trees(h, X, cs), X \cap Live(h) = {}
  PROVE  /\ Sound(h, Root, Live(h) \union X)
         /\ cs \subseteq (Live(h) \union X) \ {Root}
         /\ \A m \in Live(h) \union X : Children(h, m) \cap cs = {}
<1>1. Sound(h, Root, Live(h)) /\ Root \in Live(h)
  BY WholeIsSound
<1>2. \A m \in Live(h) : Children(h, m) \subseteq Live(h) \ {Root} /\ RefersBack(h, m)
  BY <1>1 DEF Sound
<1>3. \A m \in X : Children(h, m) \subseteq X \ cs /\ RefersBack(h, m)
  BY DEF Trees
<1>4. Sound(h, Root, Live(h) \union X)
  BY <1>1, <1>2, <1>3 DEF Sound, Trees
<1>5. \A m \in Live(h) \union X : Children(h, m) \cap cs = {}
  BY <1>2, <1>3 DEF Trees
<1> QED BY <1>1, <1>4, <1>5 DEF Trees

(* The tree without what is below the child d of n, and trees to put in    *)
(* its place.                                                              *)
LEMMA Grafting ==
  ASSUME NEW h, Whole(h), NEW n \in Live(h), NEW d \in Children(h, n),
         NEW X, NEW cs, Trees(h, X, cs), X \cap (Live(h) \ Below(h, d)) = {}
  PROVE  LET S == (Live(h) \ Below(h, d)) \union X
         IN /\ n \in S /\ AllBut(h, Root, S, n) /\ cs \subseteq S \ {Root}
            /\ \A m \in S \ {n} : Children(h, m) \cap cs = {}
            /\ \A x \in Children(h, n) : x # d => x \in S \ {Root} /\ x \notin cs
<1> DEFINE T == Live(h)
           D == Below(h, d)
           A == T \ D
           S == A \union X
<1>1. /\ h \in Heap /\ IsTree(h, Root) /\ Root \in Node /\ Root \in T /\ T \subseteq Node
      /\ Sound(h, Root, T)
  BY WholeIsSound
<1>2. /\ d \in D /\ D \subseteq T /\ Root \notin D /\ n \notin D
      /\ \A m \in A : \A x \in Children(h, m) \cap D : m = n /\ x = d
  BY <1>1, CutOff DEF Live
<1> HIDE DEF T, D
<1>3. \A m \in T : Children(h, m) \subseteq T \ {Root} /\ RefersBack(h, m)
  BY <1>1 DEF Sound
<1>4. \A m \in X : Children(h, m) \subseteq X \ cs /\ RefersBack(h, m)
  BY DEF Trees
<1>5. X \cap A = {} /\ cs \subseteq X /\ X \subseteq Node
  BY DEF Trees, T, D
<1>6. n \in A /\ Root \in A
  BY <1>1, <1>2 DEF T
<1>7. \A m \in A \ {n} : Children(h, m) \subseteq A \ {Root}
  BY <1>2, <1>3
<1>8. \A x \in Children(h, n) : x # d => x \in A \ {Root}
  BY <1>2, <1>3, <1>6
<1> HIDE DEF A
<1>9. AllBut(h, Root, S, n)
  <2>1. \A m \in A \ {n} : Children(h, m) \subseteq S \ {Root} /\ RefersBack(h, m)
    BY <1>3, <1>7 DEF A
  <2>2. \A m \in X : Children(h, m) \subseteq S \ {Root} /\ RefersBack(h, m)
    BY <1>4, <1>5, <1>6
  <2>3. S \subseteq Node
    BY <1>1, <1>5 DEF A
  <2> QED BY <1>6, <2>1, <2>2, <2>3 DEF AllBut
<1>10. \A m \in S \ {n} : Children(h, m) \cap cs = {}
  BY <1>4, <1>5, <1>7
<1> QED BY <1>5, <1>6, <1>8, <1>9, <1>10 DEF S, A, T, D

(* A child's place, seen from the other children of its parent.            *)
LEMMA BackPlaceBeside ==
  ASSUME NEW h \in Heap, NEW n \in Node, RefersBack(h, n), NEW d \in Children(h, n),
         NEW top, NEW S, NEW cs,
         \A x \in Children(h, n) : x # d => x \in S \ {top} /\ x \notin cs
  PROVE  IsPlace(h, BackPlace(h, d), n) /\ Beside(h, top, S, BackPlace(h, d), n, cs)
<1> DEFINE place == BackPlace(h, d)
           l == h.expressions[n]
<1>1. place.node = n /\ place.key = h.arg_key[d] /\ place.index = h.index[d]
  BY PlaceOfChild DEF BackPlace, Place
<1>2. /\ h.this[n] # None => h.this[n] \in Children(h, n) /\ HangsAt(h, h.this[n], n, "this", None)
      /\ \A j \in 1..Len(l) : l[j] \in Children(h, n) /\ HangsAt(h, l[j], n, "expressions", j - 1)
  BY ChildrenAre DEF RefersBack
<1> HIDE DEF place, l
<1>3. CASE h.arg_key[d] = "this" /\ \A j \in 1..Len(l) : l[j] # d
  <2>1. \A j \in 1..Len(l) : l[j] \in S \ {top} /\ l[j] \notin cs /\ HangsAt(h, l[j], n, "expressions", j - 1)
    BY <1>2, <1>3
  <2> QED BY <1>1, <1>3, <2>1 DEF IsPlace, Beside, ListHangs, place, l
<1>4. CASE /\ h.arg_key[d] = "expressions" /\ h.this[n] # d
           /\ h.index[d] \in Nat /\ h.index[d] < Len(l)
           /\ \A j \in 1..Len(l) : l[j] = d => j = h.index[d] + 1
  <2>1. h.this[n] # None => h.this[n] \in S \ {top} /\ h.this[n] \notin cs
    BY <1>2, <1>4
  <2>2. \A j \in 1..Len(l) : j # h.index[d] + 1 => l[j] \in S \ {top} /\ l[j] \notin cs
    BY <1>2, <1>4
  <2>3. "this" # "expressions"
    OBVIOUS
  <2>4. ThisHangs(h, top, S, n)
    BY <1>2, <2>1 DEF ThisHangs
  <2> QED BY <1>1, <1>2, <1>4, <2>1, <2>2, <2>3, <2>4 DEF IsPlace, Beside, place, l
<1> QED BY <1>3, <1>4, PlaceOfChild DEF l

-----------------------------------------------------------------------------
(* The edits of a whole tree leave it whole.                               *)

Outside(h, c) == IsTree(h, c) /\ Below(h, c) \cap Live(h) = {}

LEMMA InnerNode ==
  ASSUME NEW h, Whole(h), NEW m \in Live(h), m # Root
  PROVE  \E n \in Live(h) : m \in Children(h, n) /\ h.parent[m] = n /\ n \in Node
<1>1. h \in Heap /\ Root \in Node
  BY WholeIsSound
<1>2. PICK n \in Live(h) : m \in Children(h, n)
  BY <1>1, BelowIsChild DEF Live
<1>3. n \in Node /\ RefersBack(h, n)
  BY WholeIsSound
<1> QED BY <1>1, <1>2, <1>3, ParentOfChild

(* A node with another one in its place.                                   *)
LEMMA NodeInPlace ==
  ASSUME NEW h, Whole(h), NEW n \in Live(h), NEW d \in Children(h, n), NEW c,
         NEW X, Trees(h, X, {c}), X \cap (Live(h) \ Below(h, d)) = {}
  PROVE  Fine(SetPlace(h, BackPlace(h, d), c), Root, (Live(h) \ Below(h, d)) \union X)
<1> DEFINE S == (Live(h) \ Below(h, d)) \union X
           cs == {c}
           place == BackPlace(h, d)
<1>1. h \in Heap /\ Free(h, Root) /\ n \in Node /\ RefersBack(h, n) /\ Distinct(h.expressions[n])
  BY WholeIsSound
<1>2. /\ n \in S /\ AllBut(h, Root, S, n) /\ cs \subseteq S \ {Root}
      /\ \A m \in S \ {n} : Children(h, m) \cap cs = {}
      /\ \A x \in Children(h, n) : x # d => x \in S \ {Root} /\ x \notin cs
  <2> HIDE DEF cs
  <2>1. Trees(h, X, cs)
    BY DEF cs
  <2> QED BY <2>1, Grafting
<1> HIDE DEF S
<1>3. IsPlace(h, place, n) /\ Beside(h, Root, S, place, n, cs)
  <2> HIDE DEF cs
  <2> QED BY <1>1, <1>2, BackPlaceBeside
<1> HIDE DEF place
<1>4. c \in S \ {Root} /\ \A m \in S \ {n} : c \notin Children(h, m)
  BY <1>2
<1>5. Fine(SetPlace(h, place, c), Root, S)
  BY <1>1, <1>2, <1>3, <1>4, PutAtPlace
<1> QED BY <1>5 DEF S, place

(* A node without one in its place.                                        *)
LEMMA NoneInPlace ==
  ASSUME NEW h, Whole(h), NEW n \in Live(h), NEW d \in Children(h, n)
  PROVE  Fine(ClearPlace(h, BackPlace(h, d)), Root, Live(h) \ Below(h, d))
<1> DEFINE X == {}
           S == (Live(h) \ Below(h, d)) \union X
           cs == {}
           place == BackPlace(h, d)
<1>1. h \in Heap /\ Free(h, Root) /\ n \in Node /\ RefersBack(h, n)
  BY WholeIsSound
<1>2. /\ n \in S /\ AllBut(h, Root, S, n)
      /\ \A x \in Children(h, n) : x # d => x \in S \ {Root} /\ x \notin cs
  <2>1. Trees(h, X, cs) /\ X \cap (Live(h) \ Below(h, d)) = {}
    BY DEF Trees
  <2> HIDE DEF cs, X
  <2> QED BY <2>1, Grafting
<1>3. S = Live(h) \ Below(h, d)
  OBVIOUS
<1> HIDE DEF S, cs
<1>4. IsPlace(h, place, n) /\ Beside(h, Root, S, place, n, cs)
  BY <1>1, <1>2, BackPlaceBeside
<1>5. place.node = n
  BY <1>4 DEF IsPlace
<1> HIDE DEF place
<1>6. CASE place.key = "this"
  <2>1. ClearPlace(h, place) = ClearThis(h, n)
    BY <1>5, <1>6 DEF ClearPlace
  <2>2. ListHangs(h, Root, S, n)
    BY <1>4, <1>6 DEF Beside
  <2> QED BY <1>1, <1>2, <1>3, <2>1, <2>2, TakeThis DEF place
<1>7. CASE place.key # "this"
  <2>1. ClearPlace(h, place) = ClearAt(h, n, place.index)
    BY <1>5, <1>7 DEF ClearPlace
  <2>2. place.index \in Nat /\ place.index < Len(h.expressions[n])
    BY <1>4, <1>7 DEF IsPlace
  <2>3. ThisHangs(h, Root, S, n)
        /\ \A j \in 1..Len(h.expressions[n]) : j # place.index + 1 => h.expressions[n][j] \in S \ {Root}
    BY <1>4, <1>7 DEF Beside
  <2> DEFINE i == place.index
  <2> HIDE DEF i
  <2>4. i \in Nat /\ i < Len(h.expressions[n])
        /\ \A j \in 1..Len(h.expressions[n]) : j # i + 1 => h.expressions[n][j] \in S \ {Root}
    BY <2>2, <2>3 DEF i
  <2>5. Fine(ClearAt(h, n, i), Root, S)
    BY <1>1, <1>2, <2>3, <2>4, TakeAt
  <2> QED BY <1>3, <2>1, <2>5 DEF place, i
<1> QED BY <1>6, <1>7

LEMMA ReplacedIsWhole ==
  ASSUME NEW h, Whole(h), NEW m \in Live(h), NEW c \in Node, Outside(h, c) \/ c \in Below(h, m)
  PROVE  Whole(Replaced(h, m, c))
<1>1. CASE h.parent[m] \in {None, c}
  BY <1>1 DEF Replaced
<1>2. CASE h.parent[m] \notin {None, c}
  <2>1. m # Root
    BY <1>2 DEF Whole, Free
  <2>2. PICK n \in Live(h) : m \in Children(h, n)
    BY <2>1, InnerNode
  <2> DEFINE X == Below(h, c)
             D == Below(h, m)
             S == (Live(h) \ D) \union X
             set == SetPlace(h, BackPlace(h, m), c)
  <2>3. h \in Heap /\ Root \in Node /\ IsTree(h, Root) /\ m \in Node
    BY WholeIsSound
  <2>4. IsTree(h, c) /\ X \cap (Live(h) \ D) = {} /\ (c # m => m \notin X)
    <3>1. CASE Outside(h, c)
      BY <3>1 DEF Outside
    <3>2. CASE c \in Below(h, m)
      <4>1. IsTree(h, m)
        BY <2>3, SubtreeIsTree DEF Live
      <4>2. IsTree(h, c) /\ X \subseteq D
        BY <2>3, <3>2, <4>1, SubtreeIsTree
      <4>3. c # m => m \notin X
        BY <2>3, <3>2, OneIsAbove DEF Live
      <4> QED BY <4>2, <4>3
    <3> QED BY <3>1, <3>2
  <2>5. Trees(h, X, {c})
    BY <2>3, <2>4, OneTree
  <2>6. Fine(set, Root, S)
    BY <2>2, <2>4, <2>5, NodeInPlace
  <2>7. m \in D
    BY <2>3, BelowIsClosed
  <2>8. CASE c = m
    <3>1. Replaced(h, m, c) = set
      BY <1>2, <2>8 DEF Replaced
    <3> QED BY <2>6, <3>1, FineIsWhole
  <2>9. CASE c # m
    <3>1. Replaced(h, m, c) = Forget(set, {m})
      BY <1>2, <2>9 DEF Replaced
    <3>2. {m} \cap (S \ {Root}) = {}
      BY <2>4, <2>7, <2>9
    <3> HIDE DEF set, S
    <3>3. Fine(Forget(set, {m}), Root, S)
      BY <2>6, <3>2, ForgetIsSound DEF Fine
    <3> QED BY <3>1, <3>3, FineIsWhole
  <2> QED BY <2>8, <2>9
<1> QED BY <1>1, <1>2

LEMMA PoppedIsWhole ==
  ASSUME NEW h, Whole(h), NEW m \in Live(h)
  PROVE  Whole(Popped(h, m))
<1>1. CASE h.parent[m] = None
  BY <1>1 DEF Popped
<1>2. CASE h.parent[m] # None
  <2>1. m # Root
    BY <1>2 DEF Whole, Free
  <2>2. PICK n \in Live(h) : m \in Children(h, n)
    BY <2>1, InnerNode
  <2> DEFINE S == Live(h) \ Below(h, m)
             clear == ClearPlace(h, BackPlace(h, m))
  <2>3. Fine(clear, Root, S)
    BY <2>2, NoneInPlace
  <2>4. {m} \cap (S \ {Root}) = {}
    BY WholeIsSound, BelowIsClosed
  <2>5. Popped(h, m) = Forget(clear, {m})
    BY <1>2 DEF Popped
  <2> HIDE DEF clear, S
  <2>6. Fine(Forget(clear, {m}), Root, S)
    BY <2>3, <2>4, ForgetIsSound DEF Fine
  <2> QED BY <2>5, <2>6, FineIsWhole
<1> QED BY <1>1, <1>2

LEMMA SetThisIsWhole ==
  ASSUME NEW h, Whole(h), NEW n \in Live(h), NEW c \in Node,
         Outside(h, c) \/ (h.this[n] # None /\ c \in Below(h, h.this[n]))
  PROVE  Whole(SetThis(h, n, c))
<1> DEFINE X == Below(h, c)
<1>1. h \in Heap /\ Free(h, Root) /\ n \in Node /\ RefersBack(h, n) /\ IsTree(h, Root) /\ Root \in Node
  BY WholeIsSound
<1>2. CASE h.this[n] # None
  <2> DEFINE d == h.this[n]
  <2>1. d \in Children(h, n) /\ BackPlace(h, d) = Place(n, "this", None)
    BY <1>1, <1>2, ChildrenAre DEF RefersBack, HangsAt, BackPlace
  <2>2. SetPlace(h, BackPlace(h, d), c) = SetThis(h, n, c)
    BY <2>1 DEF SetPlace, Place
  <2>3. d \in Live(h) /\ IsTree(h, d)
    <3>1. d \in Live(h)
      BY <2>1, WholeIsSound DEF Sound
    <3> QED BY <1>1, <3>1, SubtreeIsTree DEF Live
  <2>4. IsTree(h, c) /\ X \cap (Live(h) \ Below(h, d)) = {}
    <3>1. CASE Outside(h, c)
      BY <3>1 DEF Outside
    <3>2. CASE c \in Below(h, d)
      <4>1. d \in Node
        BY <2>3, WholeIsSound
      <4> HIDE DEF d
      <4>2. IsTree(h, c) /\ X \subseteq Below(h, d)
        BY <1>1, <2>3, <3>2, <4>1, SubtreeIsTree
      <4> QED BY <4>2
    <3> QED BY <3>1, <3>2
  <2>5. Trees(h, X, {c})
    BY <1>1, <2>4, OneTree
  <2> HIDE DEF d, X
  <2>6. Fine(SetPlace(h, BackPlace(h, d), c), Root, (Live(h) \ Below(h, d)) \union X)
    BY <2>1, <2>4, <2>5, NodeInPlace
  <2> QED BY <2>2, <2>6, FineIsWhole
<1>3. CASE h.this[n] = None
  <2>1. IsTree(h, c) /\ X \cap Live(h) = {}
    BY <1>3 DEF Outside
  <2> DEFINE S == Live(h) \union X
             cs == {c}
  <2>2. Trees(h, X, cs)
    BY <1>1, <2>1, OneTree
  <2> HIDE DEF X, cs
  <2>3. Sound(h, Root, S) /\ cs \subseteq S \ {Root} /\ \A m \in S : Children(h, m) \cap cs = {}
    BY <2>1, <2>2, Adding
  <2>4. n \in S
    OBVIOUS
  <2> HIDE DEF S
  <2>5. c \in S \ {Root} /\ \A m \in S : c \notin Children(h, m)
    BY <2>3 DEF cs
  <2>6. AllBut(h, Root, S, n) /\ ListHangs(h, Root, S, n)
    BY <1>1, <2>3, <2>4, SoundByNode
  <2>7. \A i \in 1..Len(h.expressions[n]) : h.expressions[n][i] # c
    BY <1>1, <2>4, <2>5, ChildrenAre
  <2>8. Fine(SetThis(h, n, c), Root, S)
    BY <1>1, <2>4, <2>5, <2>6, <2>7, PutThis
  <2> QED BY <2>8, FineIsWhole
<1> QED BY <1>2, <1>3

LEMMA ClearThisIsWhole ==
  ASSUME NEW h, Whole(h), NEW n \in Live(h)
  PROVE  Whole(ClearThis(h, n))
<1> DEFINE S == Live(h)
<1>1. h \in Heap /\ Free(h, Root) /\ Sound(h, Root, S) /\ n \in S
  BY WholeIsSound
<1> HIDE DEF S
<1>2. AllBut(h, Root, S, n) /\ ListHangs(h, Root, S, n)
  BY <1>1, SoundByNode
<1>3. Fine(ClearThis(h, n), Root, S)
  BY <1>1, <1>2, TakeThis
<1> QED BY <1>3, FineIsWhole

LEMMA SetAtIsWhole ==
  ASSUME NEW h, Whole(h), NEW n \in Live(h), NEW i \in Nat, NEW c \in Node, Outside(h, c)
  PROVE  Whole(SetAt(h, n, i, c))
<1> DEFINE l == h.expressions[n]
           d == l[i + 1]
           X == Below(h, c)
<1>1. h \in Heap /\ n \in Node /\ RefersBack(h, n) /\ Len(l) \in Nat
  BY WholeIsSound, FieldsOfNode
<1>2. CASE i >= Len(l)
  BY <1>2 DEF SetAt
<1>3. CASE ~(i >= Len(l))
  <2>1. i + 1 \in 1..Len(l) /\ (i + 1) - 1 = i
    BY <1>1, <1>3
  <2>2. d \in Children(h, n)
    BY <1>1, <2>1, ChildrenAre
  <2>3. HangsAt(h, d, n, "expressions", i)
    BY <1>1, <2>1 DEF RefersBack
  <2>4. SetPlace(h, BackPlace(h, d), c) = SetAt(h, n, i, c)
    <3>1. BackPlace(h, d) = Place(n, "expressions", i) /\ "this" # "expressions"
      BY <2>3 DEF HangsAt, BackPlace
    <3> QED BY <3>1 DEF SetPlace, Place
  <2>5. Trees(h, X, {c}) /\ X \cap (Live(h) \ Below(h, d)) = {}
    BY <1>1, OneTree DEF Outside
  <2> HIDE DEF d, X
  <2>6. Fine(SetPlace(h, BackPlace(h, d), c), Root, (Live(h) \ Below(h, d)) \union X)
    BY <2>2, <2>5, NodeInPlace
  <2> QED BY <2>4, <2>6, FineIsWhole
<1> QED BY <1>2, <1>3

LEMMA ClearAtIsWhole ==
  ASSUME NEW h, Whole(h), NEW n \in Live(h), NEW i \in Nat
  PROVE  Whole(ClearAt(h, n, i))
<1> DEFINE l == h.expressions[n]
           d == l[i + 1]
<1>1. h \in Heap /\ n \in Node /\ RefersBack(h, n) /\ Len(l) \in Nat
  BY WholeIsSound, FieldsOfNode
<1>2. CASE i >= Len(l)
  BY <1>2 DEF ClearAt
<1>3. CASE ~(i >= Len(l))
  <2>1. i + 1 \in 1..Len(l) /\ (i + 1) - 1 = i
    BY <1>1, <1>3
  <2>2. d \in Children(h, n)
    BY <1>1, <2>1, ChildrenAre
  <2>3. HangsAt(h, d, n, "expressions", i)
    BY <1>1, <2>1 DEF RefersBack
  <2>4. ClearPlace(h, BackPlace(h, d)) = ClearAt(h, n, i)
    <3>1. BackPlace(h, d) = Place(n, "expressions", i) /\ "this" # "expressions"
      BY <2>3 DEF HangsAt, BackPlace
    <3> QED BY <3>1 DEF ClearPlace, Place
  <2> HIDE DEF d
  <2>5. Fine(ClearPlace(h, BackPlace(h, d)), Root, Live(h) \ Below(h, d))
    BY <2>2, NoneInPlace
  <2> QED BY <2>4, <2>5, FineIsWhole
<1> QED BY <1>2, <1>3

LEMMA AppendToIsWhole ==
  ASSUME NEW h, Whole(h), NEW n \in Live(h), NEW c \in Node, Outside(h, c)
  PROVE  Whole(AppendTo(h, n, c))
<1> DEFINE X == Below(h, c)
           S == Live(h) \union X
           cs == {c}
<1>1. h \in Heap /\ Free(h, Root)
  BY WholeIsSound
<1>2. Trees(h, X, cs) /\ X \cap Live(h) = {}
  BY <1>1, OneTree DEF Outside
<1> HIDE DEF X, cs
<1>3. Sound(h, Root, S) /\ cs \subseteq S \ {Root} /\ \A m \in S : Children(h, m) \cap cs = {}
  BY <1>2, Adding
<1>4. n \in S
  OBVIOUS
<1> HIDE DEF S
<1>5. c \in S \ {Root} /\ \A m \in S : c \notin Children(h, m)
  BY <1>3 DEF cs
<1>6. Fine(AppendTo(h, n, c), Root, S)
  BY <1>1, <1>3, <1>4, <1>5, AppendIsSound
<1> QED BY <1>6, FineIsWhole

(* A list, of members of the old one and of the tops of trees from         *)
(* outside.                                                                *)
LEMMA ListIsWhole ==
  ASSUME NEW h, Whole(h), NEW n \in Live(h), NEW l \in Seq(Node), Distinct(l),
         NEW X, NEW cs, Trees(h, X, cs), X \cap Live(h) = {},
         ToSet(l) \subseteq ToSet(h.expressions[n]) \union cs
  PROVE  Whole(SetParents(h, n, l))
<1> DEFINE S == Live(h) \union X
           old == ToSet(h.expressions[n])
<1>1. h \in Heap /\ Free(h, Root) /\ n \in Node /\ RefersBack(h, n)
  BY WholeIsSound
<1>2. Sound(h, Root, S) /\ cs \subseteq S \ {Root} /\ \A m \in S : Children(h, m) \cap cs = {}
  BY Adding
<1>3. n \in S
  OBVIOUS
<1>4. \A x \in old : x \in Children(h, n) /\ h.parent[x] = n /\ h.arg_key[x] = "expressions"
  <2>1. DOMAIN h.expressions[n] = 1..Len(h.expressions[n])
    BY <1>1, FieldsOfNode
  <2>2. \A j \in 1..Len(h.expressions[n]) :
          /\ h.expressions[n][j] \in Children(h, n)
          /\ HangsAt(h, h.expressions[n][j], n, "expressions", j - 1)
    BY <1>1, ChildrenAre DEF RefersBack
  <2> QED BY <2>1, <2>2 DEF HangsAt, ToSet
<1> HIDE DEF S, old
<1>5. AllBut(h, Root, S, n) /\ ThisHangs(h, Root, S, n) /\ S \subseteq Node
      /\ \A m \in S : RefersBack(h, m) /\ Children(h, m) \subseteq S \ {Root}
  BY <1>1, <1>2, <1>3, SoundByNode DEF Sound
<1>6. ToSet(l) \subseteq old \union cs
  BY DEF old
<1>7. ToSet(l) \subseteq S \ {Root}
  BY <1>2, <1>3, <1>4, <1>5, <1>6
<1>8. ASSUME NEW m \in S \ {n} PROVE Children(h, m) \cap ToSet(l) = {}
  <2>1. \A x \in Children(h, m) : h.parent[x] = m
    BY <1>1, <1>5, ParentOfChild
  <2> QED BY <1>2, <1>4, <1>6, <2>1
<1>9. h.this[n] # None => h.this[n] \notin ToSet(l)
  <2>1. SUFFICES ASSUME h.this[n] # None PROVE h.this[n] \notin ToSet(l)
    OBVIOUS
  <2>2. h.arg_key[h.this[n]] = "this" /\ "this" # "expressions" /\ h.this[n] \in Children(h, n)
    BY <1>1, <1>5, <2>1, ChildrenAre DEF ThisHangs, HangsAt
  <2> QED BY <1>2, <1>3, <1>4, <1>6, <2>2
<1>10. Fine(SetParents(h, n, l), Root, S)
  BY <1>1, <1>3, <1>5, <1>7, <1>8, <1>9, PutList
<1> QED BY <1>10, FineIsWhole

LEMMA InsertBeforeIsWhole ==
  ASSUME NEW h, Whole(h), NEW n \in Live(h), NEW i \in Nat, NEW c \in Node, Outside(h, c)
  PROVE  Whole(InsertBefore(h, n, i, c))
<1> DEFINE l == h.expressions[n]
           X == Below(h, c)
           cs == {c}
           r == InsertAt(l, i + 1, c)
<1>1. h \in Heap /\ n \in Node /\ RefersBack(h, n) /\ l \in Seq(Node) /\ Len(l) \in Nat /\ Distinct(l)
      /\ DOMAIN l = 1..Len(l)
  BY WholeIsSound, FieldsOfNode
<1>2. CASE i >= Len(l)
  BY <1>2 DEF InsertBefore
<1>3. CASE ~(i >= Len(l))
  <2>1. i < Len(l) /\ InsertBefore(h, n, i, c) = SetParents(h, n, r)
    BY <1>1, <1>3 DEF InsertBefore
  <2>2. Trees(h, X, cs) /\ X \cap Live(h) = {}
    BY <1>1, OneTree DEF Outside
  <2>3. c \notin ToSet(l)
    <3>1. \A j \in 1..Len(l) : l[j] \in Live(h)
      BY <1>1, WholeIsSound, ChildrenAre DEF Sound
    <3>2. c \in X
      BY <1>1, BelowIsClosed
    <3> QED BY <1>1, <2>2, <3>1, <3>2 DEF ToSet
  <2>4. r \in Seq(Node) /\ Distinct(r) /\ ToSet(r) \subseteq ToSet(l) \union cs
    BY <1>1, <2>1, <2>3, NodeInList
  <2> HIDE DEF r, cs, X
  <2> QED BY <2>1, <2>2, <2>4, ListIsWhole
<1> QED BY <1>2, <1>3

-----------------------------------------------------------------------------
(* The nodes and the lists of nodes that the callers put into the tree.    *)

LEMMA AloneIsOutside ==
  ASSUME NEW c, Alone(c)
  PROVE  Outside(heap, c)
BY DEF Alone, Outside

LEMMA ListsAreTrees ==
  ASSUME heap \in Heap, NEW l \in Lists
  PROVE  /\ l \in Seq(Node) /\ Distinct(l)
         /\ \E X : Trees(heap, X, ToSet(l)) /\ X \cap Live(heap) = {}
<1> DEFINE alone == {c \in Known : Alone(c)}
<1>1. \A c \in alone : c \in Node /\ Trees(heap, Below(heap, c), {c}) /\ Below(heap, c) \cap Live(heap) = {}
                       /\ c \in Below(heap, c)
  <2>1. SUFFICES ASSUME NEW c \in alone
                 PROVE  c \in Node /\ Trees(heap, Below(heap, c), {c}) /\ Below(heap, c) \cap Live(heap) = {}
                        /\ c \in Below(heap, c)
    OBVIOUS
  <2>2. c \in Node /\ IsTree(heap, c) /\ Below(heap, c) \cap Live(heap) = {}
    BY AloneIsOutside DEF Known, Outside
  <2> QED BY <2>2, OneTree, BelowIsClosed
<1>2. CASE \E c \in alone : l = <<c>>
  <2>1. PICK c \in alone : l = <<c>>
    BY <1>2
  <2>2. c \in Node
    BY <1>1
  <2>3. l \in Seq(Node) /\ Len(l) = 1 /\ ToSet(l) = {c}
    BY <2>1, <2>2 DEF ToSet
  <2>4. Distinct(l)
    BY <2>3 DEF Distinct
  <2> QED BY <1>1, <2>3, <2>4
<1>3. CASE \E c, d \in alone : l = <<c, d>> /\ Below(heap, l[1]) \cap Below(heap, l[2]) = {}
  <2>1. PICK c \in alone, d \in alone : l = <<c, d>> /\ Below(heap, l[1]) \cap Below(heap, l[2]) = {}
    BY <1>3
  <2> DEFINE C == Below(heap, c)
             D == Below(heap, d)
  <2>2. /\ c \in Node /\ Trees(heap, C, {c}) /\ C \cap Live(heap) = {} /\ c \in C
        /\ d \in Node /\ Trees(heap, D, {d}) /\ D \cap Live(heap) = {} /\ d \in D
        /\ C \cap D = {}
    BY <1>1, <2>1
  <2>3. l \in Seq(Node) /\ Len(l) = 2 /\ l[1] = c /\ l[2] = d
    BY <2>1, <2>2
  <2>4. ToSet(l) = {c, d}
    BY <2>1, <2>2 DEF ToSet
  <2> HIDE DEF C, D
  <2>5. Distinct(l)
    <3>1. c # d
      BY <2>2
    <3> QED BY <2>3, <3>1 DEF Distinct
  <2>6. Trees(heap, C \union D, {c, d})
    BY <2>2 DEF Trees
  <2>7. (C \union D) \cap Live(heap) = {}
    BY <2>2
  <2> QED BY <2>3, <2>4, <2>5, <2>6, <2>7
<1> QED BY <1>2, <1>3 DEF Lists

(* Members of a list, each at most once.                                   *)
LEMMA PermutationsOfList ==
  ASSUME NEW T, T \subseteq Node, NEW l \in SetToAllKPermutations(T)
  PROVE  l \in Seq(Node) /\ Distinct(l) /\ ToSet(l) \subseteq T
<1>1. IsFiniteSet(T)
  BY TreeAssumption, FS_Subset
<1>2. PICK t \in SUBSET T : l \in SetToSeqs(t)
  BY DEF SetToAllKPermutations
<1>3. IsFiniteSet(t) /\ Cardinality(t) \in Nat
  BY <1>1, <1>2, FS_Subset, FS_CardinalityType
<1> DEFINE k == Cardinality(t)
<1>4. l \in [1..k -> t] /\ \A i, j \in 1..k : i # j => l[i] # l[j]
  BY <1>2 DEF SetToSeqs
<1> HIDE DEF k
<1>5. l \in Seq(t) /\ Len(l) = k /\ DOMAIN l = 1..k
  BY <1>3, <1>4 DEF k
<1>6. Distinct(l)
  BY <1>4, <1>5 DEF Distinct
<1>7. ToSet(l) \subseteq T
  BY <1>2, <1>4 DEF ToSet
<1>8. l \in Seq(Node)
  BY <1>2, <1>5
<1> QED BY <1>6, <1>7, <1>8

LEMMA SetListIsWhole ==
  ASSUME Whole(heap), NEW n \in Live(heap),
         NEW l \in Lists \union SetToAllKPermutations(ToSet(heap.expressions[n]))
  PROVE  Whole(SetParents(heap, n, l))
<1>1. heap \in Heap /\ n \in Node
  BY WholeIsSound
<1>2. CASE l \in Lists
  <2>1. l \in Seq(Node) /\ Distinct(l)
    BY <1>1, <1>2, ListsAreTrees
  <2>2. PICK X : Trees(heap, X, ToSet(l)) /\ X \cap Live(heap) = {}
    BY <1>1, <1>2, ListsAreTrees
  <2> DEFINE cs == ToSet(l)
  <2>3. Trees(heap, X, cs) /\ ToSet(l) \subseteq ToSet(heap.expressions[n]) \union cs
    BY <2>2
  <2> HIDE DEF cs
  <2> QED BY <2>1, <2>2, <2>3, ListIsWhole
<1>3. CASE l \in SetToAllKPermutations(ToSet(heap.expressions[n]))
  <2> DEFINE X == {}
             cs == {}
             T == ToSet(heap.expressions[n])
  <2>1. T \subseteq Node
    BY <1>1, FieldsOfNode DEF ToSet
  <2>2. Trees(heap, X, cs) /\ X \cap Live(heap) = {}
    BY DEF Trees
  <2>3. l \in SetToAllKPermutations(T)
    BY <1>3
  <2> HIDE DEF T
  <2>4. l \in Seq(Node) /\ Distinct(l) /\ ToSet(l) \subseteq T
    BY <2>1, <2>3, PermutationsOfList
  <2>5. ToSet(l) \subseteq ToSet(heap.expressions[n]) \union cs
    BY <2>4 DEF T
  <2> HIDE DEF X, cs
  <2> QED BY <2>2, <2>4, <2>5, ListIsWhole
<1> QED BY <1>2, <1>3

-----------------------------------------------------------------------------
(* A node put between a node of the tree and its parent.                   *)

LEMMA StillBeside ==
  ASSUME NEW h \in Heap, NEW g \in Heap, NEW top, NEW S, NEW place, NEW n \in Node, NEW c, NEW d,
         Beside(h, top, S, place, n, {c, d}),
         g.this[n] = h.this[n], g.expressions[n] = h.expressions[n],
         \A x \in Node : x # d => Same(g, h, x)
  PROVE  Beside(g, top, S, place, n, {c})
<1> DEFINE l == h.expressions[n]
<1>1. /\ h.this[n] \in Node \union {None}
      /\ \A j \in 1..Len(l) : l[j] \in Node
  BY FieldsOfNode
<1>2. ASSUME ThisHangs(h, top, S, n), h.this[n] # None => h.this[n] \notin {c, d}
      PROVE  ThisHangs(g, top, S, n)
  BY <1>1, <1>2 DEF ThisHangs, HangsAt, Same
<1>3. ASSUME NEW j \in 1..Len(l), l[j] \notin {c, d}, HangsAt(h, l[j], n, "expressions", j - 1)
      PROVE  HangsAt(g, l[j], n, "expressions", j - 1)
  BY <1>1, <1>3 DEF HangsAt, Same
<1>4. CASE place.key = "this"
  <2>1. ListHangs(h, top, S, n) /\ \A j \in 1..Len(l) : l[j] \notin {c, d}
    BY <1>4 DEF Beside
  <2>2. ListHangs(g, top, S, n)
    BY <1>3, <2>1 DEF ListHangs
  <2> QED BY <1>4, <2>1, <2>2 DEF Beside
<1>5. CASE place.key # "this"
  <2>1. /\ ThisHangs(h, top, S, n) /\ (h.this[n] # None => h.this[n] \notin {c, d})
        /\ \A j \in 1..Len(l) : j # place.index + 1 =>
             l[j] \in S \ {top} /\ l[j] \notin {c, d} /\ HangsAt(h, l[j], n, "expressions", j - 1)
    BY <1>5 DEF Beside
  <2>2. ThisHangs(g, top, S, n)
    BY <1>2, <2>1
  <2>3. \A j \in 1..Len(l) : j # place.index + 1 => HangsAt(g, l[j], n, "expressions", j - 1)
    BY <1>3, <2>1
  <2> QED BY <1>5, <2>1, <2>2, <2>3 DEF Beside
<1> QED BY <1>4, <1>5

LEMMA WrappedIsWhole ==
  ASSUME NEW h, Whole(h), NEW m \in Live(h), m # Root, NEW w \in Node, Outside(h, w)
  PROVE  Whole(Wrapped(h, m, w))
<1> DEFINE X == Below(h, w)
           S == Live(h) \union X
           cs == {w}
           g == SetThis(h, w, m)
           place == BackPlace(h, m)
<1>1. h \in Heap /\ Free(h, Root) /\ m \in Node /\ Root \in Node /\ Root \in Live(h)
  BY WholeIsSound
<1>2. PICK n \in Live(h) : m \in Children(h, n) /\ h.parent[m] = n /\ n \in Node
  BY InnerNode
<1>3. RefersBack(h, n) /\ Distinct(h.expressions[n])
  BY WholeIsSound
<1>4. w \in X /\ X \cap Live(h) = {} /\ Closed(h, X) /\ Trees(h, X, cs)
  BY <1>1, OneTree, BelowIsClosed DEF Outside
<1>5. n # w /\ m # w /\ m \notin X /\ n \in S /\ w \in S /\ m \in S
  BY <1>4
<1> HIDE DEF X, cs
<1>6. Sound(h, Root, S) /\ cs \subseteq S \ {Root} /\ \A k \in S : Children(h, k) \cap cs = {}
  BY <1>4, Adding
<1>7. \A k \in Children(h, w) : k \in X
  BY <1>4 DEF Closed
<1> HIDE DEF S
<1>8. w \in S \ {Root} /\ \A k \in S : w \notin Children(h, k)
  BY <1>6 DEF cs
<1>9. S \subseteq Node /\ \A k \in S : Children(h, k) \subseteq S \ {Root} /\ RefersBack(h, k)
  BY <1>6 DEF Sound
<1>10. /\ g \in Heap /\ g.this = [h.this EXCEPT ![w] = m] /\ g.expressions = h.expressions
       /\ HangsAt(g, m, w, "this", None)
       /\ \A x \in Node : x # m => Same(g, h, x)
  BY <1>1, SetThisFields
<1>11. /\ g.this[w] = m
       /\ \A k \in Node : k # w => g.this[k] = h.this[k]
  BY <1>1, <1>10 DEF Heap
<1> HIDE DEF g, place
<1>12. ASSUME NEW k \in S, k # n, k # w
       PROVE  Children(g, k) = Children(h, k) /\ RefersBack(g, k)
  <2>1. k \in Node /\ RefersBack(h, k) /\ g.this[k] = h.this[k] /\ g.expressions[k] = h.expressions[k]
    BY <1>9, <1>10, <1>11, <1>12
  <2>2. \A x \in Children(h, k) : x \in Node /\ h.parent[x] = k
    BY <1>1, <2>1, ParentOfChild, ChildrenAreNodes
  <2>3. \A x \in Children(h, k) : Same(g, h, x)
    BY <1>2, <1>10, <1>12, <2>2
  <2> QED BY <1>1, <2>1, <2>3, Untouched
<1>13. /\ RefersBack(g, w)
       /\ \A x \in Children(g, w) : x = m \/ x \in Children(h, w)
  <2>1. \A i \in 1..Len(h.expressions[w]) : HangsAt(h, h.expressions[w][i], w, "expressions", i - 1)
    BY <1>5, <1>9 DEF RefersBack
  <2>2. \A i \in 1..Len(h.expressions[w]) : h.expressions[w][i] \in Children(h, w)
    BY <1>1, ChildrenAre
  <2>3. \A i \in 1..Len(h.expressions[w]) : h.expressions[w][i] \in Node /\ h.expressions[w][i] # m
    BY <1>1, <1>5, <1>7, <2>2, FieldsOfNode
  <2>4. \A i \in 1..Len(g.expressions[w]) : HangsAt(g, g.expressions[w][i], w, "expressions", i - 1)
    BY <1>10, <2>1, <2>3, SMTT(60) DEF HangsAt, Same
  <2>5. RefersBack(g, w)
    BY <1>10, <1>11, <2>4 DEF RefersBack
  <2>6. \A x \in Children(g, w) : x = m \/ x \in Children(h, w)
    <3>1. \A x \in Children(g, w) : (g.this[w] # None /\ x = g.this[w]) \/ \E i \in 1..Len(g.expressions[w]) : x = g.expressions[w][i]
      BY <1>10, ChildrenAre
    <3> QED BY <1>10, <1>11, <2>2, <3>1
  <2> QED BY <2>5, <2>6
<1>14. AllBut(g, Root, S, n)
  <2>1. \A k \in S \ {n} : Children(g, k) \subseteq S \ {Root} /\ RefersBack(g, k)
    BY <1>5, <1>9, <1>12, <1>13
  <2>2. Root \in S
    BY <1>6 DEF Sound
  <2> QED BY <1>5, <1>9, <2>1, <2>2 DEF AllBut
<1>15. \A k \in S \ {n} : w \notin Children(g, k)
  BY <1>5, <1>8, <1>12, <1>13
<1>16. IsPlace(h, place, n) /\ Beside(h, Root, S, place, n, {w, m})
  <2> DEFINE ws == {w, m}
  <2>1. \A x \in Children(h, n) : x # m => x \in S \ {Root} /\ x \notin ws
    BY <1>5, <1>8, <1>9
  <2> HIDE DEF ws
  <2>2. IsPlace(h, place, n) /\ Beside(h, Root, S, place, n, ws)
    BY <1>1, <1>2, <1>3, <2>1, BackPlaceBeside DEF place
  <2> QED BY <2>2 DEF ws
<1>17. g.this[n] = h.this[n] /\ g.expressions[n] = h.expressions[n]
  BY <1>2, <1>5, <1>10, <1>11
<1>18. IsPlace(g, place, n) /\ Beside(g, Root, S, place, n, {w}) /\ Distinct(g.expressions[n])
  <2>1. Beside(g, Root, S, place, n, {w})
    BY <1>1, <1>2, <1>10, <1>16, <1>17, StillBeside
  <2> QED BY <1>3, <1>16, <1>17, <2>1 DEF IsPlace
<1>19. Free(g, Root)
  BY <1>1, <1>10 DEF Free, Same
<1>20. Fine(SetPlace(g, place, w), Root, S)
  BY <1>5, <1>8, <1>10, <1>14, <1>15, <1>18, <1>19, PutAtPlace
<1> QED BY <1>20, FineIsWhole DEF Wrapped, g, place

-----------------------------------------------------------------------------
(* replace by a list: what the climb to an argument that is a list comes   *)
(* to.                                                                     *)

UpFrom(h, m) ==
  LET up[k \in 0..Size] ==
        IF k = 0 THEN m
        ELSE IF h.arg_key[up[k - 1]] = "this" THEN h.parent[up[k - 1]] ELSE up[k - 1]
  IN up

LEMMA UpStepByStep ==
  ASSUME NEW h, NEW S, NEW m \in S,
         \A x \in S : h.arg_key[x] = "this" => h.parent[x] \in S
  PROVE  /\ UpFrom(h, m) \in [0..Size -> S]
         /\ UpFrom(h, m)[0] = m
         /\ \A k \in 1..Size :
              UpFrom(h, m)[k] = LET x == UpFrom(h, m)[k - 1]
                                IN IF h.arg_key[x] = "this" THEN h.parent[x] ELSE x
<1> DEFINE More(x) == IF h.arg_key[x] = "this" THEN h.parent[x] ELSE x
           Body(f) == [k \in 0..Size |-> IF k = 0 THEN m ELSE More(f[k - 1])]
           up == UpFrom(h, m)
           next == [p \in (1..Size) \X S |-> More(p[2])]
<1>1. \A x \in S : More(x) \in S
  OBVIOUS
<1>2. up = CHOOSE f : f = Body(f)
  BY DEF UpFrom
<1>3. Size \in Nat
  BY SizeIsNumber
<1> HIDE DEF More
<1>4. next \in [(1..Size) \X S -> S]
  BY <1>1
<1> HIDE DEF next
<1>5. PICK g : Recursive(g, Size, S, m, next)
  BY <1>3, <1>4, Recursion
<1>6. g \in [0..Size -> S] /\ g[0] = m /\ \A k \in 1..Size : g[k] = next[<<k, g[k - 1]>>]
  BY <1>5 DEF Recursive
<1>7. \A k \in 1..Size : g[k] = More(g[k - 1])
  <2>1. SUFFICES ASSUME NEW k \in 1..Size PROVE g[k] = More(g[k - 1])
    OBVIOUS
  <2>2. k - 1 \in 0..Size
    BY <1>3
  <2>3. g[k - 1] \in S
    BY <1>6, <2>2
  <2>4. next[<<k, g[k - 1]>>] = More(g[k - 1])
    BY <2>3 DEF next
  <2> QED BY <1>6, <2>4
<1>8. g = Body(g)
  <2>1. \A k \in 0..Size : g[k] = IF k = 0 THEN m ELSE More(g[k - 1])
    BY <1>3, <1>6, <1>7
  <2>2. g = [k \in 0..Size |-> g[k]]
    BY <1>6
  <2> QED BY <2>1, <2>2
<1>9. up = Body(up)
  <2> HIDE DEF Body, up
  <2> QED BY <1>2, <1>8
<1> HIDE DEF up
<1>10. up[0] = m
  BY <1>3, <1>9
<1>11. \A k \in 1..Size : up[k] = More(up[k - 1])
  <2>1. SUFFICES ASSUME NEW k \in 1..Size PROVE up[k] = More(up[k - 1])
    OBVIOUS
  <2>2. k \in 0..Size /\ k # 0
    BY <1>3
  <2>3. Body(up)[k] = More(up[k - 1])
    BY <2>2
  <2> HIDE DEF Body
  <2> QED BY <1>9, <2>3
<1> DEFINE P == {k \in 0..Size : up[k] \in S}
<1>12. \A k \in 0..Size : k \in P
  <2>1. 0 \in P
    BY <1>3, <1>10
  <2>2. ASSUME NEW k \in 1..Size, k - 1 \in P PROVE k \in P
    <3>1. k \in 0..Size /\ up[k - 1] \in S
      BY <1>3, <2>2
    <3> QED BY <1>1, <1>11, <3>1
  <2> HIDE DEF P
  <2> QED BY <1>3, <2>1, <2>2, UpTo
<1>13. up \in [0..Size -> S]
  <2>1. Body(up) = [k \in 0..Size |-> Body(up)[k]]
    OBVIOUS
  <2>2. up = [k \in 0..Size |-> up[k]]
    <3> HIDE DEF Body
    <3> QED BY <1>9, <2>1
  <2> QED BY <1>12, <2>2
<1> QED BY <1>10, <1>11, <1>13 DEF up, More

(* Under a node k that hangs in a list the climb ends at or below k, at a  *)
(* node that does not hang at "this", and above all that it went through.  *)
LEMMA ClimbEnds ==
  ASSUME NEW h, Whole(h), NEW k \in Live(h), h.arg_key[k] = "expressions", NEW m \in Below(h, k)
  PROVE  LET top == UpFrom(h, m)[Size]
         IN /\ top \in Live(h) /\ h.arg_key[top] # "this" /\ top # Root
            /\ \A j \in 0..Size : UpFrom(h, m)[j] \in Below(h, top)
<1> DEFINE D == Below(h, k)
           up == UpFrom(h, m)
           More(x) == IF h.arg_key[x] = "this" THEN h.parent[x] ELSE x
           Deep(x) == Cardinality(Below(h, x))
<1>1. h \in Heap /\ IsTree(h, Root) /\ Root \in Node /\ k \in Node /\ Live(h) \subseteq Node
      /\ Root \in Live(h) /\ Free(h, Root) /\ Sound(h, Root, Live(h))
  BY WholeIsSound
<1>2. D \subseteq Live(h) /\ IsTree(h, k) /\ k \in D
  BY <1>1, SubtreeIsTree, BelowIsClosed DEF Live
<1>3. \A x \in D : x # k => \E n \in D : x \in Children(h, n) /\ h.parent[x] = n
  <2>1. SUFFICES ASSUME NEW x \in D, x # k PROVE \E n \in D : x \in Children(h, n) /\ h.parent[x] = n
    OBVIOUS
  <2>2. PICK n \in D : x \in Children(h, n)
    BY <1>1, <2>1, BelowIsChild
  <2>3. n \in Node /\ RefersBack(h, n)
    BY <1>2, WholeIsSound
  <2> QED BY <1>1, <2>2, <2>3, ParentOfChild
<1>4. \A x \in D : h.arg_key[x] = "this" => h.parent[x] \in D
  <2>1. "this" # "expressions"
    OBVIOUS
  <2> QED BY <1>3, <2>1
<1> HIDE DEF D
<1>5. up \in [0..Size -> D] /\ up[0] = m /\ \A j \in 1..Size : up[j] = More(up[j - 1])
  BY <1>4, UpStepByStep DEF D
<1>6. Root \notin D
  <2>1. SUFFICES ASSUME Root \in D PROVE FALSE
    OBVIOUS
  <2>2. k # Root
    <3>1. "expressions" # None
      BY TreeAssumption
    <3> QED BY <1>1, <3>1 DEF Free
  <2>3. PICK n \in D : Root \in Children(h, n)
    BY <1>3, <2>1, <2>2
  <2> QED BY <1>1, <1>2, <2>3 DEF Sound
<1>7. Size \in Nat /\ IsFiniteSet(Node)
  BY SizeIsNumber, TreeAssumption
<1>8. ASSUME NEW x \in D
      PROVE  /\ x \in Node /\ x \in Below(h, x) /\ Below(h, x) \subseteq Node /\ IsFiniteSet(Below(h, x))
             /\ Deep(x) \in Nat /\ Deep(x) >= 1 /\ Deep(x) <= Size
  <2>1. x \in Node
    BY <1>1, <1>2
  <2>2. x \in Below(h, x) /\ Below(h, x) \subseteq Node
    BY <1>1, <2>1, BelowIsClosed
  <2>3. IsFiniteSet(Below(h, x)) /\ Deep(x) \in Nat /\ Deep(x) <= Size
    BY <1>7, <2>2, FS_Subset, FS_CardinalityType DEF Size
  <2>4. Deep(x) # 0
    BY <2>2, <2>3, FS_EmptySet
  <2> QED BY <2>1, <2>2, <2>3, <2>4
<1>9. ASSUME NEW x \in D, h.arg_key[x] = "this"
      PROVE  Below(h, x) \subseteq Below(h, h.parent[x]) /\ Deep(h.parent[x]) >= Deep(x) + 1
  <2>1. x # k
    BY <1>9
  <2>2. PICK n \in D : x \in Children(h, n) /\ h.parent[x] = n
    BY <1>3, <2>1
  <2>3. n \in Live(h)
    BY <1>2
  <2>4. n \notin Below(h, x)
    BY <1>1, <2>2, <2>3, CutOff DEF Live
  <2>5. x \in Below(h, n) /\ n \in Below(h, n) /\ n \in Node
    BY <1>1, <1>8, <2>2, BelowIsClosed DEF Closed
  <2>6. Below(h, x) \subseteq Below(h, n)
    BY <1>1, <2>5, BelowGoesDown
  <2>7. Deep(x) <= Deep(n) /\ Deep(x) # Deep(n)
    BY <1>8, <2>2, <2>4, <2>5, <2>6, FS_Subset
  <2> QED BY <1>8, <2>2, <2>6, <2>7
<1> HIDE DEF up, Deep
<1> DEFINE P == {j \in 0..Size : /\ \A i \in 0..j : up[i] \in Below(h, up[j])
                                 /\ h.arg_key[up[j]] # "this" \/ Deep(up[j]) >= j + 1}
<1>10. 0 \in P
  <2>1. up[0] \in D /\ 0 \in 0..Size
    BY <1>5, <1>7
  <2>2. \A i \in 0..0 : i = 0
    OBVIOUS
  <2> QED BY <1>8, <2>1, <2>2
<1>11. ASSUME NEW j \in 1..Size, j - 1 \in P PROVE j \in P
  <2> DEFINE x == up[j - 1]
             y == up[j]
  <2>1. j \in 0..Size /\ j - 1 \in 0..Size /\ x \in D /\ y \in D /\ y = More(x)
        /\ \A i \in 0..j : i \in 0..(j - 1) \/ i = j
    BY <1>5, <1>7
  <2>2. /\ \A i \in 0..(j - 1) : up[i] \in Below(h, x)
        /\ h.arg_key[x] # "this" \/ Deep(x) >= (j - 1) + 1
    BY <1>11
  <2> HIDE DEF P
  <2>3. y \in Below(h, y) /\ Deep(x) \in Nat /\ Deep(y) \in Nat
    BY <1>8, <2>1
  <2>4. Below(h, x) \subseteq Below(h, y)
    BY <1>9, <2>1
  <2>5. \A i \in 0..j : up[i] \in Below(h, y)
    BY <2>1, <2>2, <2>3, <2>4
  <2>6. h.arg_key[y] # "this" \/ Deep(y) >= j + 1
    <3>1. CASE h.arg_key[x] # "this"
      BY <2>1, <3>1
    <3>2. CASE h.arg_key[x] = "this"
      <4>1. Deep(y) >= Deep(x) + 1 /\ Deep(x) >= (j - 1) + 1
        BY <1>9, <2>1, <2>2, <3>2
      <4> QED BY <2>1, <2>3, <4>1
    <3> QED BY <3>1, <3>2
  <2> QED BY <2>1, <2>5, <2>6 DEF P
<1>12. \A j \in 0..Size : j \in P
  <2> HIDE DEF P
  <2> QED BY <1>7, <1>10, <1>11, UpTo
<1>13. Size \in 0..Size /\ up[Size] \in D
  BY <1>5, <1>7
<1>14. /\ \A i \in 0..Size : up[i] \in Below(h, up[Size])
       /\ h.arg_key[up[Size]] # "this" \/ Deep(up[Size]) >= Size + 1
  BY <1>12, <1>13
<1>15. ~(Deep(up[Size]) >= Size + 1)
  BY <1>7, <1>8, <1>13
<1> QED BY <1>2, <1>6, <1>13, <1>14, <1>15 DEF up

LEMMA ReplacedByListIsWhole ==
  ASSUME Whole(heap), NEW m \in Live(heap), UnderList(m), NEW new \in Lists
  PROVE  Whole(ReplacedByList(heap, m, new))
<1> DEFINE up == UpFrom(heap, m)
           top == up[Size]
           ms == {up[k] : k \in 0..Size}
           place == BackPlace(heap, top)
           D == Below(heap, top)
           cs == ToSet(new)
<1>1. heap \in Heap /\ Free(heap, Root)
  BY WholeIsSound
<1>2. top \in Live(heap) /\ heap.arg_key[top] # "this" /\ top # Root /\ ms \subseteq D
  <2>1. PICK k \in Live(heap) : m \in Below(heap, k) /\ heap.arg_key[k] = "expressions"
    BY DEF UnderList
  <2>2. top \in Live(heap) /\ heap.arg_key[top] # "this" /\ top # Root /\ \A j \in 0..Size : up[j] \in D
    BY <2>1, ClimbEnds
  <2> HIDE DEF up, D
  <2>3. ms \subseteq D
    BY <2>2
  <2> QED BY <2>2, <2>3
<1>3. ReplacedByList(heap, m, new) =
        Forget(IF heap.parent[top] = None THEN heap
               ELSE SpliceAt(heap, heap.parent[top], heap.index[top], new), ms)
  BY DEF ReplacedByList, UpFrom, Size
<1> HIDE DEF top, ms
<1>4. PICK n \in Live(heap) : top \in Children(heap, n) /\ heap.parent[top] = n /\ n \in Node
  BY <1>2, InnerNode
<1>5. RefersBack(heap, n) /\ Distinct(heap.expressions[n])
  BY WholeIsSound
<1> DEFINE set == SpliceAt(heap, n, place.index, new)
<1>6. ReplacedByList(heap, m, new) = Forget(set, ms)
  <2>1. heap.parent[top] # None /\ place.index = heap.index[top]
    BY <1>4, TreeAssumption DEF BackPlace, Place
  <2> QED BY <1>3, <1>4, <2>1
<1>7. new \in Seq(Node) /\ Distinct(new)
  BY <1>1, ListsAreTrees
<1>8. PICK X : Trees(heap, X, cs) /\ X \cap Live(heap) = {}
  BY <1>1, ListsAreTrees
<1> DEFINE S == (Live(heap) \ D) \union X
<1> HIDE DEF cs
<1>9. /\ n \in S /\ AllBut(heap, Root, S, n) /\ cs \subseteq S \ {Root}
      /\ \A k \in S \ {n} : Children(heap, k) \cap cs = {}
      /\ \A x \in Children(heap, n) : x # top => x \in S \ {Root} /\ x \notin cs
  <2>1. X \cap (Live(heap) \ D) = {}
    BY <1>8
  <2>2. top \in Children(heap, n) /\ Trees(heap, X, cs)
    BY <1>4, <1>8
  <2> QED BY <2>1, <2>2, Grafting, Zenon
<1>10. ms \cap (S \ {Root}) = {}
  <2>1. D \subseteq Live(heap)
    BY <1>1, <1>2, TreeAssumption, BelowGoesDown DEF Live
  <2> QED BY <1>2, <1>8, <2>1
<1> HIDE DEF S
<1>11. IsPlace(heap, place, n) /\ Beside(heap, Root, S, place, n, cs)
  BY <1>1, <1>4, <1>5, <1>9, BackPlaceBeside
<1>12. place.key # "this"
  BY <1>2 DEF BackPlace, Place
<1> HIDE DEF place
<1>13. Fine(set, Root, S)
  BY <1>1, <1>5, <1>7, <1>9, <1>11, <1>12, PutListAtPlace DEF cs
<1> HIDE DEF set
<1>14. Fine(Forget(set, ms), Root, S)
  BY <1>10, <1>13, ForgetIsSound DEF Fine
<1> QED BY <1>6, <1>14, FineIsWhole

-----------------------------------------------------------------------------
(* The edits, one after the other.                                         *)

LEMMA HeapAtFirst ==
  ASSUME Init
  PROVE  Whole(heap)
<1>1. heap = [this |-> heap.this, expressions |-> heap.expressions, parent |-> heap.parent,
              arg_key |-> heap.arg_key, index |-> heap.index]
      /\ heap.this = [n \in Node |-> None] /\ heap.expressions = [n \in Node |-> <<>>]
      /\ heap.parent = [n \in Node |-> None] /\ heap.arg_key = [n \in Node |-> None]
      /\ heap.index = [n \in Node |-> None]
  BY DEF Init
<1>2. <<>> \in Seq(Node) /\ Len(<<>>) = 0
  OBVIOUS
<1>3. heap \in Heap
  <2>1. heap.this \in [Node -> Node \union {None}] /\ heap.parent \in [Node -> Node \union {None}]
    BY <1>1
  <2>2. heap.arg_key \in [Node -> {"this", "expressions", None}] /\ heap.index \in [Node -> Nat \union {None}]
    BY <1>1
  <2>3. heap.expressions \in [Node -> Seq(Node)]
    BY <1>1, <1>2
  <2> QED BY <1>1, <2>1, <2>2, <2>3, HeapFields
<1>4. Root \in Node /\ heap.this[Root] = None /\ heap.expressions[Root] = <<>> /\ Free(heap, Root)
  BY <1>1, TreeAssumption DEF Free
<1>5. RefersBack(heap, Root) /\ Children(heap, Root) = {}
  <2>1. ToSet(<<>>) = {}
    BY <1>2 DEF ToSet
  <2> QED BY <1>2, <1>4, <2>1 DEF RefersBack, Children
<1>6. Fine(heap, Root, {Root})
  BY <1>3, <1>4, <1>5 DEF Fine, Sound
<1> QED BY <1>6, FineIsWhole

LEMMA EditsLeaveItWhole ==
  ASSUME Whole(heap), Next
  PROVE  Whole(heap')
<1>1. heap \in Heap /\ Live(heap) \subseteq Node /\ Known \subseteq Node
  BY WholeIsSound DEF Known
<1>2. \A n \in Live(heap) : Len(heap.expressions[n]) \in Nat
  BY <1>1, FieldsOfNode
<1>3. CASE Set
  <2>1. PICK n \in Live(heap), c \in Known :
          /\ Alone(c) \/ (heap.this[n] # None /\ c \in Below(heap, heap.this[n]))
          /\ heap' = SetThis(heap, n, c)
    BY <1>3 DEF Set
  <2> QED BY <1>1, <2>1, AloneIsOutside, SetThisIsWhole
<1>4. CASE Clear
  BY <1>4, ClearThisIsWhole DEF Clear
<1>5. CASE SetList
  <2>1. PICK n \in Live(heap) :
          \E l \in Lists \union SetToAllKPermutations(ToSet(heap.expressions[n])) : heap' = SetParents(heap, n, l)
    BY <1>5 DEF SetList
  <2>2. PICK l \in Lists \union SetToAllKPermutations(ToSet(heap.expressions[n])) : heap' = SetParents(heap, n, l)
    BY <2>1
  <2> QED BY <2>2, SetListIsWhole
<1>6. CASE SetIndex
  <2>1. PICK n \in Live(heap) : \E i \in 0..Len(heap.expressions[n]), c \in Known :
          Alone(c) /\ heap' \in {SetAt(heap, n, i, c), InsertBefore(heap, n, i, c)}
    BY <1>6 DEF SetIndex
  <2>2. PICK i \in 0..Len(heap.expressions[n]), c \in Known :
          Alone(c) /\ heap' \in {SetAt(heap, n, i, c), InsertBefore(heap, n, i, c)}
    BY <2>1
  <2>3. i \in Nat /\ c \in Node /\ Outside(heap, c)
    BY <1>1, <1>2, <2>2, AloneIsOutside
  <2>4. Whole(SetAt(heap, n, i, c)) /\ Whole(InsertBefore(heap, n, i, c))
    BY <2>3, SetAtIsWhole, InsertBeforeIsWhole
  <2> QED BY <2>2, <2>4
<1>7. CASE ClearIndex
  <2>1. PICK n \in Live(heap) : \E i \in 0..Len(heap.expressions[n]) : heap' = ClearAt(heap, n, i)
    BY <1>7 DEF ClearIndex
  <2>2. PICK i \in 0..Len(heap.expressions[n]) : heap' = ClearAt(heap, n, i)
    BY <2>1
  <2>3. i \in Nat
    BY <1>2, <2>2
  <2> QED BY <2>2, <2>3, ClearAtIsWhole
<1>8. CASE AppendNode
  <2>1. PICK n \in Live(heap), c \in Known : Alone(c) /\ heap' = AppendTo(heap, n, c)
    BY <1>8 DEF AppendNode
  <2> QED BY <1>1, <2>1, AloneIsOutside, AppendToIsWhole
<1>9. CASE Replace
  <2>1. PICK m \in Live(heap), c \in Known :
          (Alone(c) \/ c \in Below(heap, m)) /\ heap' = Replaced(heap, m, c)
    BY <1>9 DEF Replace
  <2> QED BY <1>1, <2>1, AloneIsOutside, ReplacedIsWhole
<1>10. CASE ReplaceByList
  <2>1. PICK m \in Live(heap), new \in Lists : UnderList(m) /\ heap' = ReplacedByList(heap, m, new)
    BY <1>10 DEF ReplaceByList
  <2> QED BY <2>1, ReplacedByListIsWhole
<1>11. CASE Pop
  BY <1>11, PoppedIsWhole DEF Pop
<1>12. CASE Wrap
  <2>1. PICK m \in Live(heap) \ {Root}, w \in Known : Alone(w) /\ heap' = Wrapped(heap, m, w)
    BY <1>12 DEF Wrap
  <2> QED BY <1>1, <2>1, AloneIsOutside, WrappedIsWhole
<1> QED BY <1>3, <1>4, <1>5, <1>6, <1>7, <1>8, <1>9, <1>10, <1>11, <1>12 DEF Next

(* TransformSpec => []EditsKeepTree, with the fields of the nodes and that  *)
(* the stack of dfs is empty until transform is called.                    *)
EditsInv == before = None => Whole(heap) /\ stack = <<>>

(* After every sequence of set, append, replace and pop (expressions.py)   *)
(* the tree of the caller is a tree: no node hangs at two places or above  *)
(* itself, and every node below the root names, by parent, arg_key and     *)
(* index, the one place it hangs at; whatever the number of nodes.         *)
THEOREM TreeStaysIntact == TransformSpec => []EditsKeepTree
<1>1. TransformInit => EditsInv
  BY HeapAtFirst DEF TransformInit, EditsInv
<1>2. EditsInv /\ [TransformNext]_vars => EditsInv'
  <2> SUFFICES ASSUME EditsInv, [TransformNext]_vars PROVE EditsInv'
    OBVIOUS
  <2>1. CASE Edit
    <3>1. Whole(heap) /\ Next /\ stack = <<>> /\ stack' = stack
      BY <2>1 DEF Edit, EditsInv
    <3>2. Whole(heap')
      BY <3>1, EditsLeaveItWhole
    <3> QED BY <3>1, <3>2 DEF EditsInv
  <2>2. CASE Begin
    <3>1. before = None /\ before' = heap
      BY <2>2 DEF Begin
    <3>2. heap \in Heap
      BY <3>1, WholeIsSound DEF EditsInv
    <3> QED BY <3>1, <3>2, NoneAssumption DEF EditsInv
  <2>3. CASE Visit
    BY <2>3 DEF Visit, EditsInv
  <2>4. CASE Done
    BY <2>4 DEF Done, vars, EditsInv
  <2>5. CASE UNCHANGED vars
    BY <2>5 DEF vars, EditsInv
  <2> QED BY <2>1, <2>2, <2>3, <2>4, <2>5 DEF TransformNext
<1>3. EditsInv => EditsKeepTree
  BY DEF EditsInv, EditsKeepTree, Whole, Free, TreeIntact
<1> QED BY <1>1, <1>2, <1>3, PTL DEF TransformSpec

-----------------------------------------------------------------------------
(* A list in place of one member of another.                               *)

InPlace(l, i, new) == SubSeq(l, 1, i) \o new \o SubSeq(l, i + 2, Len(l))

LEMMA MembersOfBoth ==
  ASSUME NEW R, NEW a \in Seq(R), NEW b \in Seq(R)
  PROVE  /\ a \o b \in Seq(R) /\ Len(a \o b) = Len(a) + Len(b)
         /\ \A j \in 1..(Len(a) + Len(b)) : (a \o b)[j] = IF j <= Len(a) THEN a[j] ELSE b[j - Len(a)]
OBVIOUS

LEMMA MembersInPlace ==
  ASSUME NEW R, NEW l \in Seq(R), NEW i \in Nat, i < Len(l), NEW new \in Seq(R)
  PROVE  /\ InPlace(l, i, new) \in Seq(R)
         /\ Len(InPlace(l, i, new)) = Len(l) + Len(new) - 1
         /\ \A j \in 1..(Len(l) + Len(new) - 1) :
              InPlace(l, i, new)[j] = IF j <= i THEN l[j]
                                      ELSE IF j <= i + Len(new) THEN new[j - i]
                                      ELSE l[(j - Len(new)) + 1]
<1> DEFINE a == SubSeq(l, 1, i)
           b == SubSeq(l, i + 2, Len(l))
           k == Len(l)
           p == Len(new)
<1>1. k \in Nat /\ p \in Nat /\ i <= k
  OBVIOUS
<1>2. a \in Seq(R) /\ Len(a) = i /\ \A j \in 1..i : a[j] = l[j]
  BY <1>1
<1>3. b \in Seq(R) /\ Len(b) = (k - i) - 1
  BY <1>1
<1>4. ASSUME NEW j \in 1..((k - i) - 1) PROVE b[j] = l[(i + 1) + j]
  BY <1>1
<1> HIDE DEF a, b, k
<1>5. a \o new \in Seq(R) /\ Len(a \o new) = i + p
      /\ \A j \in 1..(i + p) : (a \o new)[j] = IF j <= i THEN a[j] ELSE new[j - i]
  BY <1>2, MembersOfBoth
<1> DEFINE c == a \o new
<1> HIDE DEF c, p
<1>6. c \o b \in Seq(R) /\ Len(c \o b) = (i + p) + ((k - i) - 1)
      /\ \A j \in 1..((i + p) + ((k - i) - 1)) : (c \o b)[j] = IF j <= i + p THEN c[j] ELSE b[j - (i + p)]
  <2>1. c \in Seq(R) /\ Len(c) = i + p
    BY <1>5 DEF c
  <2>2. b \in Seq(R)
    BY <1>3
  <2>3. /\ c \o b \in Seq(R) /\ Len(c \o b) = Len(c) + Len(b)
        /\ \A j \in 1..(Len(c) + Len(b)) : (c \o b)[j] = IF j <= Len(c) THEN c[j] ELSE b[j - Len(c)]
    BY <2>1, <2>2, MembersOfBoth
  <2>4. Len(c) = i + p /\ Len(b) = (k - i) - 1
    BY <1>3, <2>1
  <2> QED BY <2>3, <2>4
<1> DEFINE r == c \o b
<1>7. r = InPlace(l, i, new)
  BY DEF r, c, a, b, k, InPlace
<1> HIDE DEF r
<1>8. (i + p) + ((k - i) - 1) = k + p - 1
  BY <1>1
<1>9. ASSUME NEW j \in 1..(k + p - 1)
      PROVE  r[j] = IF j <= i THEN l[j] ELSE IF j <= i + p THEN new[j - i] ELSE l[(j - p) + 1]
  <2>1. CASE j <= i
    <3>1. j \in 1..(i + p) /\ j \in 1..i /\ j <= i + p
      BY <1>1, <2>1
    <3> QED BY <1>2, <1>5, <1>6, <1>8, <2>1, <3>1 DEF c, r
  <2>2. CASE ~(j <= i) /\ j <= i + p
    <3>1. j \in 1..(i + p)
      BY <1>1, <2>2
    <3> QED BY <1>5, <1>6, <1>8, <2>2, <3>1 DEF c, r
  <2>3. CASE ~(j <= i + p)
    <3>1. j - (i + p) \in 1..((k - i) - 1) /\ (i + 1) + (j - (i + p)) = (j - p) + 1 /\ ~(j <= i)
      BY <1>1, <2>3
    <3> QED BY <1>4, <1>6, <1>8, <2>3, <3>1 DEF r
  <2> QED BY <2>1, <2>2, <2>3
<1> QED BY <1>6, <1>7, <1>8, <1>9 DEF k, p, r

LEMMA SameList ==
  ASSUME NEW R, NEW a \in Seq(R), NEW b \in Seq(R), Len(a) = Len(b), \A j \in 1..Len(a) : a[j] = b[j]
  PROVE  a = b
<1>1. a = [j \in 1..Len(a) |-> a[j]] /\ b = [j \in 1..Len(b) |-> b[j]]
  OBVIOUS
<1> QED BY <1>1

(* A node put at a position, and a position cleared.                       *)
LEMMA OneInPlace ==
  ASSUME NEW R, NEW l \in Seq(R), NEW i \in Nat, i < Len(l)
  PROVE  /\ \A c \in R : [l EXCEPT ![i + 1] = c] = InPlace(l, i, <<c>>)
         /\ RemoveAt(l, i + 1) = InPlace(l, i, <<>>)
         /\ \A j \in 1..Len(l), new \in Seq(R) : j # i + 1 => l[j] \in ToSet(InPlace(l, i, new))
<1> DEFINE k == Len(l)
<1>1. k \in Nat /\ DOMAIN l = 1..k /\ i + 1 \in 1..k
  OBVIOUS
<1>2. ASSUME NEW c \in R PROVE [l EXCEPT ![i + 1] = c] = InPlace(l, i, <<c>>)
  <2> DEFINE e == [l EXCEPT ![i + 1] = c]
             new == <<c>>
             r == InPlace(l, i, new)
  <2>1. e \in Seq(R) /\ Len(e) = k /\ \A j \in 1..k : e[j] = IF j = i + 1 THEN c ELSE l[j]
    BY <1>1
  <2>2. new \in Seq(R) /\ Len(new) = 1 /\ new[1] = c
    OBVIOUS
  <2> HIDE DEF new
  <2>3. /\ r \in Seq(R) /\ Len(r) = k + 1 - 1
        /\ \A j \in 1..(k + 1 - 1) : r[j] = IF j <= i THEN l[j] ELSE IF j <= i + 1 THEN new[j - i] ELSE l[(j - 1) + 1]
    <3>1. /\ r \in Seq(R) /\ Len(r) = k + Len(new) - 1
          /\ \A j \in 1..(k + Len(new) - 1) :
               r[j] = IF j <= i THEN l[j] ELSE IF j <= i + Len(new) THEN new[j - i] ELSE l[(j - Len(new)) + 1]
      BY <2>2, MembersInPlace, ZenonT(60)
    <3> HIDE DEF r, k
    <3> QED BY <2>2, <3>1
  <2> HIDE DEF e, r, k
  <2>4. ASSUME NEW j \in 1..k PROVE r[j] = e[j]
    <3>1. j \in 1..(k + 1 - 1) /\ (j - 1) + 1 = j /\ (j <= i + 1 /\ ~(j <= i) => j = i + 1 /\ j - i = 1)
      BY <1>1
    <3>2. j <= i => j # i + 1
      OBVIOUS
    <3>3. ~(j <= i + 1) => j # i + 1
      OBVIOUS
    <3> QED BY <2>1, <2>2, <2>3, <3>1, <3>2, <3>3
  <2>5. e = r
    BY <1>1, <2>1, <2>3, <2>4, SameList
  <2> QED BY <2>5 DEF e, r, new
<1>3. RemoveAt(l, i + 1) = InPlace(l, i, <<>>)
  <2> DEFINE a == SubSeq(l, 1, i)
             b == SubSeq(l, i + 2, k)
  <2>1. a \in Seq(R) /\ (i + 1) - 1 = i /\ (i + 1) + 1 = i + 2
    BY <1>1
  <2> HIDE DEF a, b
  <2>2. a \o <<>> = a
    BY <2>1
  <2> QED BY <2>1, <2>2 DEF RemoveAt, InPlace, a, b
<1>4. ASSUME NEW j \in 1..k, NEW new \in Seq(R), j # i + 1 PROVE l[j] \in ToSet(InPlace(l, i, new))
  <2> DEFINE r == InPlace(l, i, new)
             p == Len(new)
  <2>1. /\ r \in Seq(R) /\ Len(r) = k + p - 1
        /\ \A q \in 1..(k + p - 1) : r[q] = IF q <= i THEN l[q] ELSE IF q <= i + p THEN new[q - i] ELSE l[(q - p) + 1]
    BY MembersInPlace
  <2>2. p \in Nat
    OBVIOUS
  <2> HIDE DEF r, p, k
  <2>3. \E q \in 1..(k + p - 1) : l[j] = r[q]
    <3>1. CASE j <= i
      <4>1. j \in 1..(k + p - 1)
        BY <1>1, <2>2, <3>1
      <4> QED BY <2>1, <3>1, <4>1
    <3>2. CASE ~(j <= i)
      <4> DEFINE q == j + p - 1
      <4>1. q \in 1..(k + p - 1) /\ ~(q <= i) /\ ~(q <= i + p) /\ (q - p) + 1 = j
        BY <1>1, <1>4, <2>2, <3>2
      <4> HIDE DEF q
      <4> QED BY <2>1, <4>1
    <3> QED BY <3>1, <3>2
  <2>4. DOMAIN r = 1..(k + p - 1)
    BY <2>1
  <2> QED BY <2>3, <2>4 DEF ToSet, r
<1> QED BY <1>2, <1>3, <1>4 DEF k

-----------------------------------------------------------------------------
(* What transform puts into the place of a node.                           *)

LEMMA ShortLists ==
  ASSUME NEW R, NEW l \in Seq(R), Len(l) <= 1
  PROVE  l = <<>> \/ (Len(l) = 1 /\ l = <<l[1]>> /\ l[1] \in R)
<1>1. Len(l) \in Nat /\ l = [j \in 1..Len(l) |-> l[j]]
  OBVIOUS
<1>2. CASE Len(l) = 0
  BY <1>1, <1>2
<1>3. CASE Len(l) = 1
  <2>1. l[1] \in R
    BY <1>3
  <2>2. l = <<l[1]>>
    BY <1>3, <2>1, SameList
  <2> QED BY <1>3, <2>1, <2>2
<1> QED BY <1>1, <1>2, <1>3

LEMMA PutInIs ==
  ASSUME NEW h, NEW place, NEW new \in Seq(Node), place.key = "this" => Len(new) <= 1
  PROVE  \/ new = <<>> /\ PutIn(h, place, new) = ClearPlace(h, place)
         \/ Len(new) = 1 /\ new = <<new[1]>> /\ new[1] \in Node /\ PutIn(h, place, new) = SetPlace(h, place, new[1])
         \/ Len(new) > 1 /\ place.key # "this" /\ PutIn(h, place, new) = SpliceAt(h, place.node, place.index, new)
<1> DEFINE k == Len(new)
<1>1. k \in Nat /\ Len(<<>>) = 0
  OBVIOUS
<1>2. CASE new = <<>>
  BY <1>2 DEF PutIn
<1>3. CASE Len(new) = 1
  <2>1. new # <<>>
    BY <1>1, <1>3
  <2>2. ~(Len(new) > 1)
    BY <1>3
  <2>3. PutIn(h, place, new) = SetPlace(h, place, new[1])
    BY <1>3, <2>1, <2>2 DEF PutIn
  <2> QED BY <1>3, <2>1, <2>3, ShortLists
<1>4. CASE k > 1
  <2>1. k # 1 /\ ~(k <= 1) /\ k # 0
    <3> HIDE DEF k
    <3> QED BY <1>1, <1>4
  <2>2. new # <<>> /\ place.key # "this"
    BY <1>1, <2>1
  <2> QED BY <1>4, <2>1, <2>2 DEF PutIn
<1>5. k = 0 \/ k = 1 \/ k > 1
  <2>1. k \in Nat
    BY <1>1
  <2> HIDE DEF k
  <2> QED BY <2>1
<1>6. Len(new) = 0 => new = <<>>
  BY <1>1, ShortLists
<1> QED BY <1>2, <1>3, <1>4, <1>5, <1>6

LEMMA PutInFields ==
  ASSUME NEW h \in Heap, NEW n \in Node, NEW place, IsPlace(h, place, n),
         NEW new \in Seq(Node), place.key = "this" => Len(new) <= 1
  PROVE  LET g == PutIn(h, place, new)
         IN /\ \A m \in Node : m # n => g.this[m] = h.this[m] /\ g.expressions[m] = h.expressions[m]
            /\ place.key = "this" =>
                 g.expressions[n] = h.expressions[n] /\ g.this[n] = IF new = <<>> THEN None ELSE new[1]
            /\ place.key # "this" =>
                 g.this[n] = h.this[n] /\ g.expressions[n] = InPlace(h.expressions[n], place.index, new)
<1> DEFINE g == PutIn(h, place, new)
           l == h.expressions[n]
           i == place.index
<1>1. place.node = n /\ <<>> \in Seq(Node)
  BY DEF IsPlace
<1>2. h.this \in [Node -> Node \union {None}] /\ h.expressions \in [Node -> Seq(Node)]
  BY DEF Heap
<1>3. CASE place.key = "this"
  <2>1. \/ new = <<>> /\ g = ClearThis(h, n)
        \/ new # <<>> /\ new[1] \in Node /\ g = SetThis(h, n, new[1])
    <3>1. Len(new) = 1 => new # <<>>
      OBVIOUS
    <3>2. \/ new = <<>> /\ g = ClearPlace(h, place)
          \/ Len(new) = 1 /\ new[1] \in Node /\ g = SetPlace(h, place, new[1])
      <4> HIDE DEF g
      <4>1. \/ new = <<>> /\ g = ClearPlace(h, place)
            \/ Len(new) = 1 /\ new[1] \in Node /\ g = SetPlace(h, place, new[1])
            \/ place.key # "this"
        BY PutInIs DEF g
      <4> QED BY <1>3, <4>1
    <3> QED BY <1>1, <1>3, <3>1, <3>2 DEF ClearPlace, SetPlace
  <2>2. CASE new = <<>> /\ g = ClearThis(h, n)
    <3>1. g.this = [h.this EXCEPT ![n] = None] /\ g.expressions = h.expressions
      BY <2>2, ClearThisFields
    <3> QED BY <1>2, <1>3, <2>2, <3>1
  <2>3. CASE new # <<>> /\ new[1] \in Node /\ g = SetThis(h, n, new[1])
    <3>1. g.this = [h.this EXCEPT ![n] = new[1]] /\ g.expressions = h.expressions
      BY <2>3, SetThisFields
    <3> QED BY <1>2, <1>3, <2>3, <3>1
  <2> QED BY <2>1, <2>2, <2>3
<1>4. CASE place.key # "this"
  <2>1. i \in Nat /\ i < Len(l) /\ l \in Seq(Node)
    BY <1>2, <1>4 DEF IsPlace
  <2>2. ~(i >= Len(l))
    BY <2>1
  <2> DEFINE r == InPlace(l, i, new)
  <2>3. r \in Seq(Node)
    BY <2>1, MembersInPlace
  <2>4. g.this = h.this /\ g.expressions = [h.expressions EXCEPT ![n] = r]
    <3>1. CASE new = <<>> /\ g = ClearPlace(h, place)
      <4>1. g = ClearAt(h, n, i) /\ RemoveAt(l, i + 1) = r
        BY <1>1, <1>4, <2>1, <3>1, OneInPlace DEF ClearPlace
      <4>2. g.this = h.this /\ g.expressions = [h.expressions EXCEPT ![n] = RemoveAt(l, i + 1)]
        BY <2>2, <4>1 DEF ClearAt, Heap
      <4> QED BY <4>1, <4>2
    <3>2. CASE new = <<new[1]>> /\ new[1] \in Node /\ g = SetPlace(h, place, new[1])
      <4>1. g = SetParents(h, n, [l EXCEPT ![i + 1] = new[1]])
        BY <1>1, <1>4, <2>2, <3>2 DEF SetPlace, SetAt
      <4>2. [l EXCEPT ![i + 1] = new[1]] = r
        BY <2>1, <3>2, OneInPlace
      <4> HIDE DEF r
      <4> QED BY <2>3, <4>1, <4>2, SetParentsFields
    <3>3. CASE g = SpliceAt(h, place.node, place.index, new)
      <4>1. g = SetParents(h, n, r)
        BY <1>1, <2>2, <3>3 DEF SpliceAt, InPlace
      <4> HIDE DEF r
      <4> QED BY <2>3, <4>1, SetParentsFields
    <3> QED BY <1>4, <3>1, <3>2, <3>3, PutInIs
  <2> HIDE DEF r, g
  <2> QED BY <1>2, <1>4, <2>4 DEF r, g
<1> QED BY <1>3, <1>4

LEMMA PutInIsWhole ==
  ASSUME NEW h, Whole(h), NEW n \in Live(h), NEW d \in Children(h, n),
         NEW new \in Seq(Node), Distinct(new), h.arg_key[d] = "this" => Len(new) <= 1,
         NEW X, Trees(h, X, ToSet(new)), X \cap (Live(h) \ Below(h, d)) = {}
  PROVE  Whole(PutIn(h, BackPlace(h, d), new))
<1> DEFINE place == BackPlace(h, d)
           g == PutIn(h, place, new)
<1>1. h \in Heap /\ Free(h, Root) /\ n \in Node /\ RefersBack(h, n) /\ Distinct(h.expressions[n])
  BY WholeIsSound
<1>2. place.key = h.arg_key[d] /\ place.index = h.index[d] /\ place.node = n
  BY <1>1, PlaceOfChild DEF BackPlace, Place
<1>3. CASE new = <<>> /\ g = ClearPlace(h, place)
  BY <1>3, NoneInPlace, FineIsWhole
<1>4. CASE Len(new) = 1 /\ new = <<new[1]>> /\ new[1] \in Node /\ g = SetPlace(h, place, new[1])
  <2> DEFINE c == new[1]
  <2>1. ToSet(new) = {c}
    BY <1>4 DEF ToSet
  <2> HIDE DEF c
  <2>2. Trees(h, X, {c})
    BY <2>1
  <2>3. Fine(SetPlace(h, place, c), Root, (Live(h) \ Below(h, d)) \union X)
    BY <2>2, NodeInPlace
  <2> QED BY <1>4, <2>3, FineIsWhole DEF c
<1>5. CASE place.key # "this" /\ g = SpliceAt(h, place.node, place.index, new)
  <2> DEFINE S == (Live(h) \ Below(h, d)) \union X
             cs == ToSet(new)
  <2>1. Trees(h, X, cs)
    OBVIOUS
  <2> HIDE DEF cs
  <2>2. /\ n \in S /\ AllBut(h, Root, S, n) /\ cs \subseteq S \ {Root}
        /\ \A k \in S \ {n} : Children(h, k) \cap cs = {}
        /\ \A x \in Children(h, n) : x # d => x \in S \ {Root} /\ x \notin cs
    BY <2>1, Grafting, Zenon
  <2> HIDE DEF S
  <2>3. IsPlace(h, place, n) /\ Beside(h, Root, S, place, n, cs)
    BY <1>1, <2>2, BackPlaceBeside
  <2> HIDE DEF place
  <2>4. Fine(SpliceAt(h, n, place.index, new), Root, S)
    BY <1>1, <1>5, <2>2, <2>3, PutListAtPlace DEF cs
  <2> QED BY <1>2, <1>5, <2>4, FineIsWhole DEF place
<1> QED BY <1>2, <1>3, <1>4, <1>5, PutInIs

(* The trees below two children of a node have nothing in common.          *)
LEMMA SiblingsApart ==
  ASSUME NEW h \in Heap, NEW top \in Node, IsTree(h, top), NEW n \in Below(h, top),
         NEW d \in Children(h, n), NEW e \in Children(h, n), d # e
  PROVE  Below(h, d) \cap Below(h, e) = {}
<1> DEFINE D == Below(h, d)
           E == Below(h, e)
           A == E \ D
<1>1. /\ d \in D /\ n \notin D /\ D \subseteq Below(h, top)
      /\ \A m \in Below(h, top) \ D : \A x \in Children(h, m) \cap D : m = n /\ x = d
  BY CutOff
<1>2. e \in Node /\ e \in E /\ n \notin E /\ E \subseteq Below(h, top) /\ Closed(h, E)
  BY CutOff, BelowIsClosed
<1> HIDE DEF D, E
<1>3. e \in A
  BY <1>1, <1>2
<1>4. Closed(h, A)
  <2>1. SUFFICES ASSUME NEW m \in A, NEW x \in Children(h, m) PROVE x \in A
    BY DEF Closed
  <2>2. x \in E /\ m \in Below(h, top) \ D /\ m # n
    BY <1>2, <2>1 DEF Closed
  <2> QED BY <1>1, <2>1, <2>2
<1>5. E \subseteq A
  <2> HIDE DEF A
  <2> QED BY <1>2, <1>3, <1>4, BelowIsLeast DEF E
<1> QED BY <1>5 DEF D, E

-----------------------------------------------------------------------------
(* The stack of dfs: nodes with trees below them that have nothing in      *)
(* common.                                                                 *)

Apart(h, l) == \A i, j \in 1..Len(l) : i # j => Below(h, l[i]) \cap Below(h, l[j]) = {}

LEMMA ApartInARow ==
  ASSUME NEW h, NEW R, NEW a \in Seq(R), NEW b \in Seq(R), Apart(h, a), Apart(h, b),
         \A x \in ToSet(a), y \in ToSet(b) : Below(h, x) \cap Below(h, y) = {}
  PROVE  Apart(h, a \o b)
<1> DEFINE c == a \o b
           K == Len(a)
           L == Len(b)
<1>1. /\ K \in Nat /\ L \in Nat /\ Len(c) = K + L
      /\ DOMAIN a = 1..K /\ DOMAIN b = 1..L
      /\ \A j \in 1..(K + L) : c[j] = IF j <= K THEN a[j] ELSE b[j - K]
  OBVIOUS
<1>2. /\ \A i, j \in 1..K : i # j => Below(h, a[i]) \cap Below(h, a[j]) = {}
      /\ \A i, j \in 1..L : i # j => Below(h, b[i]) \cap Below(h, b[j]) = {}
  BY DEF Apart
<1>3. \A i \in 1..K, j \in 1..L : Below(h, a[i]) \cap Below(h, b[j]) = {}
  BY <1>1 DEF ToSet
<1> HIDE DEF c, K, L
<1>4. ASSUME NEW i \in 1..(K + L), NEW j \in 1..(K + L), i # j
      PROVE  Below(h, c[i]) \cap Below(h, c[j]) = {}
  <2>1. i \in 1..K \/ (~(i <= K) /\ i - K \in 1..L)
    BY <1>1
  <2>2. j \in 1..K \/ (~(j <= K) /\ j - K \in 1..L)
    BY <1>1
  <2>3. (\A k \in 1..K : k <= K) /\ i - K # j - K
    BY <1>1, <1>4
  <2>4. CASE i \in 1..K /\ j \in 1..K
    BY <1>1, <1>2, <1>4, <2>3, <2>4
  <2>5. CASE i \in 1..K /\ ~(j <= K) /\ j - K \in 1..L
    BY <1>1, <1>3, <2>3, <2>5
  <2>6. CASE ~(i <= K) /\ i - K \in 1..L /\ j \in 1..K
    BY <1>1, <1>3, <2>3, <2>6
  <2>7. CASE ~(i <= K) /\ i - K \in 1..L /\ ~(j <= K) /\ j - K \in 1..L
    BY <1>1, <1>2, <2>3, <2>7
  <2> QED BY <2>1, <2>2, <2>4, <2>5, <2>6, <2>7
<1> QED BY <1>1, <1>4 DEF Apart, c

LEMMA TopOfStack ==
  ASSUME NEW h, NEW R, NEW s \in Seq(R), s # <<>>
  PROVE  /\ Head(s) \in R /\ Tail(s) \in Seq(R)
         /\ ToSet(s) = {Head(s)} \union ToSet(Tail(s))
         /\ Apart(h, s) =>
              /\ Apart(h, Tail(s))
              /\ \A x \in ToSet(Tail(s)) : Below(h, Head(s)) \cap Below(h, x) = {}
<1> DEFINE t == Tail(s)
           k == Len(s)
<1>1. k \in Nat /\ k # 0 /\ DOMAIN s = 1..k /\ Head(s) = s[1] /\ \A i \in 1..k : s[i] \in R
  OBVIOUS
<1>2. t \in Seq(R) /\ Len(t) = k - 1 /\ DOMAIN t = 1..(k - 1) /\ \A i \in 1..(k - 1) : t[i] = s[i + 1]
  BY <1>1
<1> HIDE DEF t, k
<1>3. 1 \in 1..k
  BY <1>1
<1>4. \A i \in 1..(k - 1) : i + 1 \in 1..k /\ i + 1 # 1
  BY <1>1
<1>5. \A i \in 1..k : i = 1 \/ (i - 1 \in 1..(k - 1) /\ (i - 1) + 1 = i)
  BY <1>1
<1>6. \A i \in 1..k : s[i] = Head(s) \/ \E j \in 1..(k - 1) : s[i] = t[j]
  BY <1>1, <1>2, <1>5
<1>7. ToSet(s) = {Head(s)} \union ToSet(t)
  <2>1. \A x \in ToSet(s) : x = Head(s) \/ x \in ToSet(t)
    <3>1. ToSet(s) = {s[i] : i \in 1..k} /\ ToSet(t) = {t[i] : i \in 1..(k - 1)}
      BY <1>1, <1>2 DEF ToSet
    <3> QED BY <1>6, <3>1
  <2>2. \A x \in ToSet(t) : x \in ToSet(s)
    BY <1>1, <1>2, <1>4 DEF ToSet
  <2>3. Head(s) \in ToSet(s)
    BY <1>1, <1>3 DEF ToSet
  <2> QED BY <2>1, <2>2, <2>3
<1>8. ASSUME Apart(h, s)
      PROVE  Apart(h, t) /\ \A x \in ToSet(t) : Below(h, Head(s)) \cap Below(h, x) = {}
  <2>1. \A i, j \in 1..k : i # j => Below(h, s[i]) \cap Below(h, s[j]) = {}
    BY <1>8 DEF Apart, k
  <2>2. \A i, j \in 1..(k - 1) : i # j => i + 1 # j + 1
    BY <1>1
  <2>3. \A i, j \in 1..(k - 1) : i # j => Below(h, t[i]) \cap Below(h, t[j]) = {}
    BY <1>2, <1>4, <2>1, <2>2
  <2>4. \A i \in 1..(k - 1) : Below(h, Head(s)) \cap Below(h, t[i]) = {}
    BY <1>1, <1>2, <1>3, <1>4, <2>1
  <2> QED BY <1>2, <2>3, <2>4 DEF Apart, ToSet
<1> QED BY <1>1, <1>2, <1>3, <1>7, <1>8 DEF t

(* The children of a node, as dfs pushes them.                             *)
LEMMA ChildrenInARow ==
  ASSUME NEW h \in Heap, NEW top \in Node, IsTree(h, top), NEW n \in Below(h, top)
  PROVE  /\ ChildrenInOrder(h, n) \in Seq(Below(h, top)) /\ ToSet(ChildrenInOrder(h, n)) = Children(h, n)
         /\ Apart(h, ChildrenInOrder(h, n))
         /\ \A x \in Children(h, n) : Below(h, x) \subseteq Below(h, n) \ {n}
<1> DEFINE T == Below(h, top)
           l == h.expressions[n]
           a == IF h.this[n] = None THEN <<>> ELSE <<h.this[n]>>
<1>1. n \in Node /\ T \subseteq Node /\ Children(h, n) \subseteq T /\ RefersBack(h, n)
  BY TreeIsSound, BelowIsClosed DEF Sound
<1>2. Len(l) \in Nat /\ l \in Seq(Node) /\ DOMAIN l = 1..Len(l) /\ Distinct(l)
  BY <1>1, FieldsOfNode, ListIsDistinct
<1>3. /\ h.this[n] # None => h.this[n] \in Children(h, n)
      /\ \A i \in 1..Len(l) : l[i] \in Children(h, n)
  BY <1>1, ChildrenAre
<1>4. ASSUME NEW d \in Children(h, n), NEW e \in Children(h, n), d # e PROVE Below(h, d) \cap Below(h, e) = {}
  BY <1>4, SiblingsApart
<1>5. ASSUME NEW x \in Children(h, n) PROVE Below(h, x) \subseteq Below(h, n) \ {n}
  <2>1. x \in Below(h, n) /\ n \notin Below(h, x)
    BY <1>1, CutOff, BelowIsClosed DEF Closed
  <2> QED BY <1>1, <2>1, BelowGoesDown
<1>6. l \in Seq(T)
  <2>1. \A i \in 1..Len(l) : l[i] \in T
    BY <1>1, <1>3
  <2>2. l = [i \in 1..Len(l) |-> l[i]]
    BY <1>2
  <2> HIDE DEF l
  <2>3. [i \in 1..Len(l) |-> l[i]] \in Seq(T)
    BY <1>2, <2>1
  <2> QED BY <2>2, <2>3
<1>7. Apart(h, l)
  <2>1. SUFFICES ASSUME NEW i \in 1..Len(l), NEW j \in 1..Len(l), i # j
                 PROVE  Below(h, l[i]) \cap Below(h, l[j]) = {}
    BY DEF Apart
  <2>2. l[i] # l[j]
    BY <1>2, <2>1 DEF Distinct
  <2> QED BY <1>3, <1>4, <2>2
<1>8. CASE h.this[n] = None
  <2>1. ChildrenInOrder(h, n) = l
    <3>1. ChildrenInOrder(h, n) = <<>> \o l
      BY <1>8 DEF ChildrenInOrder
    <3> HIDE DEF l
    <3> QED BY <1>2, <3>1
  <2>2. ToSet(l) = Children(h, n)
    BY <1>8 DEF Children
  <2> QED BY <1>5, <1>6, <1>7, <2>1, <2>2
<1>9. CASE h.this[n] # None
  <2> DEFINE d == h.this[n]
  <2>1. ChildrenInOrder(h, n) = <<d>> \o l
    BY <1>9 DEF ChildrenInOrder
  <2>2. d \in Children(h, n) /\ d \in T
    BY <1>1, <1>3, <1>9
  <2>3. \A y \in ToSet(l) : y \in Children(h, n) /\ y # d
    <3>1. h.arg_key[d] = "this" /\ "this" # "expressions"
      BY <1>1, <1>9 DEF RefersBack, HangsAt
    <3>2. \A i \in 1..Len(l) : h.arg_key[l[i]] = "expressions"
      BY <1>1 DEF RefersBack, HangsAt
    <3> QED BY <1>2, <1>3, <3>1, <3>2 DEF ToSet
  <2>4. Children(h, n) = {d} \union ToSet(l)
    BY <1>9 DEF Children
  <2> HIDE DEF d, l
  <2>5. <<d>> \in Seq(T) /\ ToSet(<<d>>) = {d} /\ Apart(h, <<d>>)
    <3>1. <<d>> \in Seq(T) /\ Len(<<d>>) = 1 /\ <<d>>[1] = d
      BY <2>2
    <3>2. \A i, j \in 1..Len(<<d>>) : i = j
      BY <3>1
    <3>3. ToSet(<<d>>) = {d}
      BY <3>1 DEF ToSet
    <3> QED BY <3>1, <3>2, <3>3 DEF Apart
  <2> DEFINE b == <<d>>
  <2> HIDE DEF b
  <2>6. b \in Seq(T) /\ ToSet(b) = {d} /\ Apart(h, b)
    BY <2>5 DEF b
  <2>7. \A x \in ToSet(b), y \in ToSet(l) : Below(h, x) \cap Below(h, y) = {}
    BY <1>4, <2>2, <2>3, <2>6
  <2>8. b \o l \in Seq(T) /\ ToSet(b \o l) = ToSet(b) \union ToSet(l)
    BY <1>6, <2>6, ListsInARow
  <2>9. Apart(h, b \o l)
    BY <1>6, <1>7, <2>6, <2>7, ApartInARow
  <2> QED BY <1>5, <2>1, <2>4, <2>6, <2>8, <2>9 DEF b
<1> QED BY <1>8, <1>9

-----------------------------------------------------------------------------
(* What the function returns for a node, and what the loop then does.      *)

LEMMA OutcomesAre ==
  ASSUME NEW n, NEW outcome \in Outcomes(n)
  PROVE  LET new == outcome[2]
             h == outcome[1]
         IN \/ h = heap /\ new = <<n>>
            \/ h = heap /\ new = <<>>
            \/ h = heap /\ \E c \in Node : new = <<c>> /\ Alone(c) /\ c \notin Below(before, Root)
            \/ h = heap /\ \E c \in Children(heap, n) : new = <<c>>
            \/ \E w \in Node : new = <<w>> /\ Alone(w) /\ w \notin Below(before, Root) /\ h = SetThis(heap, w, n)
            \/ h = heap /\ new \in Lists /\ Len(new) > 1 /\ heap.arg_key[n] = "expressions"
<1> DEFINE alone == {c \in Node : Alone(c) /\ c \notin Below(before, Root)}
           several == IF heap.arg_key[n] = "expressions" THEN {l \in Lists : Len(l) > 1} ELSE {}
<1>1. \/ outcome \in {<<heap, <<n>>>>, <<heap, <<>>>>}
      \/ outcome \in {<<heap, <<c>>>> : c \in alone \union Children(heap, n)}
      \/ outcome \in {<<SetThis(heap, w, n), <<w>>>> : w \in alone}
      \/ outcome \in {<<heap, l>> : l \in several \intersect Seq(alone)}
  BY DEF Outcomes
<1>2. CASE outcome \in {<<heap, <<n>>>>, <<heap, <<>>>>}
  BY <1>2
<1>3. CASE outcome \in {<<heap, <<c>>>> : c \in alone \union Children(heap, n)}
  BY <1>3
<1>4. CASE outcome \in {<<SetThis(heap, w, n), <<w>>>> : w \in alone}
  BY <1>4
<1>5. CASE outcome \in {<<heap, l>> : l \in several \intersect Seq(alone)}
  <2>1. PICK l \in several : outcome = <<heap, l>>
    BY <1>5
  <2>2. l \in Lists /\ Len(l) > 1 /\ heap.arg_key[n] = "expressions"
    BY <2>1
  <2> QED BY <2>1, <2>2
<1> QED BY <1>1, <1>2, <1>3, <1>4, <1>5

(* The heap after a visit of n.                                            *)
After(n, outcome) ==
  IF outcome[2] # <<n>> THEN PutIn(outcome[1], BackPlace(heap, n), outcome[2]) ELSE outcome[1]

(* A node other than the root is visited: the tree stays whole, and of the *)
(* nodes of the old tree only the parent gets other arguments, with what   *)
(* was returned in place of the node.                                      *)
LEMMA VisitInside ==
  ASSUME Whole(heap), Whole(before), NEW n \in Live(heap), n # Root,
         NEW v \in Live(heap), n \in Children(heap, v), v \in Below(before, Root),
         NEW outcome \in Outcomes(n)
  PROVE  LET g == After(n, outcome)
             new == outcome[2]
             l == heap.expressions[v]
         IN /\ Whole(g) /\ new \in Seq(Node)
            /\ new = <<n>> => g = heap
            /\ new # <<n>> =>
                 /\ \A m \in Below(before, Root) : m # v =>
                      g.this[m] = heap.this[m] /\ g.expressions[m] = heap.expressions[m]
                 /\ heap.arg_key[n] = "this" =>
                      g.expressions[v] = l /\ g.this[v] = IF new = <<>> THEN None ELSE new[1]
                 /\ heap.arg_key[n] # "this" =>
                      g.this[v] = heap.this[v] /\ g.expressions[v] = InPlace(l, heap.index[n], new)
<1> DEFINE g == After(n, outcome)
           new == outcome[2]
           l == heap.expressions[v]
           place == BackPlace(heap, n)
           Result(x) ==
             /\ \A m \in Below(before, Root) : m # v =>
                  x.this[m] = heap.this[m] /\ x.expressions[m] = heap.expressions[m]
             /\ heap.arg_key[n] = "this" =>
                  x.expressions[v] = l /\ x.this[v] = IF new = <<>> THEN None ELSE new[1]
             /\ heap.arg_key[n] # "this" =>
                  x.this[v] = heap.this[v] /\ x.expressions[v] = InPlace(l, heap.index[n], new)
<1>1. /\ heap \in Heap /\ n \in Node /\ v \in Node /\ RefersBack(heap, v) /\ IsTree(heap, Root) /\ Root \in Node
      /\ Below(before, Root) \subseteq Node
  BY WholeIsSound DEF Live
<1>2. /\ place.node = v /\ place.key = heap.arg_key[n] /\ place.index = heap.index[n]
      /\ IsPlace(heap, place, v)
  BY <1>1, PlaceOfChild DEF BackPlace, Place, IsPlace
<1> HIDE DEF place
<1>3. ASSUME NEW x \in Heap, NEW u, x.expressions = heap.expressions,
             \A m \in Node : m # u => x.this[m] = heap.this[m],
             u \notin Below(before, Root),
             new \in Seq(Node), heap.arg_key[n] = "this" => Len(new) <= 1
      PROVE  Result(PutIn(x, place, new))
  <2> DEFINE y == PutIn(x, place, new)
  <2>1. IsPlace(x, place, v)
    BY <1>2, <1>3 DEF IsPlace
  <2>2. place.key = "this" => Len(new) <= 1
    BY <1>2, <1>3
  <2>3. /\ \A m \in Node : m # v => y.this[m] = x.this[m] /\ y.expressions[m] = x.expressions[m]
        /\ place.key = "this" => y.expressions[v] = x.expressions[v] /\ y.this[v] = IF new = <<>> THEN None ELSE new[1]
        /\ place.key # "this" =>
             y.this[v] = x.this[v] /\ y.expressions[v] = InPlace(x.expressions[v], place.index, new)
    <3> HIDE DEF new
    <3> QED BY <1>1, <1>3, <2>1, <2>2, PutInFields
  <2> HIDE DEF y, new
  <2>4. x.this[v] = heap.this[v]
    BY <1>1, <1>3
  <2>5. \A m \in Below(before, Root) : m # v =>
          y.this[m] = heap.this[m] /\ y.expressions[m] = heap.expressions[m]
    BY <1>1, <1>3, <2>3
  <2> QED BY <1>2, <1>3, <2>3, <2>4, <2>5 DEF y
<1> DEFINE h == outcome[1]
           Goal == Whole(g) /\ new \in Seq(Node) /\ (new = <<n>> => g = heap) /\ (new # <<n>> => Result(g))
<1> HIDE DEF Goal
<1>4. ASSUME h = heap /\ new = <<n>>
      PROVE  Goal
  <2>1. g = heap /\ new \in Seq(Node)
    BY <1>1, <1>4 DEF After
  <2> QED BY <1>4, <2>1 DEF Goal
<1>5. ASSUME NEW X, h = heap, new # <<n>>, new \in Seq(Node), Distinct(new),
             heap.arg_key[n] = "this" => Len(new) <= 1,
             Trees(heap, X, ToSet(new)), X \cap (Live(heap) \ Below(heap, n)) = {}
      PROVE  Whole(g) /\ Result(g)
  <2>1. g = PutIn(heap, place, new)
    BY <1>5 DEF After, place
  <2>2. Whole(g)
    <3> HIDE DEF g, new
    <3> QED BY <1>5, <2>1, PutInIsWhole DEF place
  <2>3. Result(PutIn(heap, place, new))
    <3>1. None \notin Below(before, Root)
      BY <1>1, TreeAssumption
    <3>2. \A m \in Node : m # None => heap.this[m] = heap.this[m]
      OBVIOUS
    <3> HIDE DEF Result, new, g
    <3> QED BY <1>1, <1>3, <1>5, <3>1, <3>2
  <2> HIDE DEF g, Result
  <2> QED BY <2>1, <2>2, <2>3
<1>6. ASSUME NEW c \in Node, h = heap, new = <<c>>, c # n,
             IsTree(heap, c), Below(heap, c) \cap (Live(heap) \ Below(heap, n)) = {}
      PROVE  Whole(g) /\ Result(g)
  <2>1. new \in Seq(Node) /\ Len(new) = 1 /\ new[1] = c /\ new # <<n>>
    BY <1>6
  <2>2. ToSet(new) = {c} /\ Distinct(new)
    BY <2>1 DEF ToSet, Distinct
  <2> HIDE DEF new
  <2>3. Trees(heap, Below(heap, c), ToSet(new))
    BY <1>1, <1>6, <2>2, OneTree
  <2> HIDE DEF g, Result
  <2> QED BY <1>5, <1>6, <2>1, <2>2, <2>3
<1>7. ASSUME h = heap /\ new = <<>>
      PROVE  Goal
  <2> DEFINE X == {}
  <2>1. new \in Seq(Node) /\ Len(new) = 0 /\ new # <<n>> /\ ToSet(new) = {} /\ Distinct(new)
    BY <1>7 DEF ToSet, Distinct
  <2>2. Trees(heap, X, ToSet(new)) /\ X \cap (Live(heap) \ Below(heap, n)) = {}
    BY <2>1 DEF Trees
  <2> HIDE DEF X, g, Result, new
  <2>3. Whole(g) /\ Result(g)
    BY <1>5, <1>7, <2>1, <2>2
  <2> QED BY <2>1, <2>3 DEF Goal
<1>8. ASSUME h = heap /\ \E c \in Node : new = <<c>> /\ Alone(c) /\ c \notin Below(before, Root)
      PROVE  Goal
  <2>1. PICK c \in Node : new = <<c>> /\ Alone(c)
    BY <1>8
  <2>2. IsTree(heap, c) /\ Below(heap, c) \cap Live(heap) = {} /\ c # n
    BY <2>1 DEF Alone
  <2> HIDE DEF g, Result
  <2>3. Whole(g) /\ Result(g)
    BY <1>6, <1>8, <2>1, <2>2
  <2>4. new \in Seq(Node) /\ new # <<n>>
    BY <2>1, <2>2
  <2> QED BY <2>3, <2>4 DEF Goal
<1>9. ASSUME h = heap /\ \E c \in Children(heap, n) : new = <<c>>
      PROVE  Goal
  <2>1. PICK c \in Children(heap, n) : new = <<c>>
    BY <1>9
  <2>2. c \in Node /\ c \in Below(heap, n) /\ n \notin Below(heap, c) /\ c \in Below(heap, c) /\ IsTree(heap, n)
    BY <1>1, CutOff, BelowIsClosed, SubtreeIsTree DEF Live, Closed
  <2>3. IsTree(heap, c) /\ Below(heap, c) \subseteq Below(heap, n)
    BY <1>1, <2>2, SubtreeIsTree
  <2>4. Below(heap, c) \cap (Live(heap) \ Below(heap, n)) = {} /\ c # n
    BY <2>2, <2>3
  <2> HIDE DEF g, Result
  <2>5. Whole(g) /\ Result(g)
    BY <1>6, <1>9, <2>1, <2>2, <2>3, <2>4
  <2>6. new \in Seq(Node) /\ new # <<n>>
    BY <2>1, <2>2, <2>4
  <2> QED BY <2>5, <2>6 DEF Goal
<1>10. ASSUME \E w \in Node : new = <<w>> /\ Alone(w) /\ w \notin Below(before, Root) /\ h = SetThis(heap, w, n)
      PROVE  Goal
  <2>1. PICK w \in Node : new = <<w>> /\ Alone(w) /\ w \notin Below(before, Root) /\ h = SetThis(heap, w, n)
    BY <1>10
  <2>2. Outside(heap, w) /\ w # n
    BY <2>1, AloneIsOutside DEF Alone
  <2>3. new \in Seq(Node) /\ Len(new) = 1 /\ new[1] = w /\ new # <<n>> /\ new # <<>>
    BY <2>1, <2>2
  <2>4. /\ h \in Heap /\ h.this = [heap.this EXCEPT ![w] = n] /\ h.expressions = heap.expressions
    BY <1>1, <2>1, SetThisFields
  <2>5. \A m \in Node : m # w => h.this[m] = heap.this[m]
    BY <1>1, <2>4 DEF Heap
  <2>6. g = PutIn(h, place, new)
    BY <2>3 DEF After, place
  <2>7. Whole(g)
    <3>1. PutIn(h, place, new) = SetPlace(h, place, w)
      <4>1. ~(Len(new) > 1)
        BY <2>3
      <4> QED BY <2>3, <4>1 DEF PutIn
    <3>2. SetPlace(h, place, w) = Wrapped(heap, n, w)
      BY <2>1 DEF Wrapped, place
    <3> HIDE DEF g
    <3> QED BY <2>2, <2>6, <3>1, <3>2, WrappedIsWhole
  <2>8. Result(PutIn(h, place, new))
    <3> HIDE DEF Result, new, h
    <3>1. heap.arg_key[n] = "this" => Len(new) <= 1
      BY <2>3
    <3> QED BY <1>3, <2>1, <2>3, <2>4, <2>5, <3>1
  <2> HIDE DEF g, new, h, Result
  <2> QED BY <2>3, <2>6, <2>7, <2>8 DEF Goal
<1>11. ASSUME h = heap /\ new \in Lists /\ Len(new) > 1 /\ heap.arg_key[n] = "expressions"
      PROVE  Goal
  <2>1. PICK X : Trees(heap, X, ToSet(new)) /\ X \cap Live(heap) = {}
    BY <1>1, <1>11, ListsAreTrees
  <2>2. new \in Seq(Node) /\ Distinct(new)
    BY <1>1, <1>11, ListsAreTrees
  <2>3. new # <<n>> /\ heap.arg_key[n] # "this"
    <3>1. Len(<<n>>) = 1 /\ ~(1 > 1) /\ "expressions" # "this"
      OBVIOUS
    <3> HIDE DEF new
    <3> QED BY <1>11, <3>1
  <2> HIDE DEF g, Result, new, h
  <2>4. X \cap (Live(heap) \ Below(heap, n)) = {}
    BY <2>1
  <2>5. Whole(g) /\ Result(g)
    BY <1>5, <1>11, <2>1, <2>2, <2>3, <2>4
  <2> QED BY <2>2, <2>3, <2>5 DEF Goal
<1> HIDE DEF g, new, h, Result, place
<1>12. Goal
  <2>1. \/ h = heap /\ new = <<n>>
        \/ h = heap /\ new = <<>>
        \/ h = heap /\ \E c \in Node : new = <<c>> /\ Alone(c) /\ c \notin Below(before, Root)
        \/ h = heap /\ \E c \in Children(heap, n) : new = <<c>>
        \/ \E w \in Node : new = <<w>> /\ Alone(w) /\ w \notin Below(before, Root) /\ h = SetThis(heap, w, n)
        \/ h = heap /\ new \in Lists /\ Len(new) > 1 /\ heap.arg_key[n] = "expressions"
    BY OutcomesAre DEF h, new
  <2> QED BY <1>4, <1>7, <1>8, <1>9, <1>10, <1>11, <2>1
<1> QED BY <1>12 DEF Goal, g, new, Result, l

-----------------------------------------------------------------------------
(* transform, visit by visit.  What dfs has yet to come to is as it was    *)
(* when transform was called, and hangs where it did.                      *)

OldTree == Below(before, Root)

Seen == ToSet(visited)

(* The visited nodes that the function kept.                               *)
Held == {n \in Seen : Kept(n)}

(* What dfs has yet to come to.                                            *)
Ahead == UNION {Below(before, x) : x \in ToSet(stack)}

StackInv ==
  /\ stack \in Seq(OldTree) /\ Apart(before, stack)
  /\ \A x \in ToSet(stack) : x # Root => before.parent[x] \in Held

VisitedInv ==
  /\ visited \in Seq(OldTree) /\ Distinct(visited) /\ Seen \cap Ahead = {}
  /\ visited # <<>> => visited[1] = Root
  /\ \A k \in 1..Len(visited) : visited[k] # Root =>
       \E j \in 1..(k - 1) : visited[j] = before.parent[visited[k]] /\ Kept(visited[j])

HeapInv ==
  /\ visited = <<>> => stack = <<Root>> /\ root = None /\ heap = before
  /\ visited # <<>> /\ stack # <<>> => root # None /\ Whole(heap)
  /\ \A m \in Ahead : heap.this[m] = before.this[m] /\ heap.expressions[m] = before.expressions[m]
  /\ \A x \in (Held \union ToSet(stack)) \ {Root} : x \in Children(heap, before.parent[x])

TraversalInv ==
  before # None =>
    /\ Whole(before) /\ image \in [Node -> Seq(Node)]
    /\ StackInv /\ VisitedInv /\ HeapInv

(* The nodes that were kept and those on the stack are in the tree.        *)
LEMMA HeldAreLive ==
  ASSUME Whole(heap), VisitedInv, HeapInv, StackInv, Whole(before)
  PROVE  \A x \in Held \union ToSet(stack) : x \in Live(heap)
<1>1. heap \in Heap /\ Root \in Live(heap) /\ Closed(heap, Live(heap))
  BY WholeIsSound, BelowIsClosed DEF Live
<1> DEFINE N == Len(visited)
           P == {k \in 0..N : \A i \in 1..k : Kept(visited[i]) => visited[i] \in Live(heap)}
<1>2. N \in Nat /\ DOMAIN visited = 1..N
  BY DEF VisitedInv
<1>3. \A x \in Held : x # Root => x \in Children(heap, before.parent[x])
  BY DEF HeapInv
<1>4. \A i \in 1..N : Kept(visited[i]) => visited[i] \in Held
  BY <1>2 DEF Held, Seen, ToSet
<1>5. \A k \in 1..N : visited[k] # Root =>
        \E j \in 1..(k - 1) : visited[j] = before.parent[visited[k]] /\ Kept(visited[j])
  BY DEF VisitedInv
<1> HIDE DEF N
<1>6. 0 \in P
  <2>1. 0 \in 0..N /\ 1..0 = {}
    BY <1>2
  <2> QED BY <2>1
<1>7. ASSUME NEW k \in 1..N, k - 1 \in P PROVE k \in P
  <2>1. \A i \in 1..(k - 1) : Kept(visited[i]) => visited[i] \in Live(heap)
    BY <1>7
  <2>2. Kept(visited[k]) => visited[k] \in Live(heap)
    <3>1. SUFFICES ASSUME Kept(visited[k]), visited[k] # Root PROVE visited[k] \in Live(heap)
      BY <1>1
    <3>2. PICK j \in 1..(k - 1) : visited[j] = before.parent[visited[k]] /\ Kept(visited[j])
      BY <1>5, <3>1
    <3>3. visited[k] \in Children(heap, visited[j]) /\ visited[j] \in Live(heap)
      BY <1>3, <1>4, <2>1, <3>1, <3>2
    <3> QED BY <1>1, <3>3 DEF Closed
  <2>3. k \in 0..N /\ \A i \in 1..k : i \in 1..(k - 1) \/ i = k
    BY <1>2
  <2> QED BY <2>1, <2>2, <2>3
<1>8. \A k \in 0..N : k \in P
  <2> HIDE DEF P
  <2> QED BY <1>2, <1>6, <1>7, UpTo
<1>9. \A x \in Held : x \in Live(heap)
  <2>1. SUFFICES ASSUME NEW x \in Held PROVE x \in Live(heap)
    OBVIOUS
  <2>2. PICK i \in 1..N : x = visited[i] /\ Kept(visited[i])
    BY <1>2 DEF Held, Seen, ToSet
  <2>3. N \in 0..N
    BY <1>2
  <2>4. N \in P
    BY <1>8, <2>3
  <2> QED BY <2>2, <2>4
<1>10. ASSUME NEW x \in ToSet(stack) PROVE x \in Live(heap)
  <2>1. CASE x = Root
    BY <1>1, <2>1
  <2>2. CASE x # Root
    <3>1. before.parent[x] \in Live(heap) /\ x \in Children(heap, before.parent[x])
      BY <1>9, <2>2 DEF StackInv, HeapInv
    <3> QED BY <1>1, <3>1 DEF Closed
  <2> QED BY <2>1, <2>2
<1> QED BY <1>9, <1>10

(* The other children of the parent of a visited node stay its children.   *)
LEMMA SiblingsStay ==
  ASSUME NEW h \in Heap, NEW v \in Node, RefersBack(h, v), NEW n \in Children(h, v),
         NEW g, NEW new \in Seq(Node),
         h.arg_key[n] = "this" => g.expressions[v] = h.expressions[v],
         h.arg_key[n] # "this" =>
           g.this[v] = h.this[v] /\ g.expressions[v] = InPlace(h.expressions[v], h.index[n], new),
         NEW x \in Children(h, v), x # n
  PROVE  x \in Children(g, v)
<1> DEFINE l == h.expressions[v]
           i == h.index[n]
<1>1. Len(l) \in Nat /\ l \in Seq(Node) /\ DOMAIN l = 1..Len(l)
  BY FieldsOfNode
<1>2. CASE h.arg_key[n] = "this" /\ h.this[v] = n
  <2>1. x \in ToSet(l)
    BY <1>2 DEF Children
  <2>2. ToSet(g.expressions[v]) \subseteq Children(g, v)
    BY DEF Children
  <2> QED BY <1>2, <2>1, <2>2
<1>3. CASE h.arg_key[n] = "expressions" /\ i \in Nat /\ i < Len(l) /\ l[i + 1] = n
  <2>1. g.this[v] = h.this[v] /\ g.expressions[v] = InPlace(l, i, new)
    BY <1>3
  <2>2. CASE h.this[v] # None /\ x = h.this[v]
    BY <2>1, <2>2 DEF Children
  <2>3. CASE \E j \in 1..Len(l) : x = l[j]
    <3>1. PICK j \in 1..Len(l) : x = l[j]
      BY <2>3
    <3>2. j # i + 1
      BY <1>3, <3>1
    <3> HIDE DEF l, i
    <3>3. l[j] \in ToSet(InPlace(l, i, new))
      BY <1>1, <1>3, <3>2, OneInPlace
    <3> QED BY <2>1, <3>1, <3>3 DEF Children
  <2> QED BY <2>2, <2>3, ChildrenAre
<1> QED BY <1>2, <1>3, PlaceOfChild

(* What a visit does to the stack and to the visited nodes.                *)
LEMMA Moves ==
  ASSUME Whole(before), StackInv, VisitedInv, stack # <<>>, before' = before,
         NEW n, n = Head(stack), NEW t, t = Tail(stack),
         image \in [Node -> Seq(Node)], NEW new \in Seq(Node), NEW pushed,
         pushed = IF new = <<n>> THEN ChildrenInOrder(before, n) ELSE <<>>,
         stack' = pushed \o t, visited' = Append(visited, n), image' = [image EXCEPT ![n] = new],
         visited = <<>> => n = Root
  PROVE  /\ StackInv' /\ VisitedInv' /\ image' \in [Node -> Seq(Node)]
         /\ Held' = Held \union (IF new = <<n>> THEN {n} ELSE {})
         /\ Seen' = Seen \union {n} /\ n \notin Seen
         /\ ToSet(stack') = (IF new = <<n>> THEN Children(before, n) ELSE {}) \union ToSet(t)
         /\ ToSet(stack) = {n} \union ToSet(t)
         /\ n \notin ToSet(t) /\ n \in OldTree /\ n \in Node /\ n \in Ahead
         /\ Ahead' \subseteq Ahead \ {n}
<1> DEFINE kept == new = <<n>>
<1>1. /\ before \in Heap /\ IsTree(before, Root) /\ Root \in Node /\ OldTree \subseteq Node /\ Root \in OldTree
  BY WholeIsSound DEF OldTree, Live
<1>2. /\ n \in OldTree /\ t \in Seq(OldTree) /\ ToSet(stack) = {n} \union ToSet(t)
      /\ Apart(before, t) /\ \A x \in ToSet(t) : Below(before, n) \cap Below(before, x) = {}
  BY TopOfStack DEF StackInv
<1>3. n \in Below(before, n) /\ n \in Ahead /\ n \in Node
  <2>1. n \in Node
    BY <1>1, <1>2
  <2>2. n \in Below(before, n)
    BY <1>1, <2>1, BelowIsClosed
  <2> QED BY <1>2, <2>1, <2>2 DEF Ahead
<1>4. \A x \in ToSet(t) : x \in OldTree /\ x \in Node /\ x \in Below(before, x)
  <2>1. ToSet(t) \subseteq OldTree
    BY <1>2 DEF ToSet
  <2> QED BY <1>1, <2>1, BelowIsClosed
<1>5. n \notin Seen /\ n \notin ToSet(t)
  BY <1>2, <1>3, <1>4 DEF VisitedInv
<1>6. /\ pushed \in Seq(OldTree) /\ Apart(before, pushed)
      /\ ToSet(pushed) = IF kept THEN Children(before, n) ELSE {}
      /\ \A x \in ToSet(pushed) : Below(before, x) \subseteq Below(before, n) \ {n}
  <2>1. CASE kept
    <3>1. pushed = ChildrenInOrder(before, n)
      BY <2>1
    <3> QED BY <1>1, <1>2, <2>1, <3>1, ChildrenInARow DEF OldTree
  <2>2. CASE ~kept
    <3>1. pushed = <<>>
      BY <2>2
    <3>2. <<>> \in Seq(OldTree) /\ Len(<<>>) = 0 /\ 1..0 = {}
      OBVIOUS
    <3>3. ToSet(<<>>) = {} /\ Apart(before, <<>>)
      BY <3>2 DEF ToSet, Apart
    <3> QED BY <2>2, <3>1, <3>2, <3>3
  <2> QED BY <2>1, <2>2
<1>7. stack' = pushed \o t
  OBVIOUS
<1>8. \A x \in ToSet(pushed), y \in ToSet(t) : Below(before, x) \cap Below(before, y) = {}
  BY <1>2, <1>6
<1>9. /\ stack' \in Seq(OldTree) /\ ToSet(stack') = ToSet(pushed) \union ToSet(t) /\ Apart(before, stack')
  <2> DEFINE c == pushed \o t
  <2>1. c \in Seq(OldTree) /\ ToSet(c) = ToSet(pushed) \union ToSet(t)
    <3>1. pushed \in Seq(OldTree) /\ t \in Seq(OldTree)
      BY <1>2, <1>6
    <3>2. pushed \o t \in Seq(OldTree)
      BY <3>1
    <3>3. ToSet(pushed \o t) = ToSet(pushed) \union ToSet(t)
      <4>1. ASSUME NEW R, NEW a \in Seq(R), NEW b \in Seq(R) PROVE ToSet(a \o b) = ToSet(a) \union ToSet(b)
        BY ListsInARow
      <4>2. \A a, b \in Seq(OldTree) : ToSet(a \o b) = ToSet(a) \union ToSet(b)
        BY <4>1
      <4> QED BY <3>1, <4>2
    <3> QED BY <3>2, <3>3
  <2>2. Apart(before, c)
    BY <1>2, <1>6, <1>8, ApartInARow
  <2> HIDE DEF c
  <2>3. stack' = c
    BY <1>7 DEF c
  <2> QED BY <2>1, <2>2, <2>3
<1>10. Ahead' \subseteq Ahead \ {n}
  <2>1. Ahead' = UNION {Below(before, x) : x \in ToSet(stack')}
    BY DEF Ahead
  <2>2. \A x \in ToSet(pushed) : Below(before, x) \subseteq Ahead \ {n}
    BY <1>2, <1>6 DEF Ahead
  <2>3. \A x \in ToSet(t) : Below(before, x) \subseteq Ahead \ {n}
    BY <1>2, <1>3 DEF Ahead
  <2> QED BY <1>9, <2>1, <2>2, <2>3
<1> DEFINE N == Len(visited)
<1>11. /\ N \in Nat /\ visited \in Seq(OldTree) /\ DOMAIN visited = 1..N
       /\ \A i \in 1..N : visited[i] \in Seen
  BY DEF VisitedInv, Seen, ToSet
<1>12. visited' = Append(visited, n)
  OBVIOUS
<1>13. /\ visited' \in Seq(OldTree) /\ Len(visited') = N + 1 /\ DOMAIN visited' = 1..(N + 1)
       /\ visited'[N + 1] = n /\ \A i \in 1..N : visited'[i] = visited[i]
  BY <1>2, <1>11, <1>12
<1>14. Seen' = Seen \union {n}
  <2>1. ToSet(visited') = {visited'[i] : i \in 1..(N + 1)} /\ ToSet(visited) = {visited[i] : i \in 1..N}
    BY <1>11, <1>13 DEF ToSet
  <2> HIDE DEF N
  <2>2. \A i \in 1..(N + 1) : i \in 1..N \/ i = N + 1
    BY <1>11
  <2>3. N + 1 \in 1..(N + 1) /\ \A i \in 1..N : i \in 1..(N + 1)
    BY <1>11
  <2>4. ToSet(visited') = ToSet(visited) \union {n}
    BY <1>13, <2>1, <2>2, <2>3, SMTT(60)
  <2> QED BY <2>4 DEF Seen
<1>15. /\ image' \in [Node -> Seq(Node)] /\ image'[n] = new /\ \A m \in Node : m # n => image'[m] = image[m]
  BY <1>3
<1>16. Held' = Held \union (IF kept THEN {n} ELSE {})
  <2>1. ASSUME NEW m \in Seen PROVE Kept(m)' <=> Kept(m)
    <3>1. m \in Node /\ m # n
      BY <1>1, <1>5, <1>11 DEF Seen, ToSet
    <3>2. image'[m] = image[m]
      BY <1>15, <3>1
    <3> QED BY <3>2 DEF Kept
  <2>2. Kept(n)' <=> kept
    BY <1>15 DEF Kept
  <2> HIDE DEF kept
  <2>3. ASSUME NEW m PROVE m \in Held' <=> m \in Held \/ (kept /\ m = n)
    <3>1. m \in Held' <=> m \in Seen' /\ Kept(m)'
      BY DEF Held
    <3>2. m \in Held <=> m \in Seen /\ Kept(m)
      BY DEF Held
    <3>3. CASE m = n
      BY <1>5, <1>14, <2>2, <3>1, <3>2, <3>3
    <3>4. CASE m # n
      BY <1>14, <2>1, <3>1, <3>2, <3>4
    <3> QED BY <3>3, <3>4
  <2> QED BY <2>3
<1> HIDE DEF N
<1>17. StackInv'
  <2>1. ASSUME NEW x \in ToSet(pushed) PROVE before.parent[x] \in Held'
    <3>1. kept /\ x \in Children(before, n)
      BY <1>6, <2>1
    <3>2. RefersBack(before, n)
      BY <1>2, WholeIsSound DEF OldTree, Live
    <3>3. before.parent[x] = n
      BY <1>1, <1>3, <3>1, <3>2, ParentOfChild
    <3> QED BY <1>16, <3>1, <3>3
  <2>2. ASSUME NEW x \in ToSet(t), x # Root PROVE before.parent[x] \in Held'
    BY <1>2, <1>16, <2>2 DEF StackInv
  <2>3. \A x \in ToSet(stack') : x # Root => before.parent[x] \in Held'
    BY <1>9, <2>1, <2>2
  <2> QED BY <1>9, <2>3 DEF StackInv, OldTree
<1>18. VisitedInv'
  <2>1. Distinct(visited')
    <3>1. \A i, j \in 1..N : visited[i] = visited[j] => i = j
      BY DEF VisitedInv, Distinct, N
    <3>2. \A i \in 1..(N + 1) : i \in 1..N \/ i = N + 1
      BY <1>11
    <3>3. \A i \in 1..N : visited[i] # n
      BY <1>5, <1>11
    <3> QED BY <1>13, <3>1, <3>2, <3>3 DEF Distinct
  <2>2. Seen' \cap Ahead' = {}
    BY <1>10, <1>14 DEF VisitedInv
  <2>3. visited'[1] = Root
    <3>1. CASE visited = <<>>
      <4>1. N = 0 /\ n = Root
        BY <3>1 DEF N
      <4>2. N + 1 = 1
        BY <4>1
      <4> QED BY <1>13, <4>1, <4>2
    <3>2. CASE visited # <<>>
      <4>1. 1 \in 1..N
        BY <1>11, <3>2 DEF N
      <4> QED BY <1>13, <3>2, <4>1 DEF VisitedInv
    <3> QED BY <3>1, <3>2
  <2>4. ASSUME NEW k \in 1..(N + 1), visited'[k] # Root
        PROVE  \E j \in 1..(k - 1) : visited'[j] = before.parent[visited'[k]] /\ Kept(visited[j])'
    <3>1. ASSUME NEW j \in 1..N, Kept(visited[j]) PROVE visited'[j] = visited[j] /\ Kept(visited[j])'
      <4>1. visited[j] \in Node /\ visited[j] # n /\ visited'[j] = visited[j]
        BY <1>1, <1>5, <1>11, <1>13
      <4>2. image'[visited'[j]] = image[visited[j]]
        BY <1>15, <4>1
      <4>3. image[visited[j]] = <<visited[j]>>
        BY <3>1 DEF Kept
      <4>4. image'[visited'[j]] = <<visited'[j]>>
        BY <4>1, <4>2, <4>3
      <4> QED BY <4>1, <4>4 DEF Kept
    <3>2. CASE k \in 1..N
      <4>1. visited'[k] = visited[k]
        BY <1>13, <3>2
      <4>2. PICK j \in 1..(k - 1) : visited[j] = before.parent[visited[k]] /\ Kept(visited[j])
        BY <2>4, <3>2, <4>1 DEF VisitedInv, N
      <4>3. j \in 1..N
        BY <1>11, <3>2
      <4> QED BY <3>1, <4>1, <4>2, <4>3
    <3>3. CASE k = N + 1
      <4>1. n # Root /\ before.parent[n] \in Held
        BY <1>2, <1>13, <2>4, <3>3 DEF StackInv
      <4>2. PICK j \in 1..N : visited[j] = before.parent[n] /\ Kept(visited[j])
        BY <1>11, <4>1 DEF Held, Seen, ToSet
      <4>3. j \in 1..(k - 1)
        BY <1>11, <3>3
      <4> QED BY <1>13, <3>1, <3>3, <4>2, <4>3
    <3>4. k \in 1..N \/ k = N + 1
      BY <1>11
    <3> QED BY <3>2, <3>3, <3>4
  <2> QED BY <1>13, <2>1, <2>2, <2>3, <2>4 DEF VisitedInv, OldTree
<1> QED BY <1>2, <1>3, <1>5, <1>6, <1>9, <1>10, <1>14, <1>15, <1>16, <1>17, <1>18

LEMMA FirstVisit ==
  ASSUME Whole(heap), NEW outcome \in Outcomes(Root)
  PROVE  outcome[2] \in Seq(Node) /\ (outcome[2] = <<Root>> => outcome[1] = heap)
<1> DEFINE h == outcome[1]
           new == outcome[2]
           Goal == new \in Seq(Node) /\ (new = <<Root>> => h = heap)
<1>1. heap \in Heap /\ Root \in Node /\ Root \in Live(heap) /\ IsTree(heap, Root)
  BY WholeIsSound
<1>2. \/ h = heap /\ new = <<Root>>
      \/ h = heap /\ new = <<>>
      \/ h = heap /\ \E c \in Node : new = <<c>> /\ Alone(c) /\ c \notin Below(before, Root)
      \/ h = heap /\ \E c \in Children(heap, Root) : new = <<c>>
      \/ \E w \in Node : new = <<w>> /\ Alone(w) /\ w \notin Below(before, Root) /\ h = SetThis(heap, w, Root)
      \/ h = heap /\ new \in Lists /\ Len(new) > 1 /\ heap.arg_key[Root] = "expressions"
  BY OutcomesAre
<1>3. Children(heap, Root) \subseteq Node
  BY <1>1, ChildrenAreNodes
<1>4. \A w \in Node : Alone(w) => w # Root
  BY <1>1 DEF Alone
<1>5. \A l \in Lists : l \in Seq(Node)
  BY <1>1, ListsAreTrees
<1>6. \A w \in Node : <<w>> \in Seq(Node) /\ (w # Root => <<w>> # <<Root>>)
  OBVIOUS
<1>7. <<>> \in Seq(Node)
  OBVIOUS
<1> HIDE DEF h, new
<1>8. new \in Seq(Node)
  BY <1>1, <1>2, <1>3, <1>5, <1>6, <1>7
<1>9. new = <<Root>> => h = heap
  BY <1>2, <1>4, <1>6
<1> QED BY <1>8, <1>9 DEF h, new

LEMMA ArgumentsMakeChildren ==
  ASSUME NEW g, NEW h, NEW m, g.this[m] = h.this[m], g.expressions[m] = h.expressions[m]
  PROVE  Children(g, m) = Children(h, m) /\ ChildrenInOrder(g, m) = ChildrenInOrder(h, m)
BY DEF Children, ChildrenInOrder

(* The first visit, of the root.                                           *)
LEMMA VisitOfRoot ==
  ASSUME TraversalInv, before # None, visited = <<>>, Visit
  PROVE  TraversalInv'
<1>1. /\ Whole(before) /\ image \in [Node -> Seq(Node)] /\ StackInv /\ VisitedInv
      /\ stack = <<Root>> /\ root = None /\ heap = before /\ before' = before
  BY DEF TraversalInv, HeapInv, Visit
<1>2. Head(stack) = Root /\ Tail(stack) = <<>> /\ stack # <<>>
  BY <1>1
<1>3. PICK outcome \in Outcomes(Root) :
        LET new == outcome[2]
        IN /\ heap' = outcome[1]
           /\ root' = IF new # <<>> THEN new[1] ELSE root
           /\ stack' = Pushed(heap', Root, new) \o <<>>
           /\ visited' = Append(visited, Root)
           /\ image' = [image EXCEPT ![Root] = new]
  BY <1>1, <1>2 DEF Visit
<1> DEFINE n == Root
           t == <<>>
           new == outcome[2]
           kept == new = <<n>>
           pushed == IF new = <<n>> THEN ChildrenInOrder(before, n) ELSE <<>>
<1>4. new \in Seq(Node) /\ (kept => heap' = heap)
  BY <1>1, <1>3, FirstVisit
<1>5. Pushed(heap', n, new) = pushed
  BY <1>1, <1>4 DEF Pushed
<1>6. stack' = pushed \o t
  BY <1>3, <1>5
<1>7. visited' = Append(visited, n) /\ image' = [image EXCEPT ![n] = new]
  BY <1>3
<1>8. n = Head(stack) /\ t = Tail(stack)
  BY <1>2
<1> HIDE DEF n, t, pushed, new
<1>9. /\ StackInv' /\ VisitedInv' /\ image' \in [Node -> Seq(Node)]
      /\ Held' = Held \union (IF new = <<n>> THEN {n} ELSE {})
      /\ ToSet(stack') = (IF new = <<n>> THEN Children(before, n) ELSE {}) \union ToSet(t)
      /\ n \in Node /\ Ahead' \subseteq Ahead \ {n}
  <2>1. pushed = IF new = <<n>> THEN ChildrenInOrder(before, n) ELSE <<>>
    BY DEF pushed
  <2>2. visited = <<>> => n = Root
    BY DEF n
  <2>3. PICK p : p = pushed
    OBVIOUS
  <2>4. p = IF new = <<n>> THEN ChildrenInOrder(before, n) ELSE <<>>
    BY <2>1, <2>3
  <2>5. stack' = p \o t
    BY <1>6, <2>3
  <2>6. Whole(before) /\ StackInv /\ VisitedInv /\ stack # <<>> /\ before' = before /\ image \in [Node -> Seq(Node)]
    BY <1>1, <1>2
  <2>7. new \in Seq(Node) /\ visited' = Append(visited, n) /\ image' = [image EXCEPT ![n] = new]
    BY <1>4, <1>7
  <2> QED BY <1>8, <2>2, <2>4, <2>5, <2>6, <2>7, Moves, ZenonT(60)
<1>10. Held = {} /\ ToSet(t) = {}
  <2>1. ToSet(<<>>) = {}
    BY DEF ToSet
  <2> QED BY <2>1 DEF Held, Seen, t
<1>11. HeapInv'
  <2>1. visited' # <<>>
    BY <1>7
  <2>2. CASE kept
    <3>1. heap' = before /\ heap' = heap
      BY <1>1, <1>4, <2>2
    <3>2. root' # None
      <4>1. new # <<>> /\ new[1] = Root /\ None # Root
        BY <2>2, TreeAssumption DEF n
      <4> QED BY <1>3, <4>1 DEF new
    <3>3. Whole(heap')
      BY <1>1, <3>1
    <3>4. \A x \in Held' \union ToSet(stack') : x # Root => x \in Children(before, n)
      BY <1>9, <1>10, <2>2 DEF n
    <3>5. \A x \in Children(before, n) : before.parent[x] = n
      <4>1. before \in Heap /\ n \in Node /\ RefersBack(before, n)
        BY <1>1, WholeIsSound DEF n
      <4> QED BY <4>1, ParentOfChild
    <3>6. \A x \in (Held' \union ToSet(stack')) \ {Root} : x \in Children(heap', before.parent[x])
      BY <3>1, <3>4, <3>5
    <3> QED BY <1>1, <2>1, <3>1, <3>2, <3>3, <3>6 DEF HeapInv
  <2>3. CASE ~kept
    <3>1. Held' = {} /\ ToSet(stack') = {}
      BY <1>9, <1>10, <2>3
    <3>2. Ahead' = {}
      BY <3>1 DEF Ahead
    <3>3. stack' = <<>>
      BY <1>6, <2>3 DEF pushed, t
    <3> QED BY <2>1, <3>1, <3>2, <3>3 DEF HeapInv
  <2> QED BY <2>2, <2>3
<1> QED BY <1>1, <1>9, <1>11 DEF TraversalInv

(* What a later visit finds: a node of the tree that hangs where it did    *)
(* when transform was called.                                              *)
LEMMA NextNode ==
  ASSUME TraversalInv, before # None, visited # <<>>, stack # <<>>,
         NEW n, n = Head(stack)
  PROVE  /\ Whole(before) /\ Whole(heap) /\ root # None
         /\ n # Root /\ n \in Live(heap) /\ n \in OldTree
         /\ before.parent[n] \in Held /\ before.parent[n] \in Live(heap) /\ before.parent[n] \in OldTree
         /\ before.parent[n] \in Node /\ before.parent[n] \notin Ahead /\ n \notin Held
         /\ n \in Children(heap, before.parent[n]) /\ heap.parent[n] = before.parent[n]
<1>1. /\ Whole(before) /\ StackInv /\ VisitedInv /\ HeapInv /\ Whole(heap) /\ root # None
  BY DEF TraversalInv, HeapInv
<1>2. n \in ToSet(stack) /\ n \in OldTree
  BY <1>1, TopOfStack, ZenonT(60) DEF StackInv
<1>3. before \in Heap /\ heap \in Heap /\ OldTree \subseteq Node
  BY <1>1, WholeIsSound DEF OldTree, Live
<1>4. n \in Ahead
  <2>1. n \in Below(before, n)
    BY <1>2, <1>3, BelowIsClosed
  <2> QED BY <1>2, <2>1 DEF Ahead
<1>5. n \notin Seen /\ Root \in Seen
  <2>1. Root = visited[1] /\ visited \in Seq(OldTree)
    BY <1>1 DEF VisitedInv
  <2>2. 1 \in DOMAIN visited
    BY <2>1
  <2>3. Root \in Seen
    BY <2>1, <2>2 DEF Seen, ToSet
  <2> QED BY <1>1, <1>4, <2>3 DEF VisitedInv
<1>6. n # Root /\ n \notin Held
  BY <1>5 DEF Held
<1> DEFINE v == before.parent[n]
<1>7. v \in Held /\ n \in Children(heap, v)
  BY <1>1, <1>2, <1>6 DEF StackInv, HeapInv
<1>8. v \in Live(heap) /\ n \in Live(heap)
  BY <1>1, <1>2, <1>7, HeldAreLive
<1>9. v \in Seen /\ v \in OldTree
  <2>1. v \in Seen
    BY <1>7 DEF Held
  <2>2. Seen \subseteq OldTree
    BY <1>1 DEF VisitedInv, Seen, ToSet
  <2> QED BY <2>1, <2>2
<1>10. v \notin Ahead /\ v \in Node
  BY <1>1, <1>3, <1>9 DEF VisitedInv
<1>11. heap.parent[n] = v
  <2>1. RefersBack(heap, v)
    BY <1>1, <1>8, WholeIsSound
  <2> QED BY <1>3, <1>7, <1>10, <2>1, ParentOfChild
<1> QED BY <1>1, <1>2, <1>6, <1>7, <1>8, <1>9, <1>10, <1>11

(* The nodes kept and those on the stack hang below nodes that were kept.  *)
LEMMA ParentsAreKept ==
  ASSUME Whole(before), StackInv, VisitedInv
  PROVE  /\ \A x \in Held \union ToSet(stack) : x # Root => before.parent[x] \in Held
         /\ Held \subseteq Seen /\ Seen \subseteq OldTree
<1>1. visited \in Seq(OldTree) /\ DOMAIN visited = 1..Len(visited) /\ Len(visited) \in Nat
  BY DEF VisitedInv
<1>2. Seen \subseteq OldTree /\ Held \subseteq Seen
  BY <1>1 DEF Seen, ToSet, Held
<1>3. ASSUME NEW x \in Held, x # Root PROVE before.parent[x] \in Held
  <2>1. PICK k \in 1..Len(visited) : x = visited[k]
    BY <1>1 DEF Held, Seen, ToSet
  <2>2. PICK j \in 1..(k - 1) : visited[j] = before.parent[visited[k]] /\ Kept(visited[j])
    BY <1>3, <2>1 DEF VisitedInv
  <2>3. j \in DOMAIN visited
    BY <1>1
  <2> QED BY <2>1, <2>2, <2>3 DEF Held, Seen, ToSet
<1> QED BY <1>2, <1>3 DEF StackInv

LEMMA AheadInOldTree ==
  ASSUME Whole(before), StackInv
  PROVE  Ahead \subseteq OldTree
<1>1. \A x \in ToSet(stack) : x \in Below(before, Root)
  BY DEF StackInv, ToSet, OldTree
<1>2. before \in Heap /\ Root \in Node /\ Below(before, Root) \subseteq Node /\ Closed(before, Below(before, Root))
  <2>1. before \in Heap /\ Root \in Node
    BY WholeIsSound
  <2> QED BY <2>1, BelowIsClosed
<1>3. ASSUME NEW x \in ToSet(stack) PROVE Below(before, x) \subseteq Below(before, Root)
  <2>1. x \in Below(before, Root) /\ x \in Node
    BY <1>1, <1>2
  <2> QED BY <1>2, <2>1, BelowIsLeast
<1> QED BY <1>3 DEF Ahead, OldTree

(* A visit of another node n, below v, that returns new.                   *)
VisitBelow(n, v, new) ==
  /\ Whole(before) /\ StackInv /\ VisitedInv /\ HeapInv /\ image \in [Node -> Seq(Node)]
  /\ Whole(heap) /\ Whole(heap') /\ root # None /\ root' = root /\ before' = before
  /\ n # Root /\ n \in OldTree /\ n \in Node /\ n \in Ahead /\ n \notin Held /\ n \notin Seen
  /\ n \in Children(heap, v) /\ v = before.parent[n] /\ v \in Live(heap)
  /\ v \in Held /\ v \in OldTree /\ v \in Node /\ v \notin Ahead
  /\ new \in Seq(Node)
  /\ new = <<n>> => heap' = heap
  /\ new # <<n>> =>
       /\ \A m \in OldTree : m # v => heap'.this[m] = heap.this[m] /\ heap'.expressions[m] = heap.expressions[m]
       /\ heap.arg_key[n] = "this" =>
            heap'.expressions[v] = heap.expressions[v] /\ heap'.this[v] = IF new = <<>> THEN None ELSE new[1]
       /\ heap.arg_key[n] # "this" =>
            /\ heap'.this[v] = heap.this[v]
            /\ heap'.expressions[v] = InPlace(heap.expressions[v], heap.index[n], new)
  /\ visited' = Append(visited, n) /\ image' = [image EXCEPT ![n] = new]
  /\ StackInv' /\ VisitedInv' /\ image' \in [Node -> Seq(Node)]
  /\ Seen' = Seen \union {n} /\ Held' = Held \union (IF new = <<n>> THEN {n} ELSE {})
  /\ n \in ToSet(stack) /\ Ahead' \subseteq Ahead \ {n}
  /\ ToSet(stack') = (IF new = <<n>> THEN Children(before, n) ELSE {}) \union (ToSet(stack) \ {n})

LEMMA VisitOfOther ==
  ASSUME TraversalInv, before # None, visited # <<>>, stack # <<>>, Visit
  PROVE  \E n, v, new : VisitBelow(n, v, new)
<1>1. PICK n, t, outcome :
        /\ n = Head(stack) /\ t = Tail(stack) /\ outcome \in Outcomes(n)
        /\ heap' = IF root # None /\ BackPlace(heap, n).node # None /\ outcome[2] # <<n>>
                   THEN PutIn(outcome[1], BackPlace(heap, n), outcome[2])
                   ELSE outcome[1]
        /\ root' = IF root = None /\ outcome[2] # <<>> THEN outcome[2][1] ELSE root
        /\ stack' = Pushed(heap', n, outcome[2]) \o t
        /\ visited' = Append(visited, n)
        /\ image' = [image EXCEPT ![n] = outcome[2]]
        /\ before' = before
  BY DEF Visit
<1>2. PICK v : v = before.parent[n]
  OBVIOUS
<1>3. PICK new : new = outcome[2]
  OBVIOUS
<1>4. /\ Whole(before) /\ image \in [Node -> Seq(Node)] /\ StackInv /\ VisitedInv /\ HeapInv
      /\ before' = before /\ n = Head(stack) /\ t = Tail(stack)
  BY <1>1 DEF TraversalInv
<1>5. /\ Whole(heap) /\ root # None /\ n # Root /\ n \in Live(heap) /\ n \in OldTree
      /\ v \in Held /\ v \in Live(heap) /\ v \in OldTree /\ v \in Node /\ v \notin Ahead /\ n \notin Held
      /\ n \in Children(heap, v) /\ heap.parent[n] = v
  <2>1. n = Head(stack)
    BY <1>4
  <2> QED BY <1>2, <2>1, NextNode
<1>6. heap' = After(n, outcome) /\ root' = root
  <2>1. BackPlace(heap, n).node = v /\ v # None
    BY <1>5, TreeAssumption DEF BackPlace, Place
  <2> QED BY <1>1, <1>5, <2>1 DEF After
<1> DEFINE g == After(n, outcome)
<1>7. /\ Whole(g) /\ new \in Seq(Node) /\ (new = <<n>> => g = heap)
      /\ new # <<n>> =>
           /\ \A m \in OldTree : m # v => g.this[m] = heap.this[m] /\ g.expressions[m] = heap.expressions[m]
           /\ heap.arg_key[n] = "this" =>
                g.expressions[v] = heap.expressions[v] /\ g.this[v] = IF new = <<>> THEN None ELSE new[1]
           /\ heap.arg_key[n] # "this" =>
                g.this[v] = heap.this[v] /\ g.expressions[v] = InPlace(heap.expressions[v], heap.index[n], new)
  <2>1. /\ Whole(heap) /\ Whole(before) /\ n \in Live(heap) /\ n # Root /\ v \in Live(heap)
        /\ n \in Children(heap, v) /\ v \in Below(before, Root) /\ outcome \in Outcomes(n)
    BY <1>1, <1>4, <1>5 DEF OldTree
  <2> QED BY <1>3, <2>1, VisitInside DEF OldTree
<1> HIDE DEF g
<1>8. heap' = g
  BY <1>6 DEF g
<1>9. PICK pushed : pushed = IF new = <<n>> THEN ChildrenInOrder(before, n) ELSE <<>>
  OBVIOUS
<1>10. n \in Ahead /\ n \in Node
  <2>1. before \in Heap /\ OldTree \subseteq Node
    BY <1>4, WholeIsSound DEF OldTree, Live
  <2>2. n \in ToSet(stack)
    <3>1. stack \in Seq(OldTree) /\ stack # <<>> /\ n = Head(stack)
      BY <1>4 DEF StackInv
    <3>2. ToSet(stack) = {Head(stack)} \union ToSet(Tail(stack))
      BY <3>1, TopOfStack
    <3> QED BY <3>1, <3>2
  <2>3. n \in Node /\ n \in Below(before, n)
    BY <1>5, <2>1, BelowIsClosed
  <2> QED BY <2>2, <2>3 DEF Ahead
<1>11. Children(heap, n) = Children(before, n) /\ ChildrenInOrder(heap, n) = ChildrenInOrder(before, n)
  <2>1. heap.this[n] = before.this[n] /\ heap.expressions[n] = before.expressions[n]
    BY <1>4, <1>10 DEF HeapInv
  <2> QED BY <2>1, ArgumentsMakeChildren
<1>12. Pushed(heap', n, new) = pushed
  BY <1>7, <1>8, <1>9, <1>11 DEF Pushed
<1>13. stack' = pushed \o t /\ visited' = Append(visited, n) /\ image' = [image EXCEPT ![n] = new]
  BY <1>1, <1>3, <1>12
<1>14. /\ StackInv' /\ VisitedInv' /\ image' \in [Node -> Seq(Node)]
       /\ Held' = Held \union (IF new = <<n>> THEN {n} ELSE {})
       /\ ToSet(stack') = (IF new = <<n>> THEN Children(before, n) ELSE {}) \union ToSet(t)
       /\ ToSet(stack) = {n} \union ToSet(t) /\ n \notin ToSet(t)
       /\ Seen' = Seen \union {n} /\ n \notin Seen
       /\ Ahead' \subseteq Ahead \ {n}
  <2>1. visited = <<>> => n = Root
    OBVIOUS
  <2>2. new \in Seq(Node)
    BY <1>7
  <2>3. n = Head(stack) /\ t = Tail(stack)
    BY <1>4
  <2>4. Whole(before) /\ StackInv /\ VisitedInv /\ image \in [Node -> Seq(Node)] /\ before' = before
    BY <1>4
  <2> QED BY <1>9, <1>13, <2>1, <2>2, <2>3, <2>4, Moves, ZenonT(60)
<1>15. ToSet(t) = ToSet(stack) \ {n} /\ n \in ToSet(stack)
  BY <1>14
<1>16. VisitBelow(n, v, new)
  BY <1>2, <1>4, <1>5, <1>6, <1>7, <1>8, <1>10, <1>13, <1>14, <1>15 DEF VisitBelow
<1> QED BY <1>16

(* The traversal goes on.                                                  *)
LEMMA VisitsGoOn ==
  ASSUME NEW n, NEW v, NEW new, VisitBelow(n, v, new)
  PROVE  TraversalInv'
<1>1. /\ Whole(before) /\ StackInv /\ VisitedInv /\ HeapInv /\ Whole(heap) /\ before' = before
      /\ n \in Children(heap, v) /\ v \in Live(heap) /\ v \in Node /\ v \notin Ahead /\ n \in Node
      /\ n \in OldTree /\ n \in Ahead /\ n \notin Held /\ new \in Seq(Node)
  BY DEF VisitBelow
<1>2. new # <<n>> =>
        /\ \A m \in OldTree : m # v => heap'.this[m] = heap.this[m] /\ heap'.expressions[m] = heap.expressions[m]
        /\ heap.arg_key[n] = "this" => heap'.expressions[v] = heap.expressions[v]
        /\ heap.arg_key[n] # "this" =>
             /\ heap'.this[v] = heap.this[v]
             /\ heap'.expressions[v] = InPlace(heap.expressions[v], heap.index[n], new)
  BY DEF VisitBelow
<1>3. /\ Held' = Held \union (IF new = <<n>> THEN {n} ELSE {}) /\ Ahead' \subseteq Ahead \ {n}
      /\ ToSet(stack') = (IF new = <<n>> THEN Children(before, n) ELSE {}) \union (ToSet(stack) \ {n})
      /\ n \in ToSet(stack) /\ (new = <<n>> => heap' = heap)
  BY DEF VisitBelow
<1>4. Children(heap, n) = Children(before, n)
  <2>1. heap.this[n] = before.this[n] /\ heap.expressions[n] = before.expressions[n]
    BY <1>1 DEF HeapInv
  <2> QED BY <2>1, ArgumentsMakeChildren
<1>5. ASSUME NEW m \in Ahead' PROVE heap'.this[m] = before.this[m] /\ heap'.expressions[m] = before.expressions[m]
  <2>1. m \in Ahead /\ m # v
    BY <1>1, <1>3
  <2>2. heap.this[m] = before.this[m] /\ heap.expressions[m] = before.expressions[m]
    BY <1>1, <2>1 DEF HeapInv
  <2>3. m \in OldTree
    BY <1>1, <2>1, AheadInOldTree
  <2> QED BY <1>2, <1>3, <2>1, <2>2, <2>3
<1>6. ASSUME NEW x \in Held' \union ToSet(stack'), x # Root PROVE x \in Children(heap', before.parent[x])
  <2>1. ASSUME NEW y \in Held \union ToSet(stack), y # Root
        PROVE  y \in Children(heap, before.parent[y]) /\ before.parent[y] \in OldTree
    <3>1. before.parent[y] \in Held /\ Held \subseteq OldTree
      BY <1>1, <2>1, ParentsAreKept
    <3>2. y \in Children(heap, before.parent[y])
      BY <1>1, <2>1 DEF HeapInv
    <3> QED BY <3>1, <3>2
  <2>2. ASSUME new = <<n>> PROVE x \in Children(heap', before.parent[x])
    <3>1. heap' = heap
      BY <1>3, <2>2
    <3>2. ASSUME x \in Children(before, n) PROVE x \in Children(heap', before.parent[x])
      <4>1. before \in Heap /\ RefersBack(before, n)
        BY <1>1, WholeIsSound DEF OldTree, Live
      <4>2. before.parent[x] = n
        BY <1>1, <3>2, <4>1, ParentOfChild
      <4> QED BY <1>4, <3>1, <3>2, <4>2
    <3>3. x \in Held \union ToSet(stack) \/ x \in Children(before, n)
      BY <1>3, <2>2
    <3> QED BY <1>6, <2>1, <3>1, <3>2, <3>3
  <2>3. ASSUME new # <<n>> PROVE x \in Children(heap', before.parent[x])
    <3>1. x \in Held \union ToSet(stack) /\ x # n
      BY <1>1, <1>3, <2>3
    <3>2. x \in Children(heap, before.parent[x]) /\ before.parent[x] \in OldTree
      BY <1>6, <2>1, <3>1
    <3>3. ASSUME before.parent[x] # v PROVE x \in Children(heap', before.parent[x])
      BY <1>2, <2>3, <3>2, <3>3, ArgumentsMakeChildren
    <3>4. ASSUME before.parent[x] = v PROVE x \in Children(heap', v)
      <4>1. heap \in Heap /\ RefersBack(heap, v)
        BY <1>1, WholeIsSound
      <4>2. x \in Children(heap, v)
        BY <3>2, <3>4
      <4>3. heap.arg_key[n] = "this" => heap'.expressions[v] = heap.expressions[v]
        BY <1>2, <2>3
      <4>4. heap.arg_key[n] # "this" =>
              heap'.this[v] = heap.this[v] /\ heap'.expressions[v] = InPlace(heap.expressions[v], heap.index[n], new)
        BY <1>2, <2>3
      <4>5. new \in Seq(Node) /\ n \in Children(heap, v) /\ v \in Node
        BY <1>1
      <4> QED BY <3>1, <4>1, <4>2, <4>3, <4>4, <4>5, SiblingsStay
    <3> QED BY <3>3, <3>4
  <2> QED BY <2>2, <2>3
<1>7. HeapInv'
  <2>1. visited' # <<>> /\ root' # None /\ Whole(heap')
    <3>1. visited \in Seq(OldTree) /\ visited' = Append(visited, n) /\ n \in OldTree
      BY DEF VisitBelow, VisitedInv
    <3>2. visited' # <<>>
      BY <3>1
    <3> QED BY <3>2 DEF VisitBelow
  <2>2. \A m \in Ahead' : heap'.this[m] = before'.this[m] /\ heap'.expressions[m] = before'.expressions[m]
    BY <1>1, <1>5
  <2>3. \A x \in (Held' \union ToSet(stack')) \ {Root} : x \in Children(heap', before'.parent[x])
    BY <1>1, <1>6
  <2> QED BY <2>1, <2>2, <2>3 DEF HeapInv
<1> QED BY <1>7 DEF VisitBelow, TraversalInv

(* transform is not under way before it is called.                         *)
CallInv ==
  before = None => visited = <<>> /\ root = None /\ image \in [Node -> Seq(Node)]

LEMMA BeginStartsAtRoot ==
  ASSUME EditsInv, CallInv, Begin
  PROVE  TraversalInv' /\ before' # None
<1>1. /\ Whole(heap) /\ stack = <<>> /\ visited = <<>> /\ root = None /\ image \in [Node -> Seq(Node)]
      /\ before' = heap /\ heap' = heap /\ stack' = <<Root>> /\ root' = root /\ visited' = visited /\ image' = image
  BY DEF EditsInv, CallInv, Begin
<1>2. heap \in Heap /\ Root \in Node /\ Root \in Live(heap)
  BY <1>1, WholeIsSound
<1>3. before' # None
  BY <1>1, <1>2, NoneAssumption
<1>4. OldTree' = Live(heap) /\ Seen' = {} /\ Held' = {} /\ ToSet(stack') = {Root}
  <2>1. ToSet(<<>>) = {} /\ ToSet(<<Root>>) = {Root}
    BY DEF ToSet
  <2>2. Seen' = {}
    BY <1>1, <2>1 DEF Seen
  <2> QED BY <1>1, <2>1, <2>2 DEF OldTree, Live, Held
<1>5. StackInv'
  <2>1. stack' \in Seq(OldTree') /\ Len(stack') = 1
    BY <1>1, <1>2, <1>4
  <2>2. Apart(before', stack')
    BY <2>1 DEF Apart
  <2>3. \A x \in ToSet(stack') : x # Root => before'.parent[x] \in Held'
    BY <1>4
  <2> QED BY <2>1, <2>2, <2>3 DEF StackInv
<1>6. VisitedInv'
  <2>1. visited' = <<>> /\ visited' \in Seq(OldTree') /\ Len(visited') = 0
    BY <1>1
  <2>2. Distinct(visited')
    BY <2>1 DEF Distinct
  <2>3. \A k \in 1..Len(visited') : FALSE
    BY <2>1
  <2> QED BY <1>4, <2>1, <2>2, <2>3 DEF VisitedInv
<1>7. HeapInv'
  <2>1. visited' = <<>> /\ stack' = <<Root>> /\ root' = None /\ heap' = before'
    BY <1>1
  <2>2. \A x \in (Held' \union ToSet(stack')) \ {Root} : FALSE
    BY <1>4
  <2> QED BY <2>1, <2>2 DEF HeapInv
<1> QED BY <1>1, <1>3, <1>5, <1>6, <1>7 DEF TraversalInv

(* TransformSpec => []VisitsOnce, with what the edits and the traversal    *)
(* maintain.                                                               *)
VisitsInv == EditsInv /\ CallInv /\ TraversalInv

LEMMA VisitsInvAtFirst ==
  ASSUME TransformInit PROVE VisitsInv
<1>1. image \in [Node -> Seq(Node)]
  BY DEF TransformInit
<1>2. EditsInv
  BY HeapAtFirst DEF TransformInit, EditsInv
<1> QED BY <1>1, <1>2 DEF TransformInit, VisitsInv, CallInv, TraversalInv

LEMMA StepsKeepVisitsInv ==
  ASSUME VisitsInv, [TransformNext]_vars
  PROVE  VisitsInv'
<1>1. CASE Edit
  <2>1. /\ before = None /\ before' = None /\ Whole(heap) /\ Next /\ stack = <<>> /\ stack' = stack
        /\ visited' = visited /\ root' = root /\ image' = image
    BY <1>1 DEF Edit, VisitsInv, EditsInv
  <2>2. Whole(heap')
    BY <2>1, EditsLeaveItWhole
  <2> QED BY <2>1, <2>2 DEF VisitsInv, EditsInv, CallInv, TraversalInv
<1>2. CASE Begin
  <2>1. TraversalInv' /\ before' # None
    BY <1>2, BeginStartsAtRoot DEF VisitsInv
  <2> QED BY <2>1 DEF VisitsInv, EditsInv, CallInv
<1>3. CASE Visit
  <2>1. stack # <<>> /\ before' = before
    BY <1>3 DEF Visit
  <2>2. before # None
    BY <2>1 DEF VisitsInv, EditsInv
  <2>3. TraversalInv'
    BY <1>3, <2>1, <2>2, VisitOfRoot, VisitOfOther, VisitsGoOn DEF VisitsInv
  <2> QED BY <2>1, <2>2, <2>3 DEF VisitsInv, EditsInv, CallInv
<1>4. CASE UNCHANGED vars
  <2>1. /\ heap' = heap /\ before' = before /\ stack' = stack /\ root' = root
        /\ visited' = visited /\ image' = image
    BY <1>4 DEF vars
  <2>2. OldTree' = OldTree /\ Seen' = Seen
    BY <2>1 DEF OldTree, Seen
  <2>3. Held' = Held /\ Ahead' = Ahead
    BY <2>1, <2>2 DEF Held, Ahead, Kept
  <2>4. (StackInv <=> StackInv') /\ (HeapInv <=> HeapInv')
    BY <2>1, <2>2, <2>3 DEF StackInv, HeapInv
  <2>5. VisitedInv <=> VisitedInv'
    BY <2>1, <2>2, <2>3 DEF VisitedInv, Kept
  <2> QED BY <2>1, <2>4, <2>5 DEF VisitsInv, EditsInv, CallInv, TraversalInv
<1>5. CASE Done
  BY <1>4, <1>5 DEF Done
<1> QED BY <1>1, <1>2, <1>3, <1>4, <1>5 DEF TransformNext

(* Whatever the function given to transform returns (expressions.py), it   *)
(* is given nodes of the tree as it was when transform was called, each at *)
(* most once, and a node only after its old parent was given and kept;     *)
(* although every answer edits the tree that dfs walks.                    *)
THEOREM FunctionSeesOldTreeOnce == TransformSpec => []VisitsOnce
<1>1. TransformInit => VisitsInv
  BY VisitsInvAtFirst
<1>2. VisitsInv /\ [TransformNext]_vars => VisitsInv'
  BY StepsKeepVisitsInv
<1>3. VisitsInv => VisitsOnce
  <2>1. SUFFICES ASSUME VisitsInv, visited # <<>> PROVE VisitsOnce
    <3>1. visited = <<>> => VisitsOnce
      BY DEF VisitsOnce, IsInjective
    <3> QED BY <3>1
  <2>2. VisitedInv
    BY <2>1 DEF VisitsInv, CallInv, TraversalInv
  <2>3. visited \in Seq(OldTree) /\ DOMAIN visited = 1..Len(visited)
    BY <2>2 DEF VisitedInv
  <2>4. IsInjective(visited)
    BY <2>2, <2>3 DEF VisitedInv, Distinct, IsInjective
  <2>5. ToSet(visited) \subseteq Below(before, Root)
    BY <2>3 DEF ToSet, OldTree
  <2> QED BY <2>2, <2>3, <2>4, <2>5 DEF VisitedInv, VisitsOnce
<1> QED BY <1>1, <1>2, <1>3, PTL DEF TransformSpec

-----------------------------------------------------------------------------
(* Lists in a row.                                                         *)

(* f[k] is what the first k lists of F make.                               *)
Flattens(f, F, R) ==
  /\ f \in [0..Len(F) -> Seq(R)] /\ f[0] = <<>>
  /\ \A k \in 1..Len(F) : f[k] = f[k - 1] \o F[k]

LEMMA Associative ==
  ASSUME NEW R, NEW a \in Seq(R), NEW b \in Seq(R), NEW c \in Seq(R)
  PROVE  (a \o b) \o c = a \o (b \o c)
<1> DEFINE x == (a \o b) \o c
           y == a \o (b \o c)
<1>1. x \in Seq(R) /\ y \in Seq(R) /\ Len(x) = Len(y)
  OBVIOUS
<1>2. \A j \in 1..Len(x) : x[j] = y[j]
  OBVIOUS
<1> HIDE DEF x, y
<1>3. x = y
  BY <1>1, <1>2, SameList
<1> QED BY <1>3 DEF x, y

LEMMA FlattenStepByStep ==
  ASSUME NEW R, NEW F \in Seq(Seq(R))
  PROVE  \E f : Flattens(f, F, R) /\ FlattenSeq(F) = f[Len(F)]
<1> DEFINE N == Len(F)
           S == Seq(R)
           next == [q \in (1..N) \X S |-> q[2] \o F[q[1]]]
           Body(f) == [i \in 1..N |-> IF i = 1 THEN F[i] ELSE f[i - 1] \o F[i]]
           flatten == CHOOSE f : f = Body(f)
           s0 == <<>>
<1>1. N \in Nat /\ \A k \in 1..N : F[k] \in S
  OBVIOUS
<1>2. FlattenSeq(F) = IF N = 0 THEN F ELSE flatten[N]
  BY DEF FlattenSeq
<1>3. next \in [(1..N) \X S -> S]
  <2>1. \A q \in (1..N) \X S : q[2] \o F[q[1]] \in S
    <3>1. \A a, b \in S : a \o b \in S
      OBVIOUS
    <3> HIDE DEF S, N
    <3> QED BY <1>1, <3>1
  <2> QED BY <2>1
<1>4. PICK g : Recursive(g, N, S, s0, next)
  <2>1. s0 \in S
    OBVIOUS
  <2> HIDE DEF next, S, s0, N
  <2> QED BY <1>1, <1>3, <2>1, Recursion
<1>5. g \in [0..N -> S] /\ g[0] = <<>> /\ \A k \in 1..N : g[k] = g[k - 1] \o F[k]
  <2>1. g \in [0..N -> S] /\ g[0] = <<>> /\ \A k \in 1..N : g[k] = next[<<k, g[k - 1]>>]
    BY <1>4 DEF Recursive
  <2>2. ASSUME NEW k \in 1..N PROVE g[k] = g[k - 1] \o F[k]
    <3>1. g[k - 1] \in S
      <4>1. k - 1 \in 0..N
        BY <1>1
      <4> HIDE DEF N, S
      <4> QED BY <2>1, <4>1
    <3>2. <<k, g[k - 1]>> \in (1..N) \X S
      BY <3>1
    <3>3. next[<<k, g[k - 1]>>] = g[k - 1] \o F[k]
      <4> HIDE DEF S, N
      <4> QED BY <3>2
    <3> QED BY <2>1, <3>3
  <2> QED BY <2>1, <2>2
<1> HIDE DEF next, flatten, S
<1>6. CASE N = 0
  <2>1. FlattenSeq(F) = g[N]
    BY <1>2, <1>5, <1>6
  <2> QED BY <1>5, <2>1 DEF Flattens, S
<1>7. CASE N # 0
  <2> DEFINE h == [i \in 1..N |-> g[i]]
  <2> HIDE DEF N
  <2>1. h = Body(h)
    <3>1. ASSUME NEW i \in 1..N PROVE g[i] = IF i = 1 THEN F[i] ELSE h[i - 1] \o F[i]
      <4>1. CASE i = 1
        <5>1. g[i] = <<>> \o F[i] /\ F[i] \in Seq(R)
          <6>1. F[i] \in Seq(R)
            BY <1>1 DEF S
          <6>2. g[i] = g[i - 1] \o F[i]
            BY <1>5, <3>1
          <6>3. i - 1 = 0
            BY <4>1
          <6>4. g[i] = g[0] \o F[i]
            BY <6>2, <6>3
          <6> QED BY <1>5, <6>1, <6>4
        <5>2. \A a \in Seq(R) : <<>> \o a = a
          OBVIOUS
        <5> QED BY <4>1, <5>1, <5>2
      <4>2. CASE i # 1
        <5>1. i - 1 \in 1..N
          BY <1>1, <4>2
        <5> QED BY <1>5, <4>2, <5>1
      <4> QED BY <4>1, <4>2
    <3> QED BY <3>1
  <2>2. flatten = Body(flatten)
    <3> HIDE DEF h, Body
    <3> QED BY <2>1 DEF flatten
  <2> DEFINE P == {k \in 0..N : k # 0 => flatten[k] = g[k]}
  <2>3. 0 \in P
    BY <1>1
  <2>4. ASSUME NEW k \in 1..N, k - 1 \in P PROVE k \in P
    <3>1. flatten[k] = IF k = 1 THEN F[k] ELSE flatten[k - 1] \o F[k]
      BY <2>2
    <3>2. h[k] = IF k = 1 THEN F[k] ELSE h[k - 1] \o F[k]
      BY <2>1
    <3>3. k # 1 => flatten[k - 1] = g[k - 1] /\ h[k - 1] = g[k - 1]
      BY <1>1, <2>4
    <3>4. k \in 0..N /\ h[k] = g[k]
      BY <1>1
    <3> QED BY <3>1, <3>2, <3>3, <3>4
  <2>5. \A k \in 0..N : k \in P
    <3> HIDE DEF P
    <3> QED BY <1>1, <2>3, <2>4, UpTo
  <2>6. N \in P
    BY <1>1, <2>5
  <2>7. FlattenSeq(F) = g[N]
    BY <1>2, <1>7, <2>6
  <2> QED BY <1>5, <2>7 DEF Flattens, S, N
<1> QED BY <1>6, <1>7

(* Lists of one member each make the list of the members.                  *)
LEMMA FlattenOfSingles ==
  ASSUME NEW R, NEW l \in Seq(R)
  PROVE  FlattenSeq([k \in DOMAIN l |-> <<l[k]>>]) = l
<1> DEFINE F == [k \in DOMAIN l |-> <<l[k]>>]
           N == Len(l)
<1>1. N \in Nat /\ DOMAIN l = 1..N /\ \A k \in 1..N : l[k] \in R
  OBVIOUS
<1>2. F \in Seq(Seq(R)) /\ Len(F) = N /\ \A k \in 1..N : F[k] = <<l[k]>>
  <2>1. F = [k \in 1..N |-> <<l[k]>>]
    BY <1>1
  <2>2. \A k \in 1..N : <<l[k]>> \in Seq(R)
    BY <1>1
  <2> QED BY <1>1, <2>1, <2>2
<1> HIDE DEF F
<1>3. PICK f : Flattens(f, F, R) /\ FlattenSeq(F) = f[Len(F)]
  BY <1>2, FlattenStepByStep
<1> HIDE DEF N
<1>4. f \in [0..N -> Seq(R)] /\ f[0] = <<>> /\ \A k \in 1..N : f[k] = f[k - 1] \o <<l[k]>>
  BY <1>2, <1>3 DEF Flattens
<1> DEFINE P == {k \in 0..N : Len(f[k]) = k /\ \A j \in 1..k : f[k][j] = l[j]}
<1>5. 0 \in P
  <2>1. 0 \in 0..N /\ Len(<<>>) = 0 /\ 1..0 = {}
    BY <1>1
  <2> QED BY <1>4, <2>1
<1>6. ASSUME NEW k \in 1..N, k - 1 \in P PROVE k \in P
  <2>1. k - 1 \in 0..N /\ k \in 0..N /\ l[k] \in R
    BY <1>1
  <2> DEFINE a == f[k - 1]
  <2>2. a \in Seq(R) /\ Len(a) = k - 1 /\ \A j \in 1..(k - 1) : a[j] = l[j]
    BY <1>4, <1>6, <2>1
  <2>3. f[k] = a \o <<l[k]>>
    BY <1>4
  <2> HIDE DEF a
  <2>4. Len(a \o <<l[k]>>) = k /\ \A j \in 1..k : (a \o <<l[k]>>)[j] = l[j]
    BY <1>1, <2>1, <2>2
  <2> QED BY <2>1, <2>3, <2>4
<1>7. \A k \in 0..N : k \in P
  <2> HIDE DEF P
  <2> QED BY <1>1, <1>5, <1>6, UpTo
<1>8. N \in P /\ N \in 0..N
  BY <1>1, <1>7
<1>9. f[N] \in Seq(R) /\ Len(f[N]) = N /\ \A j \in 1..N : f[N][j] = l[j]
  BY <1>4, <1>8
<1>10. f[N] = l
  BY <1>9, SameList DEF N
<1> QED BY <1>2, <1>3, <1>10 DEF F

(* A list among several that is one member alone: with another list in its *)
(* place the lists make what they made with that list in place of the      *)
(* member.                                                                 *)
Exchanged(R, F, G, p, n, new) ==
  /\ F \in Seq(Seq(R)) /\ G \in Seq(Seq(R)) /\ n \in R /\ new \in Seq(R)
  /\ p \in 1..Len(F) /\ F[p] = <<n>> /\ G[p] = new /\ Len(G) = Len(F)
  /\ \A k \in 1..Len(F) : k # p => G[k] = F[k]

Around(R, l, n, new, m) == \E a, b \in Seq(R) : l = (a \o <<n>>) \o b /\ m = (a \o new) \o b

LEMMA FlattenAround ==
  ASSUME NEW R, NEW F, NEW G, NEW p, NEW n, NEW new, Exchanged(R, F, G, p, n, new)
  PROVE  Around(R, FlattenSeq(F), n, new, FlattenSeq(G))
<1> DEFINE N == Len(F)
<1>1. N \in Nat /\ \A k \in 1..N : F[k] \in Seq(R)
  BY DEF Exchanged
<1>2. /\ F \in Seq(Seq(R)) /\ G \in Seq(Seq(R)) /\ Len(G) = N /\ G[p] = new
      /\ \A k \in 1..N : k # p => G[k] = F[k]
  BY DEF Exchanged
<1>3. PICK f : Flattens(f, F, R) /\ FlattenSeq(F) = f[N]
  BY <1>2, FlattenStepByStep
<1>4. PICK g : Flattens(g, G, R) /\ FlattenSeq(G) = g[N]
  BY <1>2, FlattenStepByStep
<1> HIDE DEF N
<1>5. /\ f \in [0..N -> Seq(R)] /\ f[0] = <<>> /\ \A k \in 1..N : f[k] = f[k - 1] \o F[k]
      /\ g \in [0..N -> Seq(R)] /\ g[0] = <<>> /\ \A k \in 1..N : g[k] = g[k - 1] \o G[k]
  BY <1>2, <1>3, <1>4 DEF Flattens, N
<1>6. p \in 1..N /\ <<n>> \in Seq(R) /\ F[p] = <<n>> /\ new \in Seq(R)
  BY DEF N, Exchanged
<1> DEFINE a == f[p - 1]
           Q(k) == k >= p => \E b \in Seq(R) : f[k] = (a \o <<n>>) \o b /\ g[k] = (a \o new) \o b
           P == {k \in 0..N : (k < p => f[k] = g[k]) /\ Q(k)}
<1>7. a \in Seq(R)
  <2>1. p - 1 \in 0..N
    BY <1>1, <1>6
  <2> QED BY <1>5, <2>1
<1>8. 0 \in P
  <2>1. 0 \in 0..N /\ ~(0 >= p)
    BY <1>1, <1>6
  <2> QED BY <1>5, <2>1
<1>9. ASSUME NEW k \in 1..N, k - 1 \in P PROVE k \in P
  <2>1. k \in 0..N /\ k - 1 \in 0..N
    BY <1>1
  <2>2. f[k] = f[k - 1] \o F[k] /\ g[k] = g[k - 1] \o G[k]
    BY <1>5
  <2>3. CASE k < p
    <3>1. k - 1 < p /\ k # p /\ ~(k >= p)
      BY <1>1, <1>6, <2>3
    <3>2. f[k - 1] = g[k - 1] /\ G[k] = F[k]
      BY <1>2, <1>9, <3>1
    <3> QED BY <2>1, <2>2, <3>1, <3>2
  <2>4. CASE k = p
    <3>1. k - 1 < p /\ ~(k < p) /\ <<>> \in Seq(R)
      BY <1>6, <2>4
    <3>2. f[k - 1] = a /\ g[k - 1] = a
      BY <1>9, <2>4, <3>1
    <3>3. f[k] = a \o <<n>> /\ g[k] = a \o new
      BY <1>2, <1>6, <2>2, <2>4, <3>2
    <3>4. \A c \in Seq(R) : c \o <<>> = c
      OBVIOUS
    <3>5. a \o <<n>> \in Seq(R) /\ a \o new \in Seq(R)
      BY <1>6, <1>7
    <3> HIDE DEF a
    <3>6. f[k] = (a \o <<n>>) \o <<>> /\ g[k] = (a \o new) \o <<>>
      BY <3>3, <3>4, <3>5
    <3>7. Q(k)
      BY <3>1, <3>6
    <3> HIDE DEF Q
    <3> QED BY <2>1, <3>1, <3>7
  <2>5. CASE k > p
    <3>1. k - 1 >= p /\ ~(k < p) /\ G[k] = F[k] /\ F[k] \in Seq(R)
      BY <1>1, <1>2, <1>6, <2>5 DEF N
    <3>2. PICK b \in Seq(R) : f[k - 1] = (a \o <<n>>) \o b /\ g[k - 1] = (a \o new) \o b
      BY <1>9, <3>1
    <3>3. PICK c : c = F[k]
      OBVIOUS
    <3> HIDE DEF a
    <3>4. c \in Seq(R) /\ a \o <<n>> \in Seq(R) /\ a \o new \in Seq(R) /\ b \o c \in Seq(R)
      BY <1>6, <1>7, <3>1, <3>3
    <3>5. b \in Seq(R) /\ c \in Seq(R)
      BY <3>2, <3>4
    <3>6. /\ ((a \o <<n>>) \o b) \o c = (a \o <<n>>) \o (b \o c)
          /\ ((a \o new) \o b) \o c = (a \o new) \o (b \o c)
      <4>1. ((a \o <<n>>) \o b) \o c = (a \o <<n>>) \o (b \o c)
        <5>1. PICK x : x = a \o <<n>>
          OBVIOUS
        <5>2. x \in Seq(R)
          BY <3>4, <5>1
        <5>3. (x \o b) \o c = x \o (b \o c)
          BY <3>5, <5>2, Associative
        <5> QED BY <5>1, <5>3
      <4>2. ((a \o new) \o b) \o c = (a \o new) \o (b \o c)
        <5>1. PICK x : x = a \o new
          OBVIOUS
        <5>2. x \in Seq(R)
          BY <3>4, <5>1
        <5>3. (x \o b) \o c = x \o (b \o c)
          BY <3>5, <5>2, Associative
        <5> QED BY <5>1, <5>3
      <4> QED BY <4>1, <4>2
    <3>7. f[k] = (a \o <<n>>) \o (b \o c) /\ g[k] = (a \o new) \o (b \o c)
      BY <2>2, <3>1, <3>2, <3>3, <3>6
    <3>8. Q(k)
      BY <3>4, <3>7
    <3> HIDE DEF Q
    <3> QED BY <2>1, <3>1, <3>8
  <2>6. k < p \/ k = p \/ k > p
    BY <1>1, <1>6
  <2> HIDE DEF P
  <2> QED BY <2>3, <2>4, <2>5, <2>6
<1>10. \A k \in 0..N : k \in P
  <2> HIDE DEF P
  <2> QED BY <1>1, <1>8, <1>9, UpTo
<1>11. N \in P /\ N >= p
  <2>1. N \in 0..N /\ N >= p
    BY <1>1, <1>6
  <2> HIDE DEF P
  <2> QED BY <1>10, <2>1
<1>12. Q(N)
  <2> HIDE DEF Q
  <2> QED BY <1>11
<1>13. \E b \in Seq(R) : f[N] = (a \o <<n>>) \o b /\ g[N] = (a \o new) \o b
  BY <1>11, <1>12
<1> HIDE DEF a
<1> QED BY <1>3, <1>4, <1>7, <1>13 DEF Around

LEMMA MemberReplaced ==
  ASSUME NEW R, NEW n \in R, NEW new \in Seq(R), NEW l, NEW m, Around(R, l, n, new, m), NEW i \in Nat
  PROVE  /\ l \in Seq(R) /\ n \in ToSet(l)
         /\ (\A j \in 1..Len(l) : l[j] = n => j = i + 1) => m = InPlace(l, i, new)
<1>1. PICK a \in Seq(R), b \in Seq(R) : l = (a \o <<n>>) \o b /\ m = (a \o new) \o b
  BY DEF Around
<1> DEFINE k == Len(a)
           e == Len(b)
<1>2. k \in Nat /\ e \in Nat
  OBVIOUS
<1>3. /\ l \in Seq(R) /\ Len(l) = k + 1 + e /\ DOMAIN l = 1..Len(l)
      /\ \A j \in 1..(k + 1 + e) : l[j] = IF j <= k THEN a[j] ELSE IF j = k + 1 THEN n ELSE b[j - k - 1]
  BY <1>1
<1> HIDE DEF k, e
<1>4. k + 1 \in 1..Len(l) /\ l[k + 1] = n
  <2>1. k + 1 \in 1..(k + 1 + e) /\ ~(k + 1 <= k)
    BY <1>2
  <2> QED BY <1>3, <2>1
<1>5. n \in ToSet(l)
  BY <1>3, <1>4 DEF ToSet
<1>6. ASSUME \A j \in 1..Len(l) : l[j] = n => j = i + 1
      PROVE  m = InPlace(l, i, new)
  <2>1. Len(new) \in Nat /\ i = k /\ i < Len(l)
    BY <1>2, <1>3, <1>4, <1>6
  <2>2. /\ InPlace(l, i, new) \in Seq(R)
        /\ Len(InPlace(l, i, new)) = Len(l) + Len(new) - 1
        /\ \A j \in 1..(Len(l) + Len(new) - 1) :
             InPlace(l, i, new)[j] = IF j <= i THEN l[j] ELSE IF j <= i + Len(new) THEN new[j - i]
                                     ELSE l[(j - Len(new)) + 1]
    <3>1. l \in Seq(R) /\ i < Len(l)
      BY <1>3, <2>1
    <3> QED BY <3>1, MembersInPlace
  <2> DEFINE q == Len(new)
             x == (a \o new) \o b
             y == InPlace(l, i, new)
  <2>3. /\ x \in Seq(R) /\ Len(x) = k + q + e
        /\ \A j \in 1..(k + q + e) : x[j] = IF j <= k THEN a[j] ELSE IF j <= k + q THEN new[j - k] ELSE b[j - k - q]
    BY DEF k, e
  <2>4. /\ y \in Seq(R) /\ Len(y) = Len(l) + q - 1
        /\ \A j \in 1..(Len(l) + q - 1) :
             y[j] = IF j <= i THEN l[j] ELSE IF j <= i + q THEN new[j - i] ELSE l[(j - q) + 1]
    BY <2>2
  <2>5. q \in Nat
    BY <2>1
  <2> HIDE DEF q, x, y
  <2>6. Len(x) = Len(y)
    BY <1>2, <1>3, <2>1, <2>3, <2>4, <2>5
  <2>7. ASSUME NEW j \in 1..Len(x) PROVE x[j] = y[j]
    <3>1. j \in 1..(k + q + e) /\ j \in 1..(Len(l) + q - 1)
      BY <1>2, <1>3, <2>1, <2>3, <2>5
    <3>2. CASE j <= k
      <4>1. j \in 1..(k + 1 + e)
        BY <1>2, <3>1, <3>2
      <4> QED BY <1>3, <2>1, <2>3, <2>4, <3>1, <3>2, <4>1
    <3>3. CASE k < j /\ j <= k + q
      <4>1. ~(j <= k) /\ j <= k + q
        BY <1>2, <2>1, <3>1, <3>3, <2>5
      <4> QED BY <2>1, <2>3, <2>4, <3>1, <4>1
    <3>4. CASE j > k + q
      <4>1. ~(j <= k) /\ ~(j <= k + q)
        BY <1>2, <2>1, <3>4, <2>5
      <4>2. x[j] = b[j - k - q] /\ y[j] = l[(j - q) + 1]
        BY <2>1, <2>3, <2>4, <3>1, <4>1
      <4>3. (j - q) + 1 \in 1..(k + 1 + e) /\ ~((j - q) + 1 <= k) /\ (j - q) + 1 # k + 1
        BY <1>2, <2>1, <3>1, <3>4, <2>5
      <4>4. l[(j - q) + 1] = b[((j - q) + 1) - k - 1]
        BY <1>3, <4>3
      <4>5. ((j - q) + 1) - k - 1 = j - k - q
        BY <1>2, <2>1, <2>5
      <4> QED BY <4>2, <4>4, <4>5
    <3> QED BY <1>2, <2>1, <3>1, <3>2, <3>3, <3>4, <2>5
  <2>8. x = y
    BY <2>3, <2>4, <2>6, <2>7, SameList
  <2> QED BY <1>1, <2>8 DEF x, y
<1> QED BY <1>3, <1>5, <1>6

LEMMA FlattenWithOneReplaced ==
  ASSUME NEW R, NEW F, NEW G, NEW p, NEW n, NEW new, Exchanged(R, F, G, p, n, new),
         NEW l, l = FlattenSeq(F), NEW i \in Nat
  PROVE  /\ l \in Seq(R) /\ n \in ToSet(l)
         /\ (\A j \in 1..Len(l) : l[j] = n => j = i + 1) =>
              FlattenSeq(G) = InPlace(l, i, new)
<1>1. Around(R, FlattenSeq(F), n, new, FlattenSeq(G)) /\ n \in R /\ new \in Seq(R)
  BY FlattenAround DEF Exchanged
<1>2. Around(R, l, n, new, FlattenSeq(G))
  BY <1>1
<1> QED BY <1>1, <1>2, MemberReplaced

(* A node from outside that gets the tree as its child.                    *)
LEMMA WrappedRootIsTree ==
  ASSUME NEW h, Whole(h), NEW w \in Node, Outside(h, w), w \notin Live(h)
  PROVE  IsTree(SetThis(h, w, Root), w)
<1> DEFINE T == Below(h, w)
           S == T \union Live(h)
<1>1. h \in Heap /\ Root \in Node /\ Sound(h, Root, Live(h))
  BY WholeIsSound
<1>2. Sound(h, w, T) /\ T \cap Live(h) = {}
  BY <1>1, TreeIsSound DEF Outside
<1>3. /\ w \in T /\ T \subseteq Node /\ Root \in Live(h) /\ Live(h) \subseteq Node
      /\ \A m \in T : Children(h, m) \subseteq T \ {w} /\ RefersBack(h, m)
      /\ \A m \in Live(h) : Children(h, m) \subseteq Live(h) \ {Root} /\ RefersBack(h, m)
  BY <1>1, <1>2 DEF Sound
<1> HIDE DEF T
<1>4. AllBut(h, w, S, w)
  BY <1>2, <1>3 DEF AllBut
<1>5. ListHangs(h, w, S, w)
  <2>1. \A i \in 1..Len(h.expressions[w]) :
          h.expressions[w][i] \in Children(h, w) /\ HangsAt(h, h.expressions[w][i], w, "expressions", i - 1)
    BY <1>1, <1>3, ChildrenAre DEF RefersBack
  <2> QED BY <1>3, <2>1 DEF ListHangs
<1>6. \A m \in S : Root \notin Children(h, m)
  BY <1>2, <1>3
<1>7. \A i \in 1..Len(h.expressions[w]) : h.expressions[w][i] # Root
  BY <1>1, <1>3, <1>6, ChildrenAre
<1>8. w \in S /\ Root \in S \ {w}
  BY <1>3
<1> HIDE DEF S
<1>9. SetThis(h, w, Root) \in Heap /\ Sound(SetThis(h, w, Root), w, S)
  BY <1>1, <1>4, <1>5, <1>6, <1>7, <1>8, PutThisIsSound
<1> QED BY <1>9, SoundIsTree

-----------------------------------------------------------------------------
(* What the tree has become: of every node that was kept the arguments are *)
(* what was returned for those it had, of those not visited yet they are   *)
(* what they were.                                                         *)

Now == [n \in Node |-> IF n \in Seen THEN image[n] ELSE <<n>>]

ThisOf(h, now, n) ==
  IF h.this[n] = None \/ now[h.this[n]] = <<>> THEN None ELSE now[h.this[n]][1]

ListOf(h, now, n) == FlattenSeq([k \in DOMAIN h.expressions[n] |-> now[h.expressions[n][k]]])

HeldInv ==
  \A n \in Held :
    /\ Children(before, n) \subseteq Seen \union ToSet(stack)
    /\ heap.this[n] = ThisOf(before, Now, n) /\ heap.expressions[n] = ListOf(before, Now, n)

RootInv ==
  visited # <<>> =>
    /\ image[Root] = IF root = None THEN <<>> ELSE <<root>>
    /\ root # None => IsTree(heap, root)
    /\ stack # <<>> => root = Root

ImageInv == before # None => HeldInv /\ RootInv

(* What the function returns for the root is a tree, or nothing.           *)
LEMMA FirstImage ==
  ASSUME Whole(heap), NEW outcome \in Outcomes(Root)
  PROVE  \/ outcome[2] = <<>>
         \/ \E c \in Node : outcome[2] = <<c>> /\ IsTree(outcome[1], c)
<1> DEFINE h == outcome[1]
           new == outcome[2]
           Goal == new = <<>> \/ \E c \in Node : new = <<c>> /\ IsTree(h, c)
<1>1. heap \in Heap /\ Root \in Node /\ Root \in Live(heap) /\ IsTree(heap, Root) /\ heap.arg_key[Root] = None
  BY WholeIsSound DEF Free
<1>2. \/ h = heap /\ new = <<Root>>
      \/ h = heap /\ new = <<>>
      \/ h = heap /\ \E c \in Node : new = <<c>> /\ Alone(c) /\ c \notin Below(before, Root)
      \/ h = heap /\ \E c \in Children(heap, Root) : new = <<c>>
      \/ \E w \in Node : new = <<w>> /\ Alone(w) /\ w \notin Below(before, Root) /\ h = SetThis(heap, w, Root)
      \/ h = heap /\ new \in Lists /\ Len(new) > 1 /\ heap.arg_key[Root] = "expressions"
  BY OutcomesAre
<1> HIDE DEF h, new
<1>3. ASSUME h = heap /\ new = <<Root>> PROVE Goal
  BY <1>1, <1>3
<1>4. ASSUME h = heap, NEW c \in Node, new = <<c>>, Alone(c) PROVE Goal
  BY <1>4 DEF Alone
<1>5. ASSUME h = heap, NEW c \in Children(heap, Root), new = <<c>> PROVE Goal
  <2>1. c \in Live(heap)
    BY <1>1, BelowIsClosed DEF Live, Closed
  <2>2. c \in Node /\ IsTree(heap, c)
    BY <1>1, <2>1, SubtreeIsTree DEF Live
  <2> QED BY <1>5, <2>2
<1>6. ASSUME NEW w \in Node, new = <<w>>, Alone(w), h = SetThis(heap, w, Root) PROVE Goal
  <2>1. Outside(heap, w) /\ w \notin Live(heap)
    BY <1>6 DEF Outside, Alone
  <2>2. IsTree(h, w)
    BY <1>6, <2>1, WrappedRootIsTree
  <2> QED BY <1>6, <2>2
<1>7. None # "expressions"
  BY TreeAssumption
<1> HIDE DEF Goal
<1>8. ASSUME new = <<>> PROVE Goal
  BY <1>8 DEF Goal
<1>9. Goal
  BY <1>1, <1>2, <1>3, <1>4, <1>5, <1>6, <1>7, <1>8
<1> QED BY <1>9 DEF Goal, h, new

(* The arguments depend on what was returned for the children alone.       *)
LEMMA SameArguments ==
  ASSUME NEW h \in Heap, NEW m \in Node, NEW now, NEW now2, \A c \in Children(h, m) : now2[c] = now[c]
  PROVE  ThisOf(h, now2, m) = ThisOf(h, now, m) /\ ListOf(h, now2, m) = ListOf(h, now, m)
<1> DEFINE l == h.expressions[m]
           F(x) == [k \in DOMAIN l |-> x[l[k]]]
<1>1. DOMAIN l = 1..Len(l) /\ \A k \in DOMAIN l : l[k] \in Children(h, m)
  BY FieldsOfNode, ChildrenAre
<1>2. h.this[m] # None => h.this[m] \in Children(h, m)
  BY ChildrenAre
<1>3. ThisOf(h, now2, m) = ThisOf(h, now, m)
  BY <1>2 DEF ThisOf
<1>4. F(now2) = F(now)
  <2> HIDE DEF l
  <2> QED BY <1>1
<1> HIDE DEF F
<1>5. FlattenSeq(F(now2)) = FlattenSeq(F(now))
  BY <1>4
<1> QED BY <1>3, <1>5 DEF ListOf, F

(* As long as no child was visited they are what they were.                *)
LEMMA ArgumentsAsBefore ==
  ASSUME NEW h \in Heap, NEW m \in Node, NEW now, \A c \in Children(h, m) : now[c] = <<c>>
  PROVE  ThisOf(h, now, m) = h.this[m] /\ ListOf(h, now, m) = h.expressions[m]
<1> DEFINE l == h.expressions[m]
           F == [k \in DOMAIN l |-> now[l[k]]]
           G == [k \in DOMAIN l |-> <<l[k]>>]
<1>1. l \in Seq(Node) /\ DOMAIN l = 1..Len(l) /\ \A k \in DOMAIN l : l[k] \in Children(h, m)
  BY FieldsOfNode, ChildrenAre
<1>2. ThisOf(h, now, m) = h.this[m]
  <2>1. CASE h.this[m] = None
    BY <2>1 DEF ThisOf
  <2>2. CASE h.this[m] # None
    <3>1. now[h.this[m]] = <<h.this[m]>>
      BY <2>2, ChildrenAre
    <3>2. <<h.this[m]>> # <<>> /\ <<h.this[m]>>[1] = h.this[m]
      OBVIOUS
    <3> QED BY <2>2, <3>1, <3>2 DEF ThisOf
  <2> QED BY <2>1, <2>2
<1>3. F = G
  <2>1. \A k \in DOMAIN l : now[l[k]] = <<l[k]>>
    BY <1>1
  <2> HIDE DEF l
  <2> QED BY <2>1
<1>4. FlattenSeq(G) = l
  <2>1. l \in Seq(Node)
    BY <1>1
  <2> HIDE DEF l
  <2> QED BY <2>1, FlattenOfSingles
<1> HIDE DEF F, G
<1>5. FlattenSeq(F) = l
  BY <1>3, <1>4
<1> QED BY <1>2, <1>5 DEF ListOf, F

(* What was returned for n takes its place below v.                        *)
PutBelow(h, g, v, n, new) ==
  /\ n \in Children(h, v) /\ new \in Seq(Node) /\ RefersBack(h, v)
  /\ h.arg_key[n] = "this" =>
       g.expressions[v] = h.expressions[v] /\ g.this[v] = IF new = <<>> THEN None ELSE new[1]
  /\ h.arg_key[n] # "this" =>
       g.this[v] = h.this[v] /\ g.expressions[v] = InPlace(h.expressions[v], h.index[n], new)

HasBecome(b, now, h, v) == h.this[v] = ThisOf(b, now, v) /\ h.expressions[v] = ListOf(b, now, v)

(* The parent of the node that was visited.                                *)
LEMMA ArgumentsAfter ==
  ASSUME NEW b \in Heap, NEW h \in Heap, NEW v \in Node, RefersBack(b, v), NEW n \in Children(b, v),
         NEW now \in [Node -> Seq(Node)], now[n] = <<n>>, HasBecome(b, now, h, v),
         NEW new, NEW g, PutBelow(h, g, v, n, new)
  PROVE  HasBecome(b, [now EXCEPT ![n] = new], g, v)
<1> DEFINE now2 == [now EXCEPT ![n] = new]
<1>1. /\ RefersBack(h, v) /\ n \in Children(h, v) /\ new \in Seq(Node)
      /\ h.this[v] = ThisOf(b, now, v) /\ h.expressions[v] = ListOf(b, now, v)
      /\ h.arg_key[n] = "this" =>
           g.expressions[v] = h.expressions[v] /\ g.this[v] = IF new = <<>> THEN None ELSE new[1]
      /\ h.arg_key[n] # "this" =>
           g.this[v] = h.this[v] /\ g.expressions[v] = InPlace(h.expressions[v], h.index[n], new)
  BY DEF PutBelow, HasBecome
<1> DEFINE l == b.expressions[v]
           F == [k \in DOMAIN l |-> now[l[k]]]
           G == [k \in DOMAIN l |-> now2[l[k]]]
<1>2. /\ l \in Seq(Node) /\ DOMAIN l = 1..Len(l) /\ Len(l) \in Nat /\ n \in Node /\ n # None
      /\ \A k \in 1..Len(l) : l[k] \in Node
  BY FieldsOfNode, ChildrenAreNodes, TreeAssumption
<1>3. now2[n] = new /\ \A c \in Node : c # n => now2[c] = now[c]
  BY <1>2
<1>4. b.this[v] \in Node \union {None}
  BY FieldsOfNode
<1>5. ListOf(b, now, v) = FlattenSeq(F) /\ ListOf(b, now2, v) = FlattenSeq(G)
  BY DEF ListOf
<1>6. ASSUME b.this[v] = n, \A j \in 1..Len(l) : l[j] # n
      PROVE  g.this[v] = ThisOf(b, now2, v) /\ g.expressions[v] = ListOf(b, now2, v)
  <2>1. h.this[v] = n
    <3>1. <<n>> # <<>> /\ <<n>>[1] = n
      OBVIOUS
    <3> QED BY <1>1, <1>2, <1>6, <3>1 DEF ThisOf
  <2>2. h.arg_key[n] = "this"
    BY <1>1, <2>1, PlaceOfChild
  <2> HIDE DEF now2
  <2>3. g.this[v] = ThisOf(b, now2, v)
    BY <1>1, <1>2, <1>3, <1>6, <2>2 DEF ThisOf
  <2>4. F = G
    <3>1. \A k \in DOMAIN l : now2[l[k]] = now[l[k]]
      BY <1>2, <1>3, <1>6
    <3> HIDE DEF l
    <3> QED BY <3>1
  <2> HIDE DEF F, G
  <2> QED BY <1>1, <1>5, <2>2, <2>3, <2>4
<1>7. ASSUME b.this[v] # n, NEW p \in 1..Len(l), l[p] = n, \A j \in 1..Len(l) : l[j] = n => j = p
      PROVE  g.this[v] = ThisOf(b, now2, v) /\ g.expressions[v] = ListOf(b, now2, v)
  <2>1. Exchanged(Node, F, G, p, n, new)
    <3>1. \A k \in 1..Len(l) : now[l[k]] \in Seq(Node) /\ now2[l[k]] \in Seq(Node)
      BY <1>1, <1>2, <1>3
    <3>2. \A k \in 1..Len(l) : k # p => now2[l[k]] = now[l[k]]
      BY <1>2, <1>3, <1>7
    <3>3. F = [k \in 1..Len(l) |-> now[l[k]]] /\ G = [k \in 1..Len(l) |-> now2[l[k]]]
      BY <1>2
    <3>4. now[l[p]] = <<n>> /\ now2[l[p]] = new
      BY <1>3, <1>7
    <3>5. PICK N : N = Len(l)
      OBVIOUS
    <3> HIDE DEF l, F, G
    <3>6. F \in Seq(Seq(Node)) /\ G \in Seq(Seq(Node)) /\ Len(F) = N /\ Len(G) = N
      BY <1>2, <3>1, <3>3, <3>5
    <3>7. F[p] = <<n>> /\ G[p] = new /\ \A k \in 1..N : k # p => G[k] = F[k]
      BY <1>7, <3>2, <3>3, <3>4, <3>5
    <3> QED BY <1>2, <1>7, <3>5, <3>6, <3>7 DEF Exchanged
  <2> HIDE DEF F, G
  <2>2. PICK e : e = h.expressions[v]
    OBVIOUS
  <2>3. e = FlattenSeq(F)
    BY <1>1, <1>5, <2>2
  <2>4. n \in ToSet(e)
    <3>1. 0 \in Nat
      OBVIOUS
    <3> QED BY <2>1, <2>3, <3>1, FlattenWithOneReplaced
  <2>5. /\ h.arg_key[n] = "expressions" /\ h.index[n] \in Nat
        /\ \A j \in 1..Len(e) : e[j] = n => j = h.index[n] + 1
    <3>1. \E j \in 1..Len(e) : e[j] = n
      BY <2>2, <2>4, FieldsOfNode DEF ToSet
    <3> QED BY <1>1, <2>2, <3>1, PlaceOfChild
  <2>6. FlattenSeq(G) = InPlace(e, h.index[n], new)
    <3>1. PICK i : i = h.index[n]
      OBVIOUS
    <3>2. i \in Nat /\ \A j \in 1..Len(e) : e[j] = n => j = i + 1
      BY <2>5, <3>1
    <3>3. FlattenSeq(G) = InPlace(e, i, new)
      BY <2>1, <2>3, <3>2, FlattenWithOneReplaced
    <3> QED BY <3>1, <3>3
  <2>7. "expressions" # "this"
    OBVIOUS
  <2>8. g.this[v] = h.this[v] /\ g.expressions[v] = ListOf(b, now2, v)
    BY <1>1, <1>5, <2>2, <2>5, <2>6, <2>7
  <2>9. ThisOf(b, now2, v) = ThisOf(b, now, v)
    BY <1>3, <1>4, <1>7 DEF ThisOf
  <2> QED BY <1>1, <2>8, <2>9
<1>8. \/ b.this[v] = n /\ \A j \in 1..Len(l) : l[j] # n
      \/ b.this[v] # n /\ \E p \in 1..Len(l) : l[p] = n /\ \A j \in 1..Len(l) : l[j] = n => j = p
  <2>1. PICK i : i = b.index[n]
    OBVIOUS
  <2>2. i \in Nat /\ i < Len(l) => i + 1 \in 1..Len(l)
    BY <1>2
  <2> HIDE DEF l
  <2>3. \/ b.this[v] = n /\ \A j \in 1..Len(l) : l[j] # n
        \/ /\ b.this[v] # n /\ i \in Nat /\ i < Len(l) /\ l[i + 1] = n
           /\ \A j \in 1..Len(l) : l[j] = n => j = i + 1
    BY <2>1, PlaceOfChild DEF l
  <2> QED BY <2>2, <2>3
<1> HIDE DEF l, F, G
<1>9. g.this[v] = ThisOf(b, now2, v) /\ g.expressions[v] = ListOf(b, now2, v)
  BY <1>6, <1>7, <1>8
<1> QED BY <1>9 DEF HasBecome

(* What a visit adds to what was returned.                                 *)
LEMMA NowAfter ==
  ASSUME Whole(before), StackInv, VisitedInv, NEW n \in Node, n \notin Seen,
         image \in [Node -> Seq(Node)], NEW new \in Seq(Node),
         Seen' = Seen \union {n}, image' = [image EXCEPT ![n] = new]
  PROVE  Now \in [Node -> Seq(Node)] /\ Now[n] = <<n>> /\ Now' = [Now EXCEPT ![n] = new]
<1>1. Now \in [Node -> Seq(Node)] /\ Now[n] = <<n>>
  <2>1. \A m \in Node : image[m] \in Seq(Node) /\ <<m>> \in Seq(Node)
    OBVIOUS
  <2> QED BY <2>1 DEF Now
<1>2. Now' = [m \in Node |-> IF m \in Seen' THEN image'[m] ELSE <<m>>]
  BY DEF Now
<1>3. ASSUME NEW m \in Node
      PROVE  (IF m \in Seen' THEN image'[m] ELSE <<m>>) = IF m = n THEN new ELSE Now[m]
  <2>1. image'[m] = IF m = n THEN new ELSE image[m]
    OBVIOUS
  <2>2. Now[m] = IF m \in Seen THEN image[m] ELSE <<m>>
    BY DEF Now
  <2>3. CASE m = n
    BY <2>1, <2>3
  <2>4. CASE m # n
    <3>1. m \in Seen' <=> m \in Seen
      BY <2>4
    <3> QED BY <2>1, <2>2, <2>4, <3>1
  <2> QED BY <2>3, <2>4
<1>4. Now' = [m \in Node |-> IF m = n THEN new ELSE Now[m]]
  BY <1>2, <1>3
<1> QED BY <1>1, <1>4

(* A node of the old tree below which nothing was visited.                 *)
LEMMA NotVisitedYet ==
  ASSUME Whole(before), NEW n \in OldTree, NEW now, NEW seen,
         \A m \in Node : m \notin seen => now[m] = <<m>>,
         (Below(before, n) \ {n}) \cap seen = {}
  PROVE  ThisOf(before, now, n) = before.this[n] /\ ListOf(before, now, n) = before.expressions[n]
<1>1. before \in Heap /\ IsTree(before, Root) /\ Root \in Node /\ OldTree \subseteq Node
  BY WholeIsSound DEF OldTree, Live
<1>2. \A x \in Children(before, n) : Below(before, x) \subseteq Below(before, n) \ {n}
  BY <1>1, ChildrenInARow DEF OldTree
<1>3. \A x \in Children(before, n) : x \in Node /\ x \in Below(before, x)
  <2>1. Children(before, n) \subseteq Node
    BY <1>1, ChildrenAreNodes
  <2> QED BY <1>1, <2>1, BelowIsClosed
<1>4. \A x \in Children(before, n) : now[x] = <<x>>
  BY <1>2, <1>3
<1> QED BY <1>1, <1>4, ArgumentsAsBefore

LEMMA ImageOfRoot ==
  ASSUME TraversalInv, ImageInv, before # None, visited = <<>>, Visit
  PROVE  ImageInv'
<1>1. /\ Whole(before) /\ image \in [Node -> Seq(Node)] /\ StackInv /\ VisitedInv
      /\ stack = <<Root>> /\ root = None /\ heap = before /\ before' = before
  BY DEF TraversalInv, HeapInv, Visit
<1>2. Head(stack) = Root /\ Tail(stack) = <<>> /\ stack # <<>>
  BY <1>1
<1>3. PICK outcome \in Outcomes(Root) :
        LET new == outcome[2]
        IN /\ heap' = outcome[1]
           /\ root' = IF new # <<>> THEN new[1] ELSE root
           /\ stack' = Pushed(heap', Root, new) \o <<>>
           /\ visited' = Append(visited, Root)
           /\ image' = [image EXCEPT ![Root] = new]
  BY <1>1, <1>2 DEF Visit
<1>4. PICK new : new = outcome[2]
  OBVIOUS
<1>5. new \in Seq(Node) /\ (new = <<Root>> => heap' = heap)
  BY <1>1, <1>3, <1>4, FirstVisit
<1>6. /\ root' = IF new # <<>> THEN new[1] ELSE None
      /\ stack' = Pushed(heap', Root, new) \o <<>>
      /\ visited' = Append(visited, Root) /\ visited' = <<Root>>
      /\ image' = [image EXCEPT ![Root] = new] /\ image'[Root] = new /\ Root \in Node
  <2>1. Root \in Node
    BY TreeAssumption
  <2> QED BY <1>1, <1>3, <1>4, <2>1
<1>7. Seen' = {Root} /\ Seen = {}
  <2>1. ToSet(<<>>) = {} /\ ToSet(<<Root>>) = {Root}
    BY DEF ToSet
  <2> QED BY <1>6, <2>1 DEF Seen
<1>8. /\ Root \in OldTree /\ before \in Heap /\ OldTree \subseteq Node
      /\ ChildrenInOrder(before, Root) \in Seq(OldTree)
      /\ ToSet(ChildrenInOrder(before, Root)) = Children(before, Root)
  <2>1. Root \in OldTree /\ before \in Heap /\ OldTree \subseteq Node /\ IsTree(before, Root) /\ Root \in Node
    BY <1>1, WholeIsSound DEF OldTree, Live
  <2> QED BY <2>1, ChildrenInARow DEF OldTree
<1>9. HeldInv'
  <2>1. ASSUME NEW m \in Held' PROVE m = Root /\ new = <<Root>>
    <3>1. m = Root /\ image'[m] = <<m>>
      BY <1>7, <2>1 DEF Held, Kept
    <3> QED BY <1>6, <3>1
  <2>2. ASSUME new = <<Root>>
        PROVE  /\ Children(before, Root) \subseteq ToSet(stack')
               /\ heap'.this[Root] = ThisOf(before, Now', Root)
               /\ heap'.expressions[Root] = ListOf(before, Now', Root)
    <3>1. heap' = before
      BY <1>1, <1>5, <2>2
    <3>2. stack' = ChildrenInOrder(before, Root)
      <4>1. PICK c : c = ChildrenInOrder(before, Root)
        OBVIOUS
      <4>2. c \in Seq(OldTree) /\ stack' = c \o <<>>
        BY <1>6, <1>8, <2>2, <3>1, <4>1 DEF Pushed
      <4> QED BY <4>1, <4>2
    <3>3. \A m \in Node : m \notin Seen' => Now'[m] = <<m>>
      BY DEF Now
    <3>4. (Below(before, Root) \ {Root}) \cap Seen' = {}
      BY <1>7
    <3>5. ThisOf(before, Now', Root) = before.this[Root] /\ ListOf(before, Now', Root) = before.expressions[Root]
      BY <1>1, <1>8, <3>3, <3>4, NotVisitedYet
    <3> QED BY <1>8, <3>1, <3>2, <3>5
  <2> QED BY <1>1, <2>1, <2>2 DEF HeldInv
<1>10. RootInv'
  <2>1. \/ new = <<>>
        \/ \E c \in Node : new = <<c>> /\ IsTree(heap', c)
    BY <1>1, <1>3, <1>4, FirstImage
  <2>2. CASE new = <<>>
    <3>1. root' = None /\ new # <<Root>>
      BY <1>6, <2>2
    <3>2. stack' = <<>>
      <4>1. Pushed(heap', Root, new) = <<>>
        BY <3>1 DEF Pushed
      <4> QED BY <1>6, <4>1
    <3> QED BY <1>6, <2>2, <3>1, <3>2 DEF RootInv
  <2>3. CASE \E c \in Node : new = <<c>> /\ IsTree(heap', c)
    <3>1. PICK c \in Node : new = <<c>> /\ IsTree(heap', c)
      BY <2>3
    <3>2. root' = c /\ c # None
      BY <1>6, <3>1, TreeAssumption
    <3>3. stack' # <<>> => c = Root
      <4>1. ASSUME c # Root PROVE stack' = <<>>
        <5>1. new # <<Root>>
          BY <3>1, <4>1
        <5>2. Pushed(heap', Root, new) = <<>>
          BY <5>1 DEF Pushed
        <5> QED BY <1>6, <5>2
      <4> QED BY <4>1
    <3> QED BY <1>6, <3>1, <3>2, <3>3 DEF RootInv
  <2> QED BY <2>1, <2>2, <2>3
<1> QED BY <1>9, <1>10 DEF ImageInv

LEMMA ImageGoesOn ==
  ASSUME NEW n, NEW v, NEW new, VisitBelow(n, v, new), HeldInv, RootInv, visited # <<>>, stack # <<>>
  PROVE  HeldInv' /\ RootInv'
<1>1. /\ Whole(before) /\ StackInv /\ VisitedInv /\ HeapInv /\ Whole(heap) /\ before' = before
      /\ image \in [Node -> Seq(Node)] /\ n \in Children(heap, v) /\ v = before.parent[n]
      /\ v \in Live(heap) /\ v \in Held /\ v \in OldTree /\ v \in Node
      /\ n \in Node /\ n \in OldTree /\ n \in Ahead /\ n \notin Seen /\ n # Root /\ new \in Seq(Node)
      /\ n \in ToSet(stack)
  BY DEF VisitBelow
<1>2. /\ Seen' = Seen \union {n} /\ Held' = Held \union (IF new = <<n>> THEN {n} ELSE {})
      /\ ToSet(stack') = (IF new = <<n>> THEN Children(before, n) ELSE {}) \union (ToSet(stack) \ {n})
      /\ (new = <<n>> => heap' = heap) /\ image' = [image EXCEPT ![n] = new]
  BY DEF VisitBelow
<1>3. new # <<n>> =>
        /\ \A m \in OldTree : m # v => heap'.this[m] = heap.this[m] /\ heap'.expressions[m] = heap.expressions[m]
        /\ heap.arg_key[n] = "this" =>
             heap'.expressions[v] = heap.expressions[v] /\ heap'.this[v] = IF new = <<>> THEN None ELSE new[1]
        /\ heap.arg_key[n] # "this" =>
             /\ heap'.this[v] = heap.this[v]
             /\ heap'.expressions[v] = InPlace(heap.expressions[v], heap.index[n], new)
  BY DEF VisitBelow
<1>4. /\ before \in Heap /\ heap \in Heap /\ OldTree \subseteq Node /\ Held \subseteq OldTree
      /\ \A m \in OldTree : RefersBack(before, m)
  <2>1. Held \subseteq OldTree
    BY <1>1, ParentsAreKept
  <2> QED BY <1>1, <2>1, WholeIsSound DEF OldTree, Live
<1> DEFINE now == Now
           now2 == Now'
<1>5. now \in [Node -> Seq(Node)] /\ now[n] = <<n>> /\ now2 = [now EXCEPT ![n] = new]
  BY <1>1, <1>2, NowAfter
<1> HIDE DEF now, now2
<1>6. \A m \in Held : /\ Children(before, m) \subseteq Seen \union ToSet(stack)
                      /\ heap.this[m] = ThisOf(before, now, m) /\ heap.expressions[m] = ListOf(before, now, m)
  BY DEF HeldInv, now
<1> DEFINE Same2(m) == heap'.this[m] = ThisOf(before, now2, m) /\ heap'.expressions[m] = ListOf(before, now2, m)
<1>7. ASSUME NEW m \in Held, m # v PROVE Same2(m)
  <2>1. m \in OldTree /\ m \in Node
    BY <1>4
  <2>2. heap'.this[m] = heap.this[m] /\ heap'.expressions[m] = heap.expressions[m]
    BY <1>2, <1>3, <1>7, <2>1
  <2>3. \A c \in Children(before, m) : c \in Node /\ c # n
    BY <1>1, <1>4, <1>7, <2>1, ChildrenAreNodes, ParentOfChild
  <2>4. \A c \in Children(before, m) : now2[c] = now[c]
    BY <1>5, <2>3
  <2> QED BY <1>4, <1>6, <2>1, <2>2, <2>4, SameArguments
<1>8. Same2(v)
  <2>1. CASE new = <<n>>
    <3>1. heap' = heap
      BY <1>2, <2>1
    <3>2. \A c \in Node : now2[c] = now[c]
      BY <1>5, <2>1
    <3>3. Children(before, v) \subseteq Node
      BY <1>1, <1>4, ChildrenAreNodes
    <3>4. \A c \in Children(before, v) : now2[c] = now[c]
      BY <3>2, <3>3
    <3>5. before \in Heap /\ v \in Node
      BY <1>1, <1>4
    <3>6. ThisOf(before, now2, v) = ThisOf(before, now, v) /\ ListOf(before, now2, v) = ListOf(before, now, v)
      BY <3>4, <3>5, SameArguments
    <3>7. heap.this[v] = ThisOf(before, now, v) /\ heap.expressions[v] = ListOf(before, now, v)
      BY <1>1, <1>6
    <3> QED BY <3>1, <3>6, <3>7
  <2>2. CASE new # <<n>>
    <3>1. n \in Children(before, v)
      <4>1. n \in Live(before)
        BY <1>1 DEF OldTree, Live
      <4>2. PICK p \in Live(before) : n \in Children(before, p) /\ before.parent[n] = p
        BY <1>1, <4>1, InnerNode
      <4> QED BY <1>1, <4>2
    <3>2. RefersBack(before, v) /\ RefersBack(heap, v)
      BY <1>1, <1>4, WholeIsSound
    <3>3. heap.this[v] = ThisOf(before, now, v) /\ heap.expressions[v] = ListOf(before, now, v)
      BY <1>1, <1>6
    <3>4. PICK b, h, w, m, g : b = before /\ h = heap /\ w = now /\ m = now2 /\ g = heap'
      OBVIOUS
    <3>5. h.arg_key[n] = "this" =>
            g.expressions[v] = h.expressions[v] /\ g.this[v] = IF new = <<>> THEN None ELSE new[1]
      BY <1>3, <2>2, <3>4
    <3>6. h.arg_key[n] # "this" =>
            g.this[v] = h.this[v] /\ g.expressions[v] = InPlace(h.expressions[v], h.index[n], new)
      BY <1>3, <2>2, <3>4
    <3>7. b \in Heap /\ h \in Heap /\ v \in Node /\ n \in Children(h, v) /\ new \in Seq(Node)
      BY <1>1, <1>4, <3>4
    <3>8. m = [w EXCEPT ![n] = new] /\ w \in [Node -> Seq(Node)] /\ w[n] = <<n>>
      BY <1>5, <3>4
    <3>9. h.this[v] = ThisOf(b, w, v) /\ h.expressions[v] = ListOf(b, w, v)
      BY <3>3, <3>4
    <3>10. n \in Children(b, v) /\ RefersBack(b, v) /\ RefersBack(h, v)
      BY <3>1, <3>2, <3>4
    <3>11. HasBecome(b, w, h, v)
      BY <3>9 DEF HasBecome
    <3>12. PutBelow(h, g, v, n, new)
      BY <3>5, <3>6, <3>7, <3>10 DEF PutBelow
    <3>13. HasBecome(b, [w EXCEPT ![n] = new], g, v)
      <4>1. n \in Children(b, v)
        BY <3>10
      <4>2. RefersBack(b, v)
        BY <3>10
      <4>3. w \in [Node -> Seq(Node)]
        BY <3>8
      <4>4. w[n] = <<n>>
        BY <3>8
      <4>5. b \in Heap /\ h \in Heap /\ v \in Node
        BY <3>7
      <4> HIDE DEF Same2
      <4> QED BY <3>11, <3>12, <4>1, <4>2, <4>3, <4>4, <4>5, ArgumentsAfter
    <3>14. HasBecome(before, now2, heap', v)
      BY <3>4, <3>8, <3>13
    <3> QED BY <3>14 DEF HasBecome
  <2> QED BY <2>1, <2>2
<1>9. ASSUME new = <<n>> PROVE Same2(n)
  <2>1. heap' = heap /\ heap.this[n] = before.this[n] /\ heap.expressions[n] = before.expressions[n]
    BY <1>1, <1>2, <1>9 DEF HeapInv
  <2>2. \A m \in Node : m \notin Seen' => now2[m] = <<m>>
    BY DEF Now, now2
  <2>3. (Below(before, n) \ {n}) \cap Seen' = {}
    <3>1. Below(before, n) \cap Seen = {}
      BY <1>1 DEF Ahead, VisitedInv
    <3> QED BY <1>2, <3>1
  <2>4. ThisOf(before, now2, n) = before.this[n] /\ ListOf(before, now2, n) = before.expressions[n]
    BY <1>1, <2>2, <2>3, NotVisitedYet
  <2> QED BY <2>1, <2>4
<1>10. HeldInv'
  <2>1. ASSUME NEW m \in Held' PROVE Same2(m) /\ Children(before, m) \subseteq Seen' \union ToSet(stack')
    <3>1. m \in Held \/ (new = <<n>> /\ m = n)
      BY <1>2
    <3>2. Same2(m)
      <4> HIDE DEF Same2
      <4> QED BY <1>7, <1>8, <1>9, <3>1
    <3>3. Children(before, m) \subseteq Seen' \union ToSet(stack')
      BY <1>2, <1>6, <3>1
    <3> QED BY <3>2, <3>3
  <2> QED BY <1>1, <2>1 DEF HeldInv, now2
<1>11. RootInv'
  <2>1. root = Root /\ root # None /\ root' = root /\ Whole(heap') /\ image[Root] = <<root>>
    BY DEF VisitBelow, RootInv
  <2>2. image'[Root] = <<root>>
    BY <1>1, <1>2, <2>1, TreeAssumption
  <2>3. IsTree(heap', Root)
    BY <2>1, WholeIsSound
  <2> QED BY <2>1, <2>2, <2>3 DEF RootInv
<1> QED BY <1>10, <1>11

(* What transform leaves of the tree is, when it returns, the image of the *)
(* tree it was called on: each node the function kept has, in their order, *)
(* what the function returned for its old arguments; whatever it returned, *)
(* node, child, wrapper, list or nothing, and however large the tree.      *)
THEOREM TransformIsImage == TransformSpec => []ImageOfTree
<1>1. TransformInit => VisitsInv /\ ImageInv
  BY VisitsInvAtFirst DEF TransformInit, ImageInv
<1>2. (VisitsInv /\ ImageInv) /\ [TransformNext]_vars => (VisitsInv /\ ImageInv)'
  <2> SUFFICES ASSUME VisitsInv, ImageInv, [TransformNext]_vars PROVE VisitsInv' /\ ImageInv'
    OBVIOUS
  <2>1. VisitsInv'
    BY StepsKeepVisitsInv
  <2>2. ASSUME Edit PROVE ImageInv'
    BY <2>2 DEF Edit, ImageInv
  <2>3. ASSUME Begin PROVE ImageInv'
    <3>1. visited = <<>> /\ visited' = visited
      BY <2>3 DEF Begin, VisitsInv, CallInv
    <3>2. Held' = {}
      <4>1. ToSet(<<>>) = {}
        BY DEF ToSet
      <4> QED BY <3>1, <4>1 DEF Held, Seen
    <3> QED BY <3>1, <3>2 DEF ImageInv, HeldInv, RootInv
  <2>4. ASSUME Visit PROVE ImageInv'
    <3>1. stack # <<>> /\ before' = before
      BY <2>4 DEF Visit
    <3>2. before # None /\ TraversalInv
      BY <3>1 DEF VisitsInv, EditsInv
    <3>3. CASE visited = <<>>
      BY <2>4, <3>2, <3>3, ImageOfRoot
    <3>4. CASE visited # <<>>
      <4>1. PICK n, v, new : VisitBelow(n, v, new)
        BY <2>4, <3>1, <3>2, <3>4, VisitOfOther
      <4>2. HeldInv /\ RootInv
        BY <3>2 DEF ImageInv
      <4>3. HeldInv' /\ RootInv'
        BY <3>1, <3>4, <4>1, <4>2, ImageGoesOn
      <4> QED BY <4>3 DEF ImageInv
    <3> QED BY <3>3, <3>4
  <2>5. ASSUME UNCHANGED vars PROVE ImageInv'
    <3>1. /\ heap' = heap /\ before' = before /\ stack' = stack /\ root' = root
          /\ visited' = visited /\ image' = image
      BY <2>5 DEF vars
    <3>2. Seen' = Seen /\ Held' = Held /\ Now' = Now
      <4>1. Seen' = Seen
        BY <3>1 DEF Seen
      <4> QED BY <3>1, <4>1 DEF Held, Kept, Now
    <3>3. (HeldInv <=> HeldInv') /\ (RootInv <=> RootInv')
      BY <3>1, <3>2 DEF HeldInv, RootInv
    <3> QED BY <3>1, <3>3 DEF ImageInv
  <2>6. ASSUME Done PROVE ImageInv'
    BY <2>5, <2>6 DEF Done
  <2>7. ImageInv'
    BY <2>2, <2>3, <2>4, <2>5, <2>6 DEF TransformNext
  <2> QED BY <2>1, <2>7
<1>3. VisitsInv /\ ImageInv => ImageOfTree
  <2> SUFFICES ASSUME VisitsInv, ImageInv, stack = <<>>, visited # <<>> PROVE ImageOfTree
    BY DEF ImageOfTree
  <2>1. before # None /\ TraversalInv
    BY DEF VisitsInv, CallInv
  <2>2. HeldInv /\ RootInv /\ Whole(before) /\ StackInv /\ VisitedInv
    BY <2>1 DEF ImageInv, TraversalInv
  <2>3. ASSUME NEW n \in ToSet(visited), Kept(n)
        PROVE  /\ heap.this[n] = IF before.this[n] = None \/ image[before.this[n]] = <<>> THEN None
                                 ELSE image[before.this[n]][1]
               /\ heap.expressions[n] =
                    FlattenSeq([k \in DOMAIN before.expressions[n] |-> image[before.expressions[n][k]]])
    <3>1. n \in Held
      BY <2>3 DEF Held, Seen
    <3>2. ToSet(stack) = {}
      BY DEF ToSet
    <3>3. Children(before, n) \subseteq Seen
      BY <2>2, <3>1, <3>2 DEF HeldInv
    <3>4. n \in Node /\ before \in Heap
      <4>1. Held \subseteq OldTree /\ OldTree \subseteq Node
        BY <2>2, ParentsAreKept, WholeIsSound DEF OldTree, Live
      <4> QED BY <2>2, <3>1, <4>1, WholeIsSound
    <3>5. \A c \in Children(before, n) : image[c] = Now[c]
      BY <3>3, <3>4, ChildrenAreNodes DEF Now
    <3>6. ThisOf(before, image, n) = ThisOf(before, Now, n) /\ ListOf(before, image, n) = ListOf(before, Now, n)
      BY <3>4, <3>5, SameArguments
    <3>7. heap.this[n] = ThisOf(before, image, n) /\ heap.expressions[n] = ListOf(before, image, n)
      BY <2>2, <3>1, <3>6 DEF HeldInv
    <3> QED BY <3>7 DEF ThisOf, ListOf
  <2>4. /\ image[Root] = IF root = None THEN <<>> ELSE <<root>>
        /\ root # None => IsTree(heap, root)
    BY <2>2 DEF RootInv
  <2> QED BY <2>3, <2>4 DEF ImageOfTree
<1> QED BY <1>1, <1>2, <1>3, PTL DEF TransformSpec

-----------------------------------------------------------------------------
(* The tree as a value: what Paths computes.                               *)

Step == [key : {"this", "expressions"}, index : Nat \union {None}]

(* By the step e the node n holds c.                                       *)
Holds(h, n, e, c) ==
  \/ h.this[n] # None /\ e = [key |-> "this", index |-> None] /\ c = h.this[n]
  \/ \E i \in DOMAIN h.expressions[n] :
       e = [key |-> "expressions", index |-> i - 1] /\ c = h.expressions[n][i]

From(h, x) ==
  (IF h.this[x[2]] = None THEN {}
   ELSE {<<Append(x[1], [key |-> "this", index |-> None]), h.this[x[2]]>>})
  \union {<<Append(x[1], [key |-> "expressions", index |-> i - 1]), h.expressions[x[2]][i]>>
          : i \in DOMAIN h.expressions[x[2]]}

AtOf(h, top) ==
  LET at[k \in 0..Size] ==
        IF k = 0 THEN {<<<<>>, top>>} ELSE UNION {From(h, x) : x \in at[k - 1]}
  IN at

LEMMA PathsAre ==
  ASSUME NEW h, NEW top
  PROVE  Paths(h, top) = UNION {AtOf(h, top)[k] : k \in 0..Size}
BY DEF Paths, AtOf, From, Size

LEMMA HeldByStep ==
  ASSUME NEW h \in Heap, NEW n \in Node, NEW e, NEW c, Holds(h, n, e, c)
  PROVE  e \in Step /\ c \in Node /\ c \in Children(h, n)
<1>1. CASE h.this[n] # None /\ e = [key |-> "this", index |-> None] /\ c = h.this[n]
  <2>1. h.this[n] \in Node /\ h.this[n] \in Children(h, n)
    BY <1>1, FieldsOfNode, ChildrenAre
  <2> QED BY <1>1, <2>1 DEF Step
<1>2. CASE \E i \in DOMAIN h.expressions[n] :
             e = [key |-> "expressions", index |-> i - 1] /\ c = h.expressions[n][i]
  <2>1. PICK i \in DOMAIN h.expressions[n] :
          e = [key |-> "expressions", index |-> i - 1] /\ c = h.expressions[n][i]
    BY <1>2
  <2>2. i \in 1..Len(h.expressions[n]) /\ Len(h.expressions[n]) \in Nat
    BY FieldsOfNode
  <2>3. i - 1 \in Nat
    BY <2>2
  <2>4. c \in Node /\ c \in Children(h, n)
    BY <2>1, <2>2, FieldsOfNode, ChildrenAre
  <2> QED BY <2>1, <2>3, <2>4 DEF Step
<1> QED BY <1>1, <1>2 DEF Holds

LEMMA FromIs ==
  ASSUME NEW h \in Heap, NEW p \in Seq(Step), NEW n \in Node
  PROVE  /\ From(h, <<p, n>>) \subseteq Seq(Step) \X Node
         /\ \A y : y \in From(h, <<p, n>>) <=> \E e, c : Holds(h, n, e, c) /\ y = <<Append(p, e), c>>
<1>1. ASSUME NEW y
      PROVE  y \in From(h, <<p, n>>) <=> \E e, c : Holds(h, n, e, c) /\ y = <<Append(p, e), c>>
  <2>1. y \in From(h, <<p, n>>)
        <=> \/ h.this[n] # None /\ y = <<Append(p, [key |-> "this", index |-> None]), h.this[n]>>
            \/ \E i \in DOMAIN h.expressions[n] :
                 y = <<Append(p, [key |-> "expressions", index |-> i - 1]), h.expressions[n][i]>>
    BY DEF From
  <2> QED BY <2>1 DEF Holds
<1>2. ASSUME NEW y \in From(h, <<p, n>>) PROVE y \in Seq(Step) \X Node
  <2>1. PICK e, c : Holds(h, n, e, c) /\ y = <<Append(p, e), c>>
    BY <1>1
  <2>2. e \in Step /\ c \in Node
    BY <2>1, HeldByStep
  <2>3. Append(p, e) \in Seq(Step)
    BY <2>2
  <2> QED BY <2>1, <2>2, <2>3
<1> QED BY <1>1, <1>2

LEMMA AtStepByStep ==
  ASSUME NEW h \in Heap, NEW top \in Node
  PROVE  /\ AtOf(h, top) \in [0..Size -> SUBSET (Seq(Step) \X Node)]
         /\ AtOf(h, top)[0] = {<<<<>>, top>>}
         /\ \A k \in 1..Size : AtOf(h, top)[k] = UNION {From(h, x) : x \in AtOf(h, top)[k - 1]}
<1> DEFINE More(T) == UNION {From(h, x) : x \in T}
           Body(f) == [k \in 0..Size |-> IF k = 0 THEN {<<<<>>, top>>} ELSE More(f[k - 1])]
           at == AtOf(h, top)
           S == SUBSET (Seq(Step) \X Node)
           s0 == {<<<<>>, top>>}
           next == [p \in (1..Size) \X S |-> More(p[2])]
<1>1. \A T \in S : More(T) \in S
  <2>1. ASSUME NEW T \in S, NEW x \in T, NEW y \in From(h, x) PROVE y \in Seq(Step) \X Node
    <3>1. PICK p \in Seq(Step), n \in Node : x = <<p, n>>
      OBVIOUS
    <3> QED BY <3>1, FromIs
  <2> HIDE DEF S
  <2>2. \A T \in S : More(T) \subseteq Seq(Step) \X Node
    BY <2>1
  <2> QED BY <2>2 DEF S
<1>2. at = CHOOSE f : f = Body(f)
  BY DEF AtOf
<1>3. Size \in Nat
  BY SizeIsNumber
<1>4. next \in [(1..Size) \X S -> S]
  <2> HIDE DEF More, S
  <2> QED BY <1>1
<1>0. s0 \in S
  <2>1. <<>> \in Seq(Step)
    OBVIOUS
  <2>2. <<<<>>, top>> \in Seq(Step) \X Node
    BY <2>1
  <2> QED BY <2>2
<1>5. PICK g : Recursive(g, Size, S, s0, next)
  <2> HIDE DEF next, S, s0
  <2> QED BY <1>0, <1>3, <1>4, Recursion
<1>6. /\ g \in [0..Size -> S] /\ g[0] = s0
      /\ \A k \in 1..Size : g[k] = More(g[k - 1])
  <2>1. g \in [0..Size -> S] /\ g[0] = s0 /\ \A k \in 1..Size : g[k] = next[<<k, g[k - 1]>>]
    BY <1>5 DEF Recursive
  <2>2. ASSUME NEW k \in 1..Size PROVE g[k] = More(g[k - 1])
    <3>1. k - 1 \in 0..Size
      BY <1>3
    <3> HIDE DEF More, S, s0
    <3>2. g[k - 1] \in S
      BY <2>1, <3>1
    <3>3. next[<<k, g[k - 1]>>] = More(g[k - 1])
      BY <3>2
    <3> QED BY <2>1, <3>3
  <2> HIDE DEF S, More, next, s0
  <2> QED BY <2>1, <2>2
<1>7. g = Body(g)
  <2>1. ASSUME NEW k \in 0..Size PROVE g[k] = Body(g)[k]
    <3> HIDE DEF S, More
    <3>1. CASE k = 0
      BY <1>6, <3>1
    <3>2. CASE k # 0
      <4>1. k \in 1..Size
        BY <1>3, <3>2
      <4> QED BY <1>6, <3>2, <4>1
    <3> QED BY <3>1, <3>2
  <2>2. Body(g) = [k \in 0..Size |-> Body(g)[k]]
    OBVIOUS
  <2>3. g = [k \in 0..Size |-> g[k]]
    <3> HIDE DEF S, More, s0
    <3> QED BY <1>6
  <2> HIDE DEF Body
  <2> QED BY <2>1, <2>2, <2>3
<1> HIDE DEF at, next, S, More
<1>8. at = Body(at)
  <2> HIDE DEF Body
  <2> QED BY <1>2, <1>7
<1>9. at[0] = s0
  <2>1. 0 \in 0..Size /\ Body(at)[0] = s0
    BY <1>3
  <2> HIDE DEF Body, s0
  <2> QED BY <1>8, <2>1
<1>10. ASSUME NEW k \in 1..Size PROVE at[k] = More(at[k - 1])
  <2>1. k \in 0..Size /\ k # 0
    BY <1>3
  <2>2. Body(at)[k] = More(at[k - 1])
    BY <2>1
  <2> HIDE DEF Body
  <2> QED BY <1>8, <2>2
<1> DEFINE P == {k \in 0..Size : at[k] \in S}
<1>11. \A k \in 0..Size : k \in P
  <2>1. 0 \in P
    <3>1. 0 \in 0..Size
      BY <1>3
    <3> QED BY <1>0, <1>9, <3>1
  <2>2. ASSUME NEW k \in 1..Size, k - 1 \in P PROVE k \in P
    <3>1. k \in 0..Size /\ at[k - 1] \in S
      BY <1>3, <2>2
    <3>2. at[k] \in S
      BY <1>1, <1>10, <3>1
    <3> QED BY <3>1, <3>2
  <2> HIDE DEF P
  <2> QED BY <1>3, <2>1, <2>2, UpTo
<1>12. at \in [0..Size -> S]
  <2>1. Body(at) = [k \in 0..Size |-> Body(at)[k]]
    OBVIOUS
  <2>2. at = [k \in 0..Size |-> at[k]]
    <3> HIDE DEF Body
    <3> QED BY <1>8, <2>1
  <2>3. \A k \in 0..Size : at[k] \in S
    BY <1>11
  <2> QED BY <2>2, <2>3
<1> QED BY <1>9, <1>10, <1>12 DEF at, More, S, s0

(* A set of paths that holds the empty one and goes on wherever it leads.  *)
Leads(h, top, Q) ==
  /\ <<<<>>, top>> \in Q
  /\ \A p \in Seq(Step), n \in Node : \A e, c :
       <<p, n>> \in Q /\ Holds(h, n, e, c) => <<Append(p, e), c>> \in Q

LEMMA PathsAreSteps ==
  ASSUME NEW h \in Heap, NEW top \in Node
  PROVE  Paths(h, top) \subseteq Seq(Step) \X Node
<1> DEFINE at == AtOf(h, top)
<1>1. at \in [0..Size -> SUBSET (Seq(Step) \X Node)]
  BY AtStepByStep
<1> HIDE DEF at
<1>2. \A k \in 0..Size : at[k] \subseteq Seq(Step) \X Node
  BY <1>1
<1> QED BY <1>2, PathsAre DEF at

LEMMA PathsAreLeast ==
  ASSUME NEW h \in Heap, NEW top \in Node, NEW Q, Leads(h, top, Q)
  PROVE  Paths(h, top) \subseteq Q
<1> DEFINE at == AtOf(h, top)
           P == {k \in 0..Size : at[k] \subseteq Q}
<1>1. /\ at \in [0..Size -> SUBSET (Seq(Step) \X Node)] /\ at[0] = {<<<<>>, top>>}
      /\ \A k \in 1..Size : at[k] = UNION {From(h, x) : x \in at[k - 1]}
  BY AtStepByStep
<1>2. Size \in Nat
  BY SizeIsNumber
<1> HIDE DEF at
<1>3. 0 \in P
  BY <1>1, <1>2 DEF Leads
<1>4. ASSUME NEW k \in 1..Size, k - 1 \in P PROVE k \in P
  <2>1. k \in 0..Size /\ k - 1 \in 0..Size /\ at[k - 1] \subseteq Q
    BY <1>2, <1>4
  <2>2. ASSUME NEW y \in at[k] PROVE y \in Q
    <3>1. PICK x \in at[k - 1] : y \in From(h, x)
      BY <1>1
    <3>2. x \in Seq(Step) \X Node /\ x \in Q
      BY <1>1, <2>1
    <3>3. PICK p \in Seq(Step), n \in Node : x = <<p, n>>
      BY <3>2
    <3>4. PICK e, c : Holds(h, n, e, c) /\ y = <<Append(p, e), c>>
      BY <3>1, <3>3, FromIs
    <3> QED BY <3>2, <3>3, <3>4 DEF Leads
  <2> QED BY <2>1, <2>2
<1>5. \A k \in 0..Size : k \in P
  <2> HIDE DEF P
  <2> QED BY <1>2, <1>3, <1>4, UpTo
<1> QED BY <1>5, PathsAre DEF at

(* A path is empty or goes a step on from another one.                     *)
LEMMA PathEnds ==
  ASSUME NEW h \in Heap, NEW top \in Node, NEW x \in Paths(h, top)
  PROVE  \/ x = <<<<>>, top>>
         \/ \E p \in Seq(Step), n \in Node, e \in Step, c \in Node :
              <<p, n>> \in Paths(h, top) /\ Holds(h, n, e, c) /\ x = <<Append(p, e), c>>
<1> DEFINE at == AtOf(h, top)
<1>1. /\ at \in [0..Size -> SUBSET (Seq(Step) \X Node)] /\ at[0] = {<<<<>>, top>>}
      /\ \A k \in 1..Size : at[k] = UNION {From(h, y) : y \in at[k - 1]}
  BY AtStepByStep
<1>2. Size \in Nat
  BY SizeIsNumber
<1>3. Paths(h, top) = UNION {at[k] : k \in 0..Size}
  BY PathsAre
<1> HIDE DEF at
<1>4. PICK k \in 0..Size : x \in at[k]
  BY <1>3
<1>5. CASE k = 0
  BY <1>1, <1>4, <1>5
<1>6. CASE k # 0
  <2>1. k \in 1..Size /\ k - 1 \in 0..Size
    BY <1>2, <1>6
  <2>2. PICK y \in at[k - 1] : x \in From(h, y)
    BY <1>1, <1>4, <2>1
  <2>3. y \in Seq(Step) \X Node /\ y \in Paths(h, top)
    BY <1>1, <1>3, <2>1
  <2>4. PICK p \in Seq(Step), n \in Node : y = <<p, n>>
    BY <2>3
  <2>5. PICK e, c : Holds(h, n, e, c) /\ x = <<Append(p, e), c>>
    BY <2>2, <2>4, FromIs
  <2>6. e \in Step /\ c \in Node
    BY <2>5, HeldByStep
  <2> QED BY <2>3, <2>4, <2>5, <2>6
<1> QED BY <1>5, <1>6

(* In a tree every path goes on as far as the tree does: what is below a   *)
(* node shrinks with each step, and there are as many steps as nodes.      *)
LEMMA PathsLead ==
  ASSUME NEW h \in Heap, NEW top \in Node, IsTree(h, top)
  PROVE  Leads(h, top, Paths(h, top)) /\ \A x \in Paths(h, top) : x[2] \in Below(h, top)
<1> DEFINE at == AtOf(h, top)
           Fits(k, x) == x[2] \in Below(h, top) /\ Cardinality(Below(h, x[2])) + k <= Size
           P == {k \in 0..Size : \A x \in at[k] : Fits(k, x)}
<1>1. /\ at \in [0..Size -> SUBSET (Seq(Step) \X Node)] /\ at[0] = {<<<<>>, top>>}
      /\ \A k \in 1..Size : at[k] = UNION {From(h, x) : x \in at[k - 1]}
  BY AtStepByStep
<1>2. Size \in Nat /\ IsFiniteSet(Node)
  BY SizeIsNumber, TreeAssumption
<1>3. Paths(h, top) = UNION {at[k] : k \in 0..Size}
  BY PathsAre
<1> HIDE DEF at
<1>4. ASSUME NEW n \in Below(h, top)
      PROVE  n \in Node /\ n \in Below(h, n) /\ IsFiniteSet(Below(h, n)) /\ Cardinality(Below(h, n)) \in Nat
             /\ Cardinality(Below(h, n)) <= Size /\ Cardinality(Below(h, n)) >= 1
  <2>1. n \in Node
    BY BelowIsClosed
  <2>2. n \in Below(h, n) /\ Below(h, n) \in SUBSET Node
    BY <2>1, BelowIsClosed
  <2>3. IsFiniteSet(Below(h, n)) /\ Cardinality(Below(h, n)) <= Size
    BY <1>2, <2>2, FS_Subset DEF Size
  <2>4. Cardinality(Below(h, n)) \in Nat
    BY <2>3, FS_CardinalityType
  <2>5. Cardinality(Below(h, n)) # 0
    BY <2>2, <2>3, FS_EmptySet
  <2> QED BY <2>1, <2>2, <2>3, <2>4, <2>5
<1>5. top \in Below(h, top) /\ Closed(h, Below(h, top))
  BY BelowIsClosed
<1>6. ASSUME NEW n \in Below(h, top), NEW e, NEW c, Holds(h, n, e, c)
      PROVE  c \in Below(h, top) /\ Cardinality(Below(h, c)) + 1 <= Cardinality(Below(h, n))
  <2>1. c \in Children(h, n) /\ n \in Node
    BY <1>4, <1>6, HeldByStep
  <2>2. c \in Below(h, top) /\ n \notin Below(h, c)
    BY <1>5, <2>1, CutOff DEF Closed
  <2>3. Below(h, c) \subseteq Below(h, n)
    <3>1. c \in Below(h, n)
      BY <2>1, BelowIsClosed DEF Closed
    <3> QED BY <2>1, <3>1, BelowGoesDown
  <2>4. Below(h, c) # Below(h, n)
    BY <1>4, <2>2
  <2>5. Cardinality(Below(h, c)) <= Cardinality(Below(h, n)) /\ Cardinality(Below(h, c)) # Cardinality(Below(h, n))
    BY <1>4, <2>2, <2>3, <2>4, FS_Subset
  <2>6. Cardinality(Below(h, c)) \in Nat /\ Cardinality(Below(h, n)) \in Nat
    BY <1>4, <2>2
  <2> QED BY <2>2, <2>5, <2>6
<1>7. 0 \in P
  BY <1>1, <1>2, <1>4, <1>5
<1>8. ASSUME NEW k \in 1..Size, k - 1 \in P PROVE k \in P
  <2>1. k \in 0..Size /\ k - 1 \in 0..Size /\ \A x \in at[k - 1] : Fits(k - 1, x)
    BY <1>2, <1>8
  <2>2. ASSUME NEW y \in at[k] PROVE Fits(k, y)
    <3>1. PICK x \in at[k - 1] : y \in From(h, x)
      BY <1>1
    <3>2. PICK p \in Seq(Step), n \in Node : x = <<p, n>>
      BY <1>1, <2>1
    <3>3. PICK e, c : Holds(h, n, e, c) /\ y = <<Append(p, e), c>>
      BY <3>1, <3>2, FromIs
    <3>4. n \in Below(h, top) /\ Cardinality(Below(h, n)) + (k - 1) <= Size
      BY <2>1, <3>2
    <3>5. c \in Below(h, top) /\ Cardinality(Below(h, c)) + 1 <= Cardinality(Below(h, n))
      BY <1>6, <3>3, <3>4
    <3>6. Cardinality(Below(h, c)) \in Nat /\ Cardinality(Below(h, n)) \in Nat
      BY <1>4, <3>4, <3>5
    <3>7. Cardinality(Below(h, c)) + k <= Size
      BY <1>2, <3>4, <3>5, <3>6
    <3> QED BY <3>3, <3>5, <3>7
  <2> HIDE DEF Fits
  <2> QED BY <2>1, <2>2
<1>9. \A k \in 0..Size : k \in P
  <2> HIDE DEF P
  <2> QED BY <1>2, <1>7, <1>8, UpTo
<1>10. <<<<>>, top>> \in Paths(h, top)
  BY <1>1, <1>2, <1>3
<1>11. ASSUME NEW p \in Seq(Step), NEW n \in Node, NEW e, NEW c, <<p, n>> \in Paths(h, top), Holds(h, n, e, c)
       PROVE  <<Append(p, e), c>> \in Paths(h, top)
  <2>1. PICK k \in 0..Size : <<p, n>> \in at[k]
    BY <1>3, <1>11
  <2>2. Fits(k, <<p, n>>)
    BY <1>9, <2>1
  <2>3. n \in Below(h, top) /\ Cardinality(Below(h, n)) + k <= Size
    BY <2>2
  <2>4. k + 1 \in 1..Size /\ k + 1 \in 0..Size /\ (k + 1) - 1 = k
    BY <1>2, <1>4, <2>3
  <2>5. <<Append(p, e), c>> \in From(h, <<p, n>>)
    BY <1>11, FromIs
  <2>6. <<Append(p, e), c>> \in at[k + 1]
    BY <1>1, <2>1, <2>4, <2>5
  <2> QED BY <1>3, <2>4, <2>6
<1>12. \A x \in Paths(h, top) : x[2] \in Below(h, top)
  BY <1>3, <1>9
<1> QED BY <1>10, <1>11, <1>12 DEF Leads

StepTo(h, c) == [key |-> h.arg_key[c], index |-> h.index[c]]

LEMMA HoldsOne ==
  ASSUME NEW h \in Heap, NEW n \in Node, NEW e, NEW c, NEW d, Holds(h, n, e, c), Holds(h, n, e, d)
  PROVE  c = d
<1>1. DOMAIN h.expressions[n] \subseteq Nat
  BY FieldsOfNode
<1>2. \A i, j \in DOMAIN h.expressions[n] :
        [key |-> "expressions", index |-> i - 1] = [key |-> "expressions", index |-> j - 1] => i = j
  BY <1>1
<1>3. \A i \in DOMAIN h.expressions[n] :
        [key |-> "expressions", index |-> i - 1] # [key |-> "this", index |-> None]
  OBVIOUS
<1> QED BY <1>2, <1>3 DEF Holds

(* A node that is held is a child, and refers back to the step to it.      *)
LEMMA HeldChild ==
  ASSUME NEW h \in Heap, NEW n \in Node, RefersBack(h, n)
  PROVE  \A e, c : Holds(h, n, e, c) <=> c \in Children(h, n) /\ e = StepTo(h, c)
<1>1. ASSUME NEW e, NEW c, Holds(h, n, e, c) PROVE c \in Children(h, n) /\ e = StepTo(h, c)
  <2>1. c \in Children(h, n)
    BY <1>1, HeldByStep
  <2>2. DOMAIN h.expressions[n] = 1..Len(h.expressions[n])
    BY FieldsOfNode
  <2> QED BY <1>1, <2>1, <2>2 DEF Holds, RefersBack, HangsAt, StepTo
<1>2. ASSUME NEW c \in Children(h, n) PROVE Holds(h, n, StepTo(h, c), c)
  <2>1. DOMAIN h.expressions[n] = 1..Len(h.expressions[n])
    BY FieldsOfNode
  <2>2. CASE h.this[n] # None /\ c = h.this[n]
    BY <2>2 DEF Holds, RefersBack, HangsAt, StepTo
  <2>3. CASE \E i \in 1..Len(h.expressions[n]) : c = h.expressions[n][i]
    BY <2>1, <2>3 DEF Holds, RefersBack, HangsAt, StepTo
  <2> QED BY <2>2, <2>3, ChildrenAre
<1> QED BY <1>1, <1>2

LEMMA HeldInTree ==
  ASSUME NEW h \in Heap, NEW top \in Node, IsTree(h, top), NEW n \in Below(h, top)
  PROVE  /\ n \in Node /\ RefersBack(h, n)
         /\ \A e, c : Holds(h, n, e, c) =>
              c \in Below(h, top) \ {top} /\ c \in Node /\ h.parent[c] = n /\ e = StepTo(h, c)
<1>1. Sound(h, top, Below(h, top))
  BY TreeIsSound
<1>2. n \in Node /\ RefersBack(h, n) /\ Children(h, n) \subseteq Below(h, top) \ {top}
      /\ Below(h, top) \subseteq Node
  BY <1>1 DEF Sound
<1> QED BY <1>2, HeldChild, ParentOfChild

LEMMA Ends ==
  ASSUME NEW R, NEW p \in Seq(R), NEW q \in Seq(R), NEW e \in R, NEW d \in R
  PROVE  Append(p, e) \in Seq(R) /\ Append(p, e) # <<>> /\ (Append(p, e) = Append(q, d) => p = q /\ e = d)
<1>1. Append(p, e) \in Seq(R) /\ Append(p, e) # <<>>
  OBVIOUS
<1>2. ASSUME Append(p, e) = Append(q, d) PROVE p = q /\ e = d
  <2>1. Len(p) = Len(q)
    <3>1. Len(Append(p, e)) = Len(p) + 1 /\ Len(Append(q, d)) = Len(q) + 1
      OBVIOUS
    <3> QED BY <1>2, <3>1
  <2>2. \A i \in 1..Len(p) : Append(p, e)[i] = p[i] /\ Append(q, d)[i] = q[i]
    BY <2>1
  <2>3. \A i \in 1..Len(p) : p[i] = q[i]
    BY <1>2, <2>2
  <2>4. Append(p, e)[Len(p) + 1] = e /\ Append(q, d)[Len(q) + 1] = d
    OBVIOUS
  <2>5. p = q
    BY <2>1, <2>3
  <2> QED BY <1>2, <2>1, <2>4, <2>5
<1> QED BY <1>1, <1>2

(* A path leads to one node.                                               *)
LEMMA OneNode ==
  ASSUME NEW h \in Heap, NEW top \in Node
  PROVE  \A p, n, m : <<p, n>> \in Paths(h, top) /\ <<p, m>> \in Paths(h, top) => n = m
<1> DEFINE T == Paths(h, top)
           Q == {x \in Seq(Step) \X Node : \A m : <<x[1], m>> \in T => m = x[2]}
<1>1. T \subseteq Seq(Step) \X Node /\ <<>> \in Seq(Step)
  BY PathsAreSteps
<1>2. \A x \in T : \/ x = <<<<>>, top>>
                   \/ \E p \in Seq(Step), n \in Node, e \in Step, c \in Node :
                        <<p, n>> \in T /\ Holds(h, n, e, c) /\ x = <<Append(p, e), c>>
  BY PathEnds
<1> HIDE DEF T
<1>3. <<<<>>, top>> \in Q
  <2>1. ASSUME NEW m, <<<<>>, m>> \in T PROVE m = top
    <3>1. CASE <<<<>>, m>> = <<<<>>, top>>
      BY <3>1
    <3>2. CASE \E p \in Seq(Step), n \in Node, e \in Step, c \in Node :
                 <<p, n>> \in T /\ Holds(h, n, e, c) /\ <<<<>>, m>> = <<Append(p, e), c>>
      BY <3>2, Ends
    <3> QED BY <1>2, <2>1, <3>1, <3>2
  <2>2. <<<<>>, top>> \in Seq(Step) \X Node
    BY <1>1
  <2> QED BY <2>1, <2>2
<1>4. ASSUME NEW p \in Seq(Step), NEW n \in Node, NEW e, NEW c, <<p, n>> \in Q, Holds(h, n, e, c)
      PROVE  <<Append(p, e), c>> \in Q
  <2>1. e \in Step /\ c \in Node /\ Append(p, e) \in Seq(Step)
    BY <1>4, HeldByStep
  <2>2. ASSUME NEW m, <<Append(p, e), m>> \in T PROVE m = c
    <3>1. Append(p, e) # <<>>
      BY <2>1, Ends
    <3>2. PICK q \in Seq(Step), k \in Node, d \in Step, b \in Node :
            <<q, k>> \in T /\ Holds(h, k, d, b) /\ <<Append(p, e), m>> = <<Append(q, d), b>>
      BY <1>2, <2>2, <3>1
    <3>3. p = q /\ e = d /\ m = b
      BY <2>1, <3>2, Ends
    <3>4. k = n
      BY <1>4, <3>2, <3>3
    <3> QED BY <1>4, <3>2, <3>3, <3>4, HoldsOne
  <2> QED BY <2>1, <2>2
<1>5. T \subseteq Q
  <2> HIDE DEF Q
  <2>1. Leads(h, top, Q)
    BY <1>3, <1>4 DEF Leads
  <2> QED BY <2>1, PathsAreLeast DEF T
<1> QED BY <1>5 DEF T

(* In a tree one path leads to a node.                                     *)
LEMMA OnePath ==
  ASSUME NEW h \in Heap, NEW top \in Node, IsTree(h, top)
  PROVE  \A p, q, n : <<p, n>> \in Paths(h, top) /\ <<q, n>> \in Paths(h, top) => p = q
<1> DEFINE T == Paths(h, top)
           Q == {x \in T : \A q : <<q, x[2]>> \in T => q = x[1]}
<1>1. T \subseteq Seq(Step) \X Node /\ \A x \in T : x[2] \in Below(h, top)
  BY PathsAreSteps, PathsLead
<1>2. \A x \in T : \/ x = <<<<>>, top>>
                   \/ \E p \in Seq(Step), n \in Node, e \in Step, c \in Node :
                        <<p, n>> \in T /\ Holds(h, n, e, c) /\ x = <<Append(p, e), c>>
  BY PathEnds
<1>3. Leads(h, top, T)
  BY PathsLead
<1>4. ASSUME NEW p, NEW n, <<p, n>> \in T, NEW e, NEW c, Holds(h, n, e, c)
      PROVE  n \in Node /\ c # top /\ h.parent[c] = n /\ e = StepTo(h, c)
  <2>1. n \in Below(h, top)
    BY <1>1, <1>4
  <2> QED BY <1>4, <2>1, HeldInTree
<1> HIDE DEF T
<1>5. <<<<>>, top>> \in Q
  <2>1. ASSUME NEW q, <<q, top>> \in T PROVE q = <<>>
    <3>1. CASE <<q, top>> = <<<<>>, top>>
      BY <3>1
    <3>2. CASE \E p \in Seq(Step), n \in Node, e \in Step, c \in Node :
                 <<p, n>> \in T /\ Holds(h, n, e, c) /\ <<q, top>> = <<Append(p, e), c>>
      BY <1>4, <3>2
    <3> QED BY <1>2, <2>1, <3>1, <3>2
  <2> QED BY <1>3, <2>1 DEF Leads
<1>6. ASSUME NEW p \in Seq(Step), NEW n \in Node, NEW e, NEW c, <<p, n>> \in Q, Holds(h, n, e, c)
      PROVE  <<Append(p, e), c>> \in Q
  <2>1. <<p, n>> \in T
    BY <1>6
  <2>2. <<Append(p, e), c>> \in T
    BY <1>3, <1>6, <2>1 DEF Leads
  <2>3. c # top /\ h.parent[c] = n /\ e = StepTo(h, c)
    BY <1>4, <1>6, <2>1
  <2>4. ASSUME NEW q, <<q, c>> \in T PROVE q = Append(p, e)
    <3>1. PICK r \in Seq(Step), k \in Node, d \in Step, b \in Node :
            <<r, k>> \in T /\ Holds(h, k, d, b) /\ <<q, c>> = <<Append(r, d), b>>
      BY <1>2, <2>3, <2>4
    <3>2. k = n /\ d = e
      BY <1>4, <2>3, <3>1
    <3>3. r = p
      BY <1>6, <3>1, <3>2
    <3> QED BY <3>1, <3>2, <3>3
  <2> QED BY <2>2, <2>4
<1>7. T \subseteq Q
  <2> HIDE DEF Q
  <2>1. Leads(h, top, Q)
    BY <1>5, <1>6 DEF Leads
  <2> QED BY <2>1, PathsAreLeast DEF T
<1> QED BY <1>7 DEF T

LEMMA PathOfNode ==
  ASSUME NEW h \in Heap, NEW top \in Node, IsTree(h, top), NEW m \in Below(h, top)
  PROVE  \E p \in Seq(Step) : <<p, m>> \in Paths(h, top)
<1> DEFINE T == {n \in Below(h, top) : \E p \in Seq(Step) : <<p, n>> \in Paths(h, top)}
<1>1. Leads(h, top, Paths(h, top)) /\ <<>> \in Seq(Step)
  BY PathsLead
<1>2. top \in T
  BY <1>1, BelowIsClosed DEF Leads
<1>3. ASSUME NEW n \in T, NEW c \in Children(h, n) PROVE c \in T
  <2>1. PICK p \in Seq(Step) : <<p, n>> \in Paths(h, top)
    OBVIOUS
  <2>2. n \in Node /\ RefersBack(h, n) /\ c \in Below(h, top)
    BY HeldInTree, BelowIsClosed DEF Closed
  <2>3. Holds(h, n, StepTo(h, c), c)
    BY <2>2, HeldChild
  <2>4. <<Append(p, StepTo(h, c)), c>> \in Paths(h, top)
    BY <1>1, <2>1, <2>2, <2>3 DEF Leads
  <2>5. Append(p, StepTo(h, c)) \in Seq(Step)
    BY <2>2, <2>3, HeldByStep
  <2> QED BY <2>2, <2>4, <2>5
<1>4. Below(h, top) \subseteq T
  <2> HIDE DEF T
  <2>1. Closed(h, T)
    BY <1>3 DEF Closed
  <2> QED BY <1>2, <2>1, BelowIsLeast
<1> QED BY <1>4

-----------------------------------------------------------------------------
(* replace, path by path.                                                  *)

LEMMA PrefixesOfPaths ==
  ASSUME NEW R, NEW p \in Seq(R), NEW q \in Seq(R), NEW e \in R
  PROVE  /\ IsPrefix(p, p) /\ ~IsPrefix(Append(p, e), p) /\ ~IsPrefix(Append(p, e), <<>>)
         /\ IsPrefix(p, Append(q, e)) <=> p = Append(q, e) \/ IsPrefix(p, q)
<1> DEFINE s == Append(q, e)
<1>1. /\ s \in Seq(R) /\ Len(s) = Len(q) + 1 /\ s[Len(q) + 1] = e
      /\ \A i \in 1..Len(q) : s[i] = q[i]
  OBVIOUS
<1>2. \A t \in Seq(R) : IsPrefix(p, t) <=> Len(p) <= Len(t) /\ \A i \in 1..Len(p) : p[i] = t[i]
  <2>1. ASSUME NEW t \in Seq(R), Len(p) <= Len(t)
        PROVE  SubSeq(p, 1, Len(p)) = SubSeq(t, 1, Len(p)) <=> \A i \in 1..Len(p) : p[i] = t[i]
    <3>1. SubSeq(p, 1, Len(p)) = p
      OBVIOUS
    <3>2. Len(SubSeq(t, 1, Len(p))) = Len(p) /\ SubSeq(t, 1, Len(p)) \in Seq(R)
      BY <2>1
    <3>3. \A i \in 1..Len(p) : SubSeq(t, 1, Len(p))[i] = t[i]
      BY <2>1
    <3> DEFINE r == SubSeq(t, 1, Len(p))
    <3> HIDE DEF r
    <3>4. p = r <=> \A i \in 1..Len(p) : p[i] = r[i]
      BY <3>2 DEF r
    <3> QED BY <3>1, <3>3, <3>4 DEF r
  <2> QED BY <2>1 DEF IsPrefix
<1>3. IsPrefix(p, p)
  BY <1>2
<1>4. ~IsPrefix(Append(p, e), p) /\ ~IsPrefix(Append(p, e), <<>>)
  <2>1. Len(Append(p, e)) = Len(p) + 1 /\ Len(p) \in Nat /\ Len(<<>>) = 0
    OBVIOUS
  <2>2. ~(Len(p) + 1 <= Len(p)) /\ ~(Len(p) + 1 <= 0)
    BY <2>1
  <2> QED BY <2>1, <2>2 DEF IsPrefix
<1> HIDE DEF s
<1>5. ASSUME IsPrefix(p, s) PROVE p = s \/ IsPrefix(p, q)
  <2>1. Len(p) <= Len(s) /\ \A i \in 1..Len(p) : p[i] = s[i]
    BY <1>1, <1>2, <1>5
  <2>2. CASE Len(p) = Len(s)
    BY <1>1, <2>1, <2>2
  <2>3. CASE Len(p) # Len(s)
    <3>1. Len(p) <= Len(q)
      BY <1>1, <2>1, <2>3
    <3>2. \A i \in 1..Len(p) : p[i] = q[i]
      BY <1>1, <2>1, <3>1
    <3> QED BY <1>2, <3>1, <3>2
  <2> QED BY <2>2, <2>3
<1>6. ASSUME IsPrefix(p, q) PROVE IsPrefix(p, s)
  <2>1. Len(p) <= Len(q) /\ \A i \in 1..Len(p) : p[i] = q[i]
    BY <1>2, <1>6
  <2>2. Len(p) <= Len(s) /\ \A i \in 1..Len(p) : p[i] = s[i]
    BY <1>1, <2>1
  <2> QED BY <1>1, <1>2, <2>2
<1>7. IsPrefix(p, s) <=> p = s \/ IsPrefix(p, q)
  BY <1>3, <1>5, <1>6
<1> QED BY <1>3, <1>4, <1>7 DEF s

LEMMA GoingOn ==
  ASSUME NEW R, NEW p \in Seq(R), NEW q \in Seq(R), NEW e \in R
  PROVE  p \o q \in Seq(R) /\ p \o Append(q, e) = Append(p \o q, e) /\ p \o <<>> = p
<1> DEFINE a == p \o q
           s == Append(q, e)
<1>1. a \in Seq(R) /\ Len(a) = Len(p) + Len(q)
      /\ \A j \in 1..(Len(p) + Len(q)) : a[j] = IF j <= Len(p) THEN p[j] ELSE q[j - Len(p)]
  BY MembersOfBoth
<1>2. s \in Seq(R) /\ Len(s) = Len(q) + 1 /\ s[Len(q) + 1] = e /\ \A i \in 1..Len(q) : s[i] = q[i]
  OBVIOUS
<1>3. p \o <<>> = p
  OBVIOUS
<1> HIDE DEF a, s
<1> DEFINE b == p \o s
           d == Append(a, e)
<1>4. b \in Seq(R) /\ Len(b) = Len(p) + Len(s)
      /\ \A j \in 1..(Len(p) + Len(s)) : b[j] = IF j <= Len(p) THEN p[j] ELSE s[j - Len(p)]
  BY <1>2, MembersOfBoth
<1>5. d \in Seq(R) /\ Len(d) = Len(a) + 1 /\ d[Len(a) + 1] = e /\ \A i \in 1..Len(a) : d[i] = a[i]
  <2>1. a \in Seq(R)
    BY <1>1
  <2> QED BY <2>1
<1> HIDE DEF b, d
<1>6. Len(b) = Len(d) /\ Len(p) \in Nat /\ Len(q) \in Nat
  BY <1>1, <1>2, <1>4, <1>5
<1>7. ASSUME NEW j \in 1..Len(b) PROVE b[j] = d[j]
  <2>1. j \in Nat /\ Len(b) = (Len(p) + Len(q)) + 1
    BY <1>2, <1>4, <1>6
  <2>2. CASE j <= Len(p)
    <3>1. j \in 1..Len(a) /\ j \in 1..(Len(p) + Len(s)) /\ j \in 1..(Len(p) + Len(q))
      BY <1>1, <1>2, <1>6, <2>1, <2>2
    <3>2. b[j] = p[j]
      BY <1>4, <2>2, <3>1
    <3>3. d[j] = a[j] /\ a[j] = p[j]
      BY <1>1, <1>5, <2>2, <3>1
    <3> QED BY <3>2, <3>3
  <2>3. CASE ~(j <= Len(p)) /\ j <= Len(p) + Len(q)
    <3>1. j - Len(p) \in 1..Len(q) /\ j \in 1..Len(a) /\ j \in 1..(Len(p) + Len(s))
      BY <1>1, <1>2, <1>6, <2>3
    <3>2. b[j] = s[j - Len(p)] /\ s[j - Len(p)] = q[j - Len(p)]
      BY <1>2, <1>4, <2>3, <3>1
    <3>3. d[j] = a[j] /\ a[j] = q[j - Len(p)]
      BY <1>1, <1>5, <2>3, <3>1
    <3> QED BY <3>2, <3>3
  <2>4. CASE ~(j <= Len(p) + Len(q))
    <3>1. j = (Len(p) + Len(q)) + 1 /\ j - Len(p) = Len(q) + 1 /\ ~(j <= Len(p))
      BY <1>6, <2>1, <2>4
    <3> QED BY <1>1, <1>2, <1>4, <1>5, <3>1
  <2> QED BY <2>2, <2>3, <2>4
<1>8. b = d
  BY <1>4, <1>5, <1>6, <1>7
<1> QED BY <1>1, <1>3, <1>8 DEF a, s, b, d

(* What a replaced node leaves: its parent holds the other node by the     *)
(* step by which it held the one replaced, and all else is as it was.      *)
Swapped(h, g, n, e0, c) ==
  /\ \A x \in Node : x # n => \A e, d : Holds(g, x, e, d) <=> Holds(h, x, e, d)
  /\ \A e, d : Holds(g, n, e, d) <=> (e # e0 /\ Holds(h, n, e, d)) \/ (e = e0 /\ d = c)

LEMMA ReplacedSwaps ==
  ASSUME NEW h, Whole(h), NEW n \in Live(h), NEW m \in Children(h, n), NEW c \in Node, c # n, c # m
  PROVE  Swapped(h, Replaced(h, m, c), n, StepTo(h, m), c) /\ Replaced(h, m, c).parent[m] = None
<1>1. h \in Heap /\ n \in Node /\ RefersBack(h, n) /\ m \in Node /\ n # None /\ c # None
  <2>1. h \in Heap /\ n \in Node /\ RefersBack(h, n)
    BY WholeIsSound
  <2> QED BY <2>1, ChildrenAreNodes, TreeAssumption
<1> DEFINE place == BackPlace(h, m)
           set == SetPlace(h, place, c)
           g == Replaced(h, m, c)
           l == h.expressions[n]
<1>2. /\ h.parent[m] = n
      /\ \/ h.arg_key[m] = "this" /\ h.this[n] = m
         \/ /\ h.arg_key[m] = "expressions" /\ h.this[n] # m
            /\ h.index[m] \in Nat /\ h.index[m] < Len(l) /\ l[h.index[m] + 1] = m
            /\ \A j \in 1..Len(l) : l[j] = m => j = h.index[m] + 1
  BY <1>1, PlaceOfChild
<1>3. g = Forget(set, {m})
  BY <1>1, <1>2 DEF Replaced
<1>4. place.node = n /\ place.key = h.arg_key[m] /\ place.index = h.index[m]
  BY <1>2 DEF BackPlace, Place
<1>5. l \in Seq(Node) /\ Len(l) \in Nat /\ DOMAIN l = 1..Len(l)
  BY <1>1, FieldsOfNode
<1>6. h.this \in [Node -> Node \union {None}] /\ h.expressions \in [Node -> Seq(Node)]
  BY <1>1 DEF Heap
<1> HIDE DEF place
<1>7. CASE h.arg_key[m] = "this"
  <2>1. set = SetThis(h, n, c)
    BY <1>4, <1>7 DEF SetPlace
  <2>2. set \in Heap /\ set.this = [h.this EXCEPT ![n] = c] /\ set.expressions = h.expressions
    BY <1>1, <2>1, SetThisFields
  <2> HIDE DEF set, g
  <2>3. g.this = set.this /\ g.expressions = set.expressions /\ g.parent[m] = None
    BY <1>1, <1>3 DEF Forget
  <2>4. StepTo(h, m) = [key |-> "this", index |-> None] /\ h.this[n] # None
    <3>1. h.this[n] = m
      BY <1>2, <1>7
    <3>2. h.this[n] # None
      BY <1>1, <3>1, TreeAssumption
    <3> QED BY <1>1, <1>7, <3>1, <3>2 DEF RefersBack, HangsAt, StepTo
  <2>5. \A x \in Node : x # n => g.this[x] = h.this[x] /\ g.expressions[x] = h.expressions[x]
    BY <1>6, <2>2, <2>3
  <2>6. g.this[n] = c /\ g.expressions[n] = l
    BY <1>1, <1>6, <2>2, <2>3
  <2>7. \A i : [key |-> "expressions", index |-> i] # [key |-> "this", index |-> None]
    OBVIOUS
  <2>8. \A x \in Node : x # n => \A e, d : Holds(g, x, e, d) <=> Holds(h, x, e, d)
    BY <2>5 DEF Holds
  <2>9. \A e, d : Holds(g, n, e, d) <=> (e # StepTo(h, m) /\ Holds(h, n, e, d)) \/ (e = StepTo(h, m) /\ d = c)
    BY <1>1, <2>4, <2>6, <2>7 DEF Holds
  <2> QED BY <2>3, <2>8, <2>9 DEF Swapped, g
<1>8. CASE h.arg_key[m] # "this"
  <2> DEFINE i == h.index[m]
             r == [l EXCEPT ![i + 1] = c]
  <2>1. /\ h.arg_key[m] = "expressions" /\ i \in Nat /\ i < Len(l) /\ l[i + 1] = m
        /\ \A j \in 1..Len(l) : l[j] = m => j = i + 1
    BY <1>2, <1>8
  <2>2. i + 1 \in 1..Len(l) /\ ~(i >= Len(l))
    BY <1>5, <2>1
  <2>3. set = SetParents(h, n, r)
    BY <1>4, <1>8, <2>2 DEF SetPlace, SetAt
  <2> HIDE DEF i
  <2>4. r \in Seq(Node) /\ DOMAIN r = DOMAIN l /\ \A j \in DOMAIN l : r[j] = IF j = i + 1 THEN c ELSE l[j]
    <3>1. l \in Seq(Node) /\ i + 1 \in 1..Len(l)
      BY <1>5, <2>2
    <3> HIDE DEF l
    <3> QED BY <3>1
  <2> HIDE DEF r
  <2>5. set \in Heap /\ set.this = h.this /\ set.expressions = [h.expressions EXCEPT ![n] = r]
    <3>1. PICK k : k = r
      OBVIOUS
    <3>2. k \in Seq(Node)
      BY <2>4, <3>1
    <3>3. set = SetParents(h, n, k)
      BY <2>3, <3>1
    <3>4. h \in Heap /\ n \in Node
      BY <1>1
    <3> QED BY <3>1, <3>2, <3>3, <3>4, SetParentsFields
  <2>6. set.parent \in [Node -> Node \union {None}]
    <3>1. set \in Heap
      BY <2>5
    <3> QED BY <3>1 DEF Heap
  <2> HIDE DEF set, g
  <2>7. g.this = set.this /\ g.expressions = set.expressions /\ g.parent[m] = None
    BY <1>1, <1>3, <2>6 DEF Forget
  <2>8. StepTo(h, m) = [key |-> "expressions", index |-> i]
    BY <2>1 DEF StepTo, i
  <2>9. \A x \in Node : x # n => g.this[x] = h.this[x] /\ g.expressions[x] = h.expressions[x]
    BY <1>6, <2>5, <2>7
  <2>10. g.this[n] = h.this[n] /\ g.expressions[n] = r
    BY <1>1, <1>6, <2>5, <2>7
  <2>11. \A x \in Node : x # n => \A e, d : Holds(g, x, e, d) <=> Holds(h, x, e, d)
    BY <2>9 DEF Holds
  <2>12. ASSUME NEW e, NEW d
         PROVE  Holds(g, n, e, d) <=> (e # StepTo(h, m) /\ Holds(h, n, e, d)) \/ (e = StepTo(h, m) /\ d = c)
    <3>1. \A j \in DOMAIN l : [key |-> "expressions", index |-> j - 1] = StepTo(h, m) <=> j = i + 1
      BY <1>5, <2>1, <2>8
    <3>2. StepTo(h, m) # [key |-> "this", index |-> None]
      BY <2>8
    <3>3. Holds(g, n, e, d) <=>
            \/ h.this[n] # None /\ e = [key |-> "this", index |-> None] /\ d = h.this[n]
            \/ \E j \in DOMAIN l : e = [key |-> "expressions", index |-> j - 1] /\ d = r[j]
      BY <2>4, <2>10 DEF Holds
    <3>4. Holds(h, n, e, d) <=>
            \/ h.this[n] # None /\ e = [key |-> "this", index |-> None] /\ d = h.this[n]
            \/ \E j \in DOMAIN l : e = [key |-> "expressions", index |-> j - 1] /\ d = l[j]
      BY DEF Holds
    <3>5. i + 1 \in DOMAIN l
      BY <1>5, <2>2
    <3> HIDE DEF l
    <3>6. CASE e = StepTo(h, m)
      BY <2>4, <3>1, <3>2, <3>3, <3>5, <3>6
    <3>7. CASE e # StepTo(h, m)
      BY <2>4, <3>1, <3>3, <3>4, <3>7
    <3> QED BY <3>6, <3>7
  <2> QED BY <2>7, <2>11, <2>12 DEF Swapped, g
<1> QED BY <1>7, <1>8

(* The paths of a tree and of the same tree with c in place of m.          *)
LEMMA GraftedIsReplaced ==
  ASSUME NEW h, Whole(h), NEW n \in Live(h), NEW m \in Children(h, n), NEW c \in Node, IsTree(h, c),
         n \notin Below(h, c), NEW g, Whole(g), Swapped(h, g, n, StepTo(h, m), c)
  PROVE  Paths(g, Root) = Grafted(h, PathOf(h, m), c)
<1> DEFINE T == Paths(h, Root)
           U == Paths(g, Root)
           C == Paths(h, c)
           e0 == StepTo(h, m)
<1>1. /\ h \in Heap /\ g \in Heap /\ Root \in Node /\ IsTree(h, Root) /\ IsTree(g, Root)
      /\ n \in Node /\ RefersBack(h, n) /\ n \in Below(h, Root)
  BY WholeIsSound DEF Live
<1>2. Leads(h, Root, T) /\ Leads(g, Root, U) /\ Leads(h, c, C) /\ \A x \in C : x[2] \in Below(h, c)
  BY <1>1, PathsLead
<1>3. T \subseteq Seq(Step) \X Node /\ U \subseteq Seq(Step) \X Node /\ C \subseteq Seq(Step) \X Node
  BY <1>1, PathsAreSteps
<1>4. PICK p0 \in Seq(Step) : <<p0, n>> \in T
  BY <1>1, PathOfNode
<1> DEFINE path == Append(p0, e0)
<1>5. Holds(h, n, e0, m) /\ e0 \in Step /\ m \in Node
  BY <1>1, HeldChild, HeldByStep
<1>6. path \in Seq(Step) /\ <<path, m>> \in T
  BY <1>1, <1>2, <1>4, <1>5 DEF Leads
<1>7. /\ \A p, q, x : <<p, x>> \in T /\ <<q, x>> \in T => p = q
      /\ \A p, x, y : <<p, x>> \in T /\ <<p, y>> \in T => x = y
  BY <1>1, OnePath, OneNode
<1>8. PathOf(h, m) = path
  <2>1. \E x \in T : x[2] = m
    BY <1>6
  <2>2. \A x \in T : x[2] = m => x[1] = path
    BY <1>3, <1>6, <1>7
  <2>3. PathOf(h, m) = (CHOOSE x \in T : x[2] = m)[1]
    BY DEF PathOf
  <2> HIDE DEF T, path
  <2> QED BY <2>1, <2>2, <2>3
<1> DEFINE A == {x \in T : ~IsPrefix(path, x[1])}
           B == {<<path \o x[1], x[2]>> : x \in C}
<1>9. Grafted(h, PathOf(h, m), c) = A \union B
  BY <1>8 DEF Grafted
<1>10. ASSUME NEW q, NEW x, <<q, x>> \in C PROVE <<path \o q, x>> \in B
  <2>1. PICK y \in C : y = <<q, x>>
    BY <1>10
  <2> HIDE DEF C, path
  <2>2. <<path \o y[1], y[2]>> \in B
    OBVIOUS
  <2> QED BY <2>1, <2>2
<1>11. ASSUME NEW y \in B
       PROVE  \E q \in Seq(Step), x \in Node : <<q, x>> \in C /\ y = <<path \o q, x>>
  <2> HIDE DEF C, path
  <2>1. PICK z \in C : y = <<path \o z[1], z[2]>>
    OBVIOUS
  <2>2. z \in Seq(Step) \X Node
    BY <1>3
  <2>3. PICK q \in Seq(Step), x \in Node : z = <<q, x>>
    BY <2>2
  <2> QED BY <2>1, <2>3
<1> HIDE DEF T, U, C, e0, path
<1>12. /\ \A x \in Node : x # n => \A e, d : Holds(g, x, e, d) <=> Holds(h, x, e, d)
       /\ \A e, d : Holds(g, n, e, d) <=> (e # e0 /\ Holds(h, n, e, d)) \/ (e = e0 /\ d = c)
  BY DEF Swapped, e0
<1>13. ~IsPrefix(path, p0) /\ ~IsPrefix(path, <<>>) /\ IsPrefix(path, path)
  BY <1>4, <1>5, <1>6, PrefixesOfPaths DEF path
<1>14. \A q \in Seq(Step), e \in Step : IsPrefix(path, Append(q, e)) <=> path = Append(q, e) \/ IsPrefix(path, q)
  BY <1>6, PrefixesOfPaths
<1>15. \A q \in Seq(Step), e \in Step : path = Append(q, e) <=> q = p0 /\ e = e0
  BY <1>4, <1>5, Ends DEF path
<1>16. \A q \in Seq(Step), e \in Step :
         path \o q \in Seq(Step) /\ path \o Append(q, e) = Append(path \o q, e) /\ path \o <<>> = path
  BY <1>6, GoingOn
<1>17. <<>> \in Seq(Step)
  OBVIOUS
<1>18. Leads(g, Root, A \union B)
  <2>1. <<<<>>, Root>> \in A
    BY <1>2, <1>13 DEF Leads
  <2>2. ASSUME NEW p \in Seq(Step), NEW x \in Node, NEW e, NEW d, <<p, x>> \in A, Holds(g, x, e, d)
        PROVE  <<Append(p, e), d>> \in A \union B
    <3>1. e \in Step /\ d \in Node /\ <<p, x>> \in T /\ ~IsPrefix(path, p)
      BY <1>1, <2>2, HeldByStep
    <3>2. CASE x = n /\ e = e0
      <4>1. d = c /\ p = p0
        BY <1>4, <1>7, <1>12, <2>2, <3>1, <3>2
      <4>2. <<<<>>, c>> \in C
        BY <1>2 DEF Leads
      <4>3. <<path \o <<>>, c>> \in B
        BY <1>10, <4>2
      <4>4. path \o <<>> = path /\ Append(p, e) = path
        BY <1>5, <1>16, <1>17, <3>2, <4>1 DEF path
      <4> QED BY <4>1, <4>3, <4>4
    <3>3. CASE ~(x = n /\ e = e0)
      <4>1. Holds(h, x, e, d)
        BY <1>12, <2>2, <3>3
      <4>2. <<Append(p, e), d>> \in T
        BY <1>2, <3>1, <4>1 DEF Leads
      <4>3. ~(p = p0 /\ e = e0)
        BY <1>4, <1>7, <3>1, <3>3
      <4>4. ~IsPrefix(path, Append(p, e))
        BY <1>14, <1>15, <3>1, <4>3
      <4> QED BY <4>2, <4>4
    <3> QED BY <3>2, <3>3
  <2>3. ASSUME NEW p \in Seq(Step), NEW x \in Node, NEW e, NEW d, <<p, x>> \in B, Holds(g, x, e, d)
        PROVE  <<Append(p, e), d>> \in A \union B
    <3>1. PICK q \in Seq(Step) : <<q, x>> \in C /\ p = path \o q
      BY <1>11, <2>3
    <3>2. x \in Below(h, c) /\ x # n
      BY <1>2, <3>1
    <3>3. Holds(h, x, e, d)
      BY <1>12, <2>3, <3>2
    <3>4. e \in Step
      BY <1>1, <3>3, HeldByStep
    <3>5. <<Append(q, e), d>> \in C
      BY <1>2, <3>1, <3>3 DEF Leads
    <3>6. <<path \o Append(q, e), d>> \in B
      BY <1>10, <3>5
    <3> QED BY <1>16, <3>1, <3>4, <3>6
  <2> HIDE DEF A, B
  <2> QED BY <2>1, <2>2, <2>3 DEF Leads
<1>19. U \subseteq A \union B
  <2> HIDE DEF A, B
  <2> QED BY <1>1, <1>18, PathsAreLeast DEF U
<1>20. A \subseteq U
  <2> DEFINE Q == {x \in T : IsPrefix(path, x[1]) \/ x \in U}
  <2>1. <<<<>>, Root>> \in Q
    BY <1>2 DEF Leads
  <2>2. ASSUME NEW p \in Seq(Step), NEW x \in Node, NEW e, NEW d, <<p, x>> \in Q, Holds(h, x, e, d)
        PROVE  <<Append(p, e), d>> \in Q
    <3>1. e \in Step /\ <<p, x>> \in T /\ (IsPrefix(path, p) \/ <<p, x>> \in U)
      BY <1>1, <2>2, HeldByStep
    <3>2. <<Append(p, e), d>> \in T
      BY <1>2, <2>2, <3>1 DEF Leads
    <3>3. CASE IsPrefix(path, p)
      BY <1>14, <3>1, <3>2, <3>3
    <3>4. CASE <<p, x>> \in U /\ x = n /\ e = e0
      <4>1. p = p0
        BY <1>4, <1>7, <3>1, <3>4
      <4> QED BY <1>14, <1>15, <3>1, <3>2, <3>4, <4>1
    <3>5. CASE <<p, x>> \in U /\ ~(x = n /\ e = e0)
      <4>1. Holds(g, x, e, d)
        BY <1>12, <2>2, <3>5
      <4>2. <<Append(p, e), d>> \in U
        BY <1>2, <3>5, <4>1 DEF Leads
      <4> QED BY <3>2, <4>2
    <3> QED BY <3>1, <3>3, <3>4, <3>5
  <2>3. T \subseteq Q
    <3> HIDE DEF Q
    <3>1. Leads(h, Root, Q)
      BY <2>1, <2>2 DEF Leads
    <3> QED BY <1>1, <3>1, PathsAreLeast DEF T
  <2> QED BY <2>3
<1>21. B \subseteq U
  <2> DEFINE Q == {x \in C : <<path \o x[1], x[2]>> \in U}
  <2>1. <<<<>>, c>> \in Q
    <3>1. <<p0, n>> \in U
      BY <1>4, <1>13, <1>20
    <3>2. Holds(g, n, e0, c)
      BY <1>12
    <3>3. <<path, c>> \in U
      BY <1>1, <1>2, <1>4, <3>1, <3>2 DEF Leads, path
    <3>4. path \o <<>> = path
      BY <1>5, <1>16, <1>17
    <3>5. <<<<>>, c>> \in C
      BY <1>2 DEF Leads
    <3> QED BY <3>3, <3>4, <3>5
  <2>2. ASSUME NEW p \in Seq(Step), NEW x \in Node, NEW e, NEW d, <<p, x>> \in Q, Holds(h, x, e, d)
        PROVE  <<Append(p, e), d>> \in Q
    <3>1. e \in Step /\ <<p, x>> \in C /\ <<path \o p, x>> \in U
      BY <1>1, <2>2, HeldByStep
    <3>2. x # n
      BY <1>2, <3>1
    <3>3. Holds(g, x, e, d)
      BY <1>12, <2>2, <3>2
    <3>4. path \o p \in Seq(Step) /\ path \o Append(p, e) = Append(path \o p, e)
      BY <1>16, <3>1
    <3>5. <<Append(path \o p, e), d>> \in U
      BY <1>2, <3>1, <3>3, <3>4 DEF Leads
    <3>6. <<Append(p, e), d>> \in C
      BY <1>2, <2>2, <3>1 DEF Leads
    <3> QED BY <3>4, <3>5, <3>6
  <2>3. C \subseteq Q
    <3> HIDE DEF Q
    <3>1. Leads(h, c, Q)
      BY <2>1, <2>2 DEF Leads
    <3> QED BY <1>1, <3>1, PathsAreLeast DEF C
  <2> QED BY <2>3
<1>22. U = A \union B
  BY <1>19, <1>20, <1>21
<1> QED BY <1>9, <1>22 DEF U

LEMMA ReplacedIsGrafted ==
  ASSUME NEW h, Whole(h), NEW m \in Live(h) \ {Root}, NEW c \in Node,
         Outside(h, c) \/ c \in Below(h, m) \ {m}
  PROVE  /\ Paths(Replaced(h, m, c), Root) = Grafted(h, PathOf(h, m), c)
         /\ Replaced(h, m, c).parent[m] = None
<1>1. PICK n \in Live(h) : m \in Children(h, n)
  BY InnerNode
<1>2. /\ h \in Heap /\ Root \in Node /\ IsTree(h, Root) /\ Live(h) = Below(h, Root)
      /\ n \in Node /\ m \in Node /\ m \in Below(h, Root) /\ n \in Below(h, Root)
  BY WholeIsSound DEF Live
<1>3. n \notin Below(h, m)
  BY <1>1, <1>2, CutOff
<1>4. c \in Below(h, c)
  BY <1>2, BelowIsClosed
<1>5. IsTree(h, c) /\ n \notin Below(h, c) /\ c # n /\ c # m
  <2>1. CASE Outside(h, c)
    BY <1>2, <1>4, <2>1 DEF Outside
  <2>2. CASE c \in Below(h, m) \ {m}
    <3>1. IsTree(h, m)
      BY <1>2, SubtreeIsTree
    <3>2. IsTree(h, c) /\ Below(h, c) \subseteq Below(h, m)
      BY <1>2, <2>2, <3>1, SubtreeIsTree
    <3> QED BY <1>3, <1>4, <2>2, <3>2
  <2> QED BY <2>1, <2>2
<1>6. Whole(Replaced(h, m, c))
  BY ReplacedIsWhole
<1>7. Swapped(h, Replaced(h, m, c), n, StepTo(h, m), c) /\ Replaced(h, m, c).parent[m] = None
  BY <1>1, <1>5, ReplacedSwaps
<1>8. PICK g : g = Replaced(h, m, c)
  OBVIOUS
<1>9. Paths(g, Root) = Grafted(h, PathOf(h, m), c)
  BY <1>1, <1>5, <1>6, <1>7, <1>8, GraftedIsReplaced
<1> QED BY <1>7, <1>8, <1>9

(* replace (expressions.py) with a node from outside the tree or from      *)
(* below the node replaced puts the tree of its argument at the path of    *)
(* the node and leaves every other path of the tree as it was, and the     *)
(* node has no parent any more; in the middle of a traversal too.          *)
THEOREM ReplaceChangesOnePlace == TransformSpec => ReplaceIsLocal
<1> DEFINE Local == \A m \in Live(heap) \ {Root}, c \in Node :
             heap' = Replaced(heap, m, c) /\ (Alone(c) \/ c \in Below(heap, m) \ {m}) =>
               /\ Paths(heap', Root) = Grafted(heap, PathOf(heap, m), c)
               /\ heap'.parent[m] = None
<1>1. TransformInit => VisitsInv
  BY VisitsInvAtFirst
<1>2. VisitsInv /\ [TransformNext]_vars => VisitsInv'
  BY StepsKeepVisitsInv
<1>3. ASSUME Whole(heap) PROVE Local
  <2>1. SUFFICES ASSUME NEW m \in Live(heap) \ {Root}, NEW c \in Node,
                        heap' = Replaced(heap, m, c), Alone(c) \/ c \in Below(heap, m) \ {m}
                 PROVE  /\ Paths(heap', Root) = Grafted(heap, PathOf(heap, m), c)
                        /\ heap'.parent[m] = None
    OBVIOUS
  <2>2. Outside(heap, c) \/ c \in Below(heap, m) \ {m}
    BY <2>1, AloneIsOutside
  <2>3. PICK h, g : h = heap /\ g = heap'
    OBVIOUS
  <2>4. Whole(h) /\ m \in Live(h) \ {Root} /\ (Outside(h, c) \/ c \in Below(h, m) \ {m}) /\ g = Replaced(h, m, c)
    BY <1>3, <2>1, <2>2, <2>3
  <2>5. Paths(g, Root) = Grafted(h, PathOf(h, m), c) /\ g.parent[m] = None
    BY <2>4, ReplacedIsGrafted
  <2> QED BY <2>3, <2>5
<1>4. VisitsInv /\ [TransformNext]_vars => [Local]_heap
  <2>1. SUFFICES ASSUME VisitsInv, TransformNext, heap' # heap PROVE Whole(heap)
    BY <1>3 DEF vars
  <2>2. CASE before = None
    BY <2>1, <2>2 DEF VisitsInv, EditsInv
  <2>3. CASE before # None
    <3>1. Visit
      BY <2>1, <2>3 DEF TransformNext, Edit, Begin, Done, vars
    <3>2. stack # <<>>
      BY <3>1 DEF Visit
    <3>3. Whole(before) /\ HeapInv
      BY <2>1, <2>3 DEF VisitsInv, TraversalInv
    <3> QED BY <3>2, <3>3 DEF HeapInv
  <2> QED BY <2>2, <2>3
<1> HIDE DEF Local
<1>5. VisitsInv /\ [TransformNext]_vars => [Local]_heap
  BY <1>4
<1>6. TransformSpec => [][Local]_heap
  BY <1>1, <1>2, <1>5, PTL DEF TransformSpec
<1> QED BY <1>6 DEF ReplaceIsLocal, Local
=============================================================================
