------------------------------ MODULE ExprTree ------------------------------
(***************************************************************************)
(* The syntax tree as a heap of nodes.  A node refers to its children from *)
(* args and every child back to the place it hangs at by parent, arg_key   *)
(* and index; rewriting goes through the references back, so they have to  *)
(* agree with args whatever edits came before.                             *)
(*                                                                         *)
(* sqlglot/expressions.py: Expression.set, append, _set_parent, replace,   *)
(* pop and the step of transform that puts a node in place.                *)
(*                                                                         *)
(* A node has one argument that holds a node, "this", and one that holds a *)
(* list of nodes, "expressions"; values that are not nodes are left out.   *)
(* Positions are Python's, from 0.                                         *)
(***************************************************************************)
EXTENDS Naturals, FiniteSets, SequencesExt

CONSTANTS
  Node,  \* the nodes
  Root,  \* the node the caller holds on to
  New,   \* nodes that only the function given to transform makes
  None   \* Python's None

ASSUME TreeAssumption ==
  /\ IsFiniteSet(Node) /\ New \subseteq Node
  /\ Root \in Node \ New /\ None \notin Node \union {"this", "expressions"}

VARIABLE
  heap  \* the fields of the nodes, each a function on Node

Heap ==
  [this : [Node -> Node \union {None}],
   expressions : [Node -> Seq(Node)],
   parent : [Node -> Node \union {None}],
   arg_key : [Node -> {"this", "expressions", None}],
   index : [Node -> Nat \union {None}]]

ASSUME NoneAssumption == None \notin Heap

-----------------------------------------------------------------------------
(* Places, and the tree below a node as args have it.                      *)

Place(n, key, i) == [node |-> n, key |-> key, index |-> i]

Children(h, n) ==
  (IF h.this[n] = None THEN {} ELSE {h.this[n]}) \union ToSet(h.expressions[n])

Below(h, n) ==
  LET reach[k \in 0..Cardinality(Node)] ==
        IF k = 0 THEN {n}
        ELSE reach[k - 1] \union UNION {Children(h, m) : m \in reach[k - 1]}
  IN reach[Cardinality(Node)]

Live(h) == Below(h, Root)

(* The places of a node in the tree below another one.                     *)
PlacesOf(h, top, c) ==
  {Place(n, "this", None) : n \in {m \in Below(h, top) : h.this[m] = c}} \union
  {p \in {Place(n, "expressions", i) : n \in Below(h, top), i \in 0..Cardinality(Node)} :
     p.index < Len(h.expressions[p.node]) /\ h.expressions[p.node][p.index + 1] = c}

BackPlace(h, c) == Place(h.parent[c], h.arg_key[c], h.index[c])

(* A tree: nothing hangs at two places or above itself, and every node     *)
(* refers back to its place.                                               *)
IsTree(h, top) ==
  /\ PlacesOf(h, top, top) = {}
  /\ \A c \in Below(h, top) \ {top} : PlacesOf(h, top, c) = {BackPlace(h, c)}

-----------------------------------------------------------------------------
(* _set_parent, for a node and for a list.                                 *)
SetParent(h, n, key, c) ==
  [h EXCEPT !.parent[c] = n, !.arg_key[c] = key, !.index[c] = None]

PositionIn(l, c) == CHOOSE i \in 0..(Len(l) - 1) : l[i + 1] = c

SetParents(h, n, l) ==
  [h EXCEPT !.expressions[n] = l,
     !.parent = [c \in Node |-> IF c \in ToSet(l) THEN n ELSE @[c]],
     !.arg_key = [c \in Node |-> IF c \in ToSet(l) THEN "expressions" ELSE @[c]],
     !.index = [c \in Node |-> IF c \in ToSet(l) THEN PositionIn(l, c) ELSE @[c]]]

(* set(key, value): a node, or None.                                       *)
SetThis(h, n, c) == SetParent([h EXCEPT !.this[n] = c], n, "this", c)

ClearThis(h, n) == [h EXCEPT !.this[n] = None]

(* set(key, value, index): a node that takes the position, a list that     *)
(* takes it, a node put before it.  An index past the end does nothing.    *)
SetAt(h, n, i, c) ==
  LET l == h.expressions[n]
  IN IF i >= Len(l) THEN h ELSE SetParents(h, n, [l EXCEPT ![i + 1] = c])

SpliceAt(h, n, i, new) ==
  LET l == h.expressions[n]
  IN IF i >= Len(l) THEN h
     ELSE SetParents(h, n, SubSeq(l, 1, i) \o new \o SubSeq(l, i + 2, Len(l)))

InsertBefore(h, n, i, c) ==
  LET l == h.expressions[n]
  IN IF i >= Len(l) THEN h ELSE SetParents(h, n, InsertAt(l, i + 1, c))

(* Mutant: the nodes behind the one removed keep their indices.            *)
ClearAtOnly(h, n, i) ==
  LET l == h.expressions[n]
  IN IF i >= Len(l) THEN h ELSE [h EXCEPT !.expressions[n] = RemoveAt(l, i + 1)]

(* set(key, None, index)                                                   *)
ClearAt(h, n, i) ==
  LET l == h.expressions[n]
      behind == {l[k] : k \in (i + 2)..Len(l)}
  IN IF i >= Len(l) THEN h
     ELSE [h EXCEPT !.expressions[n] = RemoveAt(l, i + 1),
             !.index = [c \in Node |-> IF c \in behind THEN @[c] - 1 ELSE @[c]]]

(* append                                                                  *)
AppendTo(h, n, c) ==
  LET set == SetParent(h, n, "expressions", c)
  IN [set EXCEPT !.index[c] = Len(h.expressions[n]),
                 !.expressions[n] = Append(h.expressions[n], c)]

-----------------------------------------------------------------------------
(* set(key, value, index) with the key and index a node refers back to.    *)
SetPlace(h, place, c) ==
  IF place.key = "this" THEN SetThis(h, place.node, c)
  ELSE SetAt(h, place.node, place.index, c)

ClearPlace(h, place) ==
  IF place.key = "this" THEN ClearThis(h, place.node)
  ELSE ClearAt(h, place.node, place.index)

Forget(h, ms) ==
  [h EXCEPT !.parent = [c \in Node |-> IF c \in ms THEN None ELSE @[c]],
            !.arg_key = [c \in Node |-> IF c \in ms THEN None ELSE @[c]],
            !.index = [c \in Node |-> IF c \in ms THEN None ELSE @[c]]]

(* Mutant: the node that was replaced is cleared first.                    *)
ReplacedClearsFirst(h, m, c) ==
  IF h.parent[m] \in {None, c} THEN h
  ELSE SetPlace(ClearPlace(Forget(h, {m}), BackPlace(h, m)), BackPlace(h, m), c)

(* replace(expression) with a node: nothing if the node has no parent or   *)
(* the expression already holds it.                                        *)
Replaced(h, m, c) ==
  IF h.parent[m] \in {None, c} THEN h
  ELSE LET set == SetPlace(h, BackPlace(h, m), c)
       IN IF c = m THEN set ELSE Forget(set, {m})

(* pop, replace(None)                                                      *)
Popped(h, m) ==
  IF h.parent[m] = None THEN h ELSE Forget(ClearPlace(h, BackPlace(h, m)), {m})

(* replace(expression) with a list: while the node hangs at an argument    *)
(* that is not a list, it is its parent that is replaced.  Every node that *)
(* was gone through forgets its place.                                     *)
ReplacedByList(h, m, new) ==
  LET up[k \in 0..Cardinality(Node)] ==
        IF k = 0 THEN m
        ELSE IF h.arg_key[up[k - 1]] = "this" THEN h.parent[up[k - 1]] ELSE up[k - 1]
      top == up[Cardinality(Node)]
      set == IF h.parent[top] = None THEN h
             ELSE SpliceAt(h, h.parent[top], h.index[top], new)
  IN Forget(set, {up[k] : k \in 0..Cardinality(Node)})

(* transform with a function that returns a new node holding the one it    *)
(* got: the place was read before the function changed it.                 *)
Wrapped(h, m, w) ==
  LET place == BackPlace(h, m)
  IN SetPlace(SetThis(h, w, m), place, w)

-----------------------------------------------------------------------------
(* What the library and its callers do.  A node that is put somewhere is   *)
(* on its own: outside the tree, a tree itself, and not part of what it is *)
(* put into.                                                               *)
Alone(c) ==
  /\ c \notin Live(heap)
  /\ IsTree(heap, c)
  /\ Below(heap, c) \intersect Live(heap) = {}

(* The nodes that may be put into the tree by an edit.                     *)
Known == Node \ New

Set ==
  \E n \in Live(heap), c \in Known :
    /\ Alone(c) \/ (heap.this[n] # None /\ c \in Below(heap, heap.this[n]))
    /\ heap' = SetThis(heap, n, c)

Clear == \E n \in Live(heap) : heap' = ClearThis(heap, n)

SetIndex ==
  \E n \in Live(heap) : \E i \in 0..Len(heap.expressions[n]), c \in Known :
    /\ Alone(c)
    /\ heap' \in {SetAt(heap, n, i, c), InsertBefore(heap, n, i, c)}

ClearIndex ==
  \E n \in Live(heap) : \E i \in 0..Len(heap.expressions[n]) :
    heap' = ClearAt(heap, n, i)

AppendNode ==
  \E n \in Live(heap), c \in Known :
    /\ Alone(c)
    /\ heap' = AppendTo(heap, n, c)

(* Lists of nodes that are on their own and have nothing in common.        *)
Lists ==
  LET alone == {c \in Known : Alone(c)}
  IN {<<c>> : c \in alone} \union
     {l \in {<<c, d>> : c, d \in alone} : Below(heap, l[1]) \intersect Below(heap, l[2]) = {}}

(* A list, of new nodes or of those that are there in another order or     *)
(* without some of them.                                                   *)
SetList ==
  \E n \in Live(heap) :
    \E l \in Lists \union SetToAllKPermutations(ToSet(heap.expressions[n])) :
      heap' = SetParents(heap, n, l)

(* A node is replaced by one from outside or by one from below itself.     *)
Replace ==
  \E m \in Live(heap), c \in Known :
    /\ Alone(c) \/ c \in Below(heap, m)
    /\ heap' = Replaced(heap, m, c)

(* By a list, under an argument that is a list.                            *)
UnderList(m) == \E k \in Live(heap) : m \in Below(heap, k) /\ heap.arg_key[k] = "expressions"

ReplaceByList ==
  \E m \in Live(heap), new \in Lists :
    /\ UnderList(m)
    /\ heap' = ReplacedByList(heap, m, new)

Pop == \E m \in Live(heap) : heap' = Popped(heap, m)

Wrap ==
  \E m \in Live(heap) \ {Root}, w \in Known :
    /\ Alone(w)
    /\ heap' = Wrapped(heap, m, w)

Init ==
  heap = [this |-> [n \in Node |-> None],
          expressions |-> [n \in Node |-> <<>>],
          parent |-> [n \in Node |-> None],
          arg_key |-> [n \in Node |-> None],
          index |-> [n \in Node |-> None]]

Next ==
  \/ Set \/ Clear \/ SetList \/ SetIndex \/ ClearIndex \/ AppendNode
  \/ Replace \/ ReplaceByList \/ Pop \/ Wrap

Spec == Init /\ [][Next]_heap

-----------------------------------------------------------------------------
(* After every sequence of edits the tree is a tree, and every node in it  *)
(* refers back to where it hangs.                                          *)
TreeIntact == IsTree(heap, Root) /\ heap.parent[Root] = None

(* The tree as a value: the node at each path of places from the top.      *)
Paths(h, top) ==
  LET at[k \in 0..Cardinality(Node)] ==
        IF k = 0 THEN {<<<<>>, top>>}
        ELSE UNION {LET p == x[1]
                        n == x[2]
                    IN (IF h.this[n] = None THEN {}
                        ELSE {<<Append(p, [key |-> "this", index |-> None]), h.this[n]>>})
                       \union {<<Append(p, [key |-> "expressions", index |-> i - 1]),
                                 h.expressions[n][i]>> : i \in DOMAIN h.expressions[n]}
                    : x \in at[k - 1]}
  IN UNION {at[k] : k \in 0..Cardinality(Node)}

PathOf(h, m) == (CHOOSE x \in Paths(h, Root) : x[2] = m)[1]

(* The tree with the tree below c at a path.                               *)
Grafted(h, path, c) ==
  {x \in Paths(h, Root) : ~IsPrefix(path, x[1])} \union
  {<<path \o x[1], x[2]>> : x \in Paths(h, c)}

(* replace puts the tree of its argument at the place of the node and      *)
(* changes nothing else; the node has no place any more.                   *)
ReplaceIsLocal ==
  [][\A m \in Live(heap) \ {Root}, c \in Node :
       heap' = Replaced(heap, m, c) /\ (Alone(c) \/ c \in Below(heap, m) \ {m}) =>
         /\ Paths(heap', Root) = Grafted(heap, PathOf(heap, m), c)
         /\ heap'.parent[m] = None]_heap
=============================================================================
