--------------------------- MODULE ExprTransform ---------------------------
(***************************************************************************)
(* Expression.transform on a tree that is not copied, after any edits of   *)
(* it: the nodes are visited depth first while the function replaces,      *)
(* wraps, unwraps and removes them under the traversal.                    *)
(*                                                                         *)
(* sqlglot/expressions.py: Expression.transform, dfs, iter_expressions.    *)
(***************************************************************************)
EXTENDS ExprTree

VARIABLES
  before,   \* history: the heap when transform was called, None until then
  stack,    \* the stack of dfs, its top first
  root,     \* root, None until the first node is visited
  visited,  \* history: the nodes the function was given, in order
  image     \* history: the nodes that were returned for each of them

vars == <<heap, before, stack, root, visited, image>>

Kept(n) == image[n] = <<n>>

(* iter_expressions                                                        *)
ChildrenInOrder(h, n) ==
  (IF h.this[n] = None THEN <<>> ELSE <<h.this[n]>>) \o h.expressions[n]

(* Mutant: a node for which the function returns None stays.               *)
PutInUnlessNone(h, place, new) ==
  IF new = <<>> THEN h
  ELSE IF Len(new) = 1 THEN SetPlace(h, place, new[1])
  ELSE SpliceAt(h, place.node, place.index, new)

(* parent.set(arg_key, new_node, index): a node, None or a list.           *)
PutIn(h, place, new) ==
  CASE new = <<>>                             -> ClearPlace(h, place)
    [] Len(new) = 1                           -> SetPlace(h, place, new[1])
    [] Len(new) > 1 /\ place.key # "this"     -> SpliceAt(h, place.node, place.index, new)

(* Mutant: nothing is pruned.                                              *)
PushedUnpruned(h, n, new) == ChildrenInOrder(h, n)

(* What dfs pushes: the children of a node the function returned as it     *)
(* was; below any other node it prunes.                                    *)
Pushed(h, n, new) == IF new = <<n>> THEN ChildrenInOrder(h, n) ELSE <<>>

(* What the function may return for a node, and the heap it leaves: the    *)
(* node, a node from outside, one from below it, a new node that holds it, *)
(* nothing, or a list.                                                     *)
Outcomes(n) ==
  LET alone == {c \in Node : Alone(c) /\ c \notin Below(before, Root)}
      several == IF heap.arg_key[n] = "expressions" THEN {l \in Lists : Len(l) > 1} ELSE {}
  IN {<<heap, <<n>>>>, <<heap, <<>>>>}
     \union {<<heap, <<c>>>> : c \in alone \union Children(heap, n)}
     \union {<<SetThis(heap, w, n), <<w>>>> : w \in alone}
     \union {<<heap, l>> : l \in several \intersect Seq(alone)}

TransformInit ==
  /\ Init
  /\ before = None
  /\ stack = <<>>
  /\ root = None
  /\ visited = <<>>
  /\ image = [n \in Node |-> <<>>]

Edit == before = None /\ Next /\ UNCHANGED <<before, stack, root, visited, image>>

(* The call, with the root on the stack of dfs.                            *)
Begin ==
  /\ before = None
  /\ before' = heap
  /\ stack' = <<Root>>
  /\ UNCHANGED <<heap, root, visited, image>>

(* One turn of the loop, with what dfs does after it.  The place of the    *)
(* node is read before the function is called.                             *)
Visit ==
  /\ stack # <<>>
  /\ \E outcome \in Outcomes(Head(stack)) :
       LET n == Head(stack)
           new == outcome[2]
           place == BackPlace(heap, n)
       IN /\ heap' = IF root # None /\ place.node # None /\ new # <<n>>
                     THEN PutIn(outcome[1], place, new)
                     ELSE outcome[1]
          /\ root' = IF root = None /\ new # <<>> THEN new[1] ELSE root
          /\ stack' = Pushed(heap', n, new) \o Tail(stack)
          /\ visited' = Append(visited, n)
          /\ image' = [image EXCEPT ![n] = new]
  /\ UNCHANGED before

(* The tree is returned, or the assertion that there is a root fails.      *)
Done == before # None /\ stack = <<>> /\ UNCHANGED vars

TransformNext == Edit \/ Begin \/ Visit \/ Done

TransformSpec == TransformInit /\ [][TransformNext]_vars

-----------------------------------------------------------------------------
(* Edits leave a tree, with references back that agree with it.            *)
EditsKeepTree == before = None => TreeIntact

(* The function is given nodes of the old tree only, each at most once,    *)
(* and a node above before those below.                                    *)
VisitsOnce ==
  /\ IsInjective(visited)
  /\ visited # <<>> => ToSet(visited) \subseteq Below(before, Root)
  /\ \A k \in DOMAIN visited : visited[k] # Root =>
       \E j \in 1..(k - 1) : visited[j] = before.parent[visited[k]] /\ Kept(visited[j])

(* What transform returns at the end: the nodes the function kept, each    *)
(* with the images of its old children in their order, those of a list     *)
(* spliced in and those that were removed gone.                            *)
ImageOfTree ==
  stack = <<>> /\ visited # <<>> =>
    /\ image[Root] = IF root = None THEN <<>> ELSE <<root>>
    /\ root # None => IsTree(heap, root)
    /\ \A n \in ToSet(visited) : Kept(n) =>
         /\ heap.this[n] = IF before.this[n] = None \/ image[before.this[n]] = <<>> THEN None
                           ELSE image[before.this[n]][1]
         /\ heap.expressions[n] =
              FlattenSeq([k \in DOMAIN before.expressions[n] |-> image[before.expressions[n][k]]])
=============================================================================
