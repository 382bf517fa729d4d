----------------------------- MODULE ChunkTree -----------------------------
(***************************************************************************)
(* The red-black trees of chunks (gc/gengc_tree.cs) and the search in them *)
(* (gengc.search).  A tree is a record of functions: parent, left, right   *)
(* and red of every node.  The sentinel Root holds the tree on its left;   *)
(* Nil stands for no node and has a parent, which deletion uses.  What is  *)
(* written twice in the code, with left and right exchanged, is written    *)
(* once here, for a side and the other one.                                *)
(***************************************************************************)
EXTENDS Integers, Sequences

Nil == -1
Root == 0
Null == -2    \* the null pointer search returns

Other(side) == IF side = "left" THEN "right" ELSE "left"
Side(t, x) == IF x = t.left[t.parent[x]] THEN "left" ELSE "right"

(* The tree of gengc.Init, for nodes that may be put in it. *)
Empty(nodes) ==
  LET all == nodes \cup {Nil, Root} IN
  [parent |-> [n \in all |-> Nil], left |-> [n \in all |-> Nil],
   right |-> [n \in all |-> Nil], red |-> [n \in all |-> FALSE]]

(* LeftRotate and RightRotate: x moves down to the side, the root of its    *)
(* other subtree takes its place.                                           *)
Rotate(t, side, x) ==
  LET other == Other(side)
      y == t[other][x]
      b == t[side][y]
      p == t.parent[x] IN
  [t EXCEPT ![other][x] = b, !.parent[b] = IF b = Nil THEN @ ELSE x,
            !.parent[y] = p, ![Side(t, x)][p] = y,
            ![side][y] = x, !.parent[x] = y]

(* Where TreeInsertHelp hangs a node with the given key. *)
RECURSIVE Leaf(_, _, _, _, _)
Leaf(t, key, k, p, side) ==
  IF t[side][p] = Nil THEN <<p, side>>
  ELSE Leaf(t, key, k, t[side][p], IF key[t[side][p]] > k THEN "left" ELSE "right")

TreeInsertHelp(t, key, z) ==
  LET leaf == Leaf(t, key, key[z], Root, "left") IN
  [t EXCEPT !.left[z] = Nil, !.right[z] = Nil, !.parent[z] = leaf[1],
            ![leaf[2]][leaf[1]] = z]

(* The grandparent of x comes down, recoloured, on the other side of x. *)
Raise(t, other, x) ==
  LET p == t.parent[x]
      g == t.parent[p] IN
  Rotate([t EXCEPT !.red[p] = FALSE, !.red[g] = TRUE], other, g)

(* The loop of RBTreeInsert. *)
RECURSIVE InsertFixUp(_, _)
InsertFixUp(t, x) ==
  LET p == t.parent[x]
      g == t.parent[p]
      side == Side(t, p)
      other == Other(side)
      uncle == t[other][g] IN
  IF ~t.red[p] THEN t
  ELSE IF t.red[uncle]
  THEN InsertFixUp([t EXCEPT !.red[p] = FALSE, !.red[uncle] = FALSE, !.red[g] = TRUE], g)
  ELSE IF x = t[other][p]
  THEN InsertFixUp(Raise(Rotate(t, side, p), other, p), p)
  ELSE InsertFixUp(Raise(t, other, x), x)

Black(t, x) == [t EXCEPT !.red[x] = FALSE]
BlackTop(t) == Black(t, t.left[Root])

RBTreeInsert(t, key, z) ==
  BlackTop(InsertFixUp([TreeInsertHelp(t, key, z) EXCEPT !.red[z] = TRUE], z))

RECURSIVE Leftmost(_, _)
Leftmost(t, x) == IF t.left[x] = Nil THEN x ELSE Leftmost(t, t.left[x])

RECURSIVE Above(_, _, _)
Above(t, x, y) == IF x = t.right[y] THEN Above(t, y, t.parent[y])
                  ELSE IF y = Root THEN Nil ELSE y

TreeSuccessor(t, x) == IF t.right[x] # Nil THEN Leftmost(t, t.right[x])
                       ELSE Above(t, x, t.parent[x])

(* The cases of RBDeleteFixUp, for x on a side of p and its sibling w: a    *)
(* red sibling, a sibling whose far child is black, and the last rotation.  *)
RedSibling(t, side, p) ==
  LET w == t[Other(side)][p] IN
  IF t.red[w] THEN Rotate([t EXCEPT !.red[w] = FALSE, !.red[p] = TRUE], side, p)
  ELSE t

FarBlack(t, side, w) ==
  LET other == Other(side) IN
  IF t.red[t[other][w]] THEN t
  ELSE Rotate([t EXCEPT !.red[t[side][w]] = FALSE, !.red[w] = TRUE], other, w)

LastRotation(t, side, x) ==
  LET p == t.parent[x]
      w == t[Other(side)][p] IN
  Rotate([t EXCEPT !.red[w] = t.red[p], !.red[p] = FALSE,
                   !.red[t[Other(side)][w]] = FALSE], side, p)

(* The root is the one the tree had when the loop was entered. *)
RECURSIVE RBDeleteFixUp(_, _, _), BlackSibling(_, _, _, _)
RBDeleteFixUp(t, root, x) ==
  IF t.red[x] \/ x = root THEN Black(t, x)
  ELSE BlackSibling(RedSibling(t, Side(t, x), t.parent[x]), root, x, Side(t, x))

BlackSibling(t, root, x, side) ==
  LET p == t.parent[x]
      w == t[Other(side)][p] IN
  IF ~t.red[t.left[w]] /\ ~t.red[t.right[w]]
  THEN RBDeleteFixUp([t EXCEPT !.red[w] = TRUE], root, p)
  ELSE Black(LastRotation(FarBlack(t, side, w), side, x), root)

(* The node y, which has x for its only child or none, is spliced out. *)
SpliceOut(t, y, x) ==
  [t EXCEPT !.parent[x] = t.parent[y], ![Side(t, y)][t.parent[y]] = x]

FixUpFrom(t, x) == RBDeleteFixUp(t, t.left[Root], x)

(* The node y, spliced out, takes the place of z. *)
Replace(t, z, y) ==
  [t EXCEPT !.left[y] = t.left[z], !.right[y] = t.right[z],
            !.parent[y] = t.parent[z], !.red[y] = t.red[z],
            !.parent[t.right[z]] = y, !.parent[t.left[z]] = y,
            ![Side(t, z)][t.parent[z]] = y]

Removed(t, z) ==
  IF t.left[z] = Nil \/ t.right[z] = Nil THEN z ELSE TreeSuccessor(t, z)
OnlyChild(t, y) == IF t.left[y] = Nil THEN t.right[y] ELSE t.left[y]

(* RedBlack: the colours are fixed up only if the node itself is spliced    *)
(* out.                                                                     *)
DeleteWith_NoFixUp(t, z, y, x) ==
  IF y # z THEN Replace(SpliceOut(t, y, x), z, y)
  ELSE IF t.red[y] THEN SpliceOut(t, y, x) ELSE FixUpFrom(SpliceOut(t, y, x), x)

DeleteWith(t, z, y, x) ==
  LET t1 == IF t.red[y] THEN SpliceOut(t, y, x)
            ELSE FixUpFrom(SpliceOut(t, y, x), x) IN
  IF y = z THEN t1 ELSE Replace(t1, z, y)

DeleteNode(t, z, y) == DeleteWith(t, z, y, OnlyChild(t, y))
RBDelete(t, z) == DeleteNode(t, z, Removed(t, z))

-----------------------------------------------------------------------------
(* gengc.search: down to where the value would be inserted, and up again to *)
(* the first ancestor that lies on the wanted side: "left" for the smallest *)
(* value that is not less (pattern 0), "right" for the greatest that is not *)
(* more (pattern 1).                                                        *)
RECURSIVE Down(_, _, _, _, _)
Down(t, key, v, p, side) ==
  LET n == t[side][p] IN
  IF n = Nil THEN <<p, side>>
  ELSE IF key[n] = v THEN <<n, "found">>
  ELSE Down(t, key, v, n, IF v > key[n] THEN "right" ELSE "left")

RECURSIVE Up(_, _, _, _)
Up(t, pattern, p, side) ==
  IF side = pattern THEN p
  ELSE IF t.parent[p] = Nil THEN Null
  ELSE Up(t, pattern, t.parent[p], Side(t, p))

(* SearchFinds: the way up again is left out. *)
search_NoUp(t, key, pattern, v) == Down(t, key, v, Root, "left")[1]

search(t, key, pattern, v) ==
  LET d == Down(t, key, v, Root, "left") IN
  IF t.left[Root] = Nil THEN Null
  ELSE IF d[2] = "found" THEN d[1] ELSE Up(t, pattern, d[1], d[2])

(* The walk of DoCollection, from the leftmost node by TreeSuccessor. *)
RECURSIVE From(_, _)
From(t, x) == IF x = Nil THEN << >> ELSE <<x>> \o From(t, TreeSuccessor(t, x))
Walk(t) == From(t, Leftmost(t, Root))

-----------------------------------------------------------------------------
(* Number of black nodes on every way down from a node, or -1. *)
RECURSIVE BlackHeight(_, _)
BlackHeight(t, x) ==
  LET l == BlackHeight(t, t.left[x]) IN
  IF x = Nil THEN 0
  ELSE IF l = -1 \/ l # BlackHeight(t, t.right[x]) THEN -1
  ELSE IF t.red[x] THEN l ELSE l + 1

(* No red node has a red child, all ways down meet as many black nodes.     *)
Balanced(t, nodes) ==
  /\ \A n \in nodes : t.red[n] => ~t.red[t.left[n]] /\ ~t.red[t.right[n]]
  /\ BlackHeight(t, t.left[Root]) # -1
=============================================================================
