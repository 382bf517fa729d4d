----------------------------- MODULE HeapTrees -----------------------------
(***************************************************************************)
(* The heap of GenGc with its two trees of chunks, as allocate_chunk keeps *)
(* them: the free tree by length, the used tree by address.  The rest of   *)
(* gengc knows the chunks through these trees only.                        *)
(*                                                                         *)
(* The heap only ever deletes the one chunk of its free tree.  A third     *)
(* tree, on its own, has nodes inserted and deleted in any order.          *)
(***************************************************************************)
EXTENDS GenGc, ChunkTree

CONSTANTS Nodes, Key   \* of the third tree: its nodes, their keys

VARIABLES
  free_tree, used_tree,   \* root_free_chunk, root_used_chunk
  tree, within,           \* the third tree and what it holds
  part                    \* "heap" or "tree": which of them a behaviour uses

treevars == <<free_tree, used_tree>>

Starts == HeapStart..(HeapEnd - 1)
Address == [c \in Starts |-> c]
Lengths == [c \in Starts |-> IF c \in DOMAIN free THEN free[c] ELSE 0]

(* The pointers of a deleted node are reset when it is used again. *)
Reset(t, n) ==
  [t EXCEPT !.parent[n] = Nil, !.left[n] = Nil, !.right[n] = Nil, !.red[n] = FALSE]

GiveBack(t, rest) ==
  IF rest = {} THEN t ELSE RBTreeInsert(t, Lengths', CHOOSE r \in rest : TRUE)

(* What allocate_chunk does to the trees: the chunk found leaves the free   *)
(* tree, what is left of it goes back, the chunk enters the used tree.      *)
TreesOf(taken, rest) ==
  /\ free_tree' = Reset(GiveBack(RBDelete(free_tree, taken), rest), taken)
  /\ used_tree' = RBTreeInsert(used_tree, Address, taken)

MutatorStep ==
  /\ part = "heap" /\ Mutator
  /\ IF DOMAIN chunks' = DOMAIN chunks THEN UNCHANGED treevars
     ELSE TreesOf(CHOOSE c \in DOMAIN chunks' : c \notin DOMAIN chunks,
                  DOMAIN free' \ DOMAIN free)
  /\ UNCHANGED <<tree, within, part>>

CollectorStep ==
  /\ part = "heap" /\ (GreyRoots \/ Collector)
  /\ UNCHANGED <<treevars, tree, within, part>>

Insert(n) ==
  /\ part = "tree" /\ n \notin within
  /\ tree' = RBTreeInsert(tree, Key, n) /\ within' = within \cup {n}
  /\ UNCHANGED <<vars, treevars, part>>

Delete(n) ==
  /\ part = "tree" /\ n \in within
  /\ tree' = Reset(RBDelete(tree, n), n)
  /\ within' = within \ {n}
  /\ UNCHANGED <<vars, treevars, part>>

TreesInit ==
  /\ Init
  /\ free_tree = RBTreeInsert(Empty(Starts), Lengths, CHOOSE f \in DOMAIN free : TRUE)
  /\ used_tree = RBTreeInsert(Empty(Starts), Address, HeapStart)
  /\ tree = Empty(Nodes) /\ within = {}
  /\ part \in {"heap", "tree"}

TreesNext == MutatorStep \/ CollectorStep \/ \E n \in Nodes : Insert(n) \/ Delete(n)

treesvars == <<vars, treevars, tree, within, part>>
TreesSpec == TreesInit /\ [][TreesNext]_treesvars /\ WF_treesvars(Collector /\ CollectorStep)

-----------------------------------------------------------------------------
(* The least node by key, and the greatest by address, as gengc.search is   *)
(* meant to find them.                                                      *)
NotLess(nodes, key, v) == {n \in nodes : key[n] >= v}
NotMore(nodes, key, v) == {n \in nodes : key[n] <= v}

(* gengc.search returns, in the used tree, the chunk that holds the object  *)
(* an address points to, and in the free tree a chunk that fits as tightly  *)
(* as any; it finds the sentinel or nothing only when there is none.        *)
SearchFinds ==
  /\ \A v \in Starts : LET c == search(used_tree, Address, "right", v) IN
       \A o \in Objects : PointsTo(v, o) => o[1] = c
  /\ \A n \in 1..(HeapEnd - HeapStart) :
       LET f == search(free_tree, Lengths, "left", align(n)) IN
       IF Fit(n) = {} THEN f \in {Null, Root} ELSE f \in Fit(n)
  /\ within # {} => \A v \in {Key[n] : n \in Nodes} :
       LET l == search(tree, Key, "left", v)
           r == search(tree, Key, "right", v)
           above == NotLess(within, Key, v)
           below == NotMore(within, Key, v) IN
       /\ IF above = {} THEN l = Root
          ELSE l \in above /\ \A n \in above : Key[l] <= Key[n]
       /\ IF below = {} THEN r = Null
          ELSE r \in below /\ \A n \in below : Key[n] <= Key[r]

IsWalk(t, nodes, key) ==
  LET w == Walk(t) IN
  /\ Len(w) = Cardinality(nodes) /\ {w[i] : i \in 1..Len(w)} = nodes
  /\ \A i \in 1..(Len(w) - 1) : key[w[i]] <= key[w[i + 1]]

(* The walk of DoCollection meets each used chunk exactly once, in order of *)
(* address, and RBTreeInsert and RBDelete keep the trees balanced, RBDelete *)
(* though it fixes colours up before the spliced node takes the place of    *)
(* the deleted one; so do any insertions and deletions in a tree.           *)
RedBlack ==
  /\ IsWalk(used_tree, DOMAIN chunks, Address)
  /\ within # {} => IsWalk(tree, within, Key)
  /\ Balanced(used_tree, DOMAIN chunks)
  /\ Balanced(free_tree, DOMAIN free) /\ Balanced(tree, within)
=============================================================================
