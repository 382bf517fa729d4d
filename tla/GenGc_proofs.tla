---------------------------- MODULE GenGc_proofs ----------------------------
(***************************************************************************)
(* Proofs about GenGc, for any heap, size classes and requests.            *)
(*                                                                         *)
(* Chunks never overlap, so a reference points into one object at most     *)
(* (Unique).  What threads read is null or points to an object that they   *)
(* can reach and that is in use (Sound).  A step that follows only         *)
(* references there are reaches nothing new (MutateStep).  While marking,  *)
(* no area and no black object refers to a white one (Marking), so when    *)
(* nothing is grey all that can be reached is black (AllBlack) and the     *)
(* sweep frees none of it.                                                 *)
(***************************************************************************)
EXTENDS GenGc, WellFoundedInduction, TLAPS

(* Time limits that leave a slow machine room.                              *)
USE SMTT(30), ZenonT(30)

(* Slots of an array lie one after another.                                 *)
LEMMA Products ==
  ASSUME NEW s \in Nat, NEW i \in Nat, NEW j \in Nat, i < j
  PROVE  i * s \in Nat /\ j * s \in Nat /\ i * s + s <= j * s
<1> DEFINE d == j - i - 1
<1>1. d \in Nat /\ j = i + 1 + d  OBVIOUS
<1>2. d * s \in Nat /\ i * s \in Nat  BY <1>1
<1>3. j * s = i * s + s + d * s  BY <1>1
<1>4. QED  BY <1>2, <1>3

(* The length of a chunk is rounded up.                                     *)
LEMMA AlignUp == ASSUME NEW n \in Nat PROVE align(n) \in Nat /\ n <= align(n)
<1>1. Alignment \in Nat \ {0}  BY ZenonT(30), HeapAssumption
<1>2. n % Alignment \in Nat /\ n % Alignment < Alignment /\ n % Alignment <= n
  BY <1>1
<1>3. QED  BY <1>1, <1>2 DEF align

(* Chunks long enough for what is in them, and clear of one another.        *)
WellFormed(ch) ==
  \A c \in DOMAIN ch :
    /\ c \in Nat /\ ch[c].length \in Nat
    /\ ch[c].class \in Classes \cup {Large, RootBlock}
    /\ ch[c].class \in Classes => SmaLength(ch[c].class) <= ch[c].length
Apart(ch) ==
  \A c, d \in DOMAIN ch : c < d => c + Hdr + ch[c].length <= d

(* What the size classes are. *)
LEMMA ClassFacts ==
  ASSUME NEW k \in Classes
  PROVE  /\ k \in Nat /\ k # Large /\ k # RootBlock
         /\ SmSizes[k] \in Nat \ {0} /\ SmCounts[k] \in Nat \ {0} /\ SmData[k] \in Nat
         /\ SmaLength(k) \in Nat
<1>1. k \in Nat /\ k # Large /\ k # RootBlock
  BY ClassAssumption DEF Classes, Large, RootBlock
<1>2. SmSizes[k] \in Nat \ {0} /\ SmCounts[k] \in Nat \ {0} /\ SmData[k] \in Nat
  BY ZenonT(30), ClassAssumption
<1>3. SmCounts[k] * SmSizes[k] \in Nat  BY <1>2
<1>4. QED  BY <1>1, <1>2, <1>3 DEF SmaLength

(* An object lies within the chunk it is part of.                           *)
LEMMA ObjectFacts ==
  ASSUME NEW ch, WellFormed(ch), NEW o \in ObjectsIn(ch)
  PROVE  /\ o = <<o[1], o[2]>> /\ o[1] \in DOMAIN ch
         /\ o[2] \in 0..(Slots(ch[o[1]].class) - 1)
         /\ ch[o[1]].class \in Classes \cup {Large}
         /\ BaseIn(ch, o) \in Nat /\ SizeIn(ch, o) \in Nat
         /\ o[1] + Hdr <= BaseIn(ch, o)
         /\ BaseIn(ch, o) + SizeIn(ch, o) <= o[1] + Hdr + ch[o[1]].length
<1>0. PICK c \in DOMAIN ch : \E i \in 0..(Slots(ch[c].class) - 1) : o = <<c, i>>
  BY ZenonT(30) DEF ObjectsIn
<1>1. PICK i \in 0..(Slots(ch[c].class) - 1) : o = <<c, i>>  BY ZenonT(30), <1>0
<1>2. o = <<o[1], o[2]>> /\ o[1] = c /\ o[2] = i  BY ZenonT(30), <1>1
<1>3. /\ c \in Nat /\ ch[c].length \in Nat /\ Hdr \in Nat
      /\ ch[c].class \in Classes \cup {Large, RootBlock}
  BY ZenonT(30), HeapAssumption DEF WellFormed
<1>4. ch[c].class # RootBlock  BY <1>1 DEF Slots, RootBlock, Large
<1>5. CASE ch[c].class = Large
  BY <1>2, <1>3, <1>5 DEF BaseIn, SizeIn
<1>6. CASE ch[c].class # Large
  <2> DEFINE k == ch[c].class
  <2>1. k \in Classes  BY ZenonT(30), <1>3, <1>4, <1>6
  <2>2. SmaLength(k) <= ch[c].length  BY ZenonT(30), <2>1 DEF WellFormed
  <2>3. i \in Nat /\ i < SmCounts[k]
    BY <1>1, <1>4, <1>6, <2>1, ClassFacts DEF Slots
  <2>4. BaseIn(ch, o) = c + Hdr + (SmData[k] + i * SmSizes[k]) /\ SizeIn(ch, o) = SmSizes[k]
    BY ZenonT(30), <1>2, <1>6 DEF BaseIn, SizeIn
  <2>5. i * SmSizes[k] \in Nat /\ i * SmSizes[k] + SmSizes[k] <= SmCounts[k] * SmSizes[k]
    BY ZenonT(30), <2>1, <2>3, Products, ClassFacts
  <2>6. SmCounts[k] * SmSizes[k] \in Nat /\ SmData[k] \in Nat /\ SmSizes[k] \in Nat
    BY <2>1, ClassFacts
  <2>7. SmaLength(k) = SmData[k] + SmCounts[k] * SmSizes[k]  BY ZenonT(30) DEF SmaLength
  <2> HIDE DEF k
  <2>8. /\ BaseIn(ch, o) \in Nat /\ SizeIn(ch, o) \in Nat /\ c + Hdr <= BaseIn(ch, o)
        /\ BaseIn(ch, o) + SizeIn(ch, o) <= c + Hdr + ch[c].length
    BY <1>3, <2>2, <2>4, <2>5, <2>6, <2>7
  <2>9. QED  BY ZenonT(30), <1>1, <1>2, <2>1, <2>8 DEF k
<1>7. QED  BY ZenonT(30), <1>5, <1>6

(* No two objects overlap: an address points into one of them at most.      *)
LEMMA OneObject ==
  ASSUME NEW ch, WellFormed(ch), Apart(ch), NEW v \in Int,
         NEW o \in ObjectsIn(ch), NEW p \in ObjectsIn(ch),
         BaseIn(ch, o) <= v, v < BaseIn(ch, o) + SizeIn(ch, o),
         BaseIn(ch, p) <= v, v < BaseIn(ch, p) + SizeIn(ch, p)
  PROVE  o = p
<1> DEFINE c == o[1]
           d == p[1]
<1>1. /\ c \in DOMAIN ch /\ d \in DOMAIN ch
      /\ BaseIn(ch, o) \in Nat /\ SizeIn(ch, o) \in Nat
      /\ BaseIn(ch, p) \in Nat /\ SizeIn(ch, p) \in Nat
      /\ c + Hdr <= BaseIn(ch, o) /\ d + Hdr <= BaseIn(ch, p)
      /\ BaseIn(ch, o) + SizeIn(ch, o) <= c + Hdr + ch[c].length
      /\ BaseIn(ch, p) + SizeIn(ch, p) <= d + Hdr + ch[d].length
  BY ZenonT(30), ObjectFacts
<1>2. /\ c \in Nat /\ d \in Nat /\ Hdr \in Nat
      /\ ch[c].length \in Nat /\ ch[d].length \in Nat
  BY ZenonT(30), <1>1, HeapAssumption DEF WellFormed
<1>3. /\ c < d => c + Hdr + ch[c].length <= d
      /\ d < c => d + Hdr + ch[d].length <= c
  BY ZenonT(30), <1>1 DEF Apart
<1> HIDE DEF c, d
<1>4. c = d  BY <1>1, <1>2, <1>3
<1>5. /\ o = <<o[1], o[2]>> /\ p = <<p[1], p[2]>>
      /\ o[2] \in 0..(Slots(ch[c].class) - 1) /\ p[2] \in 0..(Slots(ch[d].class) - 1)
      /\ ch[c].class \in Classes \cup {Large}
  BY ZenonT(30), ObjectFacts DEF c, d
<1>6. CASE ch[c].class = Large
  <2>1. o[2] = 0 /\ p[2] = 0  BY <1>4, <1>5, <1>6 DEF Slots
  <2>2. QED  BY ZenonT(30), <2>1, <1>4, <1>5 DEF c, d
<1>7. CASE ch[c].class # Large
  <2> DEFINE k == ch[c].class
             i == o[2]
             j == p[2]
  <2>1. k \in Classes  BY ZenonT(30), <1>5, <1>7
  <2>2. i \in Nat /\ j \in Nat
    BY <1>4, <1>5, <1>7, <2>1, ClassFacts DEF Slots
  <2>3. /\ BaseIn(ch, o) = c + Hdr + (SmData[k] + i * SmSizes[k])
        /\ BaseIn(ch, p) = c + Hdr + (SmData[k] + j * SmSizes[k])
        /\ SizeIn(ch, o) = SmSizes[k] /\ SizeIn(ch, p) = SmSizes[k]
    BY ZenonT(30), <1>4, <1>7 DEF BaseIn, SizeIn, c, d
  <2>4. SmSizes[k] \in Nat /\ SmData[k] \in Nat  BY ZenonT(30), <2>1, ClassFacts
  <2>5. /\ i * SmSizes[k] \in Nat /\ j * SmSizes[k] \in Nat  BY <2>2, <2>4
  <2>6. /\ i < j => i * SmSizes[k] + SmSizes[k] <= j * SmSizes[k]
        /\ j < i => j * SmSizes[k] + SmSizes[k] <= i * SmSizes[k]
    BY ZenonT(30), <2>2, <2>4, Products
  <2> HIDE DEF k, i, j
  <2>7. i = j  BY <1>2, <2>2, <2>3, <2>4, <2>5, <2>6
  <2>8. QED  BY ZenonT(30), <2>7, <1>4, <1>5 DEF c, d, i, j
<1>8. QED  BY ZenonT(30), <1>6, <1>7

-----------------------------------------------------------------------------
(* What a set must hold to hold all that the threads can reach.             *)
Pointed(X, o) ==
  \/ \E a \in roots : PointsTo(root[a], o)
  \/ \E p \in X : \E c \in ClearedCells(p) : PointsTo(mem[c], o)

(* Reachable is closed, and the least such set.                             *)
LEMMA ReachClosed ==
  /\ Reachable \subseteq Objects
  /\ \A o \in Objects : Pointed(Reachable, o) => o \in Reachable
<1> DEFINE cells == [o \in Objects |-> ClearedCells(o)]
<1>1. Reachable = {o \in Objects : \A X \in SUBSET Objects : Closed(X, cells) => o \in X}
  BY ZenonT(30) DEF Reachable, Closure
<1>2. ASSUME NEW X \in SUBSET Objects
      PROVE  Closed(X, cells) <=> \A o \in Objects : Pointed(X, o) => o \in X
  <2>1. \A p \in X : cells[p] = ClearedCells(p)  OBVIOUS
  <2> HIDE DEF cells
  <2>2. QED  BY <2>1, Zenon DEF Closed, Pointed
<1> HIDE DEF cells
<1>3. ASSUME NEW o \in Objects, Pointed(Reachable, o), NEW X \in SUBSET Objects,
             Closed(X, cells)
      PROVE  o \in X
  <2>1. Reachable \subseteq X  BY ZenonT(30), <1>1, <1>3
  <2>2. Pointed(X, o)  BY <2>1, <1>3, Zenon DEF Pointed
  <2>3. QED  BY ZenonT(30), <2>2, <1>2, <1>3
<1>4. QED  BY ZenonT(30), <1>1, <1>3

(* A set that holds what areas and the cleared cells of its members point   *)
(* to holds all that is reachable, before a step ...                        *)
LEMMA ReachLeast ==
  ASSUME NEW X \in SUBSET Objects, \A o \in Objects : Pointed(X, o) => o \in X
  PROVE  Reachable \subseteq X
<1> DEFINE cells == [o \in Objects |-> ClearedCells(o)]
<1>1. Reachable = {o \in Objects : \A Y \in SUBSET Objects : Closed(Y, cells) => o \in Y}
  BY ZenonT(30) DEF Reachable, Closure
<1>2. \A p \in X : cells[p] = ClearedCells(p)  OBVIOUS
<1> HIDE DEF cells
<1>3. Closed(X, cells)  BY <1>2, Zenon DEF Closed, Pointed
<1>4. QED  BY ZenonT(30), <1>1, <1>3

(* ... and after it.                                                        *)
LEMMA ReachLeastNext ==
  ASSUME NEW X \in SUBSET Objects', \A o \in Objects' : Pointed(X, o)' => o \in X
  PROVE  Reachable' \subseteq X
<1> DEFINE cells == [o \in Objects |-> ClearedCells(o)]
<1>1. Reachable' = {o \in Objects' : \A Y \in SUBSET Objects' : Closed(Y, cells)' => o \in Y}
  BY ZenonT(30) DEF Reachable, Closure
<1>2. \A p \in X : cells'[p] = ClearedCells(p)'  OBVIOUS
<1> HIDE DEF cells
<1>3. Closed(X, cells)'  BY <1>2, Zenon DEF Closed, Pointed
<1>4. QED  BY ZenonT(30), <1>1, <1>3

-----------------------------------------------------------------------------
(* The parts of the inductive invariant: how the heap is laid out, ...      *)
Length(c) == Hdr + (IF c \in DOMAIN free THEN free[c] ELSE chunks[c].length)
Layout ==
  /\ \A f \in DOMAIN free : f \in Nat /\ free[f] \in Nat
  /\ WellFormed(chunks)
  /\ DOMAIN free \cap DOMAIN chunks = {}
  /\ \A c \in DOMAIN free \cup DOMAIN chunks : HeapStart <= c /\ c + Length(c) <= HeapEnd
  /\ \A c, d \in DOMAIN free \cup DOMAIN chunks : c < d => c + Length(c) <= d

(* ... which arrays a size class has, ...                                   *)
Arrays ==
  \A k \in Classes :
    /\ sma[k] \in Seq(Nat)
    /\ \A j \in 1..Len(sma[k]) : /\ sma[k][j] \in DOMAIN chunks
                                 /\ chunks[sma[k][j]].class = k

(* ... of what type the rest is, ...                                        *)
Types ==
  /\ sma \in [Classes -> Seq(Nat)]
  /\ colour \in [Objects -> Colours]
  /\ valid \in [Objects -> Nat] /\ \A o \in Objects : valid[o] <= Size(o)
  /\ roots \subseteq Areas /\ root \in [Areas -> Nat]
  /\ \A a \in Areas \ roots : root[a] = 0
  /\ pending \in [Areas -> Nat] /\ mem \in [HeapStart..(HeapEnd - 1) -> Nat]
  /\ phase \in {"mutator", "mark", "sweep", "halted"}
  /\ cursor \in Nat /\ blackened \in BOOLEAN

(* ... that whatever a thread can read is null or points into an object     *)
(* that is in use, ...                                                      *)
Legit(v) == v = 0 \/ \E o \in Objects : PointsTo(v, o)
Sound ==
  /\ \A a \in roots : Legit(root[a])
  /\ \A o \in Reachable : \A c \in ClearedCells(o) : Legit(mem[c])
  /\ \A a \in Areas : pending[a] # 0 =>
       a \in roots /\ \E o \in Objects : root[a] = Base(o) /\ pending[a] <= Size(o)
  /\ ReachableKept

(* ... and how far marking has come.                                        *)
Marking ==
  /\ phase = "mutator" => \A o \in Reachable : colour[o] = "white"
  /\ phase \in {"mark", "sweep"} =>
       \A o \in Objects :
         colour[o] = "white" =>
           /\ \A a \in roots : ~PointsTo(root[a], o)
           /\ \A p \in Reachable : colour[p] = "black" =>
                \A c \in Cells(p) : ~PointsTo(mem[c], o)
  /\ phase = "mark" /\ ~blackened =>
       \A o \in Objects : colour[o] = "grey" => Base(o) >= cursor
  /\ NoGreyInSweep

IInv == Layout /\ Arrays /\ Types /\ Sound /\ Marking

(* Chunks made before a step stay where they are.                           *)
Grown == /\ DOMAIN chunks \subseteq DOMAIN chunks'
         /\ \A c \in DOMAIN chunks : chunks'[c] = chunks[c]

(* The layout keeps used chunks, and all chunks, clear of one another.      *)
LEMMA LayoutFacts == Layout => Apart(chunks) /\ ChunksDisjoint
<1> SUFFICES ASSUME Layout PROVE Apart(chunks) /\ ChunksDisjoint  OBVIOUS
<1>1. Apart(chunks)
  <2> SUFFICES ASSUME NEW c \in DOMAIN chunks, NEW d \in DOMAIN chunks, c < d
               PROVE  c + Hdr + chunks[c].length <= d
    BY ZenonT(30) DEF Apart
  <2>1. c + Length(c) <= d /\ Length(c) = Hdr + chunks[c].length
    BY ZenonT(30) DEF Layout, Length
  <2>2. c \in Nat /\ chunks[c].length \in Nat /\ Hdr \in Nat
    BY ZenonT(30), HeapAssumption DEF Layout, WellFormed
  <2>3. QED  BY <2>1, <2>2
<1>2. ChunksDisjoint  BY ZenonT(30) DEF Layout, Length, ChunksDisjoint
<1>3. QED  BY ZenonT(30), <1>1, <1>2

(* allocate_chunk keeps the chunks apart.                                   *)
LEMMA TakeChunkLayout ==
  ASSUME Layout, NEW n \in Nat, NEW f \in Fit(n), NEW class \in Classes \cup {Large, RootBlock},
         class \in Classes => n = SmaLength(class), TakeChunk(f, n, class)
  PROVE  /\ Layout' /\ Grown /\ f \in Nat /\ f \notin DOMAIN chunks
         /\ DOMAIN chunks' = DOMAIN chunks \cup {f}
         /\ chunks'[f] = [length |-> align(n), class |-> class]
<1> DEFINE m == align(n)
           r == f + Hdr + m
           rest == Rest(f, n)
<1>1. m \in Nat /\ n <= m  BY ZenonT(30), AlignUp
<1>2. /\ f \in DOMAIN free /\ f \in Nat /\ free[f] \in Nat /\ m <= free[f]
      /\ f \notin DOMAIN chunks /\ Hdr \in Nat /\ Hdr <= LoSize /\ LoSize \in Nat
      /\ HeapStart \in Nat /\ HeapEnd \in Nat
  <2>1. f \in DOMAIN free /\ m <= free[f]  BY ZenonT(30) DEF Fit, Fits
  <2>2. Len(SmSizes) \in Classes  BY ClassAssumption DEF Classes
  <2>3. QED  BY ZenonT(30), <2>1, <2>2, ClassFacts, HeapAssumption, ClassAssumption DEF Layout, LoSize
<1>3. rest = {} \/ (rest = {r} /\ free[f] - m > LoSize)  BY ZenonT(30) DEF Rest
<1>4. r \in Nat  BY <1>1, <1>2
<1>5. ASSUME rest = {r}, NEW c \in DOMAIN free \cup DOMAIN chunks PROVE c # r
  <2>1. c \in Nat /\ Length(c) \in Nat
    BY HeapAssumption DEF Layout, Length, WellFormed
  <2>2. free[f] - m > LoSize  BY ZenonT(30), <1>3, <1>5
  <2>3. Length(f) = Hdr + free[f]  BY ZenonT(30), <1>2 DEF Length
  <2>4. (c < f => c + Length(c) <= f) /\ (f < c => f + Length(f) <= c)
    BY ZenonT(30), <1>2 DEF Layout
  <2>5. Hdr # 0  BY ZenonT(30), HeapAssumption
  <2> HIDE DEF m
  <2>6. QED  BY <1>1, <1>2, <2>1, <2>2, <2>3, <2>4, <2>5
<1>6. /\ DOMAIN free' = (DOMAIN free \ {f}) \cup rest
      /\ \A g \in DOMAIN free' : free'[g] = IF g \in rest THEN free[f] - m - Hdr ELSE free[g]
      /\ DOMAIN chunks' = DOMAIN chunks \cup {f}
      /\ chunks'[f] = [length |-> m, class |-> class]
      /\ \A c \in DOMAIN chunks : chunks'[c] = chunks[c]
  BY ZenonT(30), <1>2 DEF TakeChunk
<1>7. Grown  BY ZenonT(30), <1>6 DEF Grown
<1> HIDE DEF m, r, rest
<1>8. WellFormed(chunks)'
  <2>1. class \in Classes => SmaLength(class) <= m  BY ZenonT(30), <1>1
  <2>2. QED  BY <1>1, <1>2, <1>6, <2>1 DEF Layout, WellFormed
<1>9. \A g \in DOMAIN free' : g \in Nat /\ free'[g] \in Nat
  <2>1. rest = {r} => free[f] - m - Hdr \in Nat  BY <1>1, <1>2, <1>3
  <2>2. QED  BY ZenonT(30), <1>3, <1>4, <1>6, <2>1 DEF Layout
<1>10. DOMAIN free' \cap DOMAIN chunks' = {}
  <2>1. rest \cap (DOMAIN chunks \cup {f}) = {}
    BY ZenonT(30), <1>2, <1>3, <1>5
  <2>2. QED  BY ZenonT(30), <1>6, <2>1 DEF Layout
<1> DEFINE All == DOMAIN free \cup DOMAIN chunks
           New == DOMAIN free' \cup DOMAIN chunks'
<1>11. New = All \cup rest  BY ZenonT(30), <1>2, <1>6
<1>12. /\ Length(f)' = Hdr + m
       /\ rest = {r} => Length(r)' = free[f] - m
       /\ \A c \in All \ {f} : Length(c)' = Length(c)
  <2>1. Length(f)' = Hdr + m
    BY <1>2, <1>6, <1>10 DEF Length
  <2>2. ASSUME rest = {r} PROVE Length(r)' = free[f] - m
    <3>1. r \in DOMAIN free' /\ free'[r] = free[f] - m - Hdr  BY ZenonT(30), <1>6, <2>2
    <3>2. Length(r)' = Hdr + free'[r]  BY ZenonT(30), <3>1 DEF Length
    <3>3. QED  BY <3>1, <3>2, <1>1, <1>2
  <2>3. ASSUME NEW c \in All \ {f} PROVE Length(c)' = Length(c)
    <3>1. c \notin rest  BY <1>3, <1>5
    <3>2. (c \in DOMAIN free' <=> c \in DOMAIN free) /\ (c \in DOMAIN free => free'[c] = free[c])
      BY ZenonT(30), <1>6, <3>1
    <3>3. c \notin DOMAIN free => chunks'[c] = chunks[c]  BY ZenonT(30), <1>6
    <3>4. QED  BY ZenonT(30), <3>2, <3>3 DEF Length
  <2>4. QED  BY ZenonT(30), <2>1, <2>2, <2>3
<1>13. /\ \A c \in All : c \in Nat /\ Length(c) \in Nat /\ HeapStart <= c /\ c + Length(c) <= HeapEnd
       /\ \A c, d \in All : c < d => c + Length(c) <= d
       /\ f \in All /\ Length(f) = Hdr + free[f]
  BY <1>2 DEF Layout, Length, WellFormed
<1> HIDE DEF All, New
<1>14. \A c \in New : HeapStart <= c /\ (c + Length(c) <= HeapEnd)'
  <2>1. r = f + Hdr + m  BY ZenonT(30) DEF r
  <2>2. ASSUME NEW c \in New PROVE HeapStart <= c /\ c + Length(c)' <= HeapEnd
    <3>1. CASE c = f  BY <3>1, <1>1, <1>2, <1>12, <1>13
    <3>2. CASE c \in rest
      BY <3>2, <1>1, <1>2, <1>3, <1>12, <1>13, <2>1
    <3>3. CASE c \in All \ {f}  BY ZenonT(30), <3>3, <1>12, <1>13
    <3>4. QED  BY ZenonT(30), <3>1, <3>2, <3>3, <1>11, <2>2
  <2>3. QED  BY ZenonT(30), <2>2
<1>15. \A c, d \in New : c < d => c + Length(c)' <= d
  <2>1. r = f + Hdr + m  BY DEF r
  <2>2. SUFFICES ASSUME NEW c \in New, NEW d \in New, c < d PROVE c + Length(c)' <= d
    OBVIOUS
  <2>3. CASE c \in All /\ d \in All
    BY <2>2, <2>3, <1>1, <1>2, <1>12, <1>13
  <2>4. CASE c \in rest /\ d \in All
    BY <2>2, <2>4, <1>1, <1>2, <1>3, <1>12, <1>13, <2>1
  <2>5. CASE c \in All /\ d \in rest
    BY <2>2, <2>5, <1>1, <1>2, <1>3, <1>12, <1>13, <2>1
  <2>6. CASE c \in rest /\ d \in rest
    BY <2>2, <2>6, <1>3, <1>4
  <2>7. QED  BY ZenonT(30), <2>2, <2>3, <2>4, <2>5, <2>6, <1>11
<1>16. QED
  BY ZenonT(30), <1>2, <1>6, <1>7, <1>8, <1>9, <1>10, <1>14, <1>15 DEF Layout, New, m

(* Objects lie in the heap, after its first address, ...                    *)
LEMMA ObjectBounds ==
  ASSUME Layout, NEW o \in Objects
  PROVE  /\ Base(o) \in Nat /\ Size(o) \in Nat
         /\ 0 < HeapStart /\ HeapStart < Base(o) /\ Base(o) + Size(o) <= HeapEnd
         /\ Cells(o) \subseteq HeapStart..(HeapEnd - 1) /\ ~PointsTo(0, o)
<1>1. /\ o[1] \in DOMAIN chunks /\ Base(o) \in Nat /\ Size(o) \in Nat
      /\ o[1] + Hdr <= Base(o)
      /\ Base(o) + Size(o) <= o[1] + Hdr + chunks[o[1]].length
  BY ZenonT(30), ObjectFacts DEF Layout, Objects, Base, Size
<1>2. /\ o[1] \in Nat /\ chunks[o[1]].length \in Nat /\ HeapStart <= o[1]
      /\ o[1] + Length(o[1]) <= HeapEnd /\ Length(o[1]) = Hdr + chunks[o[1]].length
  BY ZenonT(30), <1>1 DEF Layout, WellFormed, Length
<1>3. HeapStart \in Nat \ {0} /\ HeapEnd \in Nat /\ Hdr \in Nat \ {0}  BY ZenonT(30), HeapAssumption
<1>4. 0 < HeapStart /\ HeapStart < Base(o) /\ Base(o) + Size(o) <= HeapEnd
  BY <1>1, <1>2, <1>3
<1>5. QED  BY <1>1, <1>3, <1>4 DEF Cells, PointsTo

(* ... and do not overlap.                                                  *)
LEMMA Unique ==
  ASSUME Layout, NEW v \in Int, NEW o \in Objects, NEW p \in Objects,
         PointsTo(v, o), PointsTo(v, p)
  PROVE  o = p
BY ZenonT(30), OneObject, LayoutFacts DEF Layout, Objects, PointsTo, Base, Size

(* The same after a step.                                                   *)
LEMMA UniqueNext ==
  ASSUME Layout', NEW v \in Int, NEW o \in Objects', NEW p \in Objects',
         PointsTo(v, o)', PointsTo(v, p)'
  PROVE  o = p
<1>1. Apart(chunks')
  <2> SUFFICES ASSUME NEW c \in DOMAIN chunks', NEW d \in DOMAIN chunks', c < d
               PROVE  c + Hdr + chunks'[c].length <= d
    BY ZenonT(30) DEF Apart
  <2>1. c + Length(c)' <= d /\ Length(c)' = Hdr + chunks'[c].length
    BY ZenonT(30) DEF Layout, Length
  <2>2. c \in Nat /\ chunks'[c].length \in Nat /\ Hdr \in Nat
    BY ZenonT(30), HeapAssumption DEF Layout, WellFormed
  <2>3. QED  BY <2>1, <2>2
<1>2. QED  BY ZenonT(30), <1>1, OneObject DEF Layout, Objects, PointsTo, Base, Size

(* Objects lie after the null address, after a step too.                    *)
LEMMA ObjectBoundsNext ==
  ASSUME Layout', NEW o \in Objects'
  PROVE  /\ Base(o)' \in Nat /\ Size(o)' \in Nat /\ ~PointsTo(0, o)'
<1>1. /\ o[1] \in DOMAIN chunks' /\ Base(o)' \in Nat /\ Size(o)' \in Nat
      /\ o[1] + Hdr <= Base(o)'
  BY ZenonT(30), ObjectFacts DEF Layout, Objects, Base, Size
<1>2. o[1] \in Nat  BY ZenonT(30), <1>1 DEF Layout, WellFormed
<1>3. Hdr \in Nat \ {0}  BY ZenonT(30), HeapAssumption
<1>4. QED  BY <1>1, <1>2, <1>3 DEF PointsTo

(* Objects stay where they are when chunks are added.                       *)
LEMMA GrownObjects ==
  ASSUME Layout, Grown
  PROVE  /\ Objects \subseteq Objects'
         /\ \A o \in Objects : Base(o)' = Base(o) /\ Size(o)' = Size(o)
         /\ \A o \in Objects : \A v : PointsTo(v, o)' <=> PointsTo(v, o)
<1>1. ASSUME NEW o \in Objects
      PROVE  o \in Objects' /\ Base(o)' = Base(o) /\ Size(o)' = Size(o)
  <2>1. /\ o = <<o[1], o[2]>> /\ o[1] \in DOMAIN chunks
        /\ o[2] \in 0..(Slots(chunks[o[1]].class) - 1)
    BY ZenonT(30), ObjectFacts DEF Layout, Objects
  <2>2. o[1] \in DOMAIN chunks' /\ chunks'[o[1]] = chunks[o[1]]  BY ZenonT(30), <2>1 DEF Grown
  <2>3. o \in Objects'  BY <2>1, <2>2 DEF Objects, ObjectsIn
  <2>4. QED  BY ZenonT(30), <2>2, <2>3 DEF Base, Size, BaseIn, SizeIn
<1>2. QED  BY ZenonT(30), <1>1 DEF PointsTo

-----------------------------------------------------------------------------
(* An object that is handed out was free, so no thread could reach it, and  *)
(* what the threads can reach from now on is what they could before and it. *)
LEMMA GiveStep ==
  ASSUME IInv, phase = "mutator", Layout', Grown, sma' \in [Classes -> Seq(Nat)],
         NEW o \in Objects', o \in Objects => colour[o] = "free",
         NEW a \in roots, NEW n \in Nat \ {0}, n <= Size(o)', Give(o, a, n)
  PROVE  Types' /\ Sound' /\ Marking'
<1> USE DEF IInv
<1>1. /\ Objects \subseteq Objects'
      /\ \A p \in Objects : Base(p)' = Base(p) /\ Size(p)' = Size(p)
      /\ \A p \in Objects : \A v : PointsTo(v, p)' <=> PointsTo(v, p)
  BY ZenonT(30), GrownObjects
<1>2. /\ roots' = roots /\ mem' = mem /\ phase' = phase /\ cursor' = cursor
      /\ blackened' = blackened
  BY ZenonT(30) DEF Give, gcvars
<1>3. /\ colour' \in [Objects' -> Colours]
      /\ colour'[o] = "white"
      /\ \A p \in Objects \ {o} : colour'[p] = colour[p]
  <2>1. PICK s \in [Uncleared(Objects' \ Objects) -> Stale] :
          colour' = [p \in Objects' |-> IF p = o THEN "white"
                                        ELSE IF p \in Objects THEN colour[p]
                                        ELSE IF p \in DOMAIN s THEN s[p] ELSE "free"]
    BY ZenonT(30) DEF Give
  <2>2. \A p \in DOMAIN s : s[p] \in Colours  BY ZenonT(30), MemoryAssumption
  <2>3. QED  BY ZenonT(30), <1>1, <2>1, <2>2 DEF Types, Colours
<1>4. /\ valid' \in [Objects' -> Nat] /\ valid'[o] = 0
      /\ \A p \in Objects \ {o} : valid'[p] = valid[p]
      /\ \A p \in Objects' : p \notin Objects => valid'[p] = 0
  BY ZenonT(30), <1>1 DEF Give, Types
<1>5. /\ Base(o)' \in Nat /\ Size(o)' \in Nat /\ PointsTo(Base(o), o)'
      /\ \A p \in Objects' : Size(p)' \in Nat
  BY ObjectBoundsNext DEF PointsTo
<1>6. /\ a \in Areas /\ root' = [root EXCEPT ![a] = Base(o)']
      /\ pending' = [pending EXCEPT ![a] = n]
      /\ root \in [Areas -> Nat] /\ pending \in [Areas -> Nat] /\ roots \subseteq Areas
  BY ZenonT(30) DEF Types, Give, Base
<1>7. Types'
  <2>1. root' \in [Areas -> Nat] /\ pending' \in [Areas -> Nat]  BY ZenonT(30), <1>5, <1>6
  <2>2. \A p \in Objects' : valid'[p] <= Size(p)'
    <3>1. \A p \in Objects' : p = o \/ p \notin Objects => valid'[p] <= Size(p)'
      BY <1>4, <1>5
    <3>2. \A p \in Objects \ {o} : valid'[p] <= Size(p)'  BY ZenonT(30), <1>1, <1>4 DEF Types
    <3>3. QED  BY ZenonT(30), <3>1, <3>2
  <2>3. \A b \in Areas \ roots' : root'[b] = 0  BY ZenonT(30), <1>2, <1>6 DEF Types
  <2>4. QED  BY ZenonT(30), <1>2, <1>3, <1>4, <2>1, <2>2, <2>3 DEF Types
<1>8. ASSUME NEW v, Legit(v) PROVE Legit(v)'
  BY ZenonT(30), <1>1, <1>8 DEF Legit
<1>9. \A p \in Objects \ {o} : ClearedCells(p)' = ClearedCells(p)
  BY ZenonT(30), <1>1, <1>4 DEF ClearedCells
<1>10. ClearedCells(o)' = {}  BY <1>4, <1>5 DEF ClearedCells
<1>11. Reachable' \subseteq Reachable \cup {o}
  <2>0. PICK X : X = Reachable \cup {o}  BY Zenon
  <2>1. X \subseteq Objects'  BY ZenonT(30), <1>1, <2>0, ReachClosed
  <2>2. ASSUME NEW q \in Objects', NEW v \in Int, Legit(v), PointsTo(v, q)'
        PROVE  q \in Objects /\ PointsTo(v, q)
    <3>1. v # 0  BY ZenonT(30), <2>2, ObjectBoundsNext
    <3>2. PICK p \in Objects : PointsTo(v, p)  BY ZenonT(30), <2>2, <3>1 DEF Legit
    <3>3. p \in Objects' /\ PointsTo(v, p)'  BY ZenonT(30), <1>1, <3>2
    <3>4. p = q  BY ZenonT(30), <2>2, <3>3, UniqueNext
    <3>5. QED  BY ZenonT(30), <3>2, <3>4
  <2>3. ASSUME NEW q \in Objects', NEW b \in roots, PointsTo(root[b], q)'
        PROVE  q \in X
    <3>1. CASE b = a
      <4>1. root'[b] = Base(o)'  BY ZenonT(30), <1>6, <3>1
      <4>2. q = o  BY <4>1, <1>5, <2>3, UniqueNext DEF PointsTo
      <4>3. QED  BY ZenonT(30), <2>0, <4>2
    <3>2. CASE b # a
      <4>1. root'[b] = root[b] /\ root[b] \in Int  BY <1>6, <3>2
      <4>2. Legit(root[b])  BY ZenonT(30) DEF Sound
      <4>3. q \in Objects /\ PointsTo(root[b], q)  BY ZenonT(30), <2>2, <2>3, <4>1, <4>2 DEF PointsTo
      <4>4. QED  BY ZenonT(30), <2>0, <4>3, ReachClosed DEF Pointed
    <3>3. QED  BY ZenonT(30), <3>1, <3>2
  <2>4. ASSUME NEW q \in Objects', NEW p \in X, NEW c \in ClearedCells(p)',
               PointsTo(mem[c], q)'
        PROVE  q \in X
    <3>1. p \in Reachable /\ p # o  BY ZenonT(30), <1>10, <2>0, <2>4
    <3>2. p \in Objects \ {o}  BY ZenonT(30), <3>1, ReachClosed
    <3>3. c \in ClearedCells(p)  BY ZenonT(30), <1>9, <2>4, <3>2
    <3>4. mem[c] \in Int
      <4>1. c \in Cells(p)
        BY <3>2, <3>3, ObjectBounds DEF ClearedCells, Cells, Types
      <4>2. QED  BY <4>1, <3>2, ObjectBounds DEF Types
    <3>5. Legit(mem[c])  BY ZenonT(30), <3>1, <3>3 DEF Sound
    <3>6. q \in Objects /\ PointsTo(mem[c], q)  BY ZenonT(30), <1>2, <2>2, <2>4, <3>4, <3>5 DEF PointsTo
    <3>7. QED  BY ZenonT(30), <2>0, <3>1, <3>3, <3>6, ReachClosed DEF Pointed
  <2>5. ASSUME NEW q \in Objects', Pointed(X, q)' PROVE q \in X
    BY ZenonT(30), <1>2, <2>3, <2>4, <2>5 DEF Pointed
  <2>6. Reachable' \subseteq X  BY ZenonT(30), <2>1, <2>5, ReachLeastNext
  <2>7. QED  BY ZenonT(30), <2>0, <2>6
<1>12. \A b \in roots' : Legit(root[b])'
  <2>1. Legit(Base(o))'  BY ZenonT(30), <1>5 DEF Legit, PointsTo
  <2>2. \A b \in roots : b # a => root'[b] = root[b]  BY ZenonT(30), <1>6
  <2>3. \A b \in roots : b # a => Legit(root[b])'  BY ZenonT(30), <1>8, <2>2 DEF Sound, Legit
  <2>4. root'[a] = Base(o)'  BY ZenonT(30), <1>6
  <2>5. Legit(root[a])'  BY ZenonT(30), <2>1, <2>4 DEF Legit
  <2>6. QED  BY ZenonT(30), <1>2, <2>3, <2>5
<1>13. \A p \in Reachable' : \A c \in ClearedCells(p)' : Legit(mem[c])'
  <2>1. SUFFICES ASSUME NEW p \in Reachable', NEW c \in ClearedCells(p)' PROVE Legit(mem[c])'
    OBVIOUS
  <2>2. p \in Reachable /\ p # o  BY ZenonT(30), <1>10, <1>11, <2>1
  <2>3. c \in ClearedCells(p)  BY ZenonT(30), <1>9, <2>1, <2>2, ReachClosed
  <2>4. Legit(mem[c])  BY ZenonT(30), <2>2, <2>3 DEF Sound
  <2>5. QED  BY ZenonT(30), <1>2, <1>8, <2>4 DEF Legit
<1>14. \A b \in Areas : pending'[b] # 0 =>
         b \in roots' /\ \E p \in Objects' : root'[b] = Base(p)' /\ pending'[b] <= Size(p)'
  <2>1. root'[a] = Base(o)' /\ pending'[a] = n  BY ZenonT(30), <1>6
  <2>2. \A b \in Areas \ {a} : root'[b] = root[b] /\ pending'[b] = pending[b]  BY ZenonT(30), <1>6
  <2>3. \A b \in Areas \ {a} : pending'[b] # 0 =>
          b \in roots' /\ \E p \in Objects' : root'[b] = Base(p)' /\ pending'[b] <= Size(p)'
    BY ZenonT(30), <1>1, <1>2, <2>2 DEF Sound
  <2>4. QED  BY ZenonT(30), <1>2, <2>1, <2>3
<1>15. ReachableKept'
  <2>1. ASSUME NEW p \in Reachable' PROVE colour'[p] # "free"
    <3>1. CASE p = o  BY ZenonT(30), <1>3, <3>1
    <3>2. CASE p # o
      <4>1. p \in Reachable /\ p \in Objects  BY ZenonT(30), <1>11, <2>1, <3>2, ReachClosed
      <4>2. colour'[p] = colour[p]  BY ZenonT(30), <1>3, <3>2, <4>1
      <4>3. QED  BY ZenonT(30), <4>1, <4>2 DEF Sound, ReachableKept
    <3>3. QED  BY ZenonT(30), <3>1, <3>2
  <2>2. QED  BY ZenonT(30), <2>1 DEF ReachableKept
<1>16. Sound'  BY ZenonT(30), <1>12, <1>13, <1>14, <1>15 DEF Sound
<1>17. Marking'
  <2>1. phase' = "mutator"  BY ZenonT(30), <1>2
  <2>2. \A p \in Reachable' : colour'[p] = "white"
    BY ZenonT(30), <1>3, <1>11, ReachClosed DEF Marking
  <2>3. QED  BY ZenonT(30), <2>1, <2>2 DEF Marking, NoGreyInSweep
<1>18. QED  BY ZenonT(30), <1>7, <1>16, <1>17

-----------------------------------------------------------------------------
(* What the threads read is null or a reference to what they can reach.     *)
LEMMA Edges ==
  ASSUME IInv
  PROVE  /\ \A a \in roots : root[a] \in Int /\ (root[a] = 0 \/ \E q \in Reachable : PointsTo(root[a], q))
         /\ \A p \in Reachable : \A c \in ClearedCells(p) :
              /\ c \in HeapStart..(HeapEnd - 1) /\ mem[c] \in Int
              /\ mem[c] = 0 \/ \E q \in Reachable : PointsTo(mem[c], q)
<1> USE DEF IInv
<1>1. ASSUME NEW a \in roots
      PROVE  root[a] \in Int /\ (root[a] = 0 \/ \E q \in Reachable : PointsTo(root[a], q))
  <2>1. root[a] \in Int  BY DEF Types
  <2>2. root[a] = 0 \/ \E q \in Objects : PointsTo(root[a], q)  BY ZenonT(30) DEF Sound, Legit
  <2>3. \A q \in Objects : PointsTo(root[a], q) => q \in Reachable
    BY ZenonT(30), ReachClosed DEF Pointed
  <2>4. QED  BY ZenonT(30), <2>1, <2>2, <2>3
<1>2. ASSUME NEW p \in Reachable, NEW c \in ClearedCells(p)
      PROVE  /\ c \in HeapStart..(HeapEnd - 1) /\ mem[c] \in Int
             /\ mem[c] = 0 \/ \E q \in Reachable : PointsTo(mem[c], q)
  <2>1. p \in Objects  BY ZenonT(30), ReachClosed
  <2>2. c \in Cells(p)  BY <1>2, <2>1, ObjectBounds DEF ClearedCells, Cells, Types
  <2>3. c \in HeapStart..(HeapEnd - 1) /\ mem[c] \in Int
    BY <2>1, <2>2, ObjectBounds DEF Types
  <2>4. mem[c] = 0 \/ \E q \in Objects : PointsTo(mem[c], q)  BY ZenonT(30) DEF Sound, Legit
  <2>5. \A q \in Objects : PointsTo(mem[c], q) => q \in Reachable
    BY ZenonT(30), ReachClosed DEF Pointed
  <2>6. QED  BY ZenonT(30), <2>3, <2>4, <2>5
<1>3. QED  BY ZenonT(30), <1>1, <1>2

(* A step after which that is still so reaches nothing new.                 *)
LEMMA MutateStep ==
  ASSUME IInv, Layout', Grown, Objects' = Objects, \A o \in Reachable : colour'[o] # "free",
         \A a \in roots' :
           root'[a] \in Int /\ (root'[a] = 0 \/ \E q \in Reachable : PointsTo(root[a], q)'),
         \A p \in Reachable : \A c \in ClearedCells(p)' :
           mem'[c] \in Int /\ (mem'[c] = 0 \/ \E q \in Reachable : PointsTo(mem[c], q)'),
         \A a \in Areas : pending'[a] # 0 =>
           a \in roots' /\ \E o \in Objects' : root'[a] = Base(o)' /\ pending'[a] <= Size(o)'
  PROVE  Sound' /\ Reachable' \subseteq Reachable
<1>1. PICK X : X = Reachable  OBVIOUS
<1>2. X \subseteq Objects'  BY ZenonT(30), <1>1, ReachClosed
<1>3. ASSUME NEW o \in Objects', NEW a \in roots', PointsTo(root[a], o)' PROVE o \in X
  <2>1. root'[a] # 0  BY ZenonT(30), <1>3, ObjectBoundsNext DEF PointsTo
  <2>2. PICK q \in X : PointsTo(root[a], q)'  BY ZenonT(30), <1>1, <2>1
  <2>3. q = o  BY ZenonT(30), <1>2, <1>3, <2>2, UniqueNext DEF PointsTo
  <2>4. QED  BY ZenonT(30), <2>3
<1>4. ASSUME NEW o \in Objects', NEW p \in X, NEW c \in ClearedCells(p)', PointsTo(mem[c], o)'
      PROVE  o \in X
  <2>1. mem'[c] # 0  BY ZenonT(30), <1>4, ObjectBoundsNext DEF PointsTo
  <2>2. PICK q \in X : PointsTo(mem[c], q)'  BY ZenonT(30), <1>1, <2>1
  <2>3. mem'[c] \in Int  BY ZenonT(30), <1>1
  <2>4. q = o  BY ZenonT(30), <1>2, <1>4, <2>2, <2>3, UniqueNext DEF PointsTo
  <2>5. QED  BY ZenonT(30), <2>4
<1>5. Reachable' \subseteq X
  <2>1. \A o \in Objects' : Pointed(X, o)' => o \in X  BY ZenonT(30), <1>3, <1>4 DEF Pointed
  <2>2. QED  BY ZenonT(30), <1>2, <2>1, ReachLeastNext
<1>6. \A a \in roots' : Legit(root[a])'  BY ZenonT(30), <1>1, <1>2 DEF Legit
<1>7. \A o \in Reachable' : \A c \in ClearedCells(o)' : Legit(mem[c])'
  BY ZenonT(30), <1>1, <1>2, <1>5 DEF Legit
<1>8. ReachableKept'  BY ZenonT(30), <1>1, <1>5 DEF ReachableKept
<1>9. QED  BY ZenonT(30), <1>1, <1>5, <1>6, <1>7, <1>8 DEF Sound

(* The chunks, and so the objects, are the same after a step.               *)
LEMMA SameChunks ==
  ASSUME IInv, UNCHANGED <<free, chunks>>
  PROVE  /\ Layout' /\ Grown /\ Objects' = Objects
         /\ \A o \in Objects : Base(o)' = Base(o) /\ Size(o)' = Size(o) /\ Cells(o)' = Cells(o)
         /\ \A o \in Objects : \A v : PointsTo(v, o)' <=> PointsTo(v, o)
<1>1. Layout'
  <2>1. free' = free /\ chunks' = chunks  OBVIOUS
  <2>2. \A c : Length(c)' = Length(c)  BY ZenonT(30), <2>1 DEF Length
  <2>3. WellFormed(chunks)'  BY ZenonT(30), <2>1 DEF IInv, Layout, WellFormed
  <2>4. QED  BY ZenonT(30), <2>1, <2>2, <2>3 DEF IInv, Layout
<1>2. Grown /\ Objects' = Objects  BY ZenonT(30) DEF Grown, Objects
<1>3. QED  BY ZenonT(30), <1>1, <1>2 DEF Base, Size, Cells, PointsTo

(* A step that leaves all references and cells alone and frees nothing that *)
(* can be reached keeps what the threads read sound.                        *)
LEMMA SameGraph ==
  ASSUME IInv, UNCHANGED <<free, chunks, roots, root, mem, pending>>,
         \A o \in Reachable : colour'[o] # "free" /\ valid'[o] = valid[o]
  PROVE  Sound' /\ Reachable' \subseteq Reachable
<1> USE DEF IInv
<1>1. /\ Layout' /\ Grown /\ Objects' = Objects
      /\ \A p \in Objects : Base(p)' = Base(p) /\ Size(p)' = Size(p) /\ Cells(p)' = Cells(p)
      /\ \A p \in Objects : \A u : PointsTo(u, p)' <=> PointsTo(u, p)
  BY ZenonT(30), SameChunks
<1>2. \A b \in roots' :
        root'[b] \in Int /\ (root'[b] = 0 \/ \E q \in Reachable : PointsTo(root[b], q)')
  BY ZenonT(30), <1>1, Edges, ReachClosed DEF PointsTo
<1>3. ASSUME NEW p \in Reachable, NEW c \in ClearedCells(p)'
      PROVE  mem'[c] \in Int /\ (mem'[c] = 0 \/ \E q \in Reachable : PointsTo(mem[c], q)')
  <2>1. c \in ClearedCells(p)  BY ZenonT(30), <1>1, <1>3, ReachClosed DEF ClearedCells
  <2>2. QED  BY ZenonT(30), <1>1, <2>1, Edges, ReachClosed DEF PointsTo
<1>4. \A b \in Areas : pending'[b] # 0 =>
        b \in roots' /\ \E p \in Objects' : root'[b] = Base(p)' /\ pending'[b] <= Size(p)'
  BY ZenonT(30), <1>1 DEF Sound
<1>5. QED  BY ZenonT(30), <1>1, <1>2, <1>3, <1>4, MutateStep

-----------------------------------------------------------------------------
(* What threads do, and Alloc and AddRoots for them *)

(* MemSet clears cells of the one object that was handed to the thread.     *)
LEMMA ClearStep == ASSUME IInv, NEW a \in Areas, Clear(a) PROVE IInv'
<1> USE DEF IInv
<1>1. UNCHANGED <<free, chunks, sma, colour, roots, root, phase, cursor, blackened>>
  BY ZenonT(30) DEF Clear, heapvars, gcvars
<1>2. /\ Layout' /\ Grown /\ Objects' = Objects
      /\ \A o \in Objects : Base(o)' = Base(o) /\ Size(o)' = Size(o) /\ Cells(o)' = Cells(o)
      /\ \A o \in Objects : \A v : PointsTo(v, o)' <=> PointsTo(v, o)
  BY ZenonT(30), <1>1, SameChunks
<1>3. phase = "mutator" /\ pending[a] # 0 /\ pending' = [pending EXCEPT ![a] = 0]
  BY ZenonT(30) DEF Clear
<1> DEFINE n == pending[a]
<1>4. PICK o \in Objects :
        /\ PointsTo(root[a], o)
        /\ mem' = [c \in DOMAIN mem |-> IF c \in Base(o)..(Base(o) + n - 1) THEN 0 ELSE mem[c]]
        /\ valid' = [valid EXCEPT ![o] = n]
  BY ZenonT(30) DEF Clear
<1>5. n \in Nat /\ n <= Size(o) /\ a \in roots
  <2>1. PICK q \in Objects : root[a] = Base(q) /\ n <= Size(q)  BY ZenonT(30), <1>3 DEF Sound
  <2>2. n \in Nat /\ n # 0 /\ root[a] \in Int  BY <1>3 DEF Types
  <2>3. PointsTo(root[a], q)  BY <2>1, <2>2, ObjectBounds DEF PointsTo
  <2>4. q = o  BY ZenonT(30), <1>4, <2>2, <2>3, Unique
  <2>5. QED  BY ZenonT(30), <1>3, <2>1, <2>2, <2>4 DEF Sound
<1> HIDE DEF n
<1>6. /\ mem' \in [HeapStart..(HeapEnd - 1) -> Nat]
      /\ \A c \in HeapStart..(HeapEnd - 1) : mem'[c] = 0 \/ mem'[c] = mem[c]
      /\ \A c \in Base(o)..(Base(o) + n - 1) : c \in HeapStart..(HeapEnd - 1) => mem'[c] = 0
  BY ZenonT(30), <1>4 DEF Types
<1>7. /\ valid' \in [Objects -> Nat] /\ valid'[o] = n
      /\ \A p \in Objects \ {o} : valid'[p] = valid[p]
  BY ZenonT(30), <1>4, <1>5 DEF Types
<1>8. Types'
  <2>1. pending' \in [Areas -> Nat]  BY ZenonT(30), <1>3 DEF Types
  <2>2. \A p \in Objects : valid[p] <= Size(p) /\ Size(p)' = Size(p)  BY ZenonT(30), <1>2 DEF Types
  <2>3. valid'[o] <= Size(o)'  BY ZenonT(30), <1>5, <1>7, <2>2
  <2>4. \A p \in Objects \ {o} : valid'[p] <= Size(p)'  BY ZenonT(30), <1>7, <2>2
  <2>5. \A p \in Objects' : valid'[p] <= Size(p)'  BY ZenonT(30), <1>2, <2>3, <2>4
  <2>6. QED  BY ZenonT(30), <1>1, <1>2, <1>6, <1>7, <2>1, <2>5 DEF Types
<1>9. ASSUME NEW p \in Reachable, NEW c \in ClearedCells(p)'
      PROVE  mem'[c] \in Int /\ (mem'[c] = 0 \/ \E q \in Reachable : PointsTo(mem[c], q)')
  <2>1. p \in Objects  BY ZenonT(30), ReachClosed
  <2>2. CASE p = o
    <3>1. c \in Base(o)..(Base(o) + n - 1)  BY ZenonT(30), <1>2, <1>7, <1>9, <2>2 DEF ClearedCells
    <3>2. c \in HeapStart..(HeapEnd - 1)
      BY <1>5, <3>1, ObjectBounds DEF Cells
    <3>3. mem'[c] = 0  BY ZenonT(30), <1>6, <3>1, <3>2
    <3>4. QED  BY <3>3
  <2>3. CASE p # o
    <3>1. c \in ClearedCells(p)  BY ZenonT(30), <1>2, <1>7, <1>9, <2>1, <2>3 DEF ClearedCells
    <3>2. /\ c \in HeapStart..(HeapEnd - 1) /\ mem[c] \in Int
          /\ mem[c] = 0 \/ \E q \in Reachable : PointsTo(mem[c], q)
      BY ZenonT(30), <3>1, Edges
    <3>3. CASE mem'[c] = 0  BY <3>3
    <3>4. CASE mem'[c] = mem[c]
      BY ZenonT(30), <1>2, <3>2, <3>4, ReachClosed DEF PointsTo
    <3>5. QED  BY ZenonT(30), <1>6, <3>2, <3>3, <3>4
  <2>4. QED  BY ZenonT(30), <2>2, <2>3
<1>10. \A b \in roots' :
         root'[b] \in Int /\ (root'[b] = 0 \/ \E q \in Reachable : PointsTo(root[b], q)')
  BY ZenonT(30), <1>1, <1>2, Edges, ReachClosed DEF PointsTo
<1>11. \A b \in Areas : pending'[b] # 0 =>
         b \in roots' /\ \E p \in Objects' : root'[b] = Base(p)' /\ pending'[b] <= Size(p)'
  <2>1. \A b \in Areas : pending'[b] # 0 => pending'[b] = pending[b]  BY ZenonT(30), <1>3 DEF Types
  <2>2. QED  BY ZenonT(30), <1>1, <1>2, <2>1 DEF Sound
<1>12. Sound' /\ Reachable' \subseteq Reachable
  <2>1. \A p \in Reachable : colour'[p] # "free"  BY ZenonT(30), <1>1 DEF Sound, ReachableKept
  <2>2. QED  BY ZenonT(30), <1>2, <1>9, <1>10, <1>11, <2>1, MutateStep
<1>13. Marking'  BY ZenonT(30), <1>1, <1>2, <1>3, <1>12 DEF Marking, NoGreyInSweep
<1>14. Arrays'  BY ZenonT(30), <1>1 DEF Arrays
<1>15. QED  BY ZenonT(30), <1>2, <1>8, <1>12, <1>13, <1>14

(* A reference a thread can have come by is null or points to what it can   *)
(* reach.                                                                   *)
LEMMA ReferenceFacts ==
  ASSUME IInv, NEW v \in References(Reachable)
  PROVE  v \in Nat /\ (v = 0 \/ \E q \in Reachable : PointsTo(v, q))
<1>1. CASE v = 0  BY ZenonT(30), <1>1
<1>2. CASE v # 0
  <2>1. PICK q \in Reachable : \E i \in Offsets : i < valid[q] /\ v = Base(q) + i
    BY ZenonT(30), <1>2 DEF References
  <2>2. PICK i \in Offsets : i < valid[q] /\ v = Base(q) + i  BY ZenonT(30), <2>1
  <2>3. q \in Objects /\ i \in Nat  BY ZenonT(30), ReachClosed, MutatorAssumption
  <2>4. Base(q) \in Nat /\ Size(q) \in Nat /\ valid[q] \in Nat /\ valid[q] <= Size(q)
    BY ZenonT(30), <2>3, ObjectBounds DEF IInv, Types
  <2>5. v \in Nat /\ PointsTo(v, q)  BY <2>2, <2>3, <2>4 DEF PointsTo
  <2>6. QED  BY ZenonT(30), <2>5
<1>3. QED  BY ZenonT(30), <1>1, <1>2

(* A thread stores a reference to what it can reach: nothing new is         *)
(* reachable.                                                               *)
LEMMA StoreStep ==
  ASSUME IInv, NEW o \in Reachable, NEW i \in Fields, NEW v \in References(Reachable),
         Store(o, i, v)
  PROVE  IInv'
<1> USE DEF IInv
<1>1. UNCHANGED <<free, chunks, sma, colour, roots, root, pending, valid, phase, cursor, blackened>>
  BY ZenonT(30) DEF Store, heapvars, gcvars
<1>2. /\ Layout' /\ Grown /\ Objects' = Objects
      /\ \A p \in Objects : Base(p)' = Base(p) /\ Size(p)' = Size(p) /\ Cells(p)' = Cells(p)
      /\ \A p \in Objects : \A u : PointsTo(u, p)' <=> PointsTo(u, p)
  BY ZenonT(30), <1>1, SameChunks
<1>3. phase = "mutator" /\ mem' = [mem EXCEPT ![Base(o) + i] = v]  BY ZenonT(30) DEF Store
<1>4. v \in Nat /\ (v = 0 \/ \E q \in Reachable : PointsTo(v, q))  BY ZenonT(30), ReferenceFacts
<1>5. Types'  BY ZenonT(30), <1>1, <1>2, <1>3, <1>4 DEF Types
<1>6. ASSUME NEW p \in Reachable, NEW c \in ClearedCells(p)'
      PROVE  mem'[c] \in Int /\ (mem'[c] = 0 \/ \E q \in Reachable : PointsTo(mem[c], q)')
  <2>1. c \in ClearedCells(p)  BY ZenonT(30), <1>1, <1>2, <1>6, ReachClosed DEF ClearedCells
  <2>2. /\ c \in HeapStart..(HeapEnd - 1) /\ mem[c] \in Int
        /\ mem[c] = 0 \/ \E q \in Reachable : PointsTo(mem[c], q)
    BY ZenonT(30), <2>1, Edges
  <2>3. mem'[c] = v \/ mem'[c] = mem[c]  BY ZenonT(30), <1>3, <2>2 DEF Types
  <2>4. CASE mem'[c] = v  BY <1>2, <1>4, <2>4, ReachClosed DEF PointsTo
  <2>5. CASE mem'[c] = mem[c]  BY ZenonT(30), <1>2, <2>2, <2>5, ReachClosed DEF PointsTo
  <2>6. QED  BY ZenonT(30), <2>3, <2>4, <2>5
<1>7. \A b \in roots' :
        root'[b] \in Int /\ (root'[b] = 0 \/ \E q \in Reachable : PointsTo(root[b], q)')
  BY ZenonT(30), <1>1, <1>2, Edges, ReachClosed DEF PointsTo
<1>8. Sound' /\ Reachable' \subseteq Reachable
  <2>1. \A p \in Reachable : colour'[p] # "free"  BY ZenonT(30), <1>1 DEF Sound, ReachableKept
  <2>2. \A b \in Areas : pending'[b] # 0 =>
          b \in roots' /\ \E p \in Objects' : root'[b] = Base(p)' /\ pending'[b] <= Size(p)'
    BY ZenonT(30), <1>1, <1>2 DEF Sound
  <2>3. QED  BY ZenonT(30), <1>2, <1>6, <1>7, <2>1, <2>2, MutateStep
<1>9. Marking'  BY ZenonT(30), <1>1, <1>2, <1>3, <1>8 DEF Marking, NoGreyInSweep
<1>10. Arrays'  BY ZenonT(30), <1>1 DEF Arrays
<1>11. QED  BY ZenonT(30), <1>2, <1>5, <1>8, <1>9, <1>10

(* Nor when it keeps such a reference on its stack.                         *)
LEMMA LoadStep ==
  ASSUME IInv, NEW a \in Areas, NEW v \in References(Reachable), Load(a, v)
  PROVE  IInv'
<1> USE DEF IInv
<1>1. UNCHANGED <<free, chunks, sma, colour, roots, mem, pending, valid, phase, cursor, blackened>>
  BY ZenonT(30) DEF Load, heapvars, gcvars
<1>2. /\ Layout' /\ Grown /\ Objects' = Objects
      /\ \A p \in Objects : Base(p)' = Base(p) /\ Size(p)' = Size(p) /\ Cells(p)' = Cells(p)
      /\ \A p \in Objects : \A u : PointsTo(u, p)' <=> PointsTo(u, p)
  BY ZenonT(30), <1>1, SameChunks
<1>3. phase = "mutator" /\ pending[a] = 0 /\ root' = [root EXCEPT ![a] = v]
  BY ZenonT(30) DEF Load, Ready
<1>4. v \in Nat /\ (v = 0 \/ \E q \in Reachable : PointsTo(v, q))  BY ZenonT(30), ReferenceFacts
<1>5. Types'
  <2>1. root' \in [Areas -> Nat]  BY ZenonT(30), <1>3, <1>4 DEF Types
  <2>2. a \in roots  BY ZenonT(30) DEF Load, Ready
  <2>3. \A b \in Areas \ roots' : root'[b] = 0  BY ZenonT(30), <1>1, <1>3, <2>2 DEF Types
  <2>4. QED  BY ZenonT(30), <1>1, <1>2, <2>1, <2>3 DEF Types
<1>6. \A b \in Areas : b # a => root'[b] = root[b]  BY ZenonT(30), <1>3 DEF Types
<1>7. root'[a] = v  BY ZenonT(30), <1>3 DEF Types
<1>8. ASSUME NEW b \in roots'
      PROVE  root'[b] \in Int /\ (root'[b] = 0 \/ \E q \in Reachable : PointsTo(root[b], q)')
  <2>1. CASE b = a  BY <1>2, <1>4, <1>7, <2>1, ReachClosed DEF PointsTo
  <2>2. CASE b # a
    <3>1. b \in roots /\ root'[b] = root[b]  BY ZenonT(30), <1>1, <1>6, <1>8, <2>2 DEF Types
    <3>2. QED  BY ZenonT(30), <1>2, <3>1, Edges, ReachClosed DEF PointsTo
  <2>3. QED  BY ZenonT(30), <2>1, <2>2
<1>9. ASSUME NEW p \in Reachable, NEW c \in ClearedCells(p)'
      PROVE  mem'[c] \in Int /\ (mem'[c] = 0 \/ \E q \in Reachable : PointsTo(mem[c], q)')
  <2>1. c \in ClearedCells(p)  BY ZenonT(30), <1>1, <1>2, <1>9, ReachClosed DEF ClearedCells
  <2>2. QED  BY ZenonT(30), <1>1, <1>2, <2>1, Edges, ReachClosed DEF PointsTo
<1>10. \A b \in Areas : pending'[b] # 0 =>
         b \in roots' /\ \E p \in Objects' : root'[b] = Base(p)' /\ pending'[b] <= Size(p)'
  BY ZenonT(30), <1>1, <1>2, <1>3, <1>6 DEF Sound
<1>11. Sound' /\ Reachable' \subseteq Reachable
  <2>1. \A p \in Reachable : colour'[p] # "free"  BY ZenonT(30), <1>1 DEF Sound, ReachableKept
  <2>2. QED  BY ZenonT(30), <1>2, <1>8, <1>9, <1>10, <2>1, MutateStep
<1>12. Marking'  BY ZenonT(30), <1>1, <1>2, <1>3, <1>11 DEF Marking, NoGreyInSweep
<1>13. Arrays'  BY ZenonT(30), <1>1 DEF Arrays
<1>14. QED  BY ZenonT(30), <1>2, <1>5, <1>11, <1>12, <1>13

-----------------------------------------------------------------------------
(* The array allocate_sma_header made comes first in the list of its class. *)
LEMMA Prepend ==
  ASSUME NEW f \in Nat, NEW s \in Seq(Nat), NEW j \in 1..Len(<<f>> \o s)
  PROVE  IF j = 1 THEN (<<f>> \o s)[j] = f
         ELSE j - 1 \in 1..Len(s) /\ (<<f>> \o s)[j] = s[j - 1]
<1>1. Len(<<f>>) = 1 /\ <<f>>[1] = f /\ <<f>> \in Seq(Nat)  OBVIOUS
<1>2. Len(<<f>> \o s) = 1 + Len(s) /\ Len(s) \in Nat  BY <1>1
<1>3. CASE j = 1  BY <1>1, <1>2, <1>3
<1>4. CASE j # 1
  <2>1. j - 1 \in 1..Len(s) /\ j > 1  BY <1>2, <1>4
  <2>2. QED  BY <1>1, <1>2, <1>4, <2>1
<1>5. QED  BY ZenonT(30), <1>3, <1>4

(* A heap too small for a request stops the machine and is left as it was.  *)
LEMMA HaltStep == ASSUME IInv, Halt PROVE IInv'
<1> USE DEF IInv
<1>1. /\ phase' = "halted"
      /\ UNCHANGED <<free, chunks, sma, roots, colour, root, mem, pending, valid, cursor, blackened>>
  BY ZenonT(30) DEF Halt, heapvars, mutvars
<1>2. /\ Layout' /\ Grown /\ Objects' = Objects
      /\ \A o \in Objects : Base(o)' = Base(o) /\ Size(o)' = Size(o) /\ Cells(o)' = Cells(o)
      /\ \A o \in Objects : \A v : PointsTo(v, o)' <=> PointsTo(v, o)
  BY ZenonT(30), <1>1, SameChunks
<1>3. Sound' /\ Reachable' \subseteq Reachable
  <2>1. \A o \in Reachable : colour'[o] # "free" /\ valid'[o] = valid[o]
    BY ZenonT(30), <1>1 DEF Sound, ReachableKept
  <2>2. QED  BY ZenonT(30), <1>1, <2>1, SameGraph
<1>4. Types'  BY ZenonT(30), <1>1, <1>2 DEF Types
<1>5. Arrays'  BY ZenonT(30), <1>1 DEF Arrays
<1>6. Marking'  BY ZenonT(30), <1>1 DEF Marking, NoGreyInSweep
<1>7. QED  BY ZenonT(30), <1>2, <1>3, <1>4, <1>5, <1>6

(* allocate_small_object hands out a free slot large enough.                *)
LEMMA AllocSlotStep ==
  ASSUME IInv, NEW a \in Areas, NEW n \in Requests, AllocSlot(a, n),
         get_size_index(n) \in Classes, n <= SmSizes[get_size_index(n)]
  PROVE  IInv'
<1> USE DEF IInv
<1> DEFINE k == get_size_index(n)
<1>1. phase = "mutator" /\ a \in roots /\ n \in Nat \ {0} /\ n <= LoSize
  BY ZenonT(30), MutatorAssumption DEF AllocSlot, Ready
<1>2. k \in Classes /\ n <= SmSizes[k]  OBVIOUS
<1>3. UNCHANGED <<free, chunks, sma>>  BY ZenonT(30) DEF AllocSlot
<1>4. PICK j \in 1..Len(sma[k]), i \in 0..(SmCounts[k] - 1) :
        colour[<<sma[k][j], i>>] = "free" /\ Give(<<sma[k][j], i>>, a, n)
  BY ZenonT(30) DEF AllocSlot
<1> HIDE DEF k
<1>c. PICK c : c = sma[k][j]  BY ZenonT(30)
<1> DEFINE o == <<c, i>>
<1>5. c \in DOMAIN chunks /\ chunks[c].class = k  BY ZenonT(30), <1>2, <1>4, <1>c DEF Arrays
<1>6. k # Large /\ k # RootBlock  BY ZenonT(30), <1>2, ClassFacts
<1>7. o \in Objects
  <2>1. i \in 0..(Slots(chunks[c].class) - 1)  BY ZenonT(30), <1>4, <1>5, <1>6 DEF Slots
  <2>2. QED  BY <1>5, <2>1 DEF Objects, ObjectsIn
<1>8. Size(o) = SmSizes[k]  BY ZenonT(30), <1>5, <1>6 DEF Size, SizeIn
<1>9. Layout' /\ Grown /\ Objects' = Objects /\ Size(o)' = Size(o)
  BY ZenonT(30), <1>3, <1>7, SameChunks
<1>10. colour[o] = "free" /\ Give(o, a, n)  BY ZenonT(30), <1>4, <1>c
<1> HIDE DEF o
<1>11. sma' \in [Classes -> Seq(Nat)]  BY ZenonT(30), <1>3 DEF Types
<1>12. Types' /\ Sound' /\ Marking'
  <2>1. n <= Size(o)' /\ o \in Objects'  BY ZenonT(30), <1>2, <1>7, <1>8, <1>9
  <2>2. QED  BY ZenonT(30), <1>1, <1>9, <1>10, <1>11, <2>1, GiveStep
<1>13. Arrays'  BY ZenonT(30), <1>3 DEF Arrays
<1>14. QED  BY ZenonT(30), <1>9, <1>12, <1>13

(* allocate_sma_header adds an array that does not overlap any chunk.       *)
LEMMA AllocArrayStep ==
  ASSUME IInv, NEW a \in Areas, NEW n \in Requests, AllocArray(a, n),
         get_size_index(n) \in Classes, n <= SmSizes[get_size_index(n)]
  PROVE  IInv'
<1> USE DEF IInv
<1> DEFINE k == get_size_index(n)
<1>1. phase = "mutator" /\ a \in roots /\ n \in Nat \ {0} /\ n <= LoSize
  BY ZenonT(30), MutatorAssumption DEF AllocArray, Ready
<1>2. k \in Classes /\ n <= SmSizes[k]  OBVIOUS
<1>3. CASE Halt  BY ZenonT(30), <1>3, HaltStep
<1>4. CASE \E f \in Fit(SmaLength(k)) :
             /\ TakeChunk(f, SmaLength(k), k)
             /\ sma' = [sma EXCEPT ![k] = <<f>> \o @]
             /\ Give(<<f, 0>>, a, n)
  <2>1. PICK f \in Fit(SmaLength(k)) :
             /\ TakeChunk(f, SmaLength(k), k)
             /\ sma' = [sma EXCEPT ![k] = <<f>> \o @]
             /\ Give(<<f, 0>>, a, n)
    BY ZenonT(30), <1>4
  <2> DEFINE o == <<f, 0>>
  <2> HIDE DEF k
  <2>2. /\ k # Large /\ k # RootBlock /\ SmaLength(k) \in Nat
        /\ SmCounts[k] \in Nat \ {0}
    BY ZenonT(30), <1>2, ClassFacts
  <2>3. /\ Layout' /\ Grown /\ f \in Nat /\ f \notin DOMAIN chunks
        /\ DOMAIN chunks' = DOMAIN chunks \cup {f}
        /\ chunks'[f] = [length |-> align(SmaLength(k)), class |-> k]
    BY ZenonT(30), <1>2, <2>1, <2>2, TakeChunkLayout
  <2>4. f \in DOMAIN chunks' /\ chunks'[f].class = k  BY <2>3
  <2>5. o \in Objects'
    <3>1. 0 \in 0..(Slots(chunks'[f].class) - 1)  BY <2>2, <2>4 DEF Slots
    <3>2. QED  BY <2>4, <3>1 DEF Objects, ObjectsIn
  <2>6. o \notin Objects  BY ZenonT(30), <2>3, ObjectFacts DEF Objects, Layout
  <2>7. Size(o)' = SmSizes[k]  BY ZenonT(30), <2>2, <2>4 DEF Size, SizeIn
  <2>8. Give(o, a, n)  BY ZenonT(30), <2>1
  <2> HIDE DEF o
  <2>9. /\ sma' \in [Classes -> Seq(Nat)] /\ sma'[k] = <<f>> \o sma[k]
        /\ \A l \in Classes : l # k => sma'[l] = sma[l]
    BY <1>2, <2>1, <2>3 DEF Types
  <2>10. Types' /\ Sound' /\ Marking'
    BY ZenonT(30), <1>1, <1>2, <2>3, <2>5, <2>6, <2>7, <2>8, <2>9, GiveStep
  <2>11. Arrays'
    <3>1. ASSUME NEW l \in Classes, NEW j \in 1..Len(sma'[l])
          PROVE  sma'[l][j] \in DOMAIN chunks' /\ chunks'[sma'[l][j]].class = l
      <4>1. CASE l # k
        <5>1. sma'[l] = sma[l]  BY ZenonT(30), <2>9, <4>1
        <5>2. sma[l][j] \in DOMAIN chunks /\ chunks[sma[l][j]].class = l
          BY ZenonT(30), <3>1, <5>1 DEF Arrays
        <5>3. QED  BY ZenonT(30), <2>3, <5>1, <5>2 DEF Grown
      <4>2. CASE l = k
        <5>1. sma[k] \in Seq(Nat) /\ \A h \in 1..Len(sma[k]) :
                 sma[k][h] \in DOMAIN chunks /\ chunks[sma[k][h]].class = k
          BY ZenonT(30), <1>2 DEF Arrays
        <5>2. IF j = 1 THEN sma'[l][j] = f
              ELSE j - 1 \in 1..Len(sma[k]) /\ sma'[l][j] = sma[k][j - 1]
          <6>1. sma'[l] = <<f>> \o sma[k]  BY <2>9, <4>2
          <6>2. j \in 1..Len(<<f>> \o sma[k])  BY ZenonT(30), <3>1, <6>1
          <6>3. f \in Nat  BY ZenonT(30), <2>3
          <6>4. sma[k] \in Seq(Nat)  BY ZenonT(30), <5>1
          <6>5. IF j = 1 THEN (<<f>> \o sma[k])[j] = f
                ELSE j - 1 \in 1..Len(sma[k]) /\ (<<f>> \o sma[k])[j] = sma[k][j - 1]
            BY ZenonT(30), <6>2, <6>3, <6>4, Prepend
          <6>6. QED  BY ZenonT(30), <6>1, <6>5
        <5>3. CASE j = 1  BY ZenonT(30), <2>4, <4>2, <5>2, <5>3
        <5>4. CASE j # 1
          <6>1. sma'[l][j] \in DOMAIN chunks /\ chunks[sma'[l][j]].class = k
            BY ZenonT(30), <5>1, <5>2, <5>4
          <6>2. QED  BY ZenonT(30), <2>3, <4>2, <6>1 DEF Grown
        <5>5. QED  BY ZenonT(30), <5>3, <5>4
      <4>3. QED  BY ZenonT(30), <4>1, <4>2
    <3>2. \A l \in Classes : sma'[l] \in Seq(Nat)  BY <2>9
    <3>3. QED  BY ZenonT(30), <3>1, <3>2 DEF Arrays
  <2>12. QED  BY ZenonT(30), <2>3, <2>10, <2>11
<1>5. QED
  <2>1. IF Fit(SmaLength(k)) = {} THEN Halt
        ELSE \E f \in Fit(SmaLength(k)) :
               /\ TakeChunk(f, SmaLength(k), k)
               /\ sma' = [sma EXCEPT ![k] = <<f>> \o @]
               /\ Give(<<f, 0>>, a, n)
    BY ZenonT(30) DEF AllocArray
  <2>2. QED  BY ZenonT(30), <1>3, <1>4, <2>1

(* So does Alloc for a large object.                                        *)
LEMMA AllocLargeStep ==
  ASSUME IInv, NEW a \in Areas, NEW n \in Requests, AllocLarge(a, n) PROVE IInv'
<1>0. Layout /\ Arrays /\ Types  BY ZenonT(30) DEF IInv
<1>1. phase = "mutator" /\ a \in roots /\ n \in Nat \ {0}
  BY MutatorAssumption DEF AllocLarge, Ready
<1>2. CASE Halt  BY ZenonT(30), <1>2, HaltStep
<1>3. CASE \E f \in Fit(n) : TakeChunk(f, n, Large) /\ Give(<<f, 0>>, a, n) /\ sma' = sma
  <2>1. PICK f \in Fit(n) : TakeChunk(f, n, Large) /\ Give(<<f, 0>>, a, n) /\ sma' = sma
    BY <1>3
  <2> DEFINE o == <<f, 0>>
  <2>2. Large \notin Classes  BY ZenonT(30), ClassFacts
  <2>3. /\ Layout' /\ Grown /\ f \in Nat /\ f \notin DOMAIN chunks
        /\ DOMAIN chunks' = DOMAIN chunks \cup {f}
        /\ chunks'[f] = [length |-> align(n), class |-> Large]
    BY ZenonT(30), <1>0, <1>1, <2>1, <2>2, TakeChunkLayout
  <2>4. f \in DOMAIN chunks' /\ chunks'[f].class = Large /\ chunks'[f].length = align(n)
    BY <2>3
  <2>5. o \in Objects'
    <3>1. 0 \in 0..(Slots(chunks'[f].class) - 1)  BY <2>4 DEF Slots
    <3>2. QED  BY <2>4, <3>1 DEF Objects, ObjectsIn
  <2>6. o \notin Objects  BY ZenonT(30), <1>0, <2>3, ObjectFacts DEF Objects, Layout
  <2>7. Size(o)' = align(n)  BY ZenonT(30), <2>4 DEF Size, SizeIn
  <2>8. n <= Size(o)'  BY ZenonT(30), <1>1, <2>7, AlignUp
  <2>9. Give(o, a, n)  BY ZenonT(30), <2>1
  <2> HIDE DEF o
  <2>10. sma' \in [Classes -> Seq(Nat)]  BY ZenonT(30), <1>0, <2>1 DEF Types
  <2>11. Types' /\ Sound' /\ Marking'
    BY ZenonT(30), <1>1, <2>3, <2>5, <2>6, <2>8, <2>9, <2>10, GiveStep
  <2>12. Arrays'
    <3>1. sma' = sma  BY ZenonT(30), <2>1
    <3>2. ASSUME NEW k \in Classes, NEW j \in 1..Len(sma[k])
          PROVE  sma[k][j] \in DOMAIN chunks' /\ chunks'[sma[k][j]].class = k
      <4>1. sma[k][j] \in DOMAIN chunks /\ chunks[sma[k][j]].class = k
        BY ZenonT(30), <1>0, <3>2 DEF Arrays
      <4>2. QED  BY ZenonT(30), <2>3, <4>1 DEF Grown
    <3>3. \A k \in Classes : sma[k] \in Seq(Nat)  BY ZenonT(30), <1>0 DEF Arrays
    <3>4. QED  BY ZenonT(30), <3>1, <3>2, <3>3 DEF Arrays
  <2>13. QED  BY ZenonT(30), <2>3, <2>11, <2>12 DEF IInv
<1>4. QED  BY ZenonT(30), <1>2, <1>3 DEF AllocLarge

(* AddRoots lists an area that holds no reference yet.                      *)
LEMMA AddRootsStep ==
  ASSUME IInv, NEW a \in Areas, AddRoots(a) PROVE IInv'
<1> USE DEF IInv
<1>1. phase = "mutator" /\ a \notin roots  BY ZenonT(30) DEF AddRoots
<1>2. CASE Halt  BY ZenonT(30), <1>2, HaltStep
<1>3. CASE /\ Layout' /\ Grown /\ Objects' = Objects
           /\ roots' = roots \cup {a}
           /\ UNCHANGED <<sma, colour, root, mem, pending, valid, phase, cursor, blackened>>
  <2>1. /\ \A p \in Objects : Base(p)' = Base(p) /\ Size(p)' = Size(p)
        /\ \A p \in Objects : \A u : PointsTo(u, p)' <=> PointsTo(u, p)
    BY ZenonT(30), <1>3, GrownObjects
  <2>2. ASSUME NEW b \in roots'
        PROVE  root'[b] \in Int /\ (root'[b] = 0 \/ \E q \in Reachable : PointsTo(root[b], q)')
    <3>1. CASE b = a
      <4>1. root[a] = 0  BY ZenonT(30), <1>1 DEF Types
      <4>2. QED  BY <1>3, <3>1, <4>1
    <3>2. CASE b # a
      <4>1. b \in roots /\ root'[b] = root[b]  BY ZenonT(30), <1>3, <2>2, <3>2
      <4>2. QED  BY ZenonT(30), <2>1, <4>1, Edges, ReachClosed DEF PointsTo
    <3>3. QED  BY ZenonT(30), <3>1, <3>2
  <2>3. ASSUME NEW p \in Reachable, NEW c \in ClearedCells(p)'
        PROVE  mem'[c] \in Int /\ (mem'[c] = 0 \/ \E q \in Reachable : PointsTo(mem[c], q)')
    <3>1. c \in ClearedCells(p)  BY ZenonT(30), <1>3, <2>1, <2>3, ReachClosed DEF ClearedCells
    <3>2. QED  BY ZenonT(30), <1>3, <2>1, <3>1, Edges, ReachClosed DEF PointsTo
  <2>4. \A b \in Areas : pending'[b] # 0 =>
          b \in roots' /\ \E p \in Objects' : root'[b] = Base(p)' /\ pending'[b] <= Size(p)'
    BY ZenonT(30), <1>3, <2>1 DEF Sound
  <2>5. \A p \in Reachable : colour'[p] # "free"  BY ZenonT(30), <1>3 DEF Sound, ReachableKept
  <2>6. Sound' /\ Reachable' \subseteq Reachable  BY ZenonT(30), <1>3, <2>2, <2>3, <2>4, <2>5, MutateStep
  <2>7. Types'
    <3>1. \A b \in Areas \ roots' : root'[b] = 0  BY ZenonT(30), <1>3 DEF Types
    <3>2. \A p \in Objects' : valid'[p] <= Size(p)'  BY ZenonT(30), <1>3, <2>1 DEF Types
    <3>3. roots' \subseteq Areas  BY ZenonT(30), <1>3 DEF Types
    <3>4. QED  BY ZenonT(30), <1>3, <3>1, <3>2, <3>3 DEF Types
  <2>8. Arrays'  BY ZenonT(30), <1>3 DEF Arrays, Grown
  <2>9. Marking'  BY ZenonT(30), <1>1, <1>3, <2>6 DEF Marking, NoGreyInSweep
  <2>10. QED  BY ZenonT(30), <1>3, <2>6, <2>7, <2>8, <2>9
<1>4. CASE \E f \in Fit(RootLength) :
             /\ TakeChunk(f, RootLength, RootBlock) /\ roots' = roots \cup {a}
             /\ UNCHANGED <<sma, colour, root, mem, pending, valid, phase, cursor, blackened>>
  <2>1. PICK f \in Fit(RootLength) :
             /\ TakeChunk(f, RootLength, RootBlock) /\ roots' = roots \cup {a}
             /\ UNCHANGED <<sma, colour, root, mem, pending, valid, phase, cursor, blackened>>
    BY ZenonT(30), <1>4
  <2>2. RootLength \in Nat /\ RootBlock \notin Classes
    BY HeapAssumption, ClassFacts DEF RootLength
  <2>3. /\ Layout' /\ Grown /\ DOMAIN chunks' = DOMAIN chunks \cup {f}
        /\ chunks'[f] = [length |-> align(RootLength), class |-> RootBlock]
    BY ZenonT(30), <2>1, <2>2, TakeChunkLayout
  <2>4. Slots(chunks'[f].class) = 0  BY <2>3 DEF Slots, RootBlock, Large
  <2>5. ASSUME NEW o \in Objects' PROVE o \in Objects
    <3>1. /\ o = <<o[1], o[2]>> /\ o[1] \in DOMAIN chunks'
          /\ o[2] \in 0..(Slots(chunks'[o[1]].class) - 1)
      BY ZenonT(30), <2>3, <2>5, ObjectFacts DEF Layout, Objects
    <3>2. o[1] # f  BY <2>4, <3>1
    <3>3. o[1] \in DOMAIN chunks /\ chunks'[o[1]] = chunks[o[1]]
      BY ZenonT(30), <2>3, <3>1, <3>2 DEF Grown
    <3>4. QED  BY <3>1, <3>3 DEF Objects, ObjectsIn
  <2>6. Objects' = Objects  BY ZenonT(30), <2>3, <2>5, GrownObjects
  <2>7. QED  BY ZenonT(30), <1>3, <2>1, <2>3, <2>6
<1>5. CASE /\ roots' = roots \cup {a}
           /\ UNCHANGED <<free, chunks, sma, colour, root, mem, pending, valid, phase, cursor, blackened>>
  <2>1. Layout' /\ Grown /\ Objects' = Objects  BY ZenonT(30), <1>5, SameChunks
  <2>2. QED  BY ZenonT(30), <1>3, <1>5, <2>1
<1>6. QED  BY ZenonT(30), <1>2, <1>4, <1>5 DEF AddRoots, mutvars, gcvars

-----------------------------------------------------------------------------
(* What DoCollection does, and the theorems *)

(* A set of numbers that is not empty has a least element.                  *)
LEMMA NatMinimum ==
  ASSUME NEW S \in SUBSET Nat, S # {}
  PROVE  \E x \in S : \A y \in S : x <= y
<1>1. PICK x \in S : \A y \in S : ~ (<<y, x>> \in OpToRel(<, Nat))
  BY ZenonT(30), WFMin, NatLessThanWellFounded
<1>2. \A y \in S : ~ (y < x)  BY ZenonT(30), <1>1 DEF OpToRel
<1>3. QED  BY <1>2

(* get_size_index finds a class for every object that is not large.         *)
LEMMA SizeIndex ==
  ASSUME NEW n \in Nat, n <= LoSize
  PROVE  get_size_index(n) \in Classes /\ n <= SmSizes[get_size_index(n)]
<1> DEFINE S == {k \in Classes : n <= SmSizes[k]}
<1>1. Len(SmSizes) \in S  BY ClassAssumption DEF Classes, LoSize
<1>2. S \in SUBSET Nat  BY DEF Classes
<1>3. PICK k \in S : \A j \in S : k <= j  BY ZenonT(30), <1>1, <1>2, NatMinimum
<1>4. \E k1 \in Classes : n <= SmSizes[k1] /\ \A j \in Classes : n <= SmSizes[j] => k1 <= j
  BY ZenonT(30), <1>3
<1>5. QED  BY ZenonT(30), <1>4 DEF get_size_index

(* What grey_object does to the colour of an object.                        *)
LEMMA GreyFacts ==
  ASSUME IInv, NEW values, NEW o \in Objects
  PROVE  /\ DOMAIN grey_object(values) = Objects
         /\ grey_object(values)[o] \in {colour[o], "grey"}
         /\ colour[o] # "white" => grey_object(values)[o] = colour[o]
         /\ \A v \in values : PointsTo(v, o) => grey_object(values)[o] # "white"
BY ZenonT(30) DEF grey_object

(* After the roots are greyed no root refers to a white object.             *)
LEMMA GreyRootsStep == ASSUME IInv, GreyRoots PROVE IInv'
<1> USE DEF IInv
<1> DEFINE values == {root[a] : a \in roots}
<1>1. /\ phase = "mutator" /\ phase' = "mark" /\ cursor' = HeapStart /\ blackened' = FALSE
      /\ colour' = grey_object(values)
      /\ UNCHANGED <<free, chunks, sma, roots, root, mem, pending, valid>>
  BY ZenonT(30) DEF GreyRoots, heapvars, mutvars
<1>2. /\ Layout' /\ Objects' = Objects
      /\ \A o \in Objects : Base(o)' = Base(o) /\ Size(o)' = Size(o) /\ Cells(o)' = Cells(o)
      /\ \A o \in Objects : \A v : PointsTo(v, o)' <=> PointsTo(v, o)
  BY ZenonT(30), <1>1, SameChunks
<1>3. \A o \in Reachable : colour[o] = "white"  BY ZenonT(30), <1>1 DEF Marking
<1>4. \A o \in Objects : /\ colour'[o] \in {colour[o], "grey"}
                         /\ colour[o] # "white" => colour'[o] = colour[o]
                         /\ \A a \in roots : PointsTo(root[a], o) => colour'[o] # "white"
  BY ZenonT(30), <1>1, GreyFacts
<1>5. colour' \in [Objects -> Colours]
  <2>1. colour' = [o \in Objects |-> colour'[o]]  BY ZenonT(30), <1>1 DEF grey_object
  <2>2. QED  BY ZenonT(30), <1>4, <2>1 DEF Colours, Types
<1> HIDE DEF values
<1>6. Sound' /\ Reachable' \subseteq Reachable
  <2>1. \A o \in Reachable : colour'[o] # "free" /\ valid'[o] = valid[o]
    BY ZenonT(30), <1>1, <1>4, ReachClosed DEF Sound, ReachableKept
  <2>2. QED  BY ZenonT(30), <1>1, <2>1, SameGraph
<1>7. Types'
  <2>1. HeapStart \in Nat  BY ZenonT(30), HeapAssumption
  <2>2. QED  BY ZenonT(30), <1>1, <1>2, <1>5, <2>1 DEF Types
<1>8. Marking'
  <2>1. \A o \in Reachable' : colour'[o] # "black"  BY ZenonT(30), <1>3, <1>4, <1>6, ReachClosed
  <2>2. \A o \in Objects : colour'[o] = "white" => \A a \in roots : ~PointsTo(root[a], o)
    BY ZenonT(30), <1>4
  <2>3. \A o \in Objects : Base(o) >= HeapStart
    BY ObjectBounds, HeapAssumption
  <2>4. \A o \in Objects' : colour'[o] = "white" => \A a \in roots' : ~PointsTo(root[a], o)'
    BY ZenonT(30), <1>1, <1>2, <2>2 DEF PointsTo
  <2>5. \A o \in Objects' : Base(o)' >= cursor'  BY ZenonT(30), <1>1, <1>2, <2>3
  <2>6. QED  BY ZenonT(30), <1>1, <1>2, <2>1, <2>4, <2>5 DEF Marking, NoGreyInSweep
<1>9. Arrays'  BY ZenonT(30), <1>1 DEF Arrays
<1>10. QED  BY ZenonT(30), <1>2, <1>6, <1>7, <1>8, <1>9

(* An object turns black when what it refers to is white no longer.         *)
LEMMA BlackenStep == ASSUME IInv, Blacken PROVE IInv'
<1> USE DEF IInv
<1>1. /\ phase = "mark" /\ phase' = "mark" /\ blackened' = TRUE
      /\ UNCHANGED <<free, chunks, sma, roots, root, mem, pending, valid>>
  BY ZenonT(30) DEF Blacken, heapvars, mutvars
<1>2. /\ Layout' /\ Objects' = Objects
      /\ \A o \in Objects : Base(o)' = Base(o) /\ Size(o)' = Size(o) /\ Cells(o)' = Cells(o)
      /\ \A o \in Objects : \A v : PointsTo(v, o)' <=> PointsTo(v, o)
  BY ZenonT(30), <1>1, SameChunks
<1>3. PICK o \in Objects : /\ colour[o] = "grey" /\ cursor' = Base(o) + 1
                           /\ colour' = [grey_object(Contents(o)) EXCEPT ![o] = "black"]
  BY ZenonT(30) DEF Blacken, GreyAhead
<1>4. /\ colour'[o] = "black"
      /\ \A q \in Objects \ {o} :
           /\ colour'[q] \in {colour[q], "grey"}
           /\ colour[q] # "white" => colour'[q] = colour[q]
           /\ \A c \in Cells(o) : PointsTo(mem[c], q) => colour'[q] # "white"
  <2>1. \A q \in Objects \ {o} : colour'[q] = grey_object(Contents(o))[q]
    BY ZenonT(30), <1>3, GreyFacts
  <2>2. \A c \in Cells(o) : mem[c] \in Contents(o)  BY ZenonT(30) DEF Contents
  <2>3. QED  BY ZenonT(30), <1>3, <2>1, <2>2, GreyFacts
<1>5. colour' \in [Objects -> Colours]
  <2>1. DOMAIN colour' = Objects /\ colour' = [q \in Objects |-> colour'[q]]
    BY ZenonT(30), <1>3 DEF grey_object
  <2>2. QED  BY ZenonT(30), <1>4, <2>1 DEF Types, Colours
<1>6. Sound' /\ Reachable' \subseteq Reachable
  <2>1. \A q \in Reachable : colour'[q] # "free" /\ valid'[q] = valid[q]
    BY ZenonT(30), <1>1, <1>4, ReachClosed DEF Sound, ReachableKept
  <2>2. QED  BY ZenonT(30), <1>1, <2>1, SameGraph
<1>7. Types'
  <2>1. cursor' \in Nat  BY <1>3, ObjectBounds
  <2>2. QED  BY ZenonT(30), <1>1, <1>2, <1>5, <2>1 DEF Types
<1>8. Marking'
  <2>1. ASSUME NEW q \in Objects, colour'[q] = "white"
        PROVE  /\ \A a \in roots : ~PointsTo(root[a], q)
               /\ \A p \in Reachable : colour'[p] = "black" => \A c \in Cells(p) : ~PointsTo(mem[c], q)
    <3>1. q # o /\ colour[q] = "white"  BY ZenonT(30), <1>4, <2>1
    <3>2. /\ \A a \in roots : ~PointsTo(root[a], q)
          /\ \A p \in Reachable : colour[p] = "black" => \A c \in Cells(p) : ~PointsTo(mem[c], q)
      BY ZenonT(30), <1>1, <3>1 DEF Marking
    <3>3. \A c \in Cells(o) : ~PointsTo(mem[c], q)  BY ZenonT(30), <1>4, <2>1, <3>1
    <3>4. \A p \in Objects : colour'[p] = "black" => p = o \/ colour[p] = "black"  BY ZenonT(30), <1>4
    <3>5. QED  BY ZenonT(30), <3>2, <3>3, <3>4, ReachClosed
  <2>2. ASSUME NEW q \in Objects', colour'[q] = "white"
        PROVE  /\ \A a \in roots' : ~PointsTo(root[a], q)'
               /\ \A p \in Reachable' : colour'[p] = "black" =>
                    \A c \in Cells(p)' : ~PointsTo(mem[c], q)'
    BY ZenonT(30), <1>1, <1>2, <1>6, <2>1, <2>2, ReachClosed DEF PointsTo
  <2>3. QED  BY ZenonT(30), <1>1, <2>2 DEF Marking, NoGreyInSweep
<1>9. Arrays'  BY ZenonT(30), <1>1 DEF Arrays
<1>10. QED  BY ZenonT(30), <1>2, <1>6, <1>7, <1>8, <1>9

(* Passes go on from the start of the heap until one meets no grey object.  *)
LEMMA EndPassStep == ASSUME IInv, EndPass PROVE IInv'
<1> USE DEF IInv
<1>1. /\ phase = "mark" /\ phase' = (IF blackened THEN "mark" ELSE "sweep")
      /\ cursor' = HeapStart /\ blackened' = FALSE /\ GreyAhead = {}
      /\ UNCHANGED <<free, chunks, sma, colour, roots, root, mem, pending, valid>>
  BY ZenonT(30) DEF EndPass, heapvars, mutvars
<1>2. /\ Layout' /\ Objects' = Objects
      /\ \A o \in Objects : Base(o)' = Base(o) /\ Size(o)' = Size(o) /\ Cells(o)' = Cells(o)
      /\ \A o \in Objects : \A v : PointsTo(v, o)' <=> PointsTo(v, o)
  BY ZenonT(30), <1>1, SameChunks
<1>3. Sound' /\ Reachable' \subseteq Reachable
  <2>1. \A o \in Reachable : colour'[o] # "free" /\ valid'[o] = valid[o]
    BY ZenonT(30), <1>1 DEF Sound, ReachableKept
  <2>2. QED  BY ZenonT(30), <1>1, <2>1, SameGraph
<1>4. Types'
  <2>1. HeapStart \in Nat  BY HeapAssumption
  <2>2. QED  BY ZenonT(30), <1>1, <1>2, <2>1 DEF Types
<1>5. Marking'
  <2>1. \A o \in Objects' : colour'[o] = "white" =>
           /\ \A a \in roots' : ~PointsTo(root[a], o)'
           /\ \A p \in Reachable' : colour'[p] = "black" =>
                \A c \in Cells(p)' : ~PointsTo(mem[c], o)'
    BY <1>1, <1>2, <1>3, ReachClosed DEF Marking, PointsTo
  <2>2. \A o \in Objects : Base(o) >= HeapStart  BY ObjectBounds, HeapAssumption
  <2>3. \A o \in Objects' : Base(o)' >= cursor'  BY ZenonT(30), <1>1, <1>2, <2>2
  <2>4. ~blackened => \A o \in Objects : colour[o] # "grey"
    BY ZenonT(30), <1>1 DEF Marking, GreyAhead
  <2>5. NoGreyInSweep'  BY ZenonT(30), <1>1, <1>2, <2>4 DEF NoGreyInSweep
  <2>6. QED  BY ZenonT(30), <1>1, <2>1, <2>3, <2>5 DEF Marking
<1>6. Arrays'  BY ZenonT(30), <1>1 DEF Arrays
<1>7. QED  BY <1>2, <1>3, <1>4, <1>5, <1>6

(* When DoCollection sweeps, all that the threads can reach is black.       *)
LEMMA AllBlack ==
  ASSUME IInv, phase = "sweep" PROVE \A o \in Reachable : colour[o] = "black"
<1> USE DEF IInv
<1> DEFINE X == {o \in Reachable : colour[o] = "black"}
<1>1. X \in SUBSET Objects  BY ZenonT(30), ReachClosed
<1>2. ASSUME NEW q \in Reachable, colour[q] # "white" PROVE q \in X
  <2>1. q \in Objects  BY ZenonT(30), ReachClosed
  <2>2. colour[q] # "grey"  BY ZenonT(30), <2>1 DEF Marking, NoGreyInSweep
  <2>3. colour[q] # "free"  BY ZenonT(30) DEF Sound, ReachableKept
  <2>4. colour[q] \in Colours  BY ZenonT(30), <2>1 DEF Types
  <2>5. QED  BY ZenonT(30), <1>2, <2>2, <2>3, <2>4 DEF Colours
<1>3. ASSUME NEW q \in Objects, Pointed(X, q) PROVE q \in X
  <2>1. Pointed(Reachable, q)  BY ZenonT(30), <1>3 DEF Pointed
  <2>2. q \in Reachable  BY ZenonT(30), <2>1, ReachClosed
  <2>3. \A p \in X : ClearedCells(p) \subseteq Cells(p)
    BY <1>1, ObjectBounds DEF ClearedCells, Cells, Types
  <2>4. colour[q] # "white"  BY ZenonT(30), <1>1, <1>3, <2>3 DEF Marking, Pointed
  <2>5. QED  BY ZenonT(30), <1>2, <2>2, <2>4
<1> HIDE DEF X
<1>4. Reachable \subseteq X  BY ZenonT(30), <1>1, <1>3, ReachLeast
<1>5. QED  BY ZenonT(30), <1>4 DEF X

(* The sweep frees white slots, none of which can be reached.               *)
LEMMA SweepStep == ASSUME IInv, Sweep PROVE IInv'
<1> USE DEF IInv
<1>1. /\ phase = "sweep" /\ phase' = "mutator"
      /\ UNCHANGED <<free, chunks, sma, roots, root, mem, pending, cursor, blackened>>
      /\ colour' = [o \in Objects |-> IF o \in Freed THEN "free"
                                      ELSE IF colour[o] = "black" THEN "white" ELSE colour[o]]
      /\ valid' = [o \in Objects |-> IF o \in Freed THEN 0 ELSE valid[o]]
  BY ZenonT(30) DEF Sweep
<1>2. /\ Layout' /\ Objects' = Objects
      /\ \A o \in Objects : Base(o)' = Base(o) /\ Size(o)' = Size(o) /\ Cells(o)' = Cells(o)
  BY ZenonT(30), <1>1, SameChunks
<1>3. \A o \in Objects : colour[o] \in Colours /\ colour[o] # "grey"
  BY ZenonT(30), <1>1 DEF Types, Marking, NoGreyInSweep
<1>4. \A o \in Objects : colour'[o] \in {"free", "white"}
  BY ZenonT(30), <1>1, <1>3 DEF Colours
<1>5. Sound' /\ Reachable' \subseteq Reachable
  <2>1. ASSUME NEW o \in Reachable PROVE colour'[o] # "free" /\ valid'[o] = valid[o]
    <3>1. colour[o] = "black" /\ o \in Objects  BY ZenonT(30), <1>1, AllBlack, ReachClosed
    <3>2. o \notin Freed  BY ZenonT(30), <3>1 DEF Freed
    <3>3. QED  BY ZenonT(30), <1>1, <3>1, <3>2
  <2>2. QED  BY ZenonT(30), <1>1, <2>1, SameGraph
<1>6. Types'
  <2>1. colour' \in [Objects -> Colours]  BY ZenonT(30), <1>1, <1>4 DEF Colours
  <2>2. valid' \in [Objects -> Nat] /\ \A o \in Objects : valid'[o] \in {0, valid[o]}
    BY ZenonT(30), <1>1 DEF Types
  <2>3. \A o \in Objects : valid[o] <= Size(o) /\ 0 <= Size(o)  BY ObjectBounds DEF Types
  <2>4. \A o \in Objects : valid'[o] <= Size(o)  BY ZenonT(30), <2>2, <2>3
  <2>5. \A o \in Objects' : valid'[o] <= Size(o)'  BY ZenonT(30), <1>2, <2>4
  <2>6. QED  BY ZenonT(30), <1>1, <1>2, <2>1, <2>2, <2>5 DEF Types
<1>7. Marking'
  <2>1. \A o \in Reachable : o \in Objects /\ colour[o] = "black"
    BY ZenonT(30), <1>1, AllBlack, ReachClosed
  <2>2. \A o \in Reachable' : colour'[o] = "white"
    BY ZenonT(30), <1>1, <1>5, <2>1 DEF Freed
  <2>3. QED  BY ZenonT(30), <1>1, <2>2 DEF Marking, NoGreyInSweep
<1>8. Arrays'  BY ZenonT(30), <1>1 DEF Arrays
<1>9. QED  BY ZenonT(30), <1>2, <1>5, <1>6, <1>7, <1>8

-----------------------------------------------------------------------------
(* The heap Init sets up has one root block and no objects.                 *)
LEMMA InitIInv == ASSUME Init PROVE IInv
<1> DEFINE m == align(RootLength)
           f == HeapStart + Hdr + m
<1>1. RootLength \in Nat /\ m \in Nat
  <2>1. RootLength \in Nat  BY HeapAssumption DEF RootLength
  <2>2. QED  BY ZenonT(30), <2>1, AlignUp
<1>2. /\ HeapStart \in Nat \ {0} /\ HeapEnd \in Nat /\ Hdr \in Nat \ {0}
      /\ LoSize \in Nat /\ Hdr <= LoSize /\ HeapStart + 2 * Hdr + m + LoSize < HeapEnd
  <2>1. Len(SmSizes) \in Classes  BY ClassAssumption DEF Classes
  <2>2. QED  BY ZenonT(30), <2>1, ClassFacts, HeapAssumption, ClassAssumption DEF LoSize
<1>3. DOMAIN free = {f} /\ free[f] = HeapEnd - f - Hdr  BY ZenonT(30) DEF Init
<1>4. /\ DOMAIN chunks = {HeapStart} /\ chunks[HeapStart].length = m
      /\ chunks[HeapStart].class = RootBlock
  BY ZenonT(30) DEF Init
<1> HIDE DEF m
<1>5. f \in Nat /\ f # HeapStart /\ HeapStart < f /\ free[f] \in Nat
  BY <1>1, <1>2, <1>3
<1>6. RootBlock \notin Classes  BY ZenonT(30), ClassFacts
<1>7. WellFormed(chunks)  BY ZenonT(30), <1>1, <1>2, <1>4, <1>6 DEF WellFormed
<1>8. Length(HeapStart) = Hdr + m /\ Length(f) = HeapEnd - f
  <2>1. Length(HeapStart) = Hdr + m  BY ZenonT(30), <1>3, <1>4, <1>5 DEF Length
  <2>2. Length(f) = Hdr + (HeapEnd - f - Hdr)  BY ZenonT(30), <1>3 DEF Length
  <2>3. QED  BY <1>2, <1>5, <2>1, <2>2
<1>9. Layout
  <2>1. DOMAIN free \cap DOMAIN chunks = {}  BY ZenonT(30), <1>3, <1>4, <1>5
  <2>2. \A c \in DOMAIN free \cup DOMAIN chunks : c = f \/ c = HeapStart  BY ZenonT(30), <1>3, <1>4
  <2>3. /\ HeapStart + Length(HeapStart) <= f /\ f + Length(f) <= HeapEnd /\ f <= HeapEnd
        /\ HeapStart + Length(HeapStart) <= HeapEnd
    BY <1>1, <1>2, <1>5, <1>8
  <2> HIDE DEF f
  <2>4. \A c \in DOMAIN free \cup DOMAIN chunks : HeapStart <= c /\ c + Length(c) <= HeapEnd
    BY <1>2, <1>5, <2>2, <2>3
  <2>5. \A c, d \in DOMAIN free \cup DOMAIN chunks : c < d => c + Length(c) <= d
    BY <1>2, <1>5, <2>2, <2>3
  <2>6. QED  BY ZenonT(30), <1>3, <1>5, <1>7, <2>1, <2>4, <2>5 DEF Layout
<1>10. Objects = {}
  <2>1. 0..(Slots(RootBlock) - 1) = {}  BY DEF Slots, RootBlock, Large
  <2>2. QED  BY ZenonT(30), <1>4, <2>1 DEF Objects, ObjectsIn
<1>11. Types
  <2>1. colour \in [Objects -> Colours] /\ valid \in [Objects -> Nat]  BY ZenonT(30), <1>10 DEF Init
  <2>2. sma \in [Classes -> Seq(Nat)]  BY DEF Init
  <2>3. root \in [Areas -> Nat] /\ pending \in [Areas -> Nat] /\ \A a \in Areas : root[a] = 0
    BY ZenonT(30) DEF Init
  <2>4. mem \in [HeapStart..(HeapEnd - 1) -> Nat]  BY ZenonT(30), MemoryAssumption DEF Init
  <2>5. roots \subseteq Areas  BY ZenonT(30), MutatorAssumption DEF Init
  <2>6. cursor \in Nat /\ blackened \in BOOLEAN /\ phase = "mutator"  BY ZenonT(30), <1>2 DEF Init
  <2>7. QED  BY ZenonT(30), <1>10, <2>1, <2>2, <2>3, <2>4, <2>5, <2>6 DEF Types
<1>12. Sound
  <2>1. Reachable = {}  BY ZenonT(30), <1>10, ReachClosed
  <2>2. \A a \in roots : root[a] = 0  BY ZenonT(30), <1>11 DEF Types, Init
  <2>3. \A a \in Areas : pending[a] = 0  BY ZenonT(30) DEF Init
  <2>4. QED  BY ZenonT(30), <2>1, <2>2, <2>3 DEF Sound, Legit, ReachableKept
<1>13. Marking  BY ZenonT(30), <1>10, ReachClosed DEF Init, Marking, NoGreyInSweep
<1>14. Arrays
  <2>1. << >> \in Seq(Nat) /\ 1..Len(<< >>) = {}  OBVIOUS
  <2>2. \A k \in Classes : sma[k] = << >>  BY ZenonT(30) DEF Init
  <2>3. \A k \in Classes : sma[k] \in Seq(Nat) /\ 1..Len(sma[k]) = {}  BY ZenonT(30), <2>1, <2>2
  <2>4. QED  BY ZenonT(30), <2>3 DEF Arrays
<1>15. QED  BY ZenonT(30), <1>9, <1>11, <1>12, <1>13, <1>14 DEF IInv

(* Every step keeps the invariant.                                          *)
LEMMA NextIInv == ASSUME IInv, [Next]_vars PROVE IInv'
<1>1. CASE UNCHANGED vars
  <2> USE DEF IInv
  <2>1. UNCHANGED <<free, chunks, sma, colour, roots, root, mem, pending, valid,
                    phase, cursor, blackened>>
    BY ZenonT(30), <1>1 DEF vars, heapvars, mutvars, gcvars
  <2>2. /\ Layout' /\ Objects' = Objects
        /\ \A o \in Objects : Base(o)' = Base(o) /\ Size(o)' = Size(o) /\ Cells(o)' = Cells(o)
        /\ \A o \in Objects : \A v : PointsTo(v, o)' <=> PointsTo(v, o)
    BY ZenonT(30), <2>1, SameChunks
  <2>3. Sound' /\ Reachable' \subseteq Reachable
    <3>1. \A o \in Reachable : colour'[o] # "free" /\ valid'[o] = valid[o]
      BY ZenonT(30), <2>1 DEF Sound, ReachableKept
    <3>2. QED  BY ZenonT(30), <2>1, <3>1, SameGraph
  <2>4. Types' /\ Arrays'  BY ZenonT(30), <2>1, <2>2 DEF Types, Arrays
  <2>5. Marking'  BY <2>1, <2>2, <2>3, ReachClosed DEF Marking, NoGreyInSweep, PointsTo
  <2>6. QED  BY ZenonT(30), <2>2, <2>3, <2>4, <2>5
<1>2. ASSUME NEW a \in Areas, NEW n \in Requests,
             AllocSlot(a, n) \/ AllocArray(a, n) \/ AllocLarge(a, n)
      PROVE  IInv'
  <2>1. CASE n <= LoSize
    <3>1. get_size_index(n) \in Classes /\ n <= SmSizes[get_size_index(n)]
      BY ZenonT(30), <2>1, MutatorAssumption, SizeIndex
    <3>2. QED  BY ZenonT(30), <1>2, <3>1, AllocSlotStep, AllocArrayStep, AllocLargeStep
  <2>2. CASE ~(n <= LoSize)
    <3>1. AllocLarge(a, n)  BY ZenonT(30), <1>2, <2>2 DEF AllocSlot, AllocArray
    <3>2. QED  BY ZenonT(30), <3>1, AllocLargeStep
  <2>3. QED  BY ZenonT(30), <2>1, <2>2
<1>3. ASSUME NEW a \in Areas, Clear(a) \/ AddRoots(a) PROVE IInv'
  BY ZenonT(30), <1>3, ClearStep, AddRootsStep
<1>4. ASSUME NEW o \in Reachable, NEW i \in Fields, NEW v \in References(Reachable), Store(o, i, v)
      PROVE  IInv'
  BY ZenonT(30), <1>4, StoreStep
<1>5. ASSUME NEW a \in Areas, NEW v \in References(Reachable), Load(a, v) PROVE IInv'
  BY ZenonT(30), <1>5, LoadStep
<1>6. CASE GreyRoots \/ Collector
  BY ZenonT(30), <1>6, GreyRootsStep, BlackenStep, EndPassStep, SweepStep DEF Collector
<1>7. QED  BY ZenonT(30), <1>1, <1>2, <1>3, <1>4, <1>5, <1>6 DEF Next, Mutator

(* The invariant holds in every state of the heap.                          *)
LEMMA Invariance == Spec => []IInv
<1>1. Init => IInv  BY ZenonT(30), InitIInv
<1>2. IInv /\ [Next]_vars => IInv'  BY ZenonT(30), NextIInv
<1>3. QED  BY <1>1, <1>2, PTL DEF Spec

-----------------------------------------------------------------------------
(* The types of the heap: every object of every chunk has a colour.         *)
THEOREM TypeCorrect == Spec => []TypeOK
<1>1. IInv => TypeOK  BY ZenonT(30) DEF IInv, Layout, WellFormed, Types, TypeOK
<1>2. QED  BY <1>1, Invariance, PTL

(* allocate_chunk never lets two chunks overlap, whatever sizes are asked   *)
(* for.                                                                     *)
THEOREM ChunksApart == Spec => []ChunksDisjoint
<1>1. IInv => ChunksDisjoint  BY ZenonT(30), LayoutFacts DEF IInv
<1>2. QED  BY <1>1, Invariance, PTL

(* No collection frees, and no Alloc hands out again, what a thread can     *)
(* still reach, with any heap, size classes and number of threads.          *)
THEOREM NothingReachableFreed == Spec => []ReachableKept
<1>1. IInv => ReachableKept  BY ZenonT(30) DEF IInv, Sound
<1>2. QED  BY <1>1, Invariance, PTL

(* DoCollection is right to expect no grey blocks when it sweeps.           *)
THEOREM MarkingComplete == Spec => []NoGreyInSweep
<1>1. IInv => NoGreyInSweep  BY ZenonT(30) DEF IInv, Marking
<1>2. QED  BY <1>1, Invariance, PTL

-----------------------------------------------------------------------------
(* What the collector may mark *)

Scanned == Closure([o \in Objects |-> Cells(o)])

(* Scanned holds what areas and the cells of its members point to, ...      *)
LEMMA ScannedClosed ==
  /\ \A o \in Objects : (\E a \in roots : PointsTo(root[a], o)) => o \in Scanned
  /\ \A p \in Scanned, o \in Objects : (\E c \in Cells(p) : PointsTo(mem[c], o)) => o \in Scanned
<1> DEFINE cells == [o \in Objects |-> Cells(o)]
<1>1. Scanned = {o \in Objects : \A X \in SUBSET Objects : Closed(X, cells) => o \in X}
  BY ZenonT(30) DEF Scanned, Closure
<1>2. \A o \in Objects : cells[o] = Cells(o)  OBVIOUS
<1> HIDE DEF cells
<1>3. ASSUME NEW o \in Objects, NEW a \in roots, PointsTo(root[a], o) PROVE o \in Scanned
  BY <1>1, <1>3, Zenon DEF Closed
<1>4. ASSUME NEW p \in Scanned, NEW o \in Objects, NEW c \in Cells(p), PointsTo(mem[c], o)
      PROVE  o \in Scanned
  <2>1. p \in Objects /\ c \in cells[p]  BY ZenonT(30), <1>1, <1>2
  <2>2. ASSUME NEW X \in SUBSET Objects, Closed(X, cells) PROVE o \in X
    <3>1. p \in X  BY ZenonT(30), <1>1, <2>2
    <3>2. QED  BY <1>4, <2>1, <2>2, <3>1, Zenon DEF Closed
  <2>3. QED  BY ZenonT(30), <1>1, <2>2
<1>5. QED  BY ZenonT(30), <1>3, <1>4

(* ... and marking does not change it.                                      *)
LEMMA ScannedSame == ASSUME UNCHANGED <<chunks, roots, root, mem>> PROVE Scanned' = Scanned
BY DEF Scanned, Closure, Closed, Objects, Cells, PointsTo, Base, Size

(* Before a collection nothing is marked, if memory did not look so.        *)
Unmarked ==
  phase = "mutator" /\ Stale \subseteq {"free", "white"} =>
    \A o \in Objects : colour[o] \in {"free", "white"}

(* Threads mark nothing, ...                                                *)
LEMMA UnmarkedStep ==
  ASSUME IInv, Unmarked, Mutator PROVE Unmarked' /\ phase' \in {"mutator", "halted"}
<1>1. ASSUME NEW o, NEW a, NEW n, phase = "mutator", Give(o, a, n)
      PROVE  Unmarked' /\ phase' \in {"mutator", "halted"}
  <2>1. phase' = "mutator"  BY ZenonT(30), <1>1 DEF Give, gcvars
  <2>2. PICK s \in [Uncleared(Objects' \ Objects) -> Stale] :
          colour' = [p \in Objects' |-> IF p = o THEN "white"
                                        ELSE IF p \in Objects THEN colour[p]
                                        ELSE IF p \in DOMAIN s THEN s[p] ELSE "free"]
    BY ZenonT(30), <1>1 DEF Give
  <2>3. Stale \subseteq {"free", "white"} => \A p \in Objects' : colour'[p] \in {"free", "white"}
    BY ZenonT(30), <1>1, <2>2 DEF Unmarked
  <2>4. QED  BY ZenonT(30), <2>1, <2>3 DEF Unmarked
<1>2. CASE Halt  BY ZenonT(30), <1>2 DEF Halt, Unmarked
<1>3. ASSUME NEW a \in Areas, NEW n \in Requests,
             AllocSlot(a, n) \/ AllocArray(a, n) \/ AllocLarge(a, n)
      PROVE  Unmarked' /\ phase' \in {"mutator", "halted"}
  <2>1. phase = "mutator" /\ (Halt \/ \E o : Give(o, a, n))
    BY ZenonT(30), <1>3 DEF AllocSlot, AllocArray, AllocLarge, Ready
  <2>2. QED  BY ZenonT(30), <1>1, <1>2, <2>1
<1>4. ASSUME phase = "mutator", colour' = colour, phase' = phase, Objects' \subseteq Objects
      PROVE  Unmarked' /\ phase' \in {"mutator", "halted"}
  BY ZenonT(30), <1>4 DEF Unmarked
<1>5. ASSUME NEW a \in Areas, Clear(a)
      PROVE  Unmarked' /\ phase' \in {"mutator", "halted"}
  <2>1. phase = "mutator" /\ colour' = colour /\ phase' = phase /\ Objects' = Objects
    BY ZenonT(30), <1>5 DEF Clear, heapvars, gcvars, Objects
  <2>2. QED  BY ZenonT(30), <1>4, <2>1
<1>6. ASSUME NEW a \in Areas, AddRoots(a)
      PROVE  Unmarked' /\ phase' \in {"mutator", "halted"}
  <2>1. Halt \/ (phase = "mutator" /\ colour' = colour /\ phase' = phase)
    BY ZenonT(30), <1>6 DEF AddRoots, gcvars
  <2>2. IInv'  BY ZenonT(30), <1>6, AddRootsStep
  <2>3. DOMAIN colour = Objects /\ DOMAIN colour' = Objects'  BY ZenonT(30), <2>2 DEF IInv, Types
  <2>4. QED  BY ZenonT(30), <1>2, <1>4, <2>1, <2>3
<1>7. ASSUME NEW o, NEW i, NEW v, Store(o, i, v)
      PROVE  Unmarked' /\ phase' \in {"mutator", "halted"}
  <2>1. phase = "mutator" /\ colour' = colour /\ phase' = phase /\ Objects' = Objects
    BY ZenonT(30), <1>7 DEF Store, heapvars, gcvars, Objects
  <2>2. QED  BY ZenonT(30), <1>4, <2>1
<1>8. ASSUME NEW a, NEW v, Load(a, v)
      PROVE  Unmarked' /\ phase' \in {"mutator", "halted"}
  <2>1. phase = "mutator" /\ colour' = colour /\ phase' = phase /\ Objects' = Objects
    BY ZenonT(30), <1>8 DEF Load, Ready, heapvars, gcvars, Objects
  <2>2. QED  BY <1>4, <2>1
<1>9. QED  BY ZenonT(30), <1>3, <1>5, <1>6, <1>7, <1>8 DEF Mutator

(* ... nor does a sweep leave marks.                                        *)
LEMMA UnmarkedNext == ASSUME IInv, Unmarked, [Next]_vars PROVE Unmarked'
<1>1. CASE Mutator  BY ZenonT(30), <1>1, UnmarkedStep
<1>2. CASE Sweep
  <2>1. phase = "sweep" /\ Objects' = Objects  BY ZenonT(30), <1>2 DEF Sweep, Objects
  <2>2. \A o \in Objects : colour[o] \in Colours /\ colour[o] # "grey"
    BY ZenonT(30), <2>1 DEF IInv, Types, Marking, NoGreyInSweep
  <2>3. \A o \in Objects : colour'[o] \in {"free", "white"}
    BY ZenonT(30), <1>2, <2>2 DEF Sweep, Colours
  <2>4. QED  BY ZenonT(30), <2>1, <2>3 DEF Unmarked
<1>3. CASE GreyRoots \/ Blacken \/ EndPass
  <2>1. phase' # "mutator"  BY ZenonT(30), <1>3 DEF GreyRoots, Blacken, EndPass
  <2>2. QED  BY ZenonT(30), <2>1 DEF Unmarked
<1>4. CASE UNCHANGED vars
  BY ZenonT(30), <1>4 DEF vars, gcvars, heapvars, Unmarked, Objects
<1>5. QED  BY ZenonT(30), <1>1, <1>2, <1>3, <1>4 DEF Next, Collector

(* A collection marks nothing but what can be reached by way of the cells   *)
(* of objects, so all other small objects are freed by it.                  *)
THEOREM GarbageUnmarked == Spec => []NoGarbageMarked
<1> DEFINE Marked == phase \in {"mark", "sweep"} /\ Stale \subseteq {"free", "white"} =>
                       \A o \in Objects : colour[o] \in {"grey", "black"} => o \in Scanned
<1>1. NoGarbageMarked <=> Marked  BY ZenonT(30) DEF NoGarbageMarked, Scanned
<1>2. Init => Marked  BY ZenonT(30) DEF Init
<1>3. ASSUME IInv, Unmarked, Marked, [Next]_vars PROVE Marked'
  <2>0. SUFFICES ASSUME Stale \subseteq {"free", "white"} PROVE Marked'  OBVIOUS
  <2>1. CASE phase' \notin {"mark", "sweep"}  BY ZenonT(30), <2>1
  <2>2. CASE GreyRoots
    <3>1. UNCHANGED <<chunks, roots, root, mem>> /\ phase = "mutator"
      BY ZenonT(30), <2>2 DEF GreyRoots, heapvars, mutvars
    <3>2. Scanned' = Scanned /\ Objects' = Objects  BY ZenonT(30), <3>1, ScannedSame DEF Objects
    <3>3. \A o \in Objects : colour[o] \in {"free", "white"}
      BY ZenonT(30), <1>3, <2>0, <3>1 DEF Unmarked
    <3>4. ASSUME NEW o \in Objects, colour'[o] \in {"grey", "black"} PROVE o \in Scanned
      <4>1. \E a \in roots : PointsTo(root[a], o)
        BY ZenonT(30), <2>2, <3>3, <3>4 DEF GreyRoots, grey_object
      <4>2. QED  BY ZenonT(30), <4>1, ScannedClosed
    <3>5. QED  BY ZenonT(30), <3>2, <3>4
  <2>3. CASE Blacken
    <3>1. UNCHANGED <<chunks, roots, root, mem>> /\ phase = "mark"
      BY ZenonT(30), <2>3 DEF Blacken, heapvars, mutvars
    <3>2. Scanned' = Scanned /\ Objects' = Objects  BY ZenonT(30), <3>1, ScannedSame DEF Objects
    <3>3. PICK o \in Objects : /\ colour[o] = "grey"
                               /\ colour' = [grey_object(Contents(o)) EXCEPT ![o] = "black"]
      BY ZenonT(30), <2>3 DEF Blacken, GreyAhead
    <3>4. o \in Scanned  BY ZenonT(30), <1>3, <2>0, <3>1, <3>3
    <3>5. ASSUME NEW q \in Objects, colour'[q] \in {"grey", "black"} PROVE q \in Scanned
      <4>1. CASE q = o  BY ZenonT(30), <3>4, <4>1
      <4>2. CASE q # o
        <5>1. colour'[q] = grey_object(Contents(o))[q]  BY ZenonT(30), <3>3, <4>2 DEF grey_object
        <5>2. CASE colour[q] \in {"grey", "black"}  BY ZenonT(30), <1>3, <2>0, <3>1, <5>2
        <5>3. CASE colour[q] \notin {"grey", "black"}
          <6>1. \E v \in Contents(o) : PointsTo(v, q)
            BY ZenonT(30), <3>5, <5>1, <5>3 DEF grey_object
          <6>2. \E c \in Cells(o) : PointsTo(mem[c], q)  BY ZenonT(30), <6>1 DEF Contents
          <6>3. QED  BY ZenonT(30), <3>4, <6>2, ScannedClosed
        <5>4. QED  BY ZenonT(30), <5>2, <5>3
      <4>3. QED  BY ZenonT(30), <4>1, <4>2
    <3>6. QED  BY ZenonT(30), <3>2, <3>5
  <2>4. CASE EndPass \/ UNCHANGED vars
    <3>1. UNCHANGED <<chunks, roots, root, mem, colour>>
          /\ (phase' \in {"mark", "sweep"} => phase \in {"mark", "sweep"})
      BY ZenonT(30), <2>4 DEF EndPass, heapvars, mutvars, vars, gcvars
    <3>2. Scanned' = Scanned /\ Objects' = Objects  BY ZenonT(30), <3>1, ScannedSame DEF Objects
    <3>3. QED  BY ZenonT(30), <1>3, <2>0, <3>1, <3>2
  <2>5. CASE Sweep  BY ZenonT(30), <2>1, <2>5 DEF Sweep
  <2>6. CASE Mutator
    <3>1. phase' \in {"mutator", "halted"}  BY ZenonT(30), <1>3, <2>6, UnmarkedStep
    <3>2. QED  BY ZenonT(30), <2>1, <3>1
  <2>7. QED  BY ZenonT(30), <1>3, <2>2, <2>3, <2>4, <2>5, <2>6 DEF Next, Collector
<1> HIDE DEF Marked
<1>4. Init => Unmarked  BY ZenonT(30), InitIInv DEF Init, Unmarked, IInv, Types
<1>5. Spec => []Unmarked
  <2>1. IInv /\ Unmarked /\ [Next]_vars => Unmarked'  BY ZenonT(30), UnmarkedNext
  <2>2. QED  BY <1>4, <2>1, Invariance, PTL DEF Spec
<1>6. Spec => []Marked
  <2>1. IInv /\ Unmarked /\ Marked /\ [Next]_vars => Marked'  BY ZenonT(30), <1>3
  <2>2. QED  BY <1>2, <1>5, <2>1, Invariance, PTL DEF Spec
<1>7. QED  BY <1>1, <1>6, PTL
=============================================================================
