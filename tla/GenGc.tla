------------------------------- MODULE GenGc -------------------------------
(***************************************************************************)
(* The garbage-collected heap (gc/gengc.cs, gengc_root.cs,                 *)
(* gengc_collect.cs) under gcmalloc (gc/heap_switcher.cs).                 *)
(*                                                                         *)
(* The heap is cut into chunks, each behind a header: large objects,       *)
(* arrays of small objects of one size class, and blocks that list the     *)
(* areas to scan.  Addresses are counted in pointers.  An object is a pair *)
(* <<chunk, index>>, the index being that of its slot in the array.        *)
(*                                                                         *)
(* gengc.Alloc and DoCollection run in uninterruptible sections on one     *)
(* processor, so no thread steps while a collection is under way.  What    *)
(* gcmalloc does after Alloc, clearing the object, can be interrupted.     *)
(***************************************************************************)
EXTENDS Integers, Sequences, FiniteSets

CONSTANTS
  HeapStart, HeapEnd,    \* where chunks may lie
  Hdr,                   \* sizeof(chunk_header)
  Alignment,             \* of the lengths of chunks
  SmSizes, SmCounts,     \* of the size classes: object size, slots per array
  SmData,                \* of the size classes: sma_header and its bitmap
  Word, Stride,          \* slots per word of the bitmap; of every Stride words
                         \* allocate_sma_header clears one
  Ram, Stale,            \* what memory holds before it is first written, and
                         \* what colours it can be taken for
  RootHdr, RootCapacity, \* sizeof(root_header), areas per root block
  Areas, BootAreas,      \* stacks and static data; those added at boot
  Requests,              \* lengths asked for
  Fields, Offsets,       \* which cells of objects hold references, and the
                         \* offsets into objects at which references point
  MaxDrift               \* bound: how far below 0 free_count may go

Classes == 1..Len(SmSizes)
LoSize == SmSizes[Len(SmSizes)]
align(n) == IF n % Alignment = 0 THEN n ELSE n - (n % Alignment) + Alignment
SmaLength(k) == SmData[k] + SmCounts[k] * SmSizes[k]
RootLength == RootHdr + 2 * RootCapacity

ASSUME HeapAssumption ==
  /\ HeapStart \in Nat \ {0} /\ HeapEnd \in Nat
  /\ Hdr \in Nat \ {0} /\ Alignment \in Nat \ {0}
  /\ RootHdr \in Nat /\ RootCapacity \in Nat \ {0}
  /\ HeapStart + 2 * Hdr + align(RootLength) + LoSize < HeapEnd

ASSUME ClassAssumption ==
  /\ Len(SmSizes) \in Nat \ {0}
  /\ SmSizes \in [Classes -> Nat \ {0}]
  /\ SmCounts \in [Classes -> Nat \ {0}] /\ SmData \in [Classes -> Nat]
  /\ \A j, k \in Classes : j < k => SmSizes[j] < SmSizes[k]
  /\ LoSize >= Hdr
  /\ Word \in Nat \ {0} /\ Stride \in Nat \ {0}

Colours == {"free", "white", "grey", "black"}

ASSUME MemoryAssumption ==
  Ram \in [HeapStart..(HeapEnd - 1) -> Nat] /\ Stale \subseteq Colours /\ Stale # {}

ASSUME MutatorAssumption ==
  /\ BootAreas \subseteq Areas /\ Cardinality(BootAreas) \in 1..RootCapacity
  /\ Requests \subseteq Nat \ {0}
  /\ Fields \subseteq Nat /\ Offsets \subseteq Nat /\ MaxDrift \in Nat

VARIABLES
  free,        \* free tree: start of each free chunk -> its length
  chunks,      \* used tree: start of each chunk -> its length and class
  sma,         \* of each size class: its arrays, the last made first
  free_count,  \* of each array: sma_header.free_count
  sm_free,     \* of each size class: the count of free slots
  colour,      \* of each object: chunk flags or bits of the bitmap
  roots,       \* areas listed in the root blocks
  root,        \* what each area holds
  mem,         \* what each cell of the heap holds
  pending,     \* of each area: length of the object its thread is clearing
  valid,       \* of each object: how many of its cells have been cleared
  phase,       \* where the collector is
  cursor,      \* marking: the address the pass over the chunks has reached
  blackened    \* marking: whether this pass blackened an object

heapvars == <<free, chunks, sma, free_count, sm_free, roots>>
mutvars == <<root, mem, pending, valid>>
gcvars == <<phase, cursor, blackened>>
vars == <<heapvars, colour, mutvars, gcvars>>

(* The class of a chunk that is a large object, and of a root block. *)
Large == 0
RootBlock == -1

Slots(class) == IF class = Large THEN 1
                ELSE IF class = RootBlock THEN 0 ELSE SmCounts[class]

ObjectsIn(ch) ==
  UNION {{<<c, i>> : i \in 0..(Slots(ch[c].class) - 1)} : c \in DOMAIN ch}
Objects == ObjectsIn(chunks)

Class(o) == chunks[o[1]].class
BaseIn(ch, o) ==
  o[1] + Hdr + (IF ch[o[1]].class = Large THEN 0
                ELSE SmData[ch[o[1]].class] + o[2] * SmSizes[ch[o[1]].class])
SizeIn(ch, o) == IF ch[o[1]].class = Large THEN ch[o[1]].length
                 ELSE SmSizes[ch[o[1]].class]
Base(o) == BaseIn(chunks, o)
Size(o) == SizeIn(chunks, o)

(* What grey_object makes of the value it finds in a cell: the used chunk   *)
(* that search returns for it, and in an array the slot.                    *)
PointsTo(v, o) == Base(o) <= v /\ v < Base(o) + Size(o)

Cells(o) == Base(o)..(Base(o) + Size(o) - 1)
ClearedCells(o) == Base(o)..(Base(o) + valid[o] - 1)

(* What can be reached through the given cells of each object: the least    *)
(* set that holds what the areas point to and what the cells of its members *)
(* point to.                                                                *)
Closed(X, cells) ==
  \A o \in Objects :
    (\/ \E a \in roots : PointsTo(root[a], o)
     \/ \E p \in X : \E c \in cells[p] : PointsTo(mem[c], o)) => o \in X
Closure(cells) ==
  {o \in Objects : \A X \in SUBSET Objects : Closed(X, cells) => o \in X}

(* Threads follow the references in cells that were cleared for them. *)
Reachable == Closure([o \in Objects |-> ClearedCells(o)])

-----------------------------------------------------------------------------
(* gengc.allocate_chunk *)

Fits(n, f) == /\ free[f] >= align(n)
              /\ \A g \in DOMAIN free : free[g] >= align(n) => free[f] <= free[g]

Fit(n) == {f \in DOMAIN free : Fits(n, f)}

(* ChunksDisjoint: the header of the chunk is not counted. *)
Rest_NoHeader(f, n) == IF free[f] - align(n) > LoSize THEN {f + align(n)} ELSE {}

Rest(f, n) == IF free[f] - align(n) > LoSize THEN {f + Hdr + align(n)} ELSE {}

TakeChunk(f, n, class) ==
  /\ free' = [g \in (DOMAIN free \ {f}) \cup Rest(f, n) |->
                IF g \in Rest(f, n) THEN free[f] - align(n) - Hdr ELSE free[g]]
  /\ chunks' = [c \in DOMAIN chunks \cup {f} |->
                  IF c = f THEN [length |-> align(n), class |-> class]
                  ELSE chunks[c]]

(* allocate_chunk stops the machine when nothing is large enough. *)
Halt == /\ phase' = "halted"
        /\ UNCHANGED <<heapvars, colour, mutvars, cursor, blackened>>

(* The slots of a new array whose bits are not cleared: the loop that clears *)
(* the bitmap goes on by i * 4 bytes, where it is read at i / 2.  Pages are  *)
(* not cleared either when they are mapped.                                  *)
Uncleared(objects) == {p \in objects : (p[2] \div Word) % Stride # 0}

(* The colours and the cleared cells of the objects there are after a step  *)
(* that may have made a chunk.                                              *)
Give(o, a, n) ==
  /\ \E s \in [Uncleared(Objects' \ Objects) -> Stale] :
       colour' = [p \in Objects' |-> IF p = o THEN "white"
                                     ELSE IF p \in Objects THEN colour[p]
                                     ELSE IF p \in DOMAIN s THEN s[p] ELSE "free"]
  /\ valid' = [p \in Objects' |-> IF p \in Objects /\ p # o THEN valid[p] ELSE 0]
  /\ root' = [root EXCEPT ![a] = BaseIn(chunks', o)]
  /\ pending' = [pending EXCEPT ![a] = n]
  /\ UNCHANGED <<mem, roots, gcvars>>

(* ReachableKept: a collection can be interrupted. *)
Ready_Interruptible(a) == phase # "halted" /\ a \in roots /\ pending[a] = 0

(* A thread is about to call gcmalloc. *)
Ready(a) == phase = "mutator" /\ a \in roots /\ pending[a] = 0

(* gengc.get_size_index: the smallest class that is large enough *)
get_size_index(n) ==
  CHOOSE k \in Classes : n <= SmSizes[k] /\ \A j \in Classes : n <= SmSizes[j] => k <= j

Usable(c, k) == /\ free_count[c] # 0
                /\ \E i \in 0..(SmCounts[k] - 1) : colour[<<c, i>>] = "free"

(* gengc.allocate_small_object, when it finds a slot: it is the count of    *)
(* the array at the head of the list that goes down, to any number below 0. *)
AllocSlot(a, n) ==
  LET k == get_size_index(n) IN
  /\ Ready(a) /\ n <= LoSize
  /\ sm_free[k] # 0 /\ free_count[sma[k][1]] > -MaxDrift
  /\ UNCHANGED <<free, chunks, sma>>
  /\ \E j \in 1..Len(sma[k]), i \in 0..(SmCounts[k] - 1) :
       /\ Usable(sma[k][j], k)
       /\ \A j2 \in 1..(j - 1) : ~Usable(sma[k][j2], k)
       /\ colour[<<sma[k][j], i>>] = "free"
       /\ \A i2 \in 0..(i - 1) : colour[<<sma[k][j], i2>>] # "free"
       /\ Give(<<sma[k][j], i>>, a, n)
  /\ free_count' = [free_count EXCEPT ![sma[k][1]] = @ - 1]
  /\ sm_free' = [sm_free EXCEPT ![k] = @ - 1]

(* gengc.Alloc, when the class has no free slot or allocate_small_object    *)
(* found none: allocate_sma_header makes an array, whose first slot is      *)
(* taken.                                                                   *)
AllocArray(a, n) ==
  LET k == get_size_index(n) IN
  /\ Ready(a) /\ n <= LoSize
  /\ sm_free[k] # 0 => \A j \in 1..Len(sma[k]) : ~Usable(sma[k][j], k)
  /\ IF Fit(SmaLength(k)) = {} THEN Halt
     ELSE \E f \in Fit(SmaLength(k)) :
            /\ TakeChunk(f, SmaLength(k), k)
            /\ sma' = [sma EXCEPT ![k] = <<f>> \o @]
            /\ free_count' = [c \in DOMAIN free_count \cup {f} |->
                                IF c = f THEN SmCounts[k] - 1 ELSE free_count[c]]
            /\ sm_free' = [sm_free EXCEPT ![k] = @ + SmCounts[k] - 1]
            /\ Give(<<f, 0>>, a, n)

AllocLarge(a, n) ==
  /\ Ready(a) /\ n > LoSize
  /\ IF Fit(n) = {} THEN Halt
     ELSE \E f \in Fit(n) :
            /\ TakeChunk(f, n, Large)
            /\ Give(<<f, 0>>, a, n)
            /\ UNCHANGED <<sma, free_count, sm_free>>

(* What is left of gcmalloc: MemSet clears what was asked for, which may be *)
(* less than the slot.                                                      *)
Clear(a) ==
  /\ phase = "mutator" /\ pending[a] # 0
  /\ \E o \in Objects :
       /\ PointsTo(root[a], o)
       /\ mem' = [c \in DOMAIN mem |->
                    IF c \in Base(o)..(Base(o) + pending[a] - 1) THEN 0 ELSE mem[c]]
       /\ valid' = [valid EXCEPT ![o] = pending[a]]
  /\ pending' = [pending EXCEPT ![a] = 0]
  /\ UNCHANGED <<heapvars, colour, root, gcvars>>

(* gengc.AddRoots, called with the lock of the virtual regions held; the    *)
(* thread that will use the area has not started.                           *)
AddRoots(a) ==
  /\ phase = "mutator" /\ a \in Areas \ roots
  /\ IF Cardinality(roots) % RootCapacity # 0
     THEN /\ roots' = roots \cup {a}
          /\ UNCHANGED <<free, chunks, sma, free_count, sm_free, colour, mutvars, gcvars>>
     ELSE IF Fit(RootLength) = {} THEN Halt
     ELSE /\ \E f \in Fit(RootLength) : TakeChunk(f, RootLength, RootBlock)
          /\ roots' = roots \cup {a}
          /\ UNCHANGED <<sma, free_count, sm_free, colour, mutvars, gcvars>>

(* References a thread can have come by: to what it can reach and was given *)
(* by a gcmalloc that has returned.                                         *)
References(reach) ==
  {0} \cup UNION {{Base(p) + i : i \in {j \in Offsets : j < valid[p]}} : p \in reach}

(* A thread stores a reference into an object, or keeps it on its stack. *)
Store(o, i, v) ==
  /\ phase = "mutator" /\ i < valid[o]
  /\ mem' = [mem EXCEPT ![Base(o) + i] = v]
  /\ UNCHANGED <<heapvars, colour, root, pending, valid, gcvars>>

Load(a, v) ==
  /\ Ready(a)
  /\ root' = [root EXCEPT ![a] = v]
  /\ UNCHANGED <<heapvars, colour, mem, pending, valid, gcvars>>

-----------------------------------------------------------------------------
(* gengc.DoCollection *)

(* NoGarbageMarked: a pointer into an array keeps the whole array. *)
grey_object_Chunk(values) ==
  [o \in Objects |->
     IF /\ colour[o] = "white"
        /\ \E v \in values : o[1] <= v /\ v < o[1] + Hdr + chunks[o[1]].length
     THEN "grey" ELSE colour[o]]

(* gengc.grey_object: what white objects the values point to turns grey *)
grey_object(values) ==
  [o \in Objects |-> IF colour[o] = "white" /\ \E v \in values : PointsTo(v, o)
                     THEN "grey" ELSE colour[o]]

Contents(o) == {mem[c] : c \in Cells(o)}

GreyRoots ==
  /\ phase = "mutator"
  /\ colour' = grey_object({root[a] : a \in roots})
  /\ phase' = "mark" /\ cursor' = HeapStart /\ blackened' = FALSE
  /\ UNCHANGED <<heapvars, mutvars>>

GreyAhead == {o \in Objects : colour[o] = "grey" /\ Base(o) >= cursor}

(* The pass over the chunks, in the order of their addresses, comes to the  *)
(* next grey object.                                                        *)
Blacken ==
  /\ phase = "mark"
  /\ \E o \in GreyAhead :
       /\ \A p \in GreyAhead : Base(o) <= Base(p)
       /\ colour' = [grey_object(Contents(o)) EXCEPT ![o] = "black"]
       /\ cursor' = Base(o) + 1
  /\ blackened' = TRUE
  /\ UNCHANGED <<heapvars, mutvars, phase>>

(* CollectionEnds: blackened_count is not reset for the next pass. *)
EndPass_NoReset ==
  /\ phase = "mark" /\ GreyAhead = {}
  /\ phase' = IF blackened THEN "mark" ELSE "sweep"
  /\ cursor' = HeapStart
  /\ UNCHANGED <<heapvars, colour, mutvars, blackened>>

(* ... and ends, to be repeated unless it blackened nothing. *)
EndPass ==
  /\ phase = "mark" /\ GreyAhead = {}
  /\ phase' = IF blackened THEN "mark" ELSE "sweep"
  /\ cursor' = HeapStart /\ blackened' = FALSE
  /\ UNCHANGED <<heapvars, colour, mutvars>>

Freed == {o \in Objects : Class(o) # Large /\ colour[o] = "white"}

(* FreeCounts: the count of the class is forgotten. *)
Sweep_ArrayOnly ==
  /\ phase = "sweep"
  /\ colour' = [o \in Objects |-> IF o \in Freed THEN "free"
                                  ELSE IF colour[o] = "black" THEN "white" ELSE colour[o]]
  /\ valid' = [o \in Objects |-> IF o \in Freed THEN 0 ELSE valid[o]]
  /\ free_count' = [c \in DOMAIN free_count |->
                      free_count[c] + Cardinality({o \in Freed : o[1] = c})]
  /\ phase' = "mutator"
  /\ UNCHANGED <<free, chunks, sma, sm_free, roots, root, mem, pending, cursor, blackened>>

(* White large objects stay as they are. *)
Sweep ==
  /\ phase = "sweep"
  /\ colour' = [o \in Objects |-> IF o \in Freed THEN "free"
                                  ELSE IF colour[o] = "black" THEN "white" ELSE colour[o]]
  /\ valid' = [o \in Objects |-> IF o \in Freed THEN 0 ELSE valid[o]]
  /\ free_count' = [c \in DOMAIN free_count |->
                      free_count[c] + Cardinality({o \in Freed : o[1] = c})]
  /\ sm_free' = [k \in Classes |->
                   sm_free[k] + Cardinality({o \in Freed : Class(o) = k})]
  /\ phase' = "mutator"
  /\ UNCHANGED <<free, chunks, sma, roots, root, mem, pending, cursor, blackened>>

-----------------------------------------------------------------------------
(* The heap after gengc.Init and the AddRoots of Arch.Init *)
Init ==
  LET f == HeapStart + Hdr + align(RootLength) IN
  /\ free = [g \in {f} |-> HeapEnd - f - Hdr]
  /\ chunks = [c \in {HeapStart} |-> [length |-> align(RootLength), class |-> RootBlock]]
  /\ sma = [k \in Classes |-> << >>] /\ free_count = [c \in {} |-> 0]
  /\ sm_free = [k \in Classes |-> 0]
  /\ colour = [o \in {} |-> "free"] /\ valid = [o \in {} |-> 0]
  /\ roots = BootAreas
  /\ root = [a \in Areas |-> 0] /\ pending = [a \in Areas |-> 0]
  /\ mem = Ram
  /\ phase = "mutator" /\ cursor = HeapStart /\ blackened = FALSE

Mutator ==
  \/ \E a \in Areas, n \in Requests :
       AllocSlot(a, n) \/ AllocArray(a, n) \/ AllocLarge(a, n)
  \/ \E a \in Areas : Clear(a) \/ AddRoots(a)
  \/ LET reach == Reachable
         refs == References(reach)
     IN \/ \E o \in reach, i \in Fields, v \in refs : Store(o, i, v)
        \/ \E a \in Areas, v \in refs : Load(a, v)

Collector == Blacken \/ EndPass \/ Sweep

Next == Mutator \/ GreyRoots \/ Collector

(* A collection that has begun goes on: it can not be interrupted. *)
Spec == Init /\ [][Next]_vars /\ WF_vars(Collector)

-----------------------------------------------------------------------------
(* What gengc's trees, bitmaps and counters hold is of these types. *)
TypeOK ==
  /\ \A f \in DOMAIN free : f \in Nat /\ free[f] \in Nat
  /\ \A c \in DOMAIN chunks : /\ c \in Nat /\ chunks[c].length \in Nat
                             /\ chunks[c].class \in Classes \cup {Large, RootBlock}
  /\ colour \in [Objects -> Colours] /\ valid \in [Objects -> Nat]
  /\ roots \subseteq Areas /\ root \in [Areas -> Nat]
  /\ pending \in [Areas -> Nat] /\ mem \in [HeapStart..(HeapEnd - 1) -> Nat]
  /\ phase \in {"mutator", "mark", "sweep", "halted"}
  /\ cursor \in Nat /\ blackened \in BOOLEAN

(* No chunk, used or free, overlaps another: a chunk is split so that what  *)
(* is left starts where the used part ends (allocate_chunk).                *)
ChunksDisjoint ==
  LET length(c) == Hdr + (IF c \in DOMAIN free THEN free[c] ELSE chunks[c].length)
      all == DOMAIN free \cup DOMAIN chunks IN
  /\ DOMAIN free \cap DOMAIN chunks = {}
  /\ \A c \in all : HeapStart <= c /\ c + length(c) <= HeapEnd
  /\ \A c, d \in all : c < d => c + length(c) <= d

(* DoCollection never frees an object that a thread can still reach, and    *)
(* Alloc never hands one out again, whatever collections run between Alloc  *)
(* and the clearing of the object.                                          *)
ReachableKept == \A o \in Reachable : colour[o] # "free"

(* When DoCollection sweeps "there should be no grey blocks now": the       *)
(* passes over the chunks are repeated until one blackens nothing.          *)
NoGreyInSweep == phase = "sweep" => \A o \in Objects : colour[o] # "grey"

(* Alloc's two counts of free slots, one per class and one per array, stay  *)
(* consistent though Alloc lowers the count of the first array of the list  *)
(* whichever array it takes the slot from, and no free slot is ever         *)
(* forgotten: slots whose bits were not cleared only make the counts larger.*)
FreeCounts ==
  \A k \in Classes :
    /\ sm_free[k] >= Cardinality({o \in Objects : Class(o) = k /\ colour[o] = "free"})
    /\ sm_free[k] = LET sum[j \in 0..Len(sma[k])] ==
                          IF j = 0 THEN 0 ELSE sum[j - 1] + free_count[sma[k][j]]
                    IN sum[Len(sma[k])]

(* DoCollection keeps no garbage but what stale cells point to: what is     *)
(* marked can be reached through cells of objects, cleared or not, unless   *)
(* what memory held before looks like marks.                                *)
NoGarbageMarked ==
  LET scanned == Closure([o \in Objects |-> Cells(o)]) IN
  phase \in {"mark", "sweep"} /\ Stale \subseteq {"free", "white"} =>
    \A o \in Objects : colour[o] \in {"grey", "black"} => o \in scanned

(* A collection ends: marking makes progress until nothing is grey. *)
CollectionEnds == phase = "mark" ~> phase = "mutator"
=============================================================================
