--------------------------- MODULE VirtualRegions ---------------------------
(***************************************************************************)
(* The allocator of virtual address space (Virtual_Regions.cs): the        *)
(* regions the constructor lays out, one of them free, and AllocRegion,    *)
(* which takes new ones off the start of the free one and never gives any  *)
(* back.  AllocRegion runs under a lock and is one step.                   *)
(***************************************************************************)
EXTENDS Integers

CONSTANTS
  PageSize,
  tysos_base, tysos_length,   \* the kernel image
  DevStart, NonCanonStart, HeapStart, HeapEnd, PagesStart, AddressEnd,
                              \* where the fixed regions start and end
  Lengths, Aligns, Protects,  \* what AllocRegion may be asked for
  Types                       \* region types of allocated regions

align(a, f) == IF a % f = 0 THEN a ELSE a - (a % f) + f

Region(start, length, protect, type) ==
  [start |-> start, length |-> length, stack_protect |-> protect, type |-> type]

End(r) == r.start + r.length   \* one past Region.end

contains(r, a) == r.start <= a /\ a < End(r)

FreeStart == align(tysos_base + tysos_length - 1, PageSize)

(* An image that ends one byte into a page makes the free region start at   *)
(* that byte: align is given its last byte, not the one after it.           *)
ASSUME LayoutAssumption ==
  /\ PageSize \in Nat \ {0}
  /\ tysos_base \in Nat /\ tysos_length \in Nat \ {0}
  /\ (tysos_base + tysos_length - 1) % PageSize # 0
  /\ DevStart \in Nat /\ NonCanonStart \in Nat /\ HeapStart \in Nat
  /\ HeapEnd \in Nat /\ PagesStart \in Nat /\ AddressEnd \in Nat
  /\ FreeStart <= DevStart /\ DevStart <= NonCanonStart
  /\ NonCanonStart <= HeapStart /\ HeapStart <= HeapEnd
  /\ HeapEnd <= PagesStart /\ PagesStart <= AddressEnd

ASSUME RequestAssumption ==
  /\ Lengths \subseteq Nat /\ Protects \subseteq Nat
  /\ Aligns \subseteq Nat \ {0}

VARIABLES
  free,      \* the free region
  regions    \* the other regions of the list
vregvars == <<free, regions>>

Min2(a, b) == IF a < b THEN a ELSE b

(* Virtual_Regions.Virtual_Regions *)
Fixed ==
  (IF tysos_base = 0 THEN {}
   ELSE {Region(0, Min2(PageSize, tysos_base), 0, "NonCanonical")})
  \cup {Region(tysos_base, tysos_length, 0, "Tysos"),
        Region(DevStart, NonCanonStart - DevStart, 0, "Devices"),
        Region(NonCanonStart, HeapStart - NonCanonStart, 0, "NonCanonical"),
        Region(HeapStart, HeapEnd - HeapStart, 0, "Heap"),
        Region(PagesStart, AddressEnd - PagesStart, 0, "PageTables")}

VregInit ==
  /\ free = Region(FreeStart, DevStart - FreeStart, 0, "Free")
  /\ regions = Fixed

(* RegionsDisjoint: the guard is left out of what is taken off the free     *)
(* region.                                                                  *)
AllocRegion_NoGuard(length, al, protect, type) ==
  LET start == align(free.start, al) IN
  /\ start + length + protect <= free.start + free.length
  /\ free' = [free EXCEPT !.start = start + length,
                          !.length = free.start + @ - start - length]
  /\ regions' = regions \cup {Region(start, length + protect, protect, type)}

(* A request that does not fit throws OutOfMemoryException. *)
AllocRegion(length, al, protect, type) ==
  LET start == align(free.start, al)
      newstart == start + length + protect IN
  /\ newstart <= free.start + free.length
  /\ free' = [free EXCEPT !.start = newstart, !.length = free.start + @ - newstart]
  /\ regions' = regions \cup {Region(start, length + protect, protect, type)}

AllocAny ==
  \E length \in Lengths, al \in Aligns, protect \in Protects, type \in Types :
    AllocRegion(length, al, protect, type)

VregSpec == VregInit /\ [][AllocAny]_vregvars

-----------------------------------------------------------------------------
Disjoint(r, q) == End(r) <= q.start \/ End(q) <= r.start

(* No address is in two regions, or in a region and the free one, however   *)
(* often and for whatever AllocRegion is called: the page fault handler     *)
(* maps a page for the first region that contains it.                       *)
RegionsDisjoint ==
  /\ \A r \in regions : Disjoint(r, free)
  /\ \A r, q \in regions : r # q => Disjoint(r, q)
=============================================================================
