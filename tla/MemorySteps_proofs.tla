-------------------------- MODULE MemorySteps_proofs --------------------------
(***************************************************************************)
(* Regions of the virtual address space do not overlap, and the guards of  *)
(* stacks are not mapped, for every layout and every sequence of requests. *)
(* Before that: what each step of the memory managers changes, and that    *)
(* their state stays typed, which Memory_proofs uses too.  StackFacts is a *)
(* fact about constants that MemoryStacks_proofs proves (StackFactsHold);  *)
(* the theorems that do without it are there.                              *)
(***************************************************************************)
EXTENDS MemoryStacks, TLAPS

(* Time limits that leave a slow machine room.                              *)
USE SMTT(30), ZenonT(30)

-----------------------------------------------------------------------------
(* Numbers and sequences *)

(* Multiplication keeps the order.                                          *)
LEMMA TimesLeq ==
  ASSUME NEW a \in Nat, NEW b \in Nat, NEW c \in Nat, a <= b
  PROVE  a * c \in Nat /\ b * c \in Nat /\ a * c <= b * c
<1>1. PICK d \in Nat : b = a + d
  <2>1. b - a \in Nat /\ b = a + (b - a)
    OBVIOUS
  <2> QED BY ZenonT(30), <2>1
<1>2. b * c = a * c + d * c /\ d * c \in Nat /\ a * c \in Nat
  BY <1>1
<1> QED BY <1>2

(* Division rounds down.                                                    *)
LEMMA DivBounds ==
  ASSUME NEW a \in Nat, NEW d \in Nat \ {0}
  PROVE  /\ a \div d \in Nat /\ (a \div d) * d \in Nat
         /\ (a \div d) * d <= a /\ a < (a \div d) * d + d /\ a \div d <= a
<1>1. a \div d \in Nat /\ a = d * (a \div d) + (a % d) /\ a % d \in 0 .. d - 1
  OBVIOUS
<1>2. PICK q \in Nat, r \in 0 .. d - 1 : q = a \div d /\ r = a % d
  BY ZenonT(30), <1>1
<1>3. a = d * q + r
  BY ZenonT(30), <1>1, <1>2
<1>4. d * q = q * d /\ q * d \in Nat /\ q * 1 <= q * d
  <2>1. q * d = d * q /\ q * d \in Nat
    OBVIOUS
  <2>2. 1 * q <= d * q
    BY TimesLeq
  <2> QED BY <2>1, <2>2
<1> QED BY <1>2, <1>3, <1>4

(* util.align never goes below its argument.                                *)
LEMMA AlignBounds ==
  ASSUME NEW a \in Nat, NEW f \in Nat \ {0}
  PROVE  align(a, f) \in Nat /\ a <= align(a, f)
<1>1. a % f \in 0 .. f - 1
  OBVIOUS
<1>2. DEFINE m == a % f
<1>3. m \in Nat /\ m < f
  BY <1>1
<1>4. HIDE DEF m
<1>5. a - m + f \in Nat /\ a <= a - m + f
  BY <1>3
<1> QED
  BY <1>5 DEF align, m


(* The elements of a sequence.                                              *)
LEMMA SeqFacts ==
  ASSUME NEW S, NEW s \in Seq(S)
  PROVE  /\ Len(s) \in Nat /\ s \in [1 .. Len(s) -> S]
         /\ \A i \in 1 .. Len(s) : s[i] \in S
OBVIOUS

-----------------------------------------------------------------------------
(* Regions.  The inductive invariant says where a region can be: below the  *)
(* free region, which only ever shrinks from its start, or at or above its  *)
(* fixed end.                                                               *)

IsRegion(r) ==
  /\ r = Region(r.start, r.length, r.stack_protect, r.type)
  /\ r.start \in Nat /\ r.length \in Nat

Outside(r) == End(r) <= free.start \/ DevStart <= r.start

RegionsInv ==
  /\ IsRegion(free) /\ End(free) = DevStart
  /\ \A r \in regions : IsRegion(r) /\ Outside(r)
  /\ \A r, q \in regions : r # q => Disjoint(r, q)

(* What Region builds.                                                      *)
LEMMA RegionFields ==
  ASSUME NEW s \in Nat, NEW l \in Nat, NEW p, NEW t
  PROVE  /\ IsRegion(Region(s, l, p, t))
         /\ Region(s, l, p, t).start = s
         /\ Region(s, l, p, t).length = l
         /\ End(Region(s, l, p, t)) = s + l
BY ZenonT(30) DEF IsRegion, Region, End

(* The constructor's regions do not overlap.                                *)
LEMMA InitRegions == VregInit => RegionsInv
<1> SUFFICES ASSUME VregInit PROVE RegionsInv
  OBVIOUS
<1> USE LayoutAssumption
<1>0. tysos_base + tysos_length - 1 \in Nat
  OBVIOUS
<1>1. FreeStart \in Nat /\ tysos_base + tysos_length - 1 <= FreeStart
  BY ZenonT(30), <1>0, AlignBounds DEF FreeStart
<1>2. FreeStart # tysos_base + tysos_length - 1
  <2>1. DEFINE e == tysos_base + tysos_length - 1
  <2>2. e % PageSize \in 0 .. PageSize - 1
    BY <1>0
  <2>3. e - (e % PageSize) + PageSize # e
    BY <1>0, <2>2
  <2> QED
    BY ZenonT(30), <2>3 DEF FreeStart, align
<1>3. tysos_base + tysos_length <= FreeStart
  BY <1>0, <1>1, <1>2
<1>4. PICK n \in Nat : n = Min2(PageSize, tysos_base) /\ n <= tysos_base
  BY DEF Min2
<1> DEFINE null == Region(0, n, 0, "NonCanonical")
           tys == Region(tysos_base, tysos_length, 0, "Tysos")
           dev == Region(DevStart, NonCanonStart - DevStart, 0, "Devices")
           non == Region(NonCanonStart, HeapStart - NonCanonStart, 0, "NonCanonical")
           heap == Region(HeapStart, HeapEnd - HeapStart, 0, "Heap")
           pts == Region(PagesStart, AddressEnd - PagesStart, 0, "PageTables")
<1>5. regions \subseteq {null, tys, dev, non, heap, pts}
  BY ZenonT(30), <1>4 DEF VregInit, Fixed
<1>6. /\ IsRegion(null) /\ null.start = 0 /\ End(null) <= tysos_base
      /\ IsRegion(tys) /\ tys.start = tysos_base /\ End(tys) <= FreeStart
  BY <1>3, <1>4, RegionFields
<1>7. /\ IsRegion(dev) /\ dev.start = DevStart /\ End(dev) = NonCanonStart
      /\ IsRegion(non) /\ non.start = NonCanonStart /\ End(non) = HeapStart
      /\ IsRegion(heap) /\ heap.start = HeapStart /\ End(heap) = HeapEnd
      /\ IsRegion(pts) /\ pts.start = PagesStart /\ End(pts) = AddressEnd
  <2>1. /\ NonCanonStart - DevStart \in Nat /\ HeapStart - NonCanonStart \in Nat
        /\ HeapEnd - HeapStart \in Nat /\ AddressEnd - PagesStart \in Nat
    OBVIOUS
  <2> QED
    BY <2>1, RegionFields
<1>8. IsRegion(free) /\ free.start = FreeStart /\ End(free) = DevStart
  <2>1. DevStart - FreeStart \in Nat
    BY <1>1
  <2> QED
    BY <1>1, <2>1, RegionFields DEF VregInit
<1> HIDE DEF null, tys, dev, non, heap, pts
<1>9. \A r \in regions : IsRegion(r) /\ Outside(r)
  <2>1. tysos_base <= FreeStart
    BY <1>1, <1>3
  <2>2. /\ Outside(null) /\ Outside(tys) /\ Outside(dev) /\ Outside(non)
        /\ Outside(heap) /\ Outside(pts)
    <3>1. End(null) \in Nat /\ End(tys) \in Nat
      BY <1>6 DEF IsRegion, End
    <3> QED
      BY <1>1, <1>6, <1>7, <1>8, <2>1, <3>1 DEF Outside
  <2> QED
    BY ZenonT(30), <1>5, <1>6, <1>7, <2>2
<1>10. \A r, q \in {null, tys, dev, non, heap, pts} : r # q => Disjoint(r, q)
  <2>1. End(null) \in Nat /\ End(tys) \in Nat
    BY <1>6 DEF IsRegion, End
  <2> QED
    BY <1>1, <1>6, <1>7, <2>1 DEF Disjoint
<1> QED
  BY <1>5, <1>8, <1>9, <1>10 DEF RegionsInv

(* A new region comes out of the free one, whatever is asked for.           *)
LEMMA AllocStep ==
  ASSUME NEW length \in Nat, NEW al \in Nat \ {0}, NEW protect \in Nat, NEW type,
         RegionsInv, AllocRegion(length, al, protect, type)
  PROVE  RegionsInv'
<1> DEFINE start == align(free.start, al)
           newstart == start + length + protect
           new == Region(start, length + protect, protect, type)
<1> USE LayoutAssumption
<1>1. free.start \in Nat /\ free.length \in Nat /\ free.start + free.length = DevStart
  BY ZenonT(30) DEF RegionsInv, IsRegion, End
<1>2. start \in Nat /\ free.start <= start
  BY ZenonT(30), <1>1, AlignBounds
<1> HIDE DEF start
<1>3. newstart \in Nat /\ newstart <= DevStart /\ free.start <= newstart
  BY <1>1, <1>2 DEF AllocRegion, start
<1>4. IsRegion(new) /\ new.start = start /\ End(new) = newstart
  <2>1. length + protect \in Nat /\ start + (length + protect) = newstart
    BY <1>2
  <2> QED
    BY <1>2, <2>1, RegionFields
<1>5. free' = Region(newstart, DevStart - newstart, free.stack_protect, free.type)
  <2>1. free = Region(free.start, free.length, free.stack_protect, free.type)
    BY ZenonT(30) DEF RegionsInv, IsRegion
  <2>2. free' = [free EXCEPT !.start = newstart,
                             !.length = free.start + free.length - newstart]
    BY ZenonT(30) DEF AllocRegion, start
  <2> HIDE DEF newstart
  <2>3. free' = Region(newstart, free.start + free.length - newstart,
                       free.stack_protect, free.type)
    BY ZenonT(30), <2>1, <2>2 DEF Region
  <2> QED
    BY <1>1, <1>3, <2>3
<1>6. IsRegion(free') /\ free'.start = newstart /\ End(free') = DevStart
  <2>1. DevStart - newstart \in Nat /\ newstart + (DevStart - newstart) = DevStart
    BY <1>3
  <2> HIDE DEF newstart
  <2> QED
    BY <1>3, <1>5, <2>1, RegionFields
<1>7. regions' = regions \cup {new}
  BY ZenonT(30) DEF AllocRegion, start
<1> HIDE DEF newstart, new
<1>8. ASSUME NEW r \in regions
      PROVE  IsRegion(r) /\ Disjoint(r, new) /\ Disjoint(new, r)
             /\ (End(r) <= newstart \/ DevStart <= r.start)
  <2>1. IsRegion(r) /\ Outside(r) /\ r.start \in Nat /\ End(r) \in Nat
    BY <1>8 DEF RegionsInv, IsRegion, End
  <2> QED
    BY <1>1, <1>2, <1>3, <1>4, <2>1 DEF Outside, Disjoint
<1>9. \A r \in regions' : IsRegion(r) /\ (Outside(r))'
  BY <1>3, <1>4, <1>6, <1>7, <1>8 DEF Outside, End
<1>10. \A r, q \in regions' : r # q => Disjoint(r, q)
  BY ZenonT(30), <1>7, <1>8 DEF RegionsInv
<1> QED
  BY ZenonT(30), <1>6, <1>9, <1>10 DEF RegionsInv, IsRegion, End, Disjoint, Region

(* However often and for whatever AllocRegion is called, no two regions of  *)
(* the list overlap and none overlaps what is still free.                   *)
THEOREM RegionsDisjointHolds == VregSpec => []RegionsDisjoint
(* The invariant of the allocator.                                          *)
<1>RegionsInvariant. VregSpec => []RegionsInv
  <2>1. RegionsInv /\ [AllocAny]_vregvars => RegionsInv'
    <3> SUFFICES ASSUME RegionsInv, [AllocAny]_vregvars PROVE RegionsInv'
      OBVIOUS
    <3>1. CASE AllocAny
      <4>1. PICK length \in Lengths, al \in Aligns, protect \in Protects, type \in Types :
              AllocRegion(length, al, protect, type)
        BY ZenonT(30), <3>1 DEF AllocAny
      <4> QED
        BY ZenonT(30), <4>1, AllocStep, RequestAssumption
    <3>2. CASE UNCHANGED vregvars
      BY ZenonT(30), <3>2 DEF vregvars, RegionsInv, IsRegion, Outside, Disjoint, End, Region
    <3> QED
      BY ZenonT(30), <3>1, <3>2
  <2> QED
    BY InitRegions, <2>1, PTL DEF VregSpec
<1>1. RegionsInv => RegionsDisjoint
  <2> SUFFICES ASSUME RegionsInv, NEW r \in regions PROVE Disjoint(r, free)
    BY ZenonT(30) DEF RegionsInv, RegionsDisjoint
  <2>1. IsRegion(r) /\ Outside(r) /\ IsRegion(free) /\ End(free) = DevStart
    BY ZenonT(30) DEF RegionsInv
  <2> QED
    BY ZenonT(30), <2>1, LayoutAssumption DEF Outside, Disjoint
<1> QED
  BY <1>RegionsInvariant, <1>1, PTL

-----------------------------------------------------------------------------
(* The types of memory's state *)

Places == {"idle", "frame", "walk", "small", "large", "split", "stuck"}
Taking == {"small", "large", "split"}

(* Threads only map the memory of devices.                                  *)
Kinds(a) == IF a = PF THEN {"read", "write"} ELSE {"device"}
Maps(a) == [page : Nat, kind : Kinds(a), frame : Nat \cup {None, Device}, level : Int]

IsNeed(n) ==
  \E w \in {"page", "blank", "table"}, l \in Int : \E i :
    n = [what |-> w, level |-> l, index |-> i]

IsSplit(s) ==
  s \in [page : Nat, next : Nat] /\ s.page < s.next /\ s.next <= s.page + LargeSize

ActorOK(a) ==
  /\ pc[a] \in Places
  /\ pc[a] # "idle" => booted = Len(Blocks) /\ map[a] \in Maps(a)
  /\ pc[a] \in Taking => IsNeed(need[a]) /\ block[a] \in Nat \ {0}
  /\ pc[a] \in {"large", "split"} => block[a] <= Len(upper)
  /\ pc[a] = "split" => IsSplit(split[a])

ActorDomains ==
  /\ DOMAIN pc = Actors /\ DOMAIN map = Actors /\ DOMAIN need = Actors
  /\ DOMAIN block = Actors /\ DOMAIN split = Actors

BootTyped ==
  /\ used \in [Block -> Nat] /\ \A b \in Block : Left(b) \in Nat
  /\ sb \in Block \cup {0} /\ booted \in 0 .. Len(Blocks)
  /\ upper \in Seq(StackRecords) /\ Len(upper) <= booted
  /\ handed \subseteq Nat /\ bp \in Nat \cup {None}

MemTyped == BootTyped /\ ActorDomains /\ \A a \in Actors : ActorOK(a)

(* A step of one actor leaves the others where they are.                    *)
Alone(a) ==
  \A c \in Actors \ {a} :
    /\ pc'[c] = pc[c] /\ map'[c] = map[c] /\ need'[c] = need[c]
    /\ block'[c] = block[c] /\ split'[c] = split[c]

(* What is known of the blocks.                                             *)
LEMMA BlockFacts ==
  /\ Len(Blocks) \in Nat
  /\ \A b \in Block : Blocks[b].start \in Nat \ {0} /\ Blocks[b].length \in Nat
<1>1. Len(Blocks) \in Nat /\ \A b \in Block : Blocks[b] \in [start : Nat \ {0}, length : Nat]
  BY ZenonT(30), BlocksAssumption, SeqFacts DEF Block
<1> QED BY ZenonT(30), <1>1

(* Map's variables are of their types ...                                   *)
LEMMA MapFields ==
  ASSUME NEW a, NEW m \in Maps(a)
  PROVE  /\ m.page \in Nat /\ m.kind \in Kinds(a) /\ m.level \in Int
         /\ m.frame \in Nat \cup {None, Device}
BY ZenonT(30) DEF Maps

(* ... when the frame is known ...                                          *)
LEMMA MapFrame ==
  ASSUME NEW a, NEW m \in Maps(a), NEW x \in Nat \cup {None, Device},
         NEW r, r = [m EXCEPT !.frame = x]
  PROVE  /\ r \in Maps(a) /\ r.page = m.page /\ r.kind = m.kind /\ r.frame = x
<1>1. r \in Maps(a)
  BY ZenonT(30) DEF Maps
<1> QED BY ZenonT(30), <1>1 DEF Maps

(* ... and when the next level of tables is walked.                         *)
LEMMA MapLevel ==
  ASSUME NEW a, NEW m \in Maps(a), NEW l \in Int, NEW r, r = [m EXCEPT !.level = l]
  PROVE  /\ r \in Maps(a) /\ r.page = m.page /\ r.kind = m.kind /\ r.frame = m.frame
<1>1. r \in Maps(a)
  BY ZenonT(30) DEF Maps
<1> QED BY ZenonT(30), <1>1 DEF Maps

(* GetPage starts to look for a page.                                       *)
LEMMA GetPageIs ==
  ASSUME MemTyped, NEW a \in Actors, NEW w, NEW l, NEW i, GetPage(a, w, l, i)
  PROVE  /\ need'[a] = [what |-> w, level |-> l, index |-> i] /\ need'[a].what = w
         /\ block'[a] = 1 /\ pc'[a] = "small"
         /\ DOMAIN pc' = Actors /\ DOMAIN need' = Actors /\ DOMAIN block' = Actors
         /\ \A c \in Actors \ {a} : pc'[c] = pc[c] /\ need'[c] = need[c] /\ block'[c] = block[c]
<1>1. PICK n : n = [what |-> w, level |-> l, index |-> i]
  BY ZenonT(30)
<1>2. need' = [need EXCEPT ![a] = n] /\ block' = [block EXCEPT ![a] = 1]
      /\ pc' = [pc EXCEPT ![a] = "small"]
  BY ZenonT(30), <1>1 DEF GetPage, Goto
<1>3. DOMAIN pc = Actors /\ DOMAIN need = Actors /\ DOMAIN block = Actors
  BY ZenonT(30) DEF MemTyped, ActorDomains
<1>4. need'[a] = n /\ block'[a] = 1 /\ pc'[a] = "small"
  BY ZenonT(30), <1>2, <1>3
<1> QED BY ZenonT(30), <1>1, <1>2, <1>3, <1>4

(* What the fields of a need are.                                           *)
LEMMA NeedFields ==
  ASSUME NEW n, IsNeed(n)
  PROVE  n.what \in {"page", "blank", "table"} /\ n.level \in Int
<1>1. PICK w \in {"page", "blank", "table"}, l \in Int :
        \E i : n = [what |-> w, level |-> l, index |-> i]
  BY ZenonT(30) DEF IsNeed
<1>2. PICK i : n = [what |-> w, level |-> l, index |-> i]
  BY ZenonT(30), <1>1
<1> QED BY ZenonT(30), <1>1, <1>2

(* The tables tc are those of tb with a new one at x.                       *)
TableAt(tb, tc, x) ==
  \E t : \A s \in DOMAIN tc :
    (s = t /\ tc[s] = x) \/ (s # t /\ s \in DOMAIN tb /\ tc[s] = tb[s])

(* A page that was got is handed out and goes where it is needed; pages and *)
(* tables may go, none is added but the table that was needed.              *)
LEMMA GotIs ==
  ASSUME MemTyped, NEW a \in Actors, NEW x \in Nat, pc[a] \in Taking, Got(a, x)
  PROVE  /\ handed' = handed \cup {x}
         /\ DOMAIN pc' = Actors /\ DOMAIN map' = Actors
         /\ pc'[a] = "walk" /\ map'[a] \in Maps(a)
         /\ map'[a].page = map[a].page /\ map'[a].kind = map[a].kind
         /\ \A c \in Actors \ {a} : pc'[c] = pc[c] /\ map'[c] = map[c]
         /\ bp' \in Nat \cup {None}
         /\ DOMAIN pages' \subseteq DOMAIN pages
         /\ \A v \in DOMAIN pages' : pages'[v] = pages[v]
         /\ need[a].what # "blank" => bp' = bp
         /\ need[a].what = "blank" => bp' = x
         /\ need[a].what # "table" => map'[a].frame = x /\ tables' = tables
         /\ need[a].what = "table" =>
              /\ map'[a].frame = map[a].frame
              /\ TableAt(tables, tables', x)
<1>1. /\ DOMAIN pc = Actors /\ DOMAIN map = Actors /\ ActorOK(a) /\ bp \in Nat \cup {None}
  BY ZenonT(30) DEF MemTyped, ActorDomains, BootTyped
<1>2. map[a] \in Maps(a) /\ IsNeed(need[a])
  BY ZenonT(30), <1>1 DEF ActorOK, Taking
<1>3. handed' = handed \cup {x} /\ pc' = [pc EXCEPT ![a] = "walk"]
  BY ZenonT(30) DEF Got, Goto
<1>4. DOMAIN pc' = Actors /\ pc'[a] = "walk" /\ \A c \in Actors \ {a} : pc'[c] = pc[c]
  BY ZenonT(30), <1>1, <1>3
<1>5. ASSUME NEW m, m \in Maps(a), m.page = map[a].page, m.kind = map[a].kind,
             map' = [map EXCEPT ![a] = m]
      PROVE  /\ DOMAIN map' = Actors /\ map'[a] \in Maps(a)
             /\ map'[a].page = map[a].page /\ map'[a].kind = map[a].kind
             /\ map'[a].frame = m.frame
             /\ \A c \in Actors \ {a} : map'[c] = map[c]
  BY ZenonT(30), <1>1, <1>5
<1>6. need[a].what \in {"page", "blank", "table"} /\ need[a].level - 1 \in Int
  <2>1. need[a].what \in {"page", "blank", "table"} /\ need[a].level \in Int
    BY ZenonT(30), <1>2, NeedFields
  <2> QED BY <2>1
<1>7. CASE need[a].what \in {"page", "blank"}
  <2>1. need[a].what # "table"
    BY ZenonT(30), <1>7
  <2>2. PICK m : m = [map[a] EXCEPT !.frame = x]
    BY ZenonT(30)
  <2>3. map' = [map EXCEPT ![a] = m]
    BY ZenonT(30), <2>1, <2>2 DEF Got
  <2>4. m \in Maps(a) /\ m.page = map[a].page /\ m.kind = map[a].kind /\ m.frame = x
    BY <1>2, <2>2, MapFrame
  <2>5. tables' = tables /\ pages' = pages
    BY ZenonT(30), <2>1 DEF Got, paging
  <2>6. (need[a].what # "blank" => bp' = bp) /\ (need[a].what = "blank" => bp' = x)
    BY ZenonT(30), <1>7 DEF Got, paging
  <2>7. bp' \in Nat \cup {None}
    BY ZenonT(30), <1>1, <2>6
  <2> QED BY ZenonT(30), <1>3, <1>4, <1>5, <2>1, <2>3, <2>4, <2>5, <2>6, <2>7
<1>8. CASE need[a].what = "table"
  <2>1. need[a].what # "page" /\ need[a].what # "blank"
    BY ZenonT(30), <1>8
  <2>2. PICK m : m = [map[a] EXCEPT !.level = need[a].level - 1]
    BY ZenonT(30)
  <2>3. map' = [map EXCEPT ![a] = m]
    BY ZenonT(30), <2>1, <2>2 DEF Got
  <2>4. m \in Maps(a) /\ m.page = map[a].page /\ m.kind = map[a].kind /\ m.frame = map[a].frame
    BY <1>2, <1>6, <2>2, MapLevel
  <2>5. PICK t, S, T :
          /\ S \subseteq DOMAIN tables /\ tables' = Put(Keep(tables, S), t, x)
          /\ T \subseteq DOMAIN pages /\ pages' = Keep(pages, T) /\ bp' = bp
    <3>1. PICK l, i : l = need[a].level /\ i = need[a].index
      OBVIOUS
    <3>2. PICK S, T, t : /\ S = {y \in DOMAIN tables : ~ Under(l, i, y[1], y[2])}
                         /\ T = {v \in DOMAIN pages : ~ Under(l, i, 0, v)}
                         /\ t = <<l, i>>
      BY ZenonT(30)
    <3>3. tables' = Put(Keep(tables, S), t, x) /\ pages' = Keep(pages, T) /\ bp' = bp
      BY ZenonT(30), <2>1, <3>1, <3>2 DEF Got
    <3>4. S \subseteq DOMAIN tables /\ T \subseteq DOMAIN pages
      BY ZenonT(30), <3>2
    <3> QED BY ZenonT(30), <3>3, <3>4
  <2>6. DOMAIN pages' \subseteq DOMAIN pages /\ \A v \in DOMAIN pages' : pages'[v] = pages[v]
    BY ZenonT(30), <2>5 DEF Keep
  <2>7. \A s \in DOMAIN tables' : \/ s = t /\ tables'[s] = x
                                  \/ s # t /\ s \in DOMAIN tables /\ tables'[s] = tables[s]
    <3>1. PICK g : g = Keep(tables, S)
      BY ZenonT(30)
    <3>2. DOMAIN g = S /\ \A s \in S : g[s] = tables[s]
      BY ZenonT(30), <3>1 DEF Keep
    <3>3. tables' = [z \in DOMAIN g \cup {t} |-> IF z = t THEN x ELSE g[z]]
      BY ZenonT(30), <2>5, <3>1 DEF Put
    <3>4. DOMAIN tables' = S \cup {t}
          /\ \A z \in S \cup {t} : tables'[z] = IF z = t THEN x ELSE g[z]
      BY ZenonT(30), <3>2, <3>3
    <3> QED BY ZenonT(30), <2>5, <3>2, <3>4
  <2>8. bp' \in Nat \cup {None}
    BY ZenonT(30), <1>1, <2>5
  <2>9. /\ DOMAIN map' = Actors /\ map'[a] \in Maps(a)
        /\ map'[a].page = map[a].page /\ map'[a].kind = map[a].kind
        /\ map'[a].frame = map[a].frame
        /\ \A c \in Actors \ {a} : map'[c] = map[c]
    BY ZenonT(30), <1>5, <2>3, <2>4
  <2>10. /\ (need[a].what # "blank" => bp' = bp) /\ (need[a].what = "blank" => bp' = x)
         /\ (need[a].what # "table" => map'[a].frame = x /\ tables' = tables)
    BY ZenonT(30), <1>8, <2>1, <2>5
  <2>11. TableAt(tables, tables', x)
    <3>1. \A s \in DOMAIN tables' :
            (s = t /\ tables'[s] = x) \/ (s # t /\ s \in DOMAIN tables /\ tables'[s] = tables[s])
      BY ZenonT(30), <2>7
    <3> QED BY ZenonT(30), <3>1 DEF TableAt
  <2> QED BY ZenonT(30), <1>3, <1>4, <2>6, <2>8, <2>9, <2>10, <2>11
<1> QED BY ZenonT(30), <1>6, <1>7, <1>8

(* An actor goes on.                                                        *)
LEMMA GotoIs ==
  ASSUME MemTyped, NEW a \in Actors, NEW p, Goto(a, p)
  PROVE  DOMAIN pc' = Actors /\ pc'[a] = p /\ \A c \in Actors \ {a} : pc'[c] = pc[c]
<1>1. DOMAIN pc = Actors /\ pc' = [pc EXCEPT ![a] = p]
  BY ZenonT(30) DEF MemTyped, ActorDomains, Goto
<1> QED BY ZenonT(30), <1>1

SetSmall(u, b, q) == [u EXCEPT ![b].rbs = q]
SetLarge(u, b, q) == [u EXCEPT ![b].rbl = q]

(* A change of the small pages of one block ...                             *)
LEMMA SmallChange ==
  ASSUME NEW u \in Seq(StackRecords), NEW b \in 1 .. Len(u), NEW q \in Seq(Nat)
  PROVE  /\ SetSmall(u, b, q) \in Seq(StackRecords) /\ Len(SetSmall(u, b, q)) = Len(u)
         /\ SetSmall(u, b, q)[b].rbs = q /\ SetSmall(u, b, q)[b].rbl = u[b].rbl
         /\ \A c \in 1 .. Len(u) : c # b => SetSmall(u, b, q)[c] = u[c]
<1>0. PICK w : w = SetSmall(u, b, q)
  BY ZenonT(30)
<1>1. u[b] \in StackRecords /\ Len(u) \in Nat /\ u \in [1 .. Len(u) -> StackRecords]
  BY ZenonT(30), SeqFacts
<1>2. PICK e : e = [u[b] EXCEPT !.rbs = q]
  BY ZenonT(30)
<1>3. e \in StackRecords
  BY ZenonT(30), <1>1, <1>2 DEF StackRecords
<1>4. e.rbs = q /\ e.rbl = u[b].rbl
  BY ZenonT(30), <1>1, <1>2 DEF StackRecords
<1>5. w = [u EXCEPT ![b] = e]
  BY ZenonT(30), <1>0, <1>2 DEF SetSmall
<1>6. w \in [1 .. Len(u) -> StackRecords] /\ w[b] = e
      /\ \A c \in 1 .. Len(u) : c # b => w[c] = u[c]
  BY ZenonT(30), <1>1, <1>3, <1>5
<1>7. w \in Seq(StackRecords) /\ Len(w) = Len(u)
  BY <1>1, <1>6
<1> QED BY ZenonT(30), <1>0, <1>4, <1>6, <1>7

(* ... and of its large ones.                                               *)
LEMMA LargeChange ==
  ASSUME NEW u \in Seq(StackRecords), NEW b \in 1 .. Len(u), NEW q \in Seq(Nat)
  PROVE  /\ SetLarge(u, b, q) \in Seq(StackRecords) /\ Len(SetLarge(u, b, q)) = Len(u)
         /\ SetLarge(u, b, q)[b].rbl = q /\ SetLarge(u, b, q)[b].rbs = u[b].rbs
         /\ \A c \in 1 .. Len(u) : c # b => SetLarge(u, b, q)[c] = u[c]
<1>0. PICK w : w = SetLarge(u, b, q)
  BY ZenonT(30)
<1>1. u[b] \in StackRecords /\ Len(u) \in Nat /\ u \in [1 .. Len(u) -> StackRecords]
  BY ZenonT(30), SeqFacts
<1>2. PICK e : e = [u[b] EXCEPT !.rbl = q]
  BY ZenonT(30)
<1>3. e \in StackRecords
  BY ZenonT(30), <1>1, <1>2 DEF StackRecords
<1>4. e.rbl = q /\ e.rbs = u[b].rbs
  BY ZenonT(30), <1>1, <1>2 DEF StackRecords
<1>5. w = [u EXCEPT ![b] = e]
  BY ZenonT(30), <1>0, <1>2 DEF SetLarge
<1>6. w \in [1 .. Len(u) -> StackRecords] /\ w[b] = e
      /\ \A c \in 1 .. Len(u) : c # b => w[c] = u[c]
  BY ZenonT(30), <1>1, <1>3, <1>5
<1>7. w \in Seq(StackRecords) /\ Len(w) = Len(u)
  BY <1>1, <1>6
<1> QED BY ZenonT(30), <1>0, <1>4, <1>6, <1>7

SmallOnly(u, v, b, q) ==
  /\ Len(v) = Len(u) /\ v[b].rbs = q /\ v[b].rbl = u[b].rbl
  /\ \A c \in 1 .. Len(u) : c # b => v[c] = u[c]
LargeOnly(u, v, b, q) ==
  /\ Len(v) = Len(u) /\ v[b].rbl = q /\ v[b].rbs = u[b].rbs
  /\ \A c \in 1 .. Len(u) : c # b => v[c] = u[c]

(* Nothing else changes.                                                    *)
LEMMA OnlyChange ==
  ASSUME NEW u \in Seq(StackRecords), NEW b \in 1 .. Len(u), NEW q \in Seq(Nat)
  PROVE  SmallOnly(u, SetSmall(u, b, q), b, q) /\ LargeOnly(u, SetLarge(u, b, q), b, q)
<1>1. SmallOnly(u, SetSmall(u, b, q), b, q)
  BY ZenonT(30), SmallChange DEF SmallOnly
<1>2. LargeOnly(u, SetLarge(u, b, q), b, q)
  BY ZenonT(30), LargeChange DEF LargeOnly
<1> QED BY ZenonT(30), <1>1, <1>2

(* The stacks of a block are of their types.                                *)
LEMMA StackOf ==
  ASSUME BootTyped, NEW b \in 1 .. Len(upper)
  PROVE  /\ b \in Block /\ upper \in Seq(StackRecords) /\ Len(upper) \in Nat
         /\ upper[b].rbs \in Seq(Nat) /\ upper[b].rbl \in Seq(Nat) /\ upper[b].small \in Nat
<1>1. upper \in Seq(StackRecords) /\ Len(upper) <= booted /\ booted \in 0 .. Len(Blocks)
  BY ZenonT(30) DEF BootTyped
<1>2. upper[b] \in StackRecords /\ Len(upper) \in Nat
  BY ZenonT(30), <1>1, SeqFacts
<1>3. b \in Block
  BY <1>1, <1>2, BlockFacts DEF Block
<1> QED BY ZenonT(30), <1>1, <1>2, <1>3 DEF StackRecords

(* The head of a stack is a page, and the rest is a stack.                  *)
LEMMA HeadTail ==
  ASSUME NEW s \in Seq(Nat), s # << >>
  PROVE  /\ Head(s) \in Nat /\ Tail(s) \in Seq(Nat) /\ Len(s) \in Nat /\ Len(s) > 0
         /\ Head(s) = s[1] /\ Len(Tail(s)) = Len(s) - 1
         /\ \A i \in 1 .. Len(s) - 1 : Tail(s)[i] = s[i + 1]
OBVIOUS

(* What Small may do.                                                       *)
LEMMA SmallIs ==
  ASSUME MemTyped, NEW a \in Actors, Small(a)
  PROVE  /\ pc[a] = "small" /\ pc[a] \in Taking
         /\ UNCHANGED <<free, regions, used, sb, booted, need, block, split, halted>>
         /\ \/ /\ \E p \in {"stuck", "large"} :
                    Goto(a, p) /\ (p = "large" => block[a] \in 1 .. Len(upper))
               /\ UNCHANGED <<upper, map, bp, tables, pages, handed>>
            \/ /\ block[a] \in 1 .. Len(upper) /\ upper[block[a]].rbs # << >>
               /\ \E x, q : /\ x = Head(upper[block[a]].rbs) /\ q = Tail(upper[block[a]].rbs)
                            /\ upper' = SetSmall(upper, block[a], q)
                            /\ Got(a, x)
<1>1. pc[a] = "small" /\ UNCHANGED <<free, regions, used, sb, booted, need, block, split, halted>>
  BY ZenonT(30) DEF Small, At, boot, vregvars
<1>2. pc[a] \in Taking /\ ActorOK(a)
  BY ZenonT(30), <1>1 DEF Taking, MemTyped
<1>3. PICK b \in Nat \ {0} : b = block[a]
  BY ZenonT(30), <1>2 DEF ActorOK
<1>4. Len(upper) \in Nat
  BY ZenonT(30), SeqFacts DEF MemTyped, BootTyped
<1>5. \/ b > Len(upper) /\ Goto(a, "stuck") /\ UNCHANGED <<upper, map, paging, handed>>
      \/ /\ b <= Len(upper) /\ Goto(a, "large")
         /\ UNCHANGED <<upper, map, paging, handed>>
      \/ /\ b <= Len(upper) /\ upper[b].rbs # << >>
         /\ upper' = SetSmall(upper, b, Tail(upper[b].rbs))
         /\ Got(a, Head(upper[b].rbs))
  BY ZenonT(30), <1>3 DEF Small, SetSmall
<1>6. b <= Len(upper) => b \in 1 .. Len(upper)
  BY <1>4
<1> QED BY ZenonT(30), <1>1, <1>2, <1>3, <1>5, <1>6 DEF paging

(* What Large may do.                                                       *)
LEMMA LargeIs ==
  ASSUME MemTyped, NEW a \in Actors, Large(a)
  PROVE  /\ pc[a] = "large" /\ block[a] \in 1 .. Len(upper)
         /\ UNCHANGED <<free, regions, used, sb, booted, map, need, bp, tables, pages,
                        halted, handed>>
         /\ \/ /\ block' = [block EXCEPT ![a] = block[a] + 1]
               /\ Goto(a, "small")
               /\ UNCHANGED <<upper, split>>
            \/ /\ upper[block[a]].rbl # << >>
               /\ \E x, q : /\ x = Head(upper[block[a]].rbl) /\ q = Tail(upper[block[a]].rbl)
                            /\ upper' = SetLarge(upper, block[a], q)
                            /\ split' = [split EXCEPT ![a] = [page |-> x, next |-> x + 1]]
               /\ Goto(a, "split")
               /\ UNCHANGED block
<1>1. /\ pc[a] = "large" /\ ActorOK(a)
      /\ UNCHANGED <<free, regions, used, sb, booted, map, need, bp, tables, pages, halted, handed>>
  BY ZenonT(30) DEF Large, At, boot, vregvars, paging, MemTyped
<1>2. PICK b \in Nat \ {0} : b = block[a] /\ b <= Len(upper)
  BY ZenonT(30), <1>1 DEF ActorOK, Taking
<1>3. Len(upper) \in Nat
  BY ZenonT(30), SeqFacts DEF MemTyped, BootTyped
<1>4. \/ /\ block' = [block EXCEPT ![a] = b + 1] /\ Goto(a, "small")
         /\ UNCHANGED <<upper, split>>
      \/ /\ upper[b].rbl # << >>
         /\ upper' = SetLarge(upper, b, Tail(upper[b].rbl))
         /\ split' = [split EXCEPT ![a] = [page |-> Head(upper[b].rbl),
                                           next |-> Head(upper[b].rbl) + 1]]
         /\ Goto(a, "split") /\ UNCHANGED block
  BY ZenonT(30), <1>2 DEF Large, SetLarge
<1>5. b \in 1 .. Len(upper)
  BY <1>2, <1>3
<1> QED BY ZenonT(30), <1>1, <1>2, <1>4, <1>5

(* What Split may do.                                                       *)
LEMMA SplitIs ==
  ASSUME MemTyped, NEW a \in Actors, Split(a)
  PROVE  /\ pc[a] = "split" /\ pc[a] \in Taking /\ block[a] \in 1 .. Len(upper)
         /\ UNCHANGED <<free, regions, used, sb, booted, need, block, halted>>
         /\ \E p, n \in Nat :
              /\ split[a] \in [page : Nat, next : Nat]
              /\ p = split[a].page /\ n = split[a].next
              /\ p < n /\ n <= p + LargeSize
              /\ \/ /\ n < p + LargeSize
                    /\ upper' = SetSmall(upper, block[a],
                                 Enqueue(upper[block[a]].rbs, upper[block[a]].small, n))
                    /\ split' = [split EXCEPT ![a] = [page |-> p, next |-> n + 1]]
                    /\ UNCHANGED <<pc, map, bp, tables, pages, handed>>
                 \/ /\ n = p + LargeSize
                    /\ split' = [split EXCEPT ![a] = 0]
                    /\ Got(a, p) /\ UNCHANGED upper
<1>1. /\ pc[a] = "split" /\ ActorOK(a) /\ DOMAIN split = Actors
      /\ UNCHANGED <<free, regions, used, sb, booted, need, block, halted>>
  BY ZenonT(30) DEF Split, At, boot, vregvars, MemTyped, ActorDomains
<1>2. PICK b \in Nat \ {0} : b = block[a] /\ b <= Len(upper)
  BY ZenonT(30), <1>1 DEF ActorOK, Taking
<1>3. Len(upper) \in Nat
  BY ZenonT(30), SeqFacts DEF MemTyped, BootTyped
<1>4. IsSplit(split[a]) /\ pc[a] \in Taking
  BY ZenonT(30), <1>1 DEF ActorOK, Taking
<1>5. PICK s : s = split[a]
  BY ZenonT(30)
<1>6. s \in [page : Nat, next : Nat] /\ s.page < s.next /\ s.next <= s.page + LargeSize
  BY ZenonT(30), <1>4, <1>5 DEF IsSplit
<1>7. PICK p \in Nat, n \in Nat : p = s.page /\ n = s.next
  BY ZenonT(30), <1>6
<1>8. \/ /\ n < p + LargeSize
         /\ upper' = SetSmall(upper, b, Enqueue(upper[b].rbs, upper[b].small, n))
         /\ split' = [split EXCEPT ![a].next = n + 1]
         /\ UNCHANGED <<pc, map, paging, handed>>
      \/ /\ n = p + LargeSize
         /\ split' = [split EXCEPT ![a] = 0] /\ Got(a, p) /\ UNCHANGED upper
  BY ZenonT(30), <1>2, <1>5, <1>7 DEF Split, SetSmall
<1>9. [s EXCEPT !.next = n + 1] = [page |-> p, next |-> n + 1]
  BY <1>6, <1>7
<1>10. [split EXCEPT ![a].next = n + 1] = [split EXCEPT ![a] = [page |-> p, next |-> n + 1]]
  BY ZenonT(30), <1>5, <1>9
<1>11. b \in 1 .. Len(upper)
  BY <1>2, <1>3
<1> QED BY ZenonT(30), <1>1, <1>2, <1>4, <1>5, <1>6, <1>7, <1>8, <1>10, <1>11 DEF paging

(* What Frame may do.                                                       *)
LEMMA FrameIs ==
  ASSUME MemTyped, NEW a \in Actors, Frame(a)
  PROVE  /\ pc[a] = "frame" /\ map[a] \in Maps(a) /\ booted = Len(Blocks)
         /\ UNCHANGED <<free, regions, used, sb, booted, upper, bp, tables, pages, split,
                        halted, handed>>
         /\ \/ \E w \in {"page", "blank"} :
                 /\ GetPage(a, w, 0, 0) /\ UNCHANGED map
                 /\ w = "page" => map[a].kind = "write"
                 /\ w = "blank" => map[a].kind = "read" /\ bp = None
            \/ /\ map[a].kind # "write"
               /\ \E x \in {bp, Device} :
                    /\ map' = [map EXCEPT ![a] = [map[a] EXCEPT !.frame = x]]
                    /\ IF map[a].kind = "read" THEN x = bp /\ bp # None ELSE x = Device
               /\ Goto(a, "walk") /\ UNCHANGED <<need, block>>
<1>1. /\ pc[a] = "frame" /\ ActorOK(a)
      /\ UNCHANGED <<free, regions, used, sb, booted, upper, bp, tables, pages, split, halted, handed>>
  BY ZenonT(30) DEF Frame, At, boot, vregvars, paging, MemTyped
<1>2. map[a] \in Maps(a) /\ booted = Len(Blocks)
  BY ZenonT(30), <1>1 DEF ActorOK
<1>3. PICK k : k = map[a].kind
  BY ZenonT(30)
<1>4. \/ k = "write" /\ GetPage(a, "page", 0, 0) /\ UNCHANGED map
      \/ k = "read" /\ bp = None /\ GetPage(a, "blank", 0, 0) /\ UNCHANGED map
      \/ /\ k = "read" => bp # None
         /\ k # "write" /\ Goto(a, "walk") /\ UNCHANGED <<need, block>>
         /\ map' = [map EXCEPT ![a].frame = IF k = "read" THEN bp ELSE Device]
  BY ZenonT(30), <1>3 DEF Frame
<1>5. CASE k = "write" /\ GetPage(a, "page", 0, 0) /\ UNCHANGED map
  BY ZenonT(30), <1>1, <1>2, <1>3, <1>5
<1>6. CASE k = "read" /\ bp = None /\ GetPage(a, "blank", 0, 0) /\ UNCHANGED map
  BY ZenonT(30), <1>1, <1>2, <1>3, <1>6
<1>7. CASE /\ k = "read" => bp # None
           /\ k # "write" /\ Goto(a, "walk") /\ UNCHANGED <<need, block>>
           /\ map' = [map EXCEPT ![a].frame = IF k = "read" THEN bp ELSE Device]
  <2>1. PICK x \in {bp, Device} : x = IF k = "read" THEN bp ELSE Device
    BY ZenonT(30)
  <2>2. map' = [map EXCEPT ![a] = [map[a] EXCEPT !.frame = x]]
    BY ZenonT(30), <1>7, <2>1
  <2> QED BY ZenonT(30), <1>1, <1>2, <1>3, <1>7, <2>1, <2>2
<1> QED BY ZenonT(30), <1>4, <1>5, <1>6, <1>7

(* What Walk may do.                                                        *)
LEMMA WalkIs ==
  ASSUME MemTyped, NEW a \in Actors, Walk(a)
  PROVE  /\ pc[a] = "walk" /\ map[a] \in Maps(a) /\ booted = Len(Blocks)
         /\ UNCHANGED <<free, regions, used, sb, booted, upper, bp, tables, split,
                        halted, handed>>
         /\ \/ /\ \E l \in Int : \E i : GetPage(a, "table", l, i)
               /\ UNCHANGED <<map, pages>>
            \/ /\ \E l \in Int : map' = [map EXCEPT ![a] = [map[a] EXCEPT !.level = l]]
               /\ UNCHANGED <<pc, need, block, pages>>
            \/ /\ pages' = Put(pages, map[a].page,
                               [frame |-> map[a].frame, writeable |-> map[a].kind # "read"])
               /\ Goto(a, "idle")
               /\ UNCHANGED <<map, need, block>>
<1>1. /\ pc[a] = "walk" /\ ActorOK(a)
      /\ UNCHANGED <<free, regions, used, sb, booted, upper, bp, tables, split, halted, handed>>
  BY ZenonT(30) DEF Walk, At, boot, vregvars, MemTyped
<1>2. map[a] \in Maps(a) /\ booted = Len(Blocks)
  BY ZenonT(30), <1>1 DEF ActorOK
<1>3. PICK m, i : m = map[a] /\ i = m.page \div (TableSize ^ m.level)
  BY ZenonT(30)
<1>4. m.level \in Int
  BY ZenonT(30), <1>2, <1>3, MapFields
<1>5. PICK l \in Int, k \in Int : l = m.level /\ k = l - 1
  BY <1>4
<1>6. \/ GetPage(a, "table", l, i) /\ UNCHANGED <<map, pages>>
      \/ /\ map' = [map EXCEPT ![a].level = k]
         /\ UNCHANGED <<pc, need, block, pages>>
      \/ /\ pages' = Put(pages, m.page, [frame |-> m.frame, writeable |-> m.kind # "read"])
         /\ Goto(a, "idle") /\ UNCHANGED <<map, need, block>>
  BY ZenonT(30), <1>3, <1>5 DEF Walk
<1>7. CASE GetPage(a, "table", l, i) /\ UNCHANGED <<map, pages>>
  BY ZenonT(30), <1>1, <1>2, <1>7
<1>8. CASE map' = [map EXCEPT ![a].level = k] /\ UNCHANGED <<pc, need, block, pages>>
  BY ZenonT(30), <1>1, <1>2, <1>8
<1>9. CASE /\ pages' = Put(pages, m.page, [frame |-> m.frame, writeable |-> m.kind # "read"])
           /\ Goto(a, "idle") /\ UNCHANGED <<map, need, block>>
  BY ZenonT(30), <1>1, <1>2, <1>3, <1>9
<1> QED BY ZenonT(30), <1>6, <1>7, <1>8, <1>9

(* The first entry of an actor's place in Map.                              *)
LEMMA StartMapIs ==
  ASSUME MemTyped, NEW a \in Actors, NEW v \in Nat, NEW kind \in Kinds(a), StartMap(a, v, kind)
  PROVE  /\ DOMAIN pc' = Actors /\ DOMAIN map' = Actors
         /\ pc'[a] = "frame" /\ map'[a] \in Maps(a) /\ map'[a].page = v /\ map'[a].kind = kind
         /\ \A c \in Actors \ {a} : pc'[c] = pc[c] /\ map'[c] = map[c]
<1>1. PagingLevels \in Int
  BY FramesAssumption
<1>2. PICK m : m = [page |-> v, kind |-> kind, frame |-> None, level |-> PagingLevels]
  BY ZenonT(30)
<1>3. m \in Maps(a) /\ m.page = v /\ m.kind = kind
  BY ZenonT(30), <1>1, <1>2 DEF Maps
<1>4. DOMAIN map = Actors /\ DOMAIN pc = Actors
  BY ZenonT(30) DEF MemTyped, ActorDomains
<1>5. map' = [map EXCEPT ![a] = m] /\ pc' = [pc EXCEPT ![a] = "frame"]
  BY ZenonT(30), <1>2 DEF StartMap, Goto
<1>6. DOMAIN map' = Actors /\ map'[a] = m /\ \A c \in Actors \ {a} : map'[c] = map[c]
  BY ZenonT(30), <1>4, <1>5
<1>7. DOMAIN pc' = Actors /\ pc'[a] = "frame" /\ \A c \in Actors \ {a} : pc'[c] = pc[c]
  BY ZenonT(30), <1>4, <1>5
<1> QED BY ZenonT(30), <1>3, <1>6, <1>7

(* What Enqueue leaves in a stack.                                          *)
LEMMA EnqueueIs ==
  ASSUME NEW q \in Seq(Nat), NEW k, NEW x \in Nat
  PROVE  /\ Enqueue(q, k, x) \in Seq(Nat)
         /\ Enqueue(q, k, x) = q \/ Enqueue(q, k, x) = Append(q, x)
<1>1. Append(q, x) \in Seq(Nat)
  OBVIOUS
<1> QED BY ZenonT(30), <1>1 DEF Enqueue

(* An address is in a page.                                                 *)
LEMMA PageOfNat == ASSUME NEW n \in Nat PROVE PageOf(n) \in Nat
<1>1. PageSize \in Nat \ {0}
  BY ZenonT(30), LayoutAssumption
<1> QED BY ZenonT(30), <1>1, DivBounds DEF PageOf

(* While booting, pages come off the end of a block that has one.           *)
LEMMA EarlyIs ==
  ASSUME StackFacts, MemTyped, EarlyGetPage
  PROVE  /\ booted = 0 /\ UNCHANGED <<free, regions, booted, upper, bp, tables, pages,
                                      pc, map, need, block, split>>
         /\ \/ UNCHANGED <<sb, used, handed>>
            \/ \E b \in Block :
                 /\ Left(b) > 0 /\ sb' = b /\ used' = [used EXCEPT ![b] = used[b] + 1]
                 /\ handed' = handed \cup {Blocks[b].start + Blocks[b].length - used[b] - 1}
(* The comparisons of GetBestSliceBlock find a block.                       *)
<1>LargestIs.
  ASSUME BootTyped, NEW S \in SUBSET Block, S # {}
  PROVE  Largest(S) \in S
  <2> USE <1>LargestIs
  <2> DEFINE f == [b \in Block |-> Left(b)]
  <2>1. f \in [Block -> Nat]
    BY ZenonT(30) DEF BootTyped
  <2>2. \A c \in S : f[c] = Left(c)
    BY ZenonT(30)
  <2> HIDE DEF f
  <2>3. \E b \in S : \A c \in S : f[c] <= f[b] /\ (c < b => f[c] < f[b])
    BY ZenonT(30), <2>1 DEF StackFacts
  <2>4. \E b \in S : \A c \in S : Left(c) <= Left(b) /\ (c < b => Left(c) < Left(b))
    BY ZenonT(30), <2>2, <2>3
  <2> QED BY ZenonT(30), <2>4 DEF Largest
<1>1. booted = 0 /\ UNCHANGED <<free, regions, booted, upper, bp, tables, pages,
                                pc, map, need, block, split>>
  BY ZenonT(30) DEF EarlyGetPage, vregvars, paging, actor
<1>2. PICK again : again <=> (sb = 0 \/ used[sb] + 1 > Blocks[sb].length)
  BY ZenonT(30)
<1>3. PICK b : b = IF again THEN GetBestSliceBlock ELSE sb
  BY ZenonT(30)
<1>4. \/ UNCHANGED <<sb, used, handed>>
      \/ /\ ~ (again /\ Roomy = {})
         /\ sb' = b /\ used' = [used EXCEPT ![b] = used[b] + 1]
         /\ handed' = handed \cup {Blocks[b].start + Blocks[b].length - used[b] - 1}
  BY ZenonT(30), <1>2, <1>3 DEF EarlyGetPage
<1>5. BootTyped /\ EarlyRoom \in Nat
  BY ZenonT(30), FramesAssumption DEF MemTyped
<1>6. \A c \in Block : Left(c) \in Nat /\ used[c] \in Nat /\ Blocks[c].length \in Nat
  BY ZenonT(30), <1>5, BlockFacts DEF BootTyped
<1>7. ASSUME again, Roomy # {}
      PROVE  b \in Roomy
  <2>1. Above \in SUBSET Block /\ Straddling \in SUBSET Block /\ Roomy \in SUBSET Block
        /\ Above \subseteq Roomy /\ Straddling \subseteq Roomy
    BY ZenonT(30) DEF Above, Straddling, Roomy
  <2>2. Above # {} => GetBestSliceBlock = Largest(Above)
    BY ZenonT(30) DEF GetBestSliceBlock
  <2>3. Above = {} /\ Straddling # {} => GetBestSliceBlock = Largest(Straddling)
    BY ZenonT(30) DEF GetBestSliceBlock
  <2>4. Above = {} /\ Straddling = {} => GetBestSliceBlock = Largest(Roomy)
    BY ZenonT(30) DEF GetBestSliceBlock
  <2>5. GetBestSliceBlock \in Roomy
    BY ZenonT(30), <1>5, <1>7, <2>1, <2>2, <2>3, <2>4, <1>LargestIs
  <2> QED BY ZenonT(30), <1>3, <1>7, <2>5
<1>8. \A c \in Roomy : c \in Block /\ Left(c) > 0
  BY <1>5, <1>6 DEF Roomy
<1>9. ASSUME ~ again
      PROVE  b \in Block /\ Left(b) > 0
  <2>1. b = sb /\ sb # 0 /\ ~ (used[sb] + 1 > Blocks[sb].length) /\ sb \in Block
    BY ZenonT(30), <1>2, <1>3, <1>5, <1>9 DEF BootTyped
  <2>2. used[sb] \in Nat /\ Blocks[sb].length \in Nat
    BY ZenonT(30), <1>6, <2>1
  <2>3. Left(sb) > 0
    BY <2>1, <2>2 DEF Left
  <2> QED BY ZenonT(30), <2>1, <2>3
<1> QED BY ZenonT(30), <1>1, <1>4, <1>7, <1>8, <1>9

(* The initial state has the types.                                         *)
LEMMA InitTyped == MemInit => MemTyped
<1> SUFFICES ASSUME MemInit PROVE MemTyped
  OBVIOUS
<1>1. /\ used = [b \in Block |-> 0] /\ sb = 0 /\ booted = 0 /\ upper = << >> /\ bp = None
      /\ handed = {} /\ pc = [a \in Actors |-> "idle"] /\ map = [a \in Actors |-> None]
      /\ need = [a \in Actors |-> None] /\ block = [a \in Actors |-> 0]
      /\ split = [a \in Actors |-> 0]
  BY ZenonT(30) DEF MemInit
<1>2. ActorDomains
  BY ZenonT(30), <1>1 DEF ActorDomains
<1>3. \A a \in Actors : pc[a] = "idle"
  BY ZenonT(30), <1>1
<1>4. \A a \in Actors : ActorOK(a)
  BY ZenonT(30), <1>3 DEF ActorOK, Places, Taking
<1>5. used \in [Block -> Nat] /\ \A b \in Block : Left(b) \in Nat
  <2>1. \A b \in Block : used[b] = 0 /\ Blocks[b].length \in Nat
    BY ZenonT(30), <1>1, BlockFacts
  <2>2. \A b \in Block : Left(b) \in Nat
    BY <2>1 DEF Left
  <2> QED BY ZenonT(30), <1>1, <2>2
<1>6. Len(Blocks) \in Nat
  BY ZenonT(30), BlockFacts
<1>7. upper \in Seq(StackRecords) /\ Len(upper) <= booted /\ booted \in 0 .. Len(Blocks)
  BY <1>1, <1>6
<1>8. BootTyped
  BY ZenonT(30), <1>1, <1>5, <1>7 DEF BootTyped
<1> QED BY ZenonT(30), <1>2, <1>4, <1>8 DEF MemTyped

(* Regions stay apart while memory is used.                                 *)
LEMMA MemRegions ==
  ASSUME RegionsInv, [MemNext]_memvars
  PROVE  RegionsInv'
<1>1. PageSize \in Nat \ {0} /\ 0 \in Nat
  BY ZenonT(30), LayoutAssumption
<1>2. \A l \in Lengths, al \in Aligns, p \in Protects :
        l \in Nat /\ al \in Nat \ {0} /\ p \in Nat
  BY ZenonT(30), RequestAssumption
<1>3. ASSUME UNCHANGED <<free, regions>> PROVE RegionsInv'
  BY ZenonT(30), <1>3 DEF RegionsInv, Outside
<1>4. ASSUME NEW th \in Threads, NewRegion(th) PROVE RegionsInv'
  <2>1. PICK l \in Lengths, al \in Aligns, p \in Protects, t \in Types : AllocRegion(l, al, p, t)
    BY ZenonT(30), <1>4 DEF NewRegion, AllocAny
  <2> QED BY ZenonT(30), <1>2, <2>1, AllocStep
<1>5. ASSUME NEW th \in Threads, MapIn(th) PROVE RegionsInv'
  <2>1. AllocRegion(PageSize, PageSize, 0, "Other") /\ PageSize \in Nat
    BY ZenonT(30), <1>1, <1>5 DEF MapIn
  <2> QED BY ZenonT(30), <1>1, <2>1, AllocStep
<1>6. ASSUME NEW a \in Actors, Small(a) \/ Large(a) \/ Split(a) \/ Frame(a) \/ Walk(a)
      PROVE  UNCHANGED <<free, regions>>
  BY ZenonT(30), <1>6 DEF Small, Large, Split, Frame, Walk, vregvars
<1>7. ASSUME EarlyGetPage \/ \E b \in Block : Release(b)
      PROVE  UNCHANGED <<free, regions>>
  BY ZenonT(30), <1>7 DEF EarlyGetPage, Release, vregvars
<1>8. ASSUME NEW addr, NEW kind, Fault(addr, kind)
      PROVE  UNCHANGED <<free, regions>>
  BY ZenonT(30), <1>8 DEF Fault, vregvars
<1>9. UNCHANGED memvars => UNCHANGED <<free, regions>>
  BY ZenonT(30) DEF memvars, vregvars
<1> QED BY ZenonT(30), <1>3, <1>4, <1>5, <1>6, <1>7, <1>8, <1>9 DEF MemNext

(* Every step keeps the types.                                              *)
LEMMA NextTyped ==
  ASSUME StackFacts, RegionsInv, MemTyped, [MemNext]_memvars
  PROVE  MemTyped'
(* The state an actor is in depends on that of no other.                    *)
<1>AloneTyped.
  ASSUME NEW a \in Actors, Alone(a), ActorOK(a)', booted' = booted,
         Len(upper') = Len(upper)
  PROVE  \A c \in Actors : ActorOK(c)'
  <2> USE <1>AloneTyped
  <2> SUFFICES ASSUME NEW c \in Actors, c # a PROVE ActorOK(c)'
    BY ZenonT(30)
  <2>1. /\ pc'[c] = pc[c] /\ map'[c] = map[c] /\ need'[c] = need[c]
        /\ block'[c] = block[c] /\ split'[c] = split[c]
    BY ZenonT(30) DEF Alone
  <2>2. ActorOK(c)
    BY ZenonT(30) DEF MemTyped
  <2> QED BY ZenonT(30), <2>1, <2>2 DEF ActorOK
(* An actor that takes a step of its own keeps the types when it is in one  *)
(* of its places afterwards.                                                *)
<1>StepTyped.
  ASSUME NEW a \in Actors, Alone(a), ActorOK(a)', ActorDomains', used' = used, sb' = sb,
         booted' = booted, upper' \in Seq(StackRecords), Len(upper') = Len(upper),
         handed' \subseteq Nat, bp' \in Nat \cup {None}
  PROVE  MemTyped'
  <2> USE <1>StepTyped
  <2>1. \A c \in Actors : ActorOK(c)'
    BY ZenonT(30), <1>AloneTyped
  <2>2. BootTyped'
    BY ZenonT(30) DEF MemTyped, BootTyped, Left
  <2> QED BY ZenonT(30), <2>1, <2>2 DEF MemTyped
(* So does one that has got a page.                                         *)
<1>GotTyped.
  ASSUME NEW a \in Actors, NEW x \in Nat, pc[a] \in Taking, Got(a, x), used' = used,
         sb' = sb, booted' = booted, need' = need, block' = block,
         upper' \in Seq(StackRecords), Len(upper') = Len(upper), DOMAIN split' = Actors,
         \A c \in Actors \ {a} : split'[c] = split[c]
  PROVE  MemTyped'
  <2> USE <1>GotTyped
  <2>1. /\ handed' = handed \cup {x} /\ DOMAIN pc' = Actors /\ DOMAIN map' = Actors
        /\ pc'[a] = "walk" /\ map'[a] \in Maps(a) /\ bp' \in Nat \cup {None}
        /\ \A c \in Actors \ {a} : pc'[c] = pc[c] /\ map'[c] = map[c]
    BY ZenonT(30), GotIs
  <2>2. Alone(a)
    BY ZenonT(30), <2>1 DEF Alone
  <2>3. ActorOK(a) /\ ActorDomains /\ handed \subseteq Nat
    BY ZenonT(30) DEF MemTyped, BootTyped
  <2>4. ActorDomains' /\ handed' \subseteq Nat
    BY ZenonT(30), <2>1, <2>3 DEF ActorDomains
  <2>5. booted = Len(Blocks)
    BY ZenonT(30), <2>3 DEF ActorOK, Taking
  <2>6. ActorOK(a)'
    BY ZenonT(30), <2>1, <2>5 DEF ActorOK, Places, Taking
  <2> QED BY ZenonT(30), <2>1, <2>2, <2>4, <2>6, <1>StepTyped
(* Small keeps the types.                                                   *)
<1>SmallTyped.
  ASSUME NEW a \in Actors, Small(a)
  PROVE  MemTyped'
  <2> USE <1>SmallTyped
  <2>1. /\ pc[a] = "small" /\ pc[a] \in Taking
        /\ UNCHANGED <<free, regions, used, sb, booted, need, block, split, halted>>
    BY ZenonT(30), SmallIs
  <2>2. BootTyped /\ ActorDomains /\ ActorOK(a)
    BY ZenonT(30) DEF MemTyped
  <2>3. ASSUME NEW p \in {"stuck", "large"}, Goto(a, p),
               p = "large" => block[a] \in 1 .. Len(upper),
               UNCHANGED <<upper, map, bp, tables, pages, handed>>
        PROVE  MemTyped'
    <3>1. DOMAIN pc' = Actors /\ pc'[a] = p /\ Alone(a)
      BY ZenonT(30), <2>1, <2>3, GotoIs DEF Alone
    <3>2. block[a] \in 1 .. Len(upper) => block[a] <= Len(upper)
      <4>1. Len(upper) \in Nat
        BY ZenonT(30), <2>2, SeqFacts DEF BootTyped
      <4> QED BY <4>1
    <3>3. ActorOK(a)'
      BY ZenonT(30), <2>1, <2>2, <2>3, <3>1, <3>2 DEF ActorOK, Places, Taking
    <3>4. ActorDomains'
      BY ZenonT(30), <2>1, <2>2, <2>3, <3>1 DEF ActorDomains
    <3>5. /\ upper' \in Seq(StackRecords) /\ Len(upper') = Len(upper)
          /\ handed' \subseteq Nat /\ bp' \in Nat \cup {None}
      BY ZenonT(30), <2>2, <2>3 DEF BootTyped
    <3> QED BY ZenonT(30), <2>1, <3>1, <3>3, <3>4, <3>5, <1>StepTyped
  <2>4. ASSUME NEW b, b = block[a], b \in 1 .. Len(upper), upper[b].rbs # << >>,
               NEW x, NEW q, x = Head(upper[b].rbs), q = Tail(upper[b].rbs),
               upper' = SetSmall(upper, b, q), Got(a, x)
        PROVE  MemTyped'
    <3>1. upper \in Seq(StackRecords) /\ upper[b].rbs \in Seq(Nat)
      BY ZenonT(30), <2>2, <2>4, StackOf
    <3>2. x \in Nat /\ q \in Seq(Nat)
      BY ZenonT(30), <2>4, <3>1, HeadTail
    <3>3. upper' \in Seq(StackRecords) /\ Len(upper') = Len(upper)
      <4>1. b \in 1 .. Len(upper) /\ upper' = SetSmall(upper, b, q)
        BY ZenonT(30), <2>4
      <4> QED BY ZenonT(30), <3>1, <3>2, <4>1, SmallChange
    <3>4. DOMAIN split' = Actors /\ \A c \in Actors \ {a} : split'[c] = split[c]
      BY ZenonT(30), <2>1, <2>2 DEF ActorDomains
    <3> QED BY ZenonT(30), <2>1, <2>4, <3>2, <3>3, <3>4, <1>GotTyped
  <2>5. \/ /\ \E p \in {"stuck", "large"} :
                Goto(a, p) /\ (p = "large" => block[a] \in 1 .. Len(upper))
           /\ UNCHANGED <<upper, map, bp, tables, pages, handed>>
        \/ /\ block[a] \in 1 .. Len(upper) /\ upper[block[a]].rbs # << >>
           /\ \E x, q : /\ x = Head(upper[block[a]].rbs) /\ q = Tail(upper[block[a]].rbs)
                        /\ upper' = SetSmall(upper, block[a], q)
                        /\ Got(a, x)
    BY ZenonT(30), SmallIs
  <2> QED BY ZenonT(30), <2>3, <2>4, <2>5
(* Large keeps the types.                                                   *)
<1>LargeTyped.
  ASSUME NEW a \in Actors, Large(a)
  PROVE  MemTyped'
  <2> USE <1>LargeTyped
  <2>1. /\ pc[a] = "large" /\ block[a] \in 1 .. Len(upper)
        /\ UNCHANGED <<free, regions, used, sb, booted, map, need, bp, tables, pages, halted, handed>>
    BY ZenonT(30), LargeIs
  <2>2. BootTyped /\ ActorDomains /\ ActorOK(a)
    BY ZenonT(30) DEF MemTyped
  <2>3. PICK b : b = block[a]
    BY ZenonT(30)
  <2>4. upper \in Seq(StackRecords) /\ Len(upper) \in Nat /\ upper[b].rbl \in Seq(Nat)
    BY ZenonT(30), <2>1, <2>2, <2>3, StackOf
  <2>5. /\ handed' \subseteq Nat /\ bp' \in Nat \cup {None}
    BY ZenonT(30), <2>1, <2>2 DEF BootTyped
  <2>6. map[a] \in Maps(a) /\ booted = Len(Blocks) /\ IsNeed(need[a])
    BY ZenonT(30), <2>1, <2>2 DEF ActorOK, Taking
  <2>7. ASSUME block' = [block EXCEPT ![a] = b + 1], Goto(a, "small"), UNCHANGED <<upper, split>>
        PROVE  MemTyped'
    <3>1. DOMAIN block' = Actors /\ block'[a] = b + 1
          /\ \A c \in Actors \ {a} : block'[c] = block[c]
      BY ZenonT(30), <2>2, <2>7 DEF ActorDomains
    <3>2. DOMAIN pc' = Actors /\ pc'[a] = "small" /\ Alone(a)
      <4>1. Goto(a, "small") /\ split' = split /\ map' = map /\ need' = need
        BY ZenonT(30), <2>1, <2>7
      <4> QED BY ZenonT(30), <3>1, <4>1, GotoIs DEF Alone
    <3>3. block'[a] \in Nat \ {0}
      BY <2>1, <2>3, <2>4, <3>1
    <3>4. ActorOK(a)'
      BY ZenonT(30), <2>1, <2>6, <3>2, <3>3 DEF ActorOK, Places, Taking
    <3>5. ActorDomains'
      BY ZenonT(30), <2>1, <2>2, <2>7, <3>1, <3>2 DEF ActorDomains
    <3>6. upper' \in Seq(StackRecords) /\ Len(upper') = Len(upper)
      BY ZenonT(30), <2>4, <2>7
    <3> QED BY ZenonT(30), <2>1, <2>5, <3>2, <3>4, <3>5, <3>6, <1>StepTyped
  <2>8. ASSUME upper[b].rbl # << >>, Goto(a, "split"), UNCHANGED block,
               NEW x, NEW q, x = Head(upper[b].rbl), q = Tail(upper[b].rbl),
               upper' = SetLarge(upper, b, q),
               split' = [split EXCEPT ![a] = [page |-> x, next |-> x + 1]]
        PROVE  MemTyped'
    <3>1. x \in Nat /\ q \in Seq(Nat)
      BY ZenonT(30), <2>4, <2>8, HeadTail
    <3>2. PICK s : s = [page |-> x, next |-> x + 1]
      BY ZenonT(30)
    <3>3. IsSplit(s)
      BY <3>1, <3>2, FramesAssumption DEF IsSplit
    <3>4. split' = [split EXCEPT ![a] = s]
      BY ZenonT(30), <2>8, <3>2
    <3>5. DOMAIN split' = Actors /\ split'[a] = s /\ \A c \in Actors \ {a} : split'[c] = split[c]
      BY ZenonT(30), <2>2, <3>4 DEF ActorDomains
    <3>6. DOMAIN pc' = Actors /\ pc'[a] = "split" /\ Alone(a)
      <4>1. Goto(a, "split") /\ block' = block /\ map' = map /\ need' = need
        BY ZenonT(30), <2>1, <2>8
      <4> QED BY ZenonT(30), <3>5, <4>1, GotoIs DEF Alone
    <3>7. upper' \in Seq(StackRecords) /\ Len(upper') = Len(upper)
      <4>1. b \in 1 .. Len(upper) /\ upper' = SetLarge(upper, b, q)
        BY ZenonT(30), <2>1, <2>3, <2>8
      <4> QED BY ZenonT(30), <2>4, <3>1, <4>1, LargeChange
    <3>8. block'[a] \in Nat \ {0} /\ block'[a] <= Len(upper')
      BY <2>1, <2>4, <2>8, <3>7
    <3>9. ActorOK(a)'
      BY ZenonT(30), <2>1, <2>6, <3>3, <3>5, <3>6, <3>8 DEF ActorOK, Places, Taking
    <3>10. ActorDomains'
      BY ZenonT(30), <2>1, <2>2, <2>8, <3>5, <3>6 DEF ActorDomains
    <3> QED BY ZenonT(30), <2>1, <2>5, <3>6, <3>7, <3>9, <3>10, <1>StepTyped
  <2>9. \/ block' = [block EXCEPT ![a] = b + 1] /\ Goto(a, "small") /\ UNCHANGED <<upper, split>>
        \/ /\ upper[b].rbl # << >>
           /\ \E x, q : /\ x = Head(upper[b].rbl) /\ q = Tail(upper[b].rbl)
                        /\ upper' = SetLarge(upper, b, q)
                        /\ split' = [split EXCEPT ![a] = [page |-> x, next |-> x + 1]]
           /\ Goto(a, "split") /\ UNCHANGED block
    BY ZenonT(30), <2>3, LargeIs
  <2> QED BY ZenonT(30), <2>7, <2>8, <2>9
(* Split keeps the types.                                                   *)
<1>SplitTyped.
  ASSUME NEW a \in Actors, Split(a)
  PROVE  MemTyped'
  <2> USE <1>SplitTyped
  <2>1. PICK b : b = block[a]
    BY ZenonT(30)
  <2>2. PICK p \in Nat, n \in Nat :
          /\ p < n /\ n <= p + LargeSize
          /\ \/ /\ n < p + LargeSize
                /\ upper' = SetSmall(upper, b, Enqueue(upper[b].rbs, upper[b].small, n))
                /\ split' = [split EXCEPT ![a] = [page |-> p, next |-> n + 1]]
                /\ UNCHANGED <<pc, map, bp, tables, pages, handed>>
             \/ /\ split' = [split EXCEPT ![a] = 0]
                /\ Got(a, p) /\ UNCHANGED upper
    BY ZenonT(30), <2>1, SplitIs
  <2>3. /\ pc[a] = "split" /\ pc[a] \in Taking /\ b \in 1 .. Len(upper)
        /\ used' = used /\ sb' = sb /\ booted' = booted /\ need' = need /\ block' = block
    BY ZenonT(30), <2>1, SplitIs
  <2>4. BootTyped /\ ActorDomains /\ ActorOK(a)
    BY ZenonT(30) DEF MemTyped
  <2>5. /\ upper \in Seq(StackRecords) /\ Len(upper) \in Nat /\ upper[b].rbs \in Seq(Nat)
    BY ZenonT(30), <2>3, <2>4, StackOf
  <2>6. map[a] \in Maps(a) /\ booted = Len(Blocks) /\ IsNeed(need[a])
        /\ b \in Nat \ {0} /\ b <= Len(upper)
    BY ZenonT(30), <2>1, <2>3, <2>4 DEF ActorOK, Taking
  <2>7. CASE /\ n < p + LargeSize
             /\ upper' = SetSmall(upper, b, Enqueue(upper[b].rbs, upper[b].small, n))
             /\ split' = [split EXCEPT ![a] = [page |-> p, next |-> n + 1]]
             /\ UNCHANGED <<pc, map, bp, tables, pages, handed>>
    <3>1. PICK s : s = [page |-> p, next |-> n + 1]
      BY ZenonT(30)
    <3>2. IsSplit(s)
      BY <2>2, <2>7, <3>1, FramesAssumption DEF IsSplit
    <3>3. split' = [split EXCEPT ![a] = s]
      BY ZenonT(30), <2>7, <3>1
    <3>4. DOMAIN split' = Actors /\ split'[a] = s /\ \A c \in Actors \ {a} : split'[c] = split[c]
      BY ZenonT(30), <2>4, <3>3 DEF ActorDomains
    <3>5. pc' = pc /\ map' = map /\ bp' = bp /\ handed' = handed
      BY ZenonT(30), <2>7
    <3>6. Alone(a)
      BY ZenonT(30), <2>3, <3>4, <3>5 DEF Alone
    <3>7. PICK q \in Seq(Nat) : upper' = SetSmall(upper, b, q)
      BY ZenonT(30), <2>5, <2>7, EnqueueIs
    <3>8. upper' \in Seq(StackRecords) /\ Len(upper') = Len(upper)
      <4>1. b \in 1 .. Len(upper)
        BY ZenonT(30), <2>3
      <4> QED BY ZenonT(30), <2>5, <3>7, <4>1, SmallChange
    <3>9. ActorOK(a)'
      BY ZenonT(30), <2>1, <2>3, <2>6, <3>2, <3>4, <3>5, <3>8 DEF ActorOK, Places, Taking
    <3>10. ActorDomains'
      BY ZenonT(30), <2>3, <2>4, <3>4, <3>5 DEF ActorDomains
    <3>11. handed' \subseteq Nat /\ bp' \in Nat \cup {None}
      BY ZenonT(30), <2>4, <3>5 DEF BootTyped
    <3> QED BY ZenonT(30), <2>3, <3>6, <3>8, <3>9, <3>10, <3>11, <1>StepTyped
  <2>8. CASE split' = [split EXCEPT ![a] = 0] /\ Got(a, p) /\ UNCHANGED upper
    <3>1. DOMAIN split' = Actors /\ \A c \in Actors \ {a} : split'[c] = split[c]
      BY ZenonT(30), <2>4, <2>8 DEF ActorDomains
    <3>2. upper' \in Seq(StackRecords) /\ Len(upper') = Len(upper)
      BY ZenonT(30), <2>5, <2>8
    <3> QED BY ZenonT(30), <2>3, <2>8, <3>1, <3>2, <1>GotTyped
  <2> QED BY ZenonT(30), <2>2, <2>7, <2>8
(* A step that starts to look for a page keeps the types.                   *)
<1>GetPageTyped.
  ASSUME NEW a \in Actors, NEW w \in {"page", "blank", "table"}, NEW l \in Int, NEW i,
         GetPage(a, w, l, i), pc[a] # "idle",
         UNCHANGED <<used, sb, booted, upper, bp, handed, map, split>>
  PROVE  MemTyped'
  <2> USE <1>GetPageTyped
  <2>1. /\ need'[a] = [what |-> w, level |-> l, index |-> i] /\ block'[a] = 1 /\ pc'[a] = "small"
        /\ DOMAIN pc' = Actors /\ DOMAIN need' = Actors /\ DOMAIN block' = Actors
        /\ \A c \in Actors \ {a} : pc'[c] = pc[c] /\ need'[c] = need[c] /\ block'[c] = block[c]
    BY GetPageIs
  <2>2. BootTyped /\ ActorDomains /\ ActorOK(a)
    BY ZenonT(30) DEF MemTyped
  <2>3. map[a] \in Maps(a) /\ booted = Len(Blocks)
    BY ZenonT(30), <2>2 DEF ActorOK
  <2>4. IsNeed(need'[a])
    BY ZenonT(30), <2>1 DEF IsNeed
  <2>5. Alone(a)
    BY ZenonT(30), <2>1 DEF Alone
  <2>6. ActorOK(a)'
    BY <2>1, <2>3, <2>4 DEF ActorOK, Places, Taking
  <2>7. ActorDomains'
    BY ZenonT(30), <2>1, <2>2 DEF ActorDomains
  <2>8. /\ upper' \in Seq(StackRecords) /\ Len(upper') = Len(upper)
        /\ handed' \subseteq Nat /\ bp' \in Nat \cup {None}
    BY ZenonT(30), <2>2 DEF BootTyped
  <2> QED BY ZenonT(30), <2>5, <2>6, <2>7, <2>8, <1>StepTyped
(* So does one that only goes on in Map, or ends it.                        *)
<1>MapTyped.
  ASSUME NEW a \in Actors, NEW p \in {"frame", "walk", "idle"}, pc'[a] = p,
         booted = Len(Blocks), map'[a] \in Maps(a), DOMAIN pc' = Actors,
         DOMAIN map' = Actors, \A c \in Actors \ {a} : pc'[c] = pc[c] /\ map'[c] = map[c],
         UNCHANGED <<used, sb, booted, upper, bp, handed, need, block, split>>
  PROVE  MemTyped'
  <2> USE <1>MapTyped
  <2>1. BootTyped /\ ActorDomains
    BY ZenonT(30) DEF MemTyped
  <2>2. Alone(a)
    BY ZenonT(30) DEF Alone
  <2>3. ActorOK(a)'
    BY ZenonT(30) DEF ActorOK, Places, Taking
  <2>4. ActorDomains'
    BY ZenonT(30), <2>1 DEF ActorDomains
  <2>5. /\ upper' \in Seq(StackRecords) /\ Len(upper') = Len(upper)
        /\ handed' \subseteq Nat /\ bp' \in Nat \cup {None}
    BY ZenonT(30), <2>1 DEF BootTyped
  <2> QED BY ZenonT(30), <2>2, <2>3, <2>4, <2>5, <1>StepTyped
(* Frame keeps the types.                                                   *)
<1>FrameTyped.
  ASSUME NEW a \in Actors, Frame(a)
  PROVE  MemTyped'
  <2> USE <1>FrameTyped
  <2>1. /\ pc[a] = "frame" /\ map[a] \in Maps(a) /\ booted = Len(Blocks)
        /\ UNCHANGED <<used, sb, booted, upper, bp, handed, split>>
    BY ZenonT(30), FrameIs
  <2>2. ASSUME NEW w \in {"page", "blank"}, GetPage(a, w, 0, 0), UNCHANGED map
        PROVE  MemTyped'
    <3>1. w \in {"page", "blank", "table"} /\ 0 \in Int /\ pc[a] # "idle"
      BY <2>1
    <3> QED BY ZenonT(30), <2>1, <2>2, <3>1, <1>GetPageTyped
  <2>3. ASSUME NEW x \in {bp, Device}, map' = [map EXCEPT ![a] = [map[a] EXCEPT !.frame = x]],
               Goto(a, "walk"), UNCHANGED <<need, block>>
        PROVE  MemTyped'
    <3>1. x \in Nat \cup {None, Device} /\ DOMAIN map = Actors
      BY ZenonT(30), <2>3 DEF MemTyped, BootTyped, ActorDomains
    <3>2. PICK m : m = [map[a] EXCEPT !.frame = x]
      BY ZenonT(30)
    <3>3. m \in Maps(a)
      BY ZenonT(30), <2>1, <3>1, <3>2, MapFrame
    <3>4. map' = [map EXCEPT ![a] = m]
      BY ZenonT(30), <2>3, <3>2
    <3>5. DOMAIN map' = Actors /\ map'[a] \in Maps(a) /\ \A c \in Actors \ {a} : map'[c] = map[c]
      BY ZenonT(30), <3>1, <3>3, <3>4
    <3>6. DOMAIN pc' = Actors /\ pc'[a] = "walk" /\ \A c \in Actors \ {a} : pc'[c] = pc[c]
      BY ZenonT(30), <2>3, GotoIs
    <3> QED BY ZenonT(30), <2>1, <2>3, <3>5, <3>6, <1>MapTyped
  <2>4. \/ \E w \in {"page", "blank"} : GetPage(a, w, 0, 0) /\ UNCHANGED map
        \/ \E x \in {bp, Device} : /\ map' = [map EXCEPT ![a] = [map[a] EXCEPT !.frame = x]]
                                   /\ Goto(a, "walk") /\ UNCHANGED <<need, block>>
    BY ZenonT(30), FrameIs
  <2> QED BY ZenonT(30), <2>2, <2>3, <2>4
(* Walk keeps the types.                                                    *)
<1>WalkTyped.
  ASSUME NEW a \in Actors, Walk(a)
  PROVE  MemTyped'
  <2> USE <1>WalkTyped
  <2>1. /\ pc[a] = "walk" /\ map[a] \in Maps(a) /\ booted = Len(Blocks)
        /\ UNCHANGED <<used, sb, booted, upper, bp, handed, split>>
    BY ZenonT(30), WalkIs
  <2>2. DOMAIN map = Actors /\ DOMAIN pc = Actors
    BY ZenonT(30) DEF MemTyped, ActorDomains
  <2>3. ASSUME NEW l \in Int, NEW i, GetPage(a, "table", l, i), UNCHANGED map
        PROVE  MemTyped'
    <3>1. pc[a] # "idle"
      BY ZenonT(30), <2>1
    <3> QED BY ZenonT(30), <2>1, <2>3, <3>1, <1>GetPageTyped
  <2>4. ASSUME NEW l \in Int, map' = [map EXCEPT ![a] = [map[a] EXCEPT !.level = l]],
               UNCHANGED <<pc, need, block>>
        PROVE  MemTyped'
    <3>1. PICK m : m = [map[a] EXCEPT !.level = l]
      BY ZenonT(30)
    <3>2. m \in Maps(a)
      BY ZenonT(30), <2>1, <2>4, <3>1, MapLevel
    <3>3. map' = [map EXCEPT ![a] = m]
      BY ZenonT(30), <2>4, <3>1
    <3>4. DOMAIN map' = Actors /\ map'[a] \in Maps(a) /\ \A c \in Actors \ {a} : map'[c] = map[c]
      BY ZenonT(30), <2>2, <3>2, <3>3
    <3>5. pc'[a] = "walk" /\ DOMAIN pc' = Actors /\ \A c \in Actors \ {a} : pc'[c] = pc[c]
      BY ZenonT(30), <2>1, <2>2, <2>4
    <3> QED BY ZenonT(30), <2>1, <2>4, <3>4, <3>5, <1>MapTyped
  <2>5. ASSUME Goto(a, "idle"), UNCHANGED <<map, need, block>>
        PROVE  MemTyped'
    <3>1. DOMAIN pc' = Actors /\ pc'[a] = "idle" /\ \A c \in Actors \ {a} : pc'[c] = pc[c]
      BY ZenonT(30), <2>5, GotoIs
    <3>2. map'[a] \in Maps(a) /\ DOMAIN map' = Actors /\ \A c \in Actors \ {a} : map'[c] = map[c]
      BY ZenonT(30), <2>1, <2>2, <2>5
    <3> QED BY ZenonT(30), <2>1, <2>5, <3>1, <3>2, <1>MapTyped
  <2>6. \/ (\E l \in Int : \E i : GetPage(a, "table", l, i)) /\ UNCHANGED <<map, pages>>
        \/ /\ \E l \in Int : map' = [map EXCEPT ![a] = [map[a] EXCEPT !.level = l]]
           /\ UNCHANGED <<pc, need, block, pages>>
        \/ Goto(a, "idle") /\ UNCHANGED <<map, need, block>>
    BY ZenonT(30), WalkIs
  <2> QED BY ZenonT(30), <2>3, <2>4, <2>5, <2>6
(* The page fault handler keeps the types.                                  *)
<1>FaultTyped.
  ASSUME NEW addr \in Nat, NEW kind \in {"read", "write"}, Fault(addr, kind)
  PROVE  MemTyped'
  <2> USE <1>FaultTyped
  <2>1. /\ UNCHANGED <<used, sb, booted, upper, bp, handed, need, block, split>>
        /\ booted = Len(Blocks) /\ PF \in Actors /\ kind \in Kinds(PF)
    BY ZenonT(30) DEF Fault, Up, boot, paging, Actors, Kinds
  <2>2. CASE StartMap(PF, PageOf(addr), kind)
    <3>1. /\ DOMAIN pc' = Actors /\ DOMAIN map' = Actors
          /\ pc'[PF] = "frame" /\ map'[PF] \in Maps(PF)
          /\ \A c \in Actors \ {PF} : pc'[c] = pc[c] /\ map'[c] = map[c]
      BY ZenonT(30), <2>1, <2>2, PageOfNat, StartMapIs
    <3> QED BY ZenonT(30), <2>1, <3>1, <1>MapTyped
  <2>3. CASE UNCHANGED <<map, pc>>
    BY ZenonT(30), <2>1, <2>3 DEF MemTyped, BootTyped, ActorDomains, ActorOK, Left
  <2> QED BY ZenonT(30), <2>2, <2>3 DEF Fault
(* A page of a block is used.                                               *)
<1>UsedOne.
  ASSUME BootTyped, NEW b \in Block, Left(b) > 0, used' = [used EXCEPT ![b] = used[b] + 1]
  PROVE  /\ used' \in [Block -> Nat] /\ Left(b)' = Left(b) - 1
         /\ \A c \in Block \ {b} : Left(c)' = Left(c)
         /\ \A c \in Block : Left(c) \in Nat /\ Left(c)' \in Nat
         /\ Blocks[b].start + Blocks[b].length - used[b] - 1 = Blocks[b].start + Left(b)'
         /\ Blocks[b].start \in Nat
  <2> USE <1>UsedOne
  <2>1. /\ used \in [Block -> Nat] /\ \A c \in Block : Left(c) \in Nat /\ Blocks[c].length \in Nat
        /\ Blocks[b].start \in Nat
    BY ZenonT(30), BlockFacts DEF BootTyped
  <2>2. PICK u \in Nat, n \in Nat, s \in Nat :
          u = used[b] /\ n = Blocks[b].length /\ s = Blocks[b].start
    BY ZenonT(30), <2>1
  <2>3. used' \in [Block -> Nat] /\ used'[b] = u + 1 /\ \A c \in Block \ {b} : used'[c] = used[c]
    BY <2>1, <2>2
  <2>4. Left(b) = n - u /\ Left(b)' = n - (u + 1)
    BY ZenonT(30), <2>2, <2>3 DEF Left
  <2>5. \A c \in Block \ {b} : Left(c)' = Left(c)
    BY ZenonT(30), <2>3 DEF Left
  <2>6. Left(b)' = Left(b) - 1 /\ Left(b)' \in Nat /\ s + n - u - 1 = s + Left(b)'
    BY <2>1, <2>4
  <2> QED BY ZenonT(30), <2>1, <2>2, <2>3, <2>5, <2>6
(* EarlyGetPage keeps the types.                                            *)
<1>EarlyTyped.
  ASSUME EarlyGetPage
  PROVE  MemTyped'
  <2> USE <1>EarlyTyped
  <2>1. booted = 0 /\ UNCHANGED <<free, regions, booted, upper, bp, tables, pages,
                                  pc, map, need, block, split>>
    BY ZenonT(30), EarlyIs
  <2>2. BootTyped /\ ActorDomains /\ \A c \in Actors : ActorOK(c)
    BY ZenonT(30) DEF MemTyped
  <2>3. ActorDomains' /\ \A c \in Actors : ActorOK(c)'
    BY ZenonT(30), <2>1, <2>2 DEF ActorDomains, ActorOK
  <2>4. CASE UNCHANGED <<sb, used, handed>>
    <3>1. BootTyped'
      BY ZenonT(30), <2>1, <2>2, <2>4 DEF BootTyped, Left
    <3> QED BY ZenonT(30), <2>3, <3>1 DEF MemTyped
  <2>5. ASSUME NEW b \in Block, Left(b) > 0, sb' = b, used' = [used EXCEPT ![b] = used[b] + 1],
               handed' = handed \cup {Blocks[b].start + Blocks[b].length - used[b] - 1}
        PROVE  MemTyped'
    <3>1. /\ used' \in [Block -> Nat] /\ \A c \in Block : Left(c)' \in Nat
          /\ Blocks[b].start \in Nat
          /\ Blocks[b].start + Blocks[b].length - used[b] - 1 = Blocks[b].start + Left(b)'
      BY ZenonT(30), <2>2, <2>5, <1>UsedOne
    <3>2. PICK x \in Nat : x = Blocks[b].start + Blocks[b].length - used[b] - 1
      BY <3>1
    <3>3. handed' \subseteq Nat
      BY ZenonT(30), <2>2, <2>5, <3>2 DEF BootTyped
    <3>4. BootTyped'
      BY ZenonT(30), <2>1, <2>2, <2>5, <3>1, <3>3 DEF BootTyped
    <3> QED BY ZenonT(30), <2>3, <3>4 DEF MemTyped
  <2>6. \/ UNCHANGED <<sb, used, handed>>
        \/ \E b \in Block :
             /\ Left(b) > 0 /\ sb' = b /\ used' = [used EXCEPT ![b] = used[b] + 1]
             /\ handed' = handed \cup {Blocks[b].start + Blocks[b].length - used[b] - 1}
    BY ZenonT(30), EarlyIs
  <2> QED BY ZenonT(30), <2>4, <2>5, <2>6
(* Release keeps the types.                                                 *)
<1>ReleaseTyped.
  ASSUME NEW b \in Block, Release(b)
  PROVE  MemTyped'
  <2> USE <1>ReleaseTyped
  <2>1. /\ b = booted + 1 /\ booted' = b
        /\ UNCHANGED <<used, sb, bp, pc, map, need, block, split, handed>>
    BY ZenonT(30) DEF Release, paging, actor
  <2>2. BootTyped /\ ActorDomains /\ \A c \in Actors : ActorOK(c)
    BY ZenonT(30) DEF MemTyped
  <2>3. /\ Len(upper) \in Nat /\ Len(Blocks) \in Nat /\ booted \in Nat /\ Len(upper) <= booted
        /\ b <= Len(Blocks)
    <3>1. b \in 1 .. Len(Blocks) /\ booted \in 0 .. Len(Blocks) /\ Len(upper) <= booted
      BY ZenonT(30), <2>2 DEF BootTyped, Block
    <3>2. Len(upper) \in Nat /\ Len(Blocks) \in Nat
      BY ZenonT(30), <2>2, SeqFacts, BlockFacts DEF BootTyped
    <3> QED BY <3>1, <3>2
  <2>4. booted # Len(Blocks)
    BY <2>1, <2>3
  <2>5. PICK n \in Nat, s \in Nat : n = Left(b) /\ s = Blocks[b].start
    BY ZenonT(30), <2>2, BlockFacts DEF BootTyped
  <2>6. Stacks(s, n) \in StackRecords
    BY ZenonT(30) DEF StackFacts, StacksFit
  <2>7. upper' = upper \/ upper' = Append(upper, Stacks(s, n))
    BY ZenonT(30), <2>5 DEF Release
  <2>8. upper \in Seq(StackRecords)
    BY ZenonT(30), <2>2 DEF BootTyped
  <2>9. upper' \in Seq(StackRecords) /\ Len(upper') <= booted'
    <3>1. PICK e \in StackRecords : e = Stacks(s, n)
      BY ZenonT(30), <2>6
    <3>2. upper' = upper \/ upper' = Append(upper, e)
      BY ZenonT(30), <2>7, <3>1
    <3> QED BY <2>1, <2>3, <2>8, <3>2
  <2>10. booted' \in 0 .. Len(Blocks)
    BY <2>1, <2>3
  <2>11. BootTyped'
    BY ZenonT(30), <2>1, <2>2, <2>9, <2>10 DEF BootTyped, Left
  <2>12. \A c \in Actors : pc[c] = "idle" /\ ActorOK(c)'
    BY ZenonT(30), <2>1, <2>2, <2>4 DEF ActorOK, Places, Taking
  <2> QED BY ZenonT(30), <2>1, <2>2, <2>11, <2>12 DEF MemTyped, ActorDomains
(* The callers of AllocRegion keep the types.                               *)
<1>RegionTyped.
  ASSUME NEW th \in Threads, NewRegion(th) \/ MapIn(th)
  PROVE  MemTyped'
  <2> USE <1>RegionTyped
  <2>1. UNCHANGED <<used, sb, booted, upper, bp, handed, need, block, split>>
    BY ZenonT(30) DEF NewRegion, MapIn, boot, paging, actor
  <2>2. CASE NewRegion(th)
    <3>1. pc' = pc /\ map' = map
      BY ZenonT(30), <2>2 DEF NewRegion, actor
    <3> QED BY ZenonT(30), <2>1, <3>1 DEF MemTyped, BootTyped, ActorDomains, ActorOK, Left
  <2>3. CASE MapIn(th)
    <3>1. StartMap(th, PageOf(align(free.start, PageSize)), "device") /\ booted = Len(Blocks)
      BY ZenonT(30), <2>3 DEF MapIn, At, Up
    <3>2. free.start \in Nat /\ PageSize \in Nat \ {0}
      BY ZenonT(30), LayoutAssumption DEF RegionsInv, IsRegion
    <3>3. PageOf(align(free.start, PageSize)) \in Nat
      BY ZenonT(30), <3>2, AlignBounds, PageOfNat
    <3>4. th \in Actors /\ th # PF
      BY ZenonT(30), FramesAssumption DEF Actors
    <3>5. "device" \in Kinds(th)
      BY ZenonT(30), <3>4 DEF Kinds
    <3>6. /\ DOMAIN pc' = Actors /\ DOMAIN map' = Actors
          /\ pc'[th] = "frame" /\ map'[th] \in Maps(th)
          /\ \A c \in Actors \ {th} : pc'[c] = pc[c] /\ map'[c] = map[c]
      BY ZenonT(30), <3>1, <3>3, <3>4, <3>5, StartMapIs
    <3> QED BY ZenonT(30), <2>1, <3>1, <3>4, <3>6, <1>MapTyped
  <2> QED BY ZenonT(30), <2>2, <2>3
<1>1. \A n \in 0 .. AddressEnd - 1 : n \in Nat
  BY LayoutAssumption
<1>2. UNCHANGED memvars => MemTyped'
  BY ZenonT(30) DEF memvars, boot, paging, actor, MemTyped, BootTyped, ActorDomains, ActorOK, Left
<1>3. ASSUME NEW a \in Actors, Small(a) \/ Large(a) \/ Split(a) \/ Frame(a) \/ Walk(a)
      PROVE  MemTyped'
  BY ZenonT(30), <1>3, <1>SmallTyped, <1>LargeTyped, <1>SplitTyped, <1>FrameTyped, <1>WalkTyped
<1>4. ASSUME EarlyGetPage \/ \E b \in Block : Release(b)
      PROVE  MemTyped'
  BY ZenonT(30), <1>4, <1>EarlyTyped, <1>ReleaseTyped
<1>5. ASSUME NEW addr \in 0 .. AddressEnd - 1, NEW kind \in {"read", "write"}, Fault(addr, kind)
      PROVE  MemTyped'
  BY ZenonT(30), <1>1, <1>5, <1>FaultTyped
<1>6. ASSUME NEW th \in Threads, NewRegion(th) \/ MapIn(th)
      PROVE  MemTyped'
  BY ZenonT(30), <1>6, <1>RegionTyped
<1> QED BY ZenonT(30), <1>2, <1>3, <1>4, <1>5, <1>6 DEF MemNext

-----------------------------------------------------------------------------
(* The guards of stacks *)

Placed(r) ==
  /\ r.stack_protect \in Nat /\ r.stack_protect <= r.length
  /\ r.type \in Lazy \cup {"Heap", "Stack"} =>
       r.start % PageSize = 0 /\ r.stack_protect % PageSize = 0

(* A region holds the page v, above its guard. *)
Backed(v) ==
  /\ v \in Nat
  /\ \E q \in regions : /\ contains(q, v * PageSize)
                        /\ q.type = "Stack" => v * PageSize >= q.start + q.stack_protect

GuardInv ==
  /\ \A r \in regions : Placed(r)
  /\ \A v \in DOMAIN pages : Backed(v)
  /\ \A a \in Actors : pc[a] # "idle" => Backed(map[a].page)

(* At first nothing is mapped and only the heap's region may be.            *)
LEMMA InitGuard == MemInit => GuardInv
<1> SUFFICES ASSUME MemInit PROVE GuardInv
  OBVIOUS
<1>1. regions = Fixed /\ pages = << >> /\ \A a \in Actors : pc[a] = "idle"
  BY ZenonT(30) DEF MemInit, VregInit
<1>2. DOMAIN pages = {}
  BY <1>1
<1>3. InitRegions!1
  BY ZenonT(30) DEF MemInit
<1>4. \A r \in regions : r.length \in Nat
  BY ZenonT(30), <1>3, InitRegions DEF RegionsInv, IsRegion
<1>5. HeapStart % PageSize = 0 /\ 0 % PageSize = 0 /\ 0 \in Nat
  BY LayoutAssumption, PagesAssumption
<1>6. ASSUME NEW r \in regions, NEW s, NEW l, NEW t, r = Region(s, l, 0, t),
             t \in Lazy \cup {"Heap", "Stack"} => s = HeapStart
      PROVE  Placed(r)
  <2>1. r.start = s /\ r.length = l /\ r.stack_protect = 0 /\ r.type = t
    BY ZenonT(30), <1>6 DEF Region
  <2>2. 0 <= r.length
    BY <1>4
  <2> QED BY ZenonT(30), <1>5, <1>6, <2>1, <2>2 DEF Placed
<1>7. \A t \in {"NonCanonical", "Tysos", "Devices", "PageTables"} : t \notin Lazy \cup {"Heap", "Stack"}
  BY ZenonT(30) DEF Lazy
<1>8. \A r \in regions : Placed(r)
  <2>1. ASSUME NEW r \in regions
        PROVE  \E s, l, t : /\ r = Region(s, l, 0, t)
                            /\ t \in Lazy \cup {"Heap", "Stack"} => s = HeapStart
    BY ZenonT(30), <1>1, <1>7 DEF Fixed
  <2> QED BY ZenonT(30), <1>6, <2>1
<1> QED BY ZenonT(30), <1>1, <1>2, <1>8 DEF GuardInv

(* Every step keeps the invariant.                                          *)
LEMMA NextGuard ==
  ASSUME StackFacts, RegionsInv, MemTyped, GuardInv, [MemNext]_memvars
  PROVE  GuardInv'
(* What divides a number.                                                   *)
<1>Multiple.
  ASSUME NEW n \in Nat, NEW d \in Nat \ {0}
  PROVE  n % d = 0 <=> \E k \in Nat : n = k * d
  <2> USE <1>Multiple
  <2>1. PICK q \in Nat, r \in 0 .. d - 1 : q = n \div d /\ r = n % d
    OBVIOUS
  <2>2. n = q * d + r /\ q * d \in Nat
    BY <2>1
  <2>3. n % d = 0 => n = q * d
    BY <2>1, <2>2
  <2>4. ASSUME NEW k \in Nat, n = k * d PROVE n % d = 0
    <3>1. CASE k <= q
      <4>1. k * d \in Nat /\ k * d <= q * d
        BY ZenonT(30), <3>1, TimesLeq
      <4> QED BY <2>1, <2>2, <2>4, <4>1
    <3>2. CASE q + 1 <= k
      <4>1. k * d \in Nat /\ (q + 1) * d <= k * d
        BY <3>2, TimesLeq
      <4>2. (q + 1) * d = q * d + d
        OBVIOUS
      <4> QED BY <2>1, <2>2, <2>4, <4>1, <4>2
    <3> QED BY <3>1, <3>2
  <2> QED BY ZenonT(30), <2>3, <2>4
(* The page of an address is not below what is below the address and        *)
(* starts a page.                                                           *)
<1>PageAbove.
  ASSUME NEW n \in Nat, NEW s \in Nat, NEW d \in Nat \ {0}, s <= n, s % d = 0
  PROVE  s <= (n \div d) * d
  <2> USE <1>PageAbove
  <2>1. PICK k \in Nat : s = k * d
    BY ZenonT(30), <1>Multiple
  <2>2. PICK q \in Nat : q = n \div d /\ q * d \in Nat /\ n < q * d + d
    BY ZenonT(30), DivBounds
  <2>3. CASE k <= q
    BY ZenonT(30), <2>1, <2>2, <2>3, TimesLeq
  <2>4. CASE q + 1 <= k
    <3>1. k * d \in Nat /\ (q + 1) * d <= k * d
      BY <2>4, TimesLeq
    <3>2. (q + 1) * d = q * d + d
      BY <2>2
    <3> QED BY <2>1, <2>2, <3>1, <3>2
  <2> QED BY <2>3, <2>4
(* What is aligned to pages starts one.                                     *)
<1>AlignPages.
  ASSUME NEW a \in Nat, NEW f \in Nat \ {0}, NEW d \in Nat \ {0}, f % d = 0
  PROVE  align(a, f) % d = 0
  <2> USE <1>AlignPages
  <2>1. PICK k \in Nat : f = k * d
    BY ZenonT(30), <1>Multiple
  <2>2. PICK q \in Nat, r \in 0 .. f - 1 : /\ q = a \div f /\ r = a % f
                                          /\ a = q * f + r /\ q * f \in Nat
    OBVIOUS
  <2>3. PICK e \in Nat : align(a, f) = e * f
    <3>1. CASE r = 0
      BY <2>2, <3>1 DEF align
    <3>2. CASE r # 0
      <4>1. align(a, f) = a - r + f
        BY ZenonT(30), <2>2, <3>2 DEF align
      <4>2. (q + 1) * f = q * f + f /\ q + 1 \in Nat
        OBVIOUS
      <4>3. a - r + f = (q + 1) * f
        BY <2>2, <4>2
      <4> QED BY ZenonT(30), <4>1, <4>2, <4>3
    <3> QED BY ZenonT(30), <3>1, <3>2
  <2>4. e * f = (e * k) * d /\ e * k \in Nat /\ e * f \in Nat
    BY <2>1
  <2>5. align(a, f) \in Nat /\ \E j \in Nat : align(a, f) = j * d
    BY ZenonT(30), <2>3, <2>4
  <2> QED BY ZenonT(30), <2>5, <1>Multiple
(* A page stays backed when regions are added.                              *)
<1>BackedKept.
  ASSUME regions \subseteq regions', NEW v, Backed(v)
  PROVE  Backed(v)'
  BY <1>BackedKept, ZenonT(30) DEF Backed
(* The page of an address that may be accessed is backed.                   *)
<1>AllowedBacked.
  ASSUME NEW n \in Nat, Allowed(n)
  PROVE  Backed(PageOf(n))
  <2> USE <1>AllowedBacked
  <2>1. PICK r \in regions :
          /\ contains(r, n) /\ r.type \in Lazy \cup {"Heap", "Stack"}
          /\ r.type = "Stack" => n >= r.start + r.stack_protect
    <3>1. PICK r \in regions : /\ contains(r, n)
                               /\ \/ r.type \in Lazy \cup {"Heap"}
                                  \/ r.type = "Stack" /\ n >= r.start + r.stack_protect
      BY ZenonT(30) DEF Allowed
    <3>2. "Stack" \notin Lazy \cup {"Heap"}
      BY ZenonT(30) DEF Lazy
    <3> QED BY ZenonT(30), <3>1, <3>2
  <2>2. /\ r.start \in Nat /\ End(r) \in Nat /\ r.stack_protect \in Nat
        /\ r.start % PageSize = 0 /\ r.stack_protect % PageSize = 0
    BY <2>1 DEF RegionsInv, IsRegion, GuardInv, Placed, End
  <2>3. PICK s \in Nat, e \in Nat, p \in Nat : s = r.start /\ e = End(r) /\ p = r.stack_protect
    BY ZenonT(30), <2>2
  <2>4. s <= n /\ n < e
    BY ZenonT(30), <2>1, <2>3 DEF contains
  <2>5. PageSize \in Nat \ {0}
    BY ZenonT(30), LayoutAssumption
  <2>6. PICK v \in Nat : v = PageOf(n) /\ v * PageSize \in Nat /\ v * PageSize <= n
    BY ZenonT(30), <2>5, DivBounds DEF PageOf
  <2>7. s <= v * PageSize
    BY ZenonT(30), <2>2, <2>3, <2>4, <2>5, <2>6, <1>PageAbove DEF PageOf
  <2>8. contains(r, v * PageSize)
    <3>1. v * PageSize < e
      BY <2>4, <2>6
    <3> QED BY ZenonT(30), <2>3, <2>7, <3>1 DEF contains
  <2>9. ASSUME r.type = "Stack" PROVE v * PageSize >= s + p
    <3>1. PICK i \in Nat, j \in Nat : s = i * PageSize /\ p = j * PageSize
      <4>1. s % PageSize = 0 /\ p % PageSize = 0
        BY ZenonT(30), <2>2, <2>3
      <4>2. \E i \in Nat : s = i * PageSize
        BY ZenonT(30), <2>5, <4>1, <1>Multiple
      <4>3. \E j \in Nat : p = j * PageSize
        BY ZenonT(30), <2>5, <4>1, <1>Multiple
      <4> QED BY ZenonT(30), <4>2, <4>3
    <3>2. s + p = (i + j) * PageSize /\ i + j \in Nat
      BY <2>5, <3>1
    <3>3. PICK t \in Nat : t = s + p
      OBVIOUS
    <3>4. t % PageSize = 0 /\ t <= n
      BY ZenonT(30), <2>1, <2>3, <2>5, <2>9, <3>2, <3>3, <1>Multiple
    <3>5. t <= v * PageSize
      BY ZenonT(30), <2>5, <2>6, <3>4, <1>PageAbove DEF PageOf
    <3> QED BY ZenonT(30), <2>6, <3>3, <3>5
  <2> QED BY ZenonT(30), <2>1, <2>3, <2>6, <2>8, <2>9 DEF Backed
(* A new region is placed on pages.                                         *)
<1>AllocPlaced.
  ASSUME NEW l \in Nat, NEW al \in Nat \ {0}, NEW p \in Nat, NEW t, al % PageSize = 0,
         p % PageSize = 0, AllocRegion(l, al, p, t)
  PROVE  regions \subseteq regions' /\ \A r \in regions' : Placed(r)
  <2> USE <1>AllocPlaced
  <2>1. PICK s : s = align(free.start, al)
    BY ZenonT(30)
  <2>2. PICK r : r = Region(s, l + p, p, t)
    BY ZenonT(30)
  <2>3. regions' = regions \cup {r}
    BY ZenonT(30), <2>1, <2>2 DEF AllocRegion
  <2>4. r.start = s /\ r.length = l + p /\ r.stack_protect = p /\ r.type = t
    BY ZenonT(30), <2>2 DEF Region
  <2>5. s % PageSize = 0
    BY ZenonT(30), <2>1, LayoutAssumption, <1>AlignPages DEF RegionsInv, IsRegion
  <2>6. p <= l + p
    OBVIOUS
  <2>7. Placed(r)
    BY ZenonT(30), <2>4, <2>5, <2>6 DEF Placed
  <2>8. \A q \in regions : Placed(q)
    BY ZenonT(30) DEF GuardInv
  <2> QED BY ZenonT(30), <2>1, <2>3, <2>4, <2>7, <2>8
(* A step keeps the invariant when it takes pages away, or adds one that    *)
(* was being mapped, and starts to map only what is backed.                 *)
<1>GuardStep.
  ASSUME regions' = regions,
         \A v \in DOMAIN pages' : v \in DOMAIN pages \/ \E a \in Actors : pc[a] # "idle" /\ v = map[a].page,
         \A a \in Actors : pc'[a] # "idle" =>
           \/ pc[a] # "idle" /\ map'[a].page = map[a].page
           \/ Backed(map'[a].page)
  PROVE  GuardInv'
  <2> USE <1>GuardStep
  <2>1. \A v : Backed(v)' <=> Backed(v)
    BY ZenonT(30) DEF Backed
  <2>2. \A v \in DOMAIN pages' : Backed(v)
    BY ZenonT(30) DEF GuardInv
  <2>3. \A a \in Actors : pc'[a] # "idle" => Backed(map'[a].page)
    BY ZenonT(30) DEF GuardInv
  <2>4. \A r \in regions' : Placed(r)
    BY ZenonT(30) DEF GuardInv
  <2> QED BY ZenonT(30), <2>1, <2>2, <2>3, <2>4 DEF GuardInv
(* Getting a page leaves what is being mapped as it is.                     *)
<1>GotGuard.
  ASSUME regions' = regions, NEW a \in Actors, NEW x \in Nat, pc[a] \in Taking,
         pc[a] # "idle", Got(a, x)
  PROVE  GuardInv'
  <2> USE <1>GotGuard
  <2>1. /\ map'[a].page = map[a].page /\ DOMAIN pages' \subseteq DOMAIN pages
        /\ \A c \in Actors \ {a} : pc'[c] = pc[c] /\ map'[c] = map[c]
    BY ZenonT(30), GotIs
  <2> QED BY ZenonT(30), <2>1, <1>GuardStep
(* An actor that only goes on keeps the invariant.                          *)
<1>GotoGuard.
  ASSUME regions' = regions, NEW a \in Actors, pc[a] # "idle",
         \A c \in Actors \ {a} : pc'[c] = pc[c], UNCHANGED <<map, pages>>
  PROVE  GuardInv'
  BY <1>GotoGuard, ZenonT(30), <1>GuardStep
(* Small, Large and Split keep the invariant.                               *)
<1>TakeGuard.
  ASSUME NEW a \in Actors, Small(a) \/ Large(a) \/ Split(a)
  PROVE  GuardInv'
  <2> USE <1>TakeGuard
  <2>1. CASE Small(a)
    <3>1. pc[a] = "small" /\ pc[a] \in Taking /\ regions' = regions
      BY ZenonT(30), <2>1, SmallIs
    <3>2. \/ \E p : Goto(a, p) /\ UNCHANGED <<map, pages>>
          \/ \E x : x = Head(upper[block[a]].rbs) /\ block[a] \in 1 .. Len(upper)
                    /\ upper[block[a]].rbs # << >> /\ Got(a, x)
      BY ZenonT(30), <2>1, SmallIs
    <3>3. \A x : x = Head(upper[block[a]].rbs) /\ block[a] \in 1 .. Len(upper)
                 /\ upper[block[a]].rbs # << >> => x \in Nat
      BY ZenonT(30), StackOf, HeadTail DEF MemTyped
    <3>4. pc[a] # "idle"
      BY ZenonT(30), <3>1
    <3> QED BY ZenonT(30), <3>1, <3>2, <3>3, <3>4, <1>GotGuard, <1>GotoGuard, GotoIs
  <2>2. CASE Large(a)
    <3>1. pc[a] = "large" /\ regions' = regions /\ UNCHANGED <<map, pages>>
      BY ZenonT(30), <2>2, LargeIs
    <3>2. \E p : Goto(a, p)
      BY ZenonT(30), <2>2, LargeIs
    <3>3. pc[a] # "idle"
      BY ZenonT(30), <3>1
    <3> QED BY ZenonT(30), <3>1, <3>2, <3>3, <1>GotoGuard, GotoIs
  <2>3. CASE Split(a)
    <3>1. pc[a] = "split" /\ pc[a] \in Taking /\ regions' = regions
      BY ZenonT(30), <2>3, SplitIs
    <3>2. UNCHANGED <<pc, map, pages>> \/ \E x \in Nat : Got(a, x)
      BY ZenonT(30), <2>3, SplitIs
    <3>3. pc[a] # "idle"
      BY ZenonT(30), <3>1
    <3> QED BY ZenonT(30), <3>1, <3>2, <3>3, <1>GotGuard, <1>GotoGuard
  <2> QED BY ZenonT(30), <2>1, <2>2, <2>3
(* So do Frame and Walk.                                                    *)
<1>MapGuard.
  ASSUME NEW a \in Actors, Frame(a) \/ Walk(a)
  PROVE  GuardInv'
  <2> USE <1>MapGuard
  <2>1. /\ pc[a] \in {"frame", "walk"} /\ regions' = regions /\ map[a] \in Maps(a)
        /\ DOMAIN map = Actors
    BY ZenonT(30), FrameIs, WalkIs DEF MemTyped, ActorDomains
  <2>2. pc[a] # "idle"
    BY ZenonT(30), <2>1
  <2>3. ASSUME NEW m \in Maps(a), m.page = map[a].page, map' = [map EXCEPT ![a] = m],
               UNCHANGED pages, \A c \in Actors \ {a} : pc'[c] = pc[c]
        PROVE  GuardInv'
    <3>1. map'[a].page = map[a].page /\ \A c \in Actors \ {a} : map'[c] = map[c]
      BY ZenonT(30), <2>1, <2>3
    <3> QED BY ZenonT(30), <2>1, <2>2, <2>3, <3>1, <1>GuardStep
  <2>4. CASE Frame(a)
    <3>1. pages' = pages
      BY ZenonT(30), <2>4, FrameIs
    <3>2. \/ \E w : GetPage(a, w, 0, 0) /\ UNCHANGED map
          \/ Goto(a, "walk") /\ \E x \in {bp, Device} :
               map' = [map EXCEPT ![a] = [map[a] EXCEPT !.frame = x]]
      BY ZenonT(30), <2>4, FrameIs
    <3>3. ASSUME NEW w, GetPage(a, w, 0, 0), UNCHANGED map
          PROVE  GuardInv'
      BY ZenonT(30), <2>1, <2>2, <3>1, <3>3, GetPageIs, <1>GotoGuard
    <3>4. ASSUME Goto(a, "walk"), NEW x \in {bp, Device},
                 map' = [map EXCEPT ![a] = [map[a] EXCEPT !.frame = x]]
          PROVE  GuardInv'
      <4>1. x \in Nat \cup {None, Device}
        BY ZenonT(30), <3>4 DEF MemTyped, BootTyped
      <4>2. PICK m : m = [map[a] EXCEPT !.frame = x]
        BY ZenonT(30)
      <4>3. m \in Maps(a) /\ m.page = map[a].page
        BY <2>1, <4>1, <4>2, MapFrame
      <4>4. map' = [map EXCEPT ![a] = m]
        BY ZenonT(30), <3>4, <4>2
      <4>5. \A c \in Actors \ {a} : pc'[c] = pc[c]
        BY ZenonT(30), <3>4, GotoIs
      <4> QED BY ZenonT(30), <2>3, <3>1, <4>3, <4>4, <4>5
    <3> QED BY ZenonT(30), <3>2, <3>3, <3>4
  <2>5. CASE Walk(a)
    <3>1. ASSUME NEW l, NEW i, GetPage(a, "table", l, i), UNCHANGED <<map, pages>>
          PROVE  GuardInv'
      BY ZenonT(30), <2>1, <2>2, <3>1, GetPageIs, <1>GotoGuard
    <3>2. ASSUME NEW l \in Int, map' = [map EXCEPT ![a] = [map[a] EXCEPT !.level = l]],
                 UNCHANGED <<pc, pages>>
          PROVE  GuardInv'
      <4>1. PICK m : m = [map[a] EXCEPT !.level = l]
        BY ZenonT(30)
      <4>2. m \in Maps(a) /\ m.page = map[a].page
        BY <2>1, <3>2, <4>1, MapLevel
      <4>3. map' = [map EXCEPT ![a] = m]
        BY ZenonT(30), <3>2, <4>1
      <4> QED BY ZenonT(30), <2>3, <3>2, <4>2, <4>3
    <3>3. ASSUME NEW e, pages' = Put(pages, map[a].page, e), Goto(a, "idle"), UNCHANGED map
          PROVE  GuardInv'
      <4>1. DOMAIN pages' = DOMAIN pages \cup {map[a].page}
        BY ZenonT(30), <3>3 DEF Put
      <4>2. pc'[a] = "idle" /\ \A c \in Actors \ {a} : pc'[c] = pc[c]
        BY ZenonT(30), <3>3, GotoIs
      <4> QED BY ZenonT(30), <2>1, <2>2, <3>3, <4>1, <4>2, <1>GuardStep
    <3>4. \/ (\E l \in Int : \E i : GetPage(a, "table", l, i)) /\ UNCHANGED <<map, pages>>
          \/ /\ \E l \in Int : map' = [map EXCEPT ![a] = [map[a] EXCEPT !.level = l]]
             /\ UNCHANGED <<pc, need, block, pages>>
          \/ /\ \E e : pages' = Put(pages, map[a].page, e)
             /\ Goto(a, "idle") /\ UNCHANGED <<map, need, block>>
      BY ZenonT(30), <2>5, WalkIs
    <3> QED BY ZenonT(30), <3>1, <3>2, <3>3, <3>4
  <2> QED BY ZenonT(30), <2>4, <2>5
(* A step that only adds regions, placed on pages, keeps the invariant.     *)
<1>RegionGuard.
  ASSUME regions \subseteq regions', \A r \in regions' : Placed(r), pages' = pages,
         \A a \in Actors : pc'[a] # "idle" =>
           \/ pc[a] # "idle" /\ map'[a] = map[a]
           \/ Backed(map[a].page)'
  PROVE  GuardInv'
  <2> USE <1>RegionGuard
  <2>1. \A v : Backed(v) => Backed(v)'
    BY ZenonT(30), <1>BackedKept
  <2>2. \A v \in DOMAIN pages' : Backed(v)'
    BY ZenonT(30), <2>1 DEF GuardInv
  <2>3. \A a \in Actors : pc'[a] # "idle" => Backed(map[a].page)'
    BY ZenonT(30), <2>1 DEF GuardInv
  <2> QED BY ZenonT(30), <2>2, <2>3 DEF GuardInv
(* The callers of AllocRegion keep the invariant.                           *)
<1>CallerGuard.
  ASSUME NEW th \in Threads, NewRegion(th) \/ MapIn(th)
  PROVE  GuardInv'
  <2> USE <1>CallerGuard
  <2>1. PageSize \in Nat \ {0} /\ 0 \in Nat /\ PageSize % PageSize = 0 /\ 0 % PageSize = 0
    BY LayoutAssumption
  <2>2. CASE NewRegion(th)
    <3>1. PICK l \in Lengths, al \in Aligns, p \in Protects, t \in Types : AllocRegion(l, al, p, t)
      BY ZenonT(30), <2>2 DEF NewRegion, AllocAny
    <3>2. l \in Nat /\ al \in Nat \ {0} /\ p \in Nat /\ al % PageSize = 0 /\ p % PageSize = 0
      BY ZenonT(30), RequestAssumption, PagesAssumption
    <3>3. regions \subseteq regions' /\ \A r \in regions' : Placed(r)
      BY ZenonT(30), <3>1, <3>2, <1>AllocPlaced
    <3>4. pc' = pc /\ map' = map /\ pages' = pages
      BY ZenonT(30), <2>2 DEF NewRegion, actor, paging
    <3> QED BY ZenonT(30), <3>3, <3>4, <1>RegionGuard
  <2>3. CASE MapIn(th)
    <3>1. /\ AllocRegion(PageSize, PageSize, 0, "Other") /\ pages' = pages
          /\ StartMap(th, PageOf(align(free.start, PageSize)), "device")
      BY ZenonT(30), <2>3 DEF MapIn, paging
    <3>2. PICK s \in Nat : s = align(free.start, PageSize) /\ s % PageSize = 0
      BY ZenonT(30), <2>1, AlignBounds, <1>AlignPages DEF RegionsInv, IsRegion
    <3>3. PICK v \in Nat : v = PageOf(s)
      BY ZenonT(30), <3>2, PageOfNat
    <3>4. v * PageSize = s
      BY <2>1, <3>2, <3>3 DEF PageOf
    <3>5. PICK l \in Nat, al \in Nat \ {0}, p \in Nat :
            /\ l = PageSize /\ al = PageSize /\ p = 0
            /\ al % PageSize = 0 /\ p % PageSize = 0
      BY ZenonT(30), <2>1
    <3>6. regions \subseteq regions' /\ \A r \in regions' : Placed(r)
      <4>1. AllocRegion(l, al, p, "Other")
        BY ZenonT(30), <3>1, <3>5
      <4>2. al % PageSize = 0 /\ p % PageSize = 0
        BY ZenonT(30), <3>5
      <4> QED BY ZenonT(30), <4>1, <4>2, <1>AllocPlaced
    <3>7. PICK r \in regions' : r.start = s /\ r.type = "Other" /\ r.length = PageSize + 0
      <4>1. PICK r : r = Region(s, PageSize + 0, 0, "Other")
        BY ZenonT(30)
      <4>2. r.start = s /\ r.type = "Other" /\ r.length = PageSize + 0
        BY ZenonT(30), <4>1 DEF Region
      <4>3. r \in regions'
        BY ZenonT(30), <3>1, <3>2, <4>1 DEF AllocRegion
      <4> QED BY ZenonT(30), <4>2, <4>3
    <3>8. contains(r, s)
      BY <2>1, <3>2, <3>7 DEF contains, End
    <3>9. r.type # "Stack"
      BY ZenonT(30), <3>7
    <3>10. Backed(v)'
      BY ZenonT(30), <3>4, <3>8, <3>9 DEF Backed
    <3>11. th \in Actors /\ th # PF
      BY ZenonT(30), FramesAssumption DEF Actors
    <3>12. "device" \in Kinds(th)
      BY ZenonT(30), <3>11 DEF Kinds
    <3>13. StartMap(th, v, "device")
      BY ZenonT(30), <3>1, <3>2, <3>3
    <3>14. map'[th].page = v
      BY ZenonT(30), <3>11, <3>12, <3>13 DEF StartMap, MemTyped, ActorDomains
    <3>15. \A c \in Actors \ {th} : pc'[c] = pc[c] /\ map'[c] = map[c]
      BY ZenonT(30), <3>11, <3>12, <3>13, StartMapIs
    <3> QED BY ZenonT(30), <3>1, <3>6, <3>10, <3>14, <3>15, <1>RegionGuard
  <2> QED BY ZenonT(30), <2>2, <2>3
(* The page fault handler maps only what is backed.                         *)
<1>FaultGuard.
  ASSUME NEW n \in Nat, NEW kind \in {"read", "write"}, Fault(n, kind)
  PROVE  GuardInv'
  <2> USE <1>FaultGuard
  <2>1. regions' = regions /\ pages' = pages /\ PF \in Actors /\ kind \in Kinds(PF)
    BY ZenonT(30) DEF Fault, vregvars, paging, Actors, Kinds
  <2>2. CASE Allowed(n) /\ StartMap(PF, PageOf(n), kind)
    <3>1. PICK v \in Nat : v = PageOf(n)
      BY ZenonT(30), PageOfNat
    <3>2. Backed(v)
      BY ZenonT(30), <2>2, <3>1, <1>AllowedBacked
    <3>3. map'[PF].page = v
      BY ZenonT(30), <2>1, <2>2, <3>1 DEF StartMap, MemTyped, ActorDomains
    <3>4. \A c \in Actors \ {PF} : pc'[c] = pc[c] /\ map'[c] = map[c]
      BY ZenonT(30), <2>1, <2>2, <3>1, StartMapIs
    <3> QED BY ZenonT(30), <2>1, <3>2, <3>3, <3>4, <1>GuardStep
  <2>3. CASE UNCHANGED <<map, pc>>
    BY ZenonT(30), <2>1, <2>3, <1>GuardStep
  <2> QED BY ZenonT(30), <2>2, <2>3 DEF Fault
<1>1. \A n \in 0 .. AddressEnd - 1 : n \in Nat
  BY LayoutAssumption
<1>2. UNCHANGED <<regions, pages, pc, map>> => GuardInv'
  BY ZenonT(30), <1>GuardStep
<1>3. EarlyGetPage \/ (\E b \in Block : Release(b)) \/ UNCHANGED memvars
      => UNCHANGED <<regions, pages, pc, map>>
  BY ZenonT(30) DEF EarlyGetPage, Release, memvars, vregvars, paging, actor
<1> QED BY ZenonT(30), <1>1, <1>2, <1>3, <1>TakeGuard, <1>MapGuard, <1>FaultGuard, <1>CallerGuard DEF MemNext

(* Guards are not mapped, if the stacks fit: see GuardsHold.                *)
LEMMA GuardsIfStacksFit == StackFacts /\ MemSpec => []GuardUnmapped
<1>1. RegionsInv /\ GuardInv => GuardUnmapped
  <2> SUFFICES ASSUME RegionsInv, GuardInv, NEW r \in regions, NEW v \in DOMAIN pages,
                      r.type = "Stack", r.start <= v * PageSize,
                      v * PageSize < r.start + r.stack_protect
               PROVE  FALSE
    BY ZenonT(30) DEF GuardUnmapped
  <2>1. PICK q \in regions : /\ contains(q, v * PageSize)
                             /\ q.type = "Stack" => v * PageSize >= q.start + q.stack_protect
    BY ZenonT(30) DEF GuardInv, Backed
  <2>2. IsRegion(r) /\ IsRegion(q) /\ Placed(r) /\ (r # q => Disjoint(r, q))
    BY ZenonT(30) DEF RegionsInv, GuardInv
  <2>3. PICK n : n = v * PageSize
    BY ZenonT(30)
  <2>4. v \in Nat /\ PageSize \in Nat
    BY ZenonT(30), LayoutAssumption DEF GuardInv, Backed
  <2>5. n \in Int
    BY <2>3, <2>4
  <2>6. PICK s \in Nat, l \in Nat, p \in Nat : /\ s = r.start /\ l = r.length
                                             /\ p = r.stack_protect /\ p <= l
    BY ZenonT(30), <2>2 DEF IsRegion, Placed
  <2>7. PICK t \in Nat, k \in Nat : t = q.start /\ k = q.length
    BY ZenonT(30), <2>2 DEF IsRegion
  <2>8. s <= n /\ n < s + p /\ t <= n /\ n < t + k
    BY ZenonT(30), <2>1, <2>3, <2>6, <2>7 DEF contains, End
  <2>9. ~ (s + l <= t \/ t + k <= s)
    BY <2>5, <2>6, <2>7, <2>8
  <2>10. r = q
    BY ZenonT(30), <2>2, <2>6, <2>7, <2>9 DEF Disjoint, End
  <2>11. n >= s + p
    BY ZenonT(30), <2>1, <2>3, <2>6, <2>10
  <2> QED BY <2>5, <2>6, <2>8, <2>11
<1>2. MemInit => RegionsInv
  BY ZenonT(30), InitRegions DEF MemInit
<1>3. ASSUME StackFacts PROVE MemSpec => []GuardUnmapped
  <2>1. RegionsInv /\ MemTyped /\ GuardInv /\ [MemNext]_memvars
        => RegionsInv' /\ MemTyped' /\ GuardInv'
    BY ZenonT(30), <1>3, MemRegions, NextTyped, NextGuard
  <2> QED BY <1>1, <1>2, <2>1, InitTyped, InitGuard, PTL DEF MemSpec
<1> QED BY ZenonT(30), <1>3

=============================================================================
