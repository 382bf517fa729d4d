------------------------------- MODULE Memory -------------------------------
(***************************************************************************)
(* Physical memory and the mapping of pages: the provider of pages used    *)
(* while booting (x86_64/EarlyPageProvider.cs), the two-level page stacks  *)
(* (PhysMem.cs, x86_64/Pmem.cs), the page tables (x86_64/Vmem.cs) and the  *)
(* page fault handler (x86_64/PageFault.cs) with the regions of module     *)
(* VirtualRegions.  The unit is the small page, physical (a frame) or      *)
(* virtual.  The handler cannot be interrupted; threads that map device    *)
(* memory can, between any two accesses to a stack or a page table.  A     *)
(* stack is the bounded queue that RingBuffer is checked to implement.     *)
(***************************************************************************)
EXTENDS VirtualRegions, Sequences, FiniteSets

CONSTANTS
  Blocks,          \* the sequence of free blocks of the memory map
  FirstUpper,      \* the first frame above 16 MiB
  EarlyRoom,       \* what a block must have left to be chosen, 4 pages
  EarlyBound,      \* pages taken while booting, at most
  LargeSize,       \* small pages in a large one
  EntriesPerPage,  \* entries of a stack that fit in a page
  Threads,
  PF,              \* the page fault handler
  Device,          \* the memory of a device
  TableSize,       \* pages mapped by a page table, and tables by the next level
  PagingLevels,    \* levels of page tables
  None

Actors == Threads \cup {PF}
Block == 1 .. Len(Blocks)

ASSUME BlocksAssumption ==
  /\ Blocks \in Seq([start : Nat \ {0}, length : Nat])
  /\ \A b, c \in Block : b < c => \/ Blocks[b].start + Blocks[b].length <= Blocks[c].start
                                  \/ Blocks[c].start + Blocks[c].length <= Blocks[b].start

(* Two entries fit in a page, or a stack could be larger than its block.    *)
ASSUME FramesAssumption ==
  /\ EarlyRoom \in Nat /\ LargeSize \in Nat \ {0} /\ EntriesPerPage \in Nat \ {0, 1}
  /\ PF \notin Threads /\ PagingLevels \in Nat
  /\ Device \notin Nat /\ None \notin Nat \cup {Device}

(* The callers of AllocRegion align regions, and make guards, of pages.     *)
ASSUME PagesAssumption ==
  \A n \in Aligns \cup Protects \cup {HeapStart} : n % PageSize = 0

VARIABLES
  used,     \* the pages of each block taken while booting
  sb,       \* the block they are being taken from
  booted,   \* the blocks given to PhysMem so far
  upper,    \* PhysMem's list of blocks, each with its two stacks
  bp,       \* the blank page
  tables,   \* the page tables: table to frame
  pages,    \* the mapped pages: page to frame and writability
  pc, map, need, block, split,   \* each actor's place in Map and Allocate
  halted,
  handed    \* history: the frames handed out so far

boot == <<used, sb, booted>>
actor == <<pc, map, need, block, split>>
paging == <<bp, tables, pages>>
memvars == <<vregvars, boot, upper, paging, actor, halted, handed>>

MemInit ==
  /\ VregInit
  /\ used = [b \in Block |-> 0] /\ sb = 0 /\ booted = 0
  /\ upper = << >> /\ bp = None
  /\ tables = << >> /\ pages = << >>
  /\ pc = [a \in Actors |-> "idle"]
  /\ map = [a \in Actors |-> None]
  /\ need = [a \in Actors |-> None]
  /\ block = [a \in Actors |-> 0]
  /\ split = [a \in Actors |-> 0]
  /\ halted = FALSE
  /\ handed = {}

-----------------------------------------------------------------------------
(* Booting: pages are taken from the end of a block, then what is left of   *)
(* each block becomes two stacks.                                           *)

Left(b) == Blocks[b].length - used[b]
Roomy == {b \in Block : Left(b) > EarlyRoom}
Above == {b \in Roomy : Blocks[b].start >= FirstUpper}
Straddling == {b \in Roomy : Blocks[b].start + Blocks[b].length >= FirstUpper}

(* The first of the largest. *)
Largest(S) ==
  CHOOSE b \in S : \A c \in S : Left(c) <= Left(b) /\ (c < b => Left(c) < Left(b))

GetBestSliceBlock ==
  CASE Above # {} -> Largest(Above)
    [] Above = {} /\ Straddling # {} -> Largest(Straddling)
    [] OTHER -> Largest(Roomy)

(* With no block that has room a null reference is followed. *)
EarlyGetPage ==
  /\ booted = 0 /\ ~ halted /\ Cardinality(handed) < EarlyBound
  /\ LET again == sb = 0 \/ used[sb] + 1 > Blocks[sb].length
         b == IF again THEN GetBestSliceBlock ELSE sb IN
     IF again /\ Roomy = {}
       THEN /\ halted' = TRUE
            /\ UNCHANGED <<sb, used, handed>>
       ELSE /\ sb' = b
            /\ used' = [used EXCEPT ![b] = @ + 1]
            /\ handed' = handed \cup {Blocks[b].start + Blocks[b].length - used[b] - 1}
            /\ UNCHANGED halted
  /\ UNCHANGED <<vregvars, booted, upper, paging, actor>>

(* RingBuffer's size: the entries rounded down to a power of two, less one  *)
(* that stays empty.                                                        *)
Capacity(entries) ==
  IF entries = 0 THEN 0
  ELSE (CHOOSE p \in {2 ^ i : i \in 0 .. entries} : p <= entries /\ entries < 2 * p) - 1

Enqueue(q, capacity, x) == IF Len(q) < capacity THEN Append(q, x) ELSE q

(* The first n of the values first, first + step, ... that fit. *)
Filled(capacity, first, step, n) ==
  [i \in 1 .. Min2(n, capacity) |-> first + (i - 1) * step]

(* The pages the two stacks of a block of len pages are stored in. *)
StackPages(len) == (len + len \div LargeSize + EntriesPerPage - 1) \div EntriesPerPage

(* PmemTwoLevelStack.PmemTwoLevelStack: the stacks themselves come first,   *)
(* then small pages up to the first large one, large ones, and small ones.  *)
Stacks(start, len) ==
  LET small == len
      large == len \div LargeSize
      x == start + StackPages(len)
      end == start + len
      l == Min2(align(x, LargeSize), IF x < end THEN end ELSE x)
      nl == IF l < end THEN (end - l) \div LargeSize ELSE 0
      m == l + nl * LargeSize
      before == Filled(Capacity(small), x, 1, l - x)
      after == Filled(Capacity(small) - Len(before), m, 1, IF m < end THEN end - m ELSE 0)
  IN [rbs |-> before \o after,
      rbl |-> Filled(Capacity(large), l, LargeSize, nl),
      small |-> Capacity(small)]

(* FramesDisjoint: the whole block, the pages taken while booting too.      *)
Release_Whole(b) ==
  /\ b = booted + 1 /\ ~ halted
  /\ booted' = b
  /\ upper' = IF Left(b) > 2 THEN Append(upper, Stacks(Blocks[b].start, Blocks[b].length))
              ELSE upper
  /\ UNCHANGED <<vregvars, used, sb, paging, actor, halted, handed>>

(* Pmem.Release, as the boot code calls it for each block in turn. *)
Release(b) ==
  /\ b = booted + 1 /\ ~ halted
  /\ booted' = b
  /\ upper' = IF Left(b) > 2 THEN Append(upper, Stacks(Blocks[b].start, Left(b)))
              ELSE upper
  /\ UNCHANGED <<vregvars, used, sb, paging, actor, halted, handed>>

-----------------------------------------------------------------------------
(* Pmem.GetPage, by actor a: the blocks in turn, small pages before large   *)

Up == booted = Len(Blocks) /\ ~ halted
At(a, p) == Up /\ pc[a] = p /\ (a = PF \/ pc[PF] = "idle")
Goto(a, p) == pc' = [pc EXCEPT ![a] = p]

GetPage(a, what, l, i) ==
  /\ need' = [need EXCEPT ![a] = [what |-> what, level |-> l, index |-> i]]
  /\ block' = [block EXCEPT ![a] = 1]
  /\ Goto(a, "small")

(* The pages and tables below table <<l, i>>: a new table is cleared. *)
Under(l, i, k, j) == k < l /\ j \div (TableSize ^ (l - k)) = i

Keep(f, S) == [x \in S |-> f[x]]
Put(f, x, y) == [z \in DOMAIN f \cup {x} |-> IF z = x THEN y ELSE f[z]]

(* The page x goes where it is needed. *)
Got(a, x) ==
  /\ handed' = handed \cup {x}
  /\ Goto(a, "walk")
  /\ \/ /\ need[a].what = "page"
        /\ map' = [map EXCEPT ![a].frame = x]
        /\ UNCHANGED paging
     \/ /\ need[a].what = "blank"
        /\ bp' = x
        /\ map' = [map EXCEPT ![a].frame = x]
        /\ UNCHANGED <<tables, pages>>
     \/ /\ need[a].what = "table"
        /\ LET l == need[a].level  i == need[a].index IN
           /\ tables' = Put(Keep(tables, {y \in DOMAIN tables : ~ Under(l, i, y[1], y[2])}),
                            <<l, i>>, x)
           /\ pages' = Keep(pages, {v \in DOMAIN pages : ~ Under(l, i, 0, v)})
           /\ map' = [map EXCEPT ![a].level = l - 1]
        /\ UNCHANGED bp

Small(a) ==
  /\ At(a, "small")
  /\ LET b == block[a] IN
     \/ /\ b > Len(upper)
        /\ Goto(a, "stuck")
        /\ UNCHANGED <<upper, map, paging, handed>>
     \/ /\ b <= Len(upper) /\ upper[b].rbs = << >>
        /\ Goto(a, "large")
        /\ UNCHANGED <<upper, map, paging, handed>>
     \/ /\ b <= Len(upper) /\ upper[b].rbs # << >>
        /\ upper' = [upper EXCEPT ![b].rbs = Tail(@)]
        /\ Got(a, Head(upper[b].rbs))
  /\ UNCHANGED <<vregvars, boot, need, block, split, halted>>

Large(a) ==
  /\ At(a, "large")
  /\ LET b == block[a] IN
     \/ /\ upper[b].rbl = << >>
        /\ block' = [block EXCEPT ![a] = b + 1]
        /\ Goto(a, "small")
        /\ UNCHANGED <<upper, split>>
     \/ /\ upper[b].rbl # << >>
        /\ upper' = [upper EXCEPT ![b].rbl = Tail(@)]
        /\ split' = [split EXCEPT ![a] = [page |-> Head(upper[b].rbl),
                                          next |-> Head(upper[b].rbl) + 1]]
        /\ Goto(a, "split")
        /\ UNCHANGED block
  /\ UNCHANGED <<vregvars, boot, map, need, paging, halted, handed>>

(* The rest of a large page goes back, page by page, as far as it fits. *)
Split(a) ==
  /\ At(a, "split")
  /\ LET s == split[a]  b == block[a] IN
     \/ /\ s.next < s.page + LargeSize
        /\ upper' = [upper EXCEPT ![b].rbs = Enqueue(@, upper[b].small, s.next)]
        /\ split' = [split EXCEPT ![a].next = @ + 1]
        /\ UNCHANGED <<pc, map, paging, handed>>
     \/ /\ s.next = s.page + LargeSize
        /\ split' = [split EXCEPT ![a] = 0]
        /\ Got(a, s.page)
        /\ UNCHANGED upper
  /\ UNCHANGED <<vregvars, boot, need, block, halted>>

-----------------------------------------------------------------------------
(* Vmem.Map of one page, by actor a *)

PageOf(addr) == addr \div PageSize

StartMap(a, v, kind) ==
  /\ map' = [map EXCEPT ![a] = [page |-> v, kind |-> kind, frame |-> None,
                                level |-> PagingLevels]]
  /\ Goto(a, "frame")

(* do_map and the start of Map: a write is given a new page, a read the     *)
(* blank one, and map_in the device's.                                      *)
Frame(a) ==
  /\ At(a, "frame")
  /\ LET kind == map[a].kind IN
     \/ /\ kind = "write" /\ GetPage(a, "page", 0, 0)
        /\ UNCHANGED map
     \/ /\ kind = "read" /\ bp = None /\ GetPage(a, "blank", 0, 0)
        /\ UNCHANGED map
     \/ /\ kind = "read" => bp # None
        /\ kind # "write"
        /\ map' = [map EXCEPT ![a].frame = IF kind = "read" THEN bp ELSE Device]
        /\ Goto(a, "walk")
        /\ UNCHANGED <<need, block>>
  /\ UNCHANGED <<vregvars, boot, upper, paging, split, halted, handed>>

(* PagesPrivate: every page is mapped writable. *)
Walk_Writable(a) ==
  /\ At(a, "walk")
  /\ LET m == map[a]  i == m.page \div (TableSize ^ m.level) IN
     \/ /\ m.level > 0 /\ <<m.level, i>> \notin DOMAIN tables
        /\ GetPage(a, "table", m.level, i)
        /\ UNCHANGED <<map, pages>>
     \/ /\ m.level > 0 /\ <<m.level, i>> \in DOMAIN tables
        /\ map' = [map EXCEPT ![a].level = @ - 1]
        /\ UNCHANGED <<pc, need, block, pages>>
     \/ /\ m.level = 0
        /\ pages' = Put(pages, m.page, [frame |-> m.frame, writeable |-> TRUE])
        /\ Goto(a, "idle")
        /\ UNCHANGED <<map, need, block>>
  /\ UNCHANGED <<vregvars, boot, upper, bp, tables, split, halted, handed>>

(* Map4k: the levels from the top, then the page itself. *)
Walk(a) ==
  /\ At(a, "walk")
  /\ LET m == map[a]  i == m.page \div (TableSize ^ m.level) IN
     \/ /\ m.level > 0 /\ <<m.level, i>> \notin DOMAIN tables
        /\ GetPage(a, "table", m.level, i)
        /\ UNCHANGED <<map, pages>>
     \/ /\ m.level > 0 /\ <<m.level, i>> \in DOMAIN tables
        /\ map' = [map EXCEPT ![a].level = @ - 1]
        /\ UNCHANGED <<pc, need, block, pages>>
     \/ /\ m.level = 0
        /\ pages' = Put(pages, m.page, [frame |-> m.frame, writeable |-> m.kind # "read"])
        /\ Goto(a, "idle")
        /\ UNCHANGED <<map, need, block>>
  /\ UNCHANGED <<vregvars, boot, upper, bp, tables, split, halted, handed>>

-----------------------------------------------------------------------------
(* PageFault.PFHandler and the callers of AllocRegion *)

Lazy == {"SSE_state", "CPU_specific", "IPC", "ModuleSection"}

(* GuardUnmapped: the guard of a stack is not looked at. *)
Allowed_NoGuard(addr) ==
  \E r \in regions : /\ contains(r, addr)
                     /\ r.type \in Lazy \cup {"Heap", "Stack"}

Allowed(addr) ==
  \E r \in regions :
    /\ contains(r, addr)
    /\ \/ r.type \in Lazy \cup {"Heap"}
       \/ r.type = "Stack" /\ addr >= r.start + r.stack_protect

(* An access to an address that is not mapped, or is mapped read-only and   *)
(* written; an access that is not allowed halts the machine.                *)
Fault(addr, kind) ==
  /\ Up /\ pc[PF] = "idle"
  /\ PageOf(addr) \in DOMAIN pages =>
       kind = "write" /\ ~ pages[PageOf(addr)].writeable
  /\ \/ /\ Allowed(addr)
        /\ StartMap(PF, PageOf(addr), kind)
        /\ UNCHANGED halted
     \/ /\ ~ Allowed(addr)
        /\ halted' = TRUE
        /\ UNCHANGED <<map, pc>>
  /\ UNCHANGED <<vregvars, boot, upper, paging, need, block, split, handed>>

(* A stack, a module's section, a mailbox ... *)
NewRegion(th) ==
  /\ At(th, "idle")
  /\ AllocAny
  /\ UNCHANGED <<boot, upper, paging, actor, halted, handed>>

(* Program.map_in, of one page *)
MapIn(th) ==
  /\ At(th, "idle")
  /\ AllocRegion(PageSize, PageSize, 0, "Other")
  /\ StartMap(th, PageOf(align(free.start, PageSize)), "device")
  /\ UNCHANGED <<boot, upper, paging, need, block, split, halted, handed>>

MemNext ==
  \/ EarlyGetPage \/ \E b \in Block : Release(b)
  \/ \E a \in Actors : Small(a) \/ Large(a) \/ Split(a) \/ Frame(a) \/ Walk(a)
  \/ \E addr \in 0 .. AddressEnd - 1, kind \in {"read", "write"} : Fault(addr, kind)
  \/ \E th \in Threads : NewRegion(th) \/ MapIn(th)

MemSpec == MemInit /\ [][MemNext]_memvars

-----------------------------------------------------------------------------
(* Who holds which frames: the stacks' entries, the page an actor is        *)
(* splitting, those handed out, and the memory the stacks themselves are in.*)
Claims ==
  (UNION {{<<"small", b, i, {upper[b].rbs[i]}>> : i \in 1 .. Len(upper[b].rbs)}
          \cup {<<"large", b, i, upper[b].rbl[i] .. upper[b].rbl[i] + LargeSize - 1>> :
                  i \in 1 .. Len(upper[b].rbl)} : b \in 1 .. Len(upper)})
  \cup {<<"split", a, 0, {split[a].page} \cup (split[a].next .. split[a].page + LargeSize - 1)>> :
          a \in {c \in Actors : pc[c] = "split"}}
  \cup {<<"stacks", b, 0, Blocks[b].start .. Blocks[b].start + StackPages(Left(b)) - 1>> :
          b \in {c \in Block : c <= booted /\ Left(c) > 2}}
  \cup {<<"handed", 0, 0, handed>>}

(* No frame is handed out twice, or while the stacks are stored in it, even *)
(* when threads and the page fault handler break up large pages at the same *)
(* time.                                                                    *)
FramesDisjoint == \A c, d \in Claims : c # d => c[4] \cap d[4] = {}

(* What is mapped was handed out, and a page that can be written has a      *)
(* frame of its own: neither another page, nor a page table, nor the blank  *)
(* page that reads are given is in it.                                      *)
PagesPrivate ==
  /\ \A v \in DOMAIN pages : pages[v].frame \in handed \cup {Device}
  /\ \A v \in DOMAIN pages : pages[v].writeable /\ pages[v].frame # Device =>
       /\ pages[v].frame # bp
       /\ \A u \in DOMAIN pages \ {v} : pages[u].frame # pages[v].frame
       /\ \A t \in DOMAIN tables : tables[t] # pages[v].frame
  /\ \A t \in DOMAIN tables : tables[t] # bp
  /\ \A t, s \in DOMAIN tables : tables[t] = tables[s] => t = s

(* The guard pages below a thread's stack are never mapped, so that an      *)
(* overflow is noticed.                                                     *)
GuardUnmapped ==
  \A r \in regions, v \in DOMAIN pages :
    r.type = "Stack" => ~ (r.start <= v * PageSize /\ v * PageSize < r.start + r.stack_protect)
=============================================================================
