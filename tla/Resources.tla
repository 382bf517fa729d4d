----------------------------- MODULE Resources -----------------------------
(***************************************************************************)
(* Ranges of addresses that a bus driver hands to the drivers below it     *)
(* (Resources/RangeResourceManager.cs, for the 64-bit ranges of            *)
(* Resource.cs).  Ranges are handed out of the free ones, which stay as    *)
(* they are; what was handed out is on a list.  A caller may say that its  *)
(* range may overlap others.  The manager belongs to one thread, so one    *)
(* call ends before the next.                                              *)
(***************************************************************************)
EXTENDS Integers, Sequences

CONSTANTS
  FreeRanges,            \* what AddFree was called with
  Bases, Sizes, Factors, \* arguments of calls: addresses, lengths, alignments
  Limit32,               \* end of the addresses of 32 bits
  NoRange,               \* null
  MaxGiven               \* bound on the ranges handed out

Ranges == [a : Nat, l : Nat, overwrite : BOOLEAN]

ASSUME RangesAssumption ==
  /\ FreeRanges \in Seq([a : Nat, l : Nat]) /\ Len(FreeRanges) > 0
  /\ Bases \subseteq Nat /\ Sizes \subseteq Nat /\ Factors \subseteq Nat \ {0}
  /\ NoRange \notin Ranges
  /\ NoRange \notin [length : Sizes, align : Factors, bits32 : BOOLEAN]

VARIABLES
  given,       \* the list used: ranges, and null where Split refused
  call,        \* the call of Alloc that is being executed, or NoRange
  item, test_addr,  \* its loop variables
  crashed      \* a null on the list was used

rangevars == <<given, call, item, test_addr, crashed>>

Range64(a, l, overwrite) == [a |-> a, l |-> l, overwrite |-> overwrite]
End64(r) == r.a + r.l
Intersects(r, base, length) == base + length > r.a /\ base < End64(r)
Contains(r, base, length) == base >= r.a /\ base + length <= End64(r)

AlignUp(a, f) == IF a % f = 0 THEN a ELSE a - (a % f) + f

SplitRange(r, base, length) ==
  IF Contains(r, base, length) THEN Range64(base, length, FALSE) ELSE NoRange

(* The loops over used stop at the first range that intersects, or at null. *)
Stops(i, base, length) == given[i] # NoRange => Intersects(given[i], base, length)
First(i, base, length) ==
  /\ i \in 1..Len(given) /\ Stops(i, base, length)
  /\ \A j \in 1..(i - 1) : ~Stops(j, base, length)
AllClear(base, length) == \A i \in 1..Len(given) : ~Stops(i, base, length)

Idle == ~crashed /\ call = NoRange

AllocFixed(base, length, can_overwrite) ==
  /\ Idle /\ Len(given) < MaxGiven
  /\ \E f \in 1..Len(FreeRanges) : Contains(FreeRanges[f], base, length)
  /\ \/ /\ ~can_overwrite => AllClear(base, length)
        /\ given' = Append(given, Range64(base, length, can_overwrite))
        /\ UNCHANGED crashed
     \/ /\ ~can_overwrite
        /\ \E i \in 1..Len(given) : First(i, base, length) /\ crashed' = (given[i] = NoRange)
        /\ UNCHANGED given
  /\ UNCHANGED <<call, item, test_addr>>

Alloc(length, align, bits32) ==
  /\ Idle /\ Len(given) < MaxGiven
  /\ call' = [length |-> length, align |-> align, bits32 |-> bits32]
  /\ item' = 1 /\ test_addr' = FreeRanges[1].a
  /\ UNCHANGED <<given, crashed>>

Return == call' = NoRange /\ item' = 1 /\ test_addr' = 0

Trying == ~crashed /\ call # NoRange
Tried == AlignUp(test_addr, call.align)
Room == /\ test_addr + call.length < End64(FreeRanges[item])
        /\ call.bits32 => test_addr + call.length <= Limit32

(* The end of a free range: on to the next one, or null. *)
NextItem ==
  /\ Trying /\ ~Room
  /\ IF item = Len(FreeRanges) THEN Return
     ELSE item' = item + 1 /\ test_addr' = FreeRanges[item + 1].a /\ UNCHANGED call
  /\ UNCHANGED <<given, crashed>>

(* A range that intersects: the search goes on at its end. *)
Skip ==
  /\ Trying /\ Room
  /\ \E i \in 1..Len(given) :
       /\ First(i, Tried, call.length)
       /\ IF given[i] = NoRange THEN crashed' = TRUE /\ UNCHANGED test_addr
          ELSE test_addr' = End64(given[i]) /\ UNCHANGED crashed
  /\ UNCHANGED <<given, call, item>>

(* RangesOwned: the address is aligned after it was found to be clear.      *)
Take_Unaligned ==
  /\ Trying /\ Room /\ AllClear(test_addr, call.length)
  /\ given' = Append(given, SplitRange(FreeRanges[item], Tried, call.length))
  /\ Return /\ UNCHANGED crashed

(* The room was found for the address before it was aligned: Split may      *)
(* refuse, and null is put on the list.                                     *)
Take ==
  /\ Trying /\ Room /\ AllClear(Tried, call.length)
  /\ given' = Append(given, SplitRange(FreeRanges[item], Tried, call.length))
  /\ Return /\ UNCHANGED crashed

RangesInit == /\ given = << >> /\ call = NoRange /\ item = 1 /\ test_addr = 0
              /\ crashed = FALSE

RangesNext ==
  \/ \E b \in Bases, l \in Sizes, w \in BOOLEAN : AllocFixed(b, l, w)
  \/ \E l \in Sizes, f \in Factors, w \in BOOLEAN : Alloc(l, f, w)
  \/ NextItem \/ Skip \/ Take

RangesSpec == RangesInit /\ [][RangesNext]_rangevars

-----------------------------------------------------------------------------
(* A range that was not asked to overlap others overlaps none that was      *)
(* handed out before it, and every range lies inside a free one, though     *)
(* Alloc tests for room before it aligns (AllocFixed, Alloc).               *)
RangesOwned ==
  \A j \in 1..Len(given) : given[j] # NoRange =>
    /\ \E f \in 1..Len(FreeRanges) : Contains(FreeRanges[f], given[j].a, given[j].l)
    /\ ~given[j].overwrite =>
         \A i \in 1..(j - 1) : given[i] # NoRange /\ ~Intersects(given[i], given[j].a, given[j].l)
=============================================================================
