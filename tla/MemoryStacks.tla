---------------------------- MODULE MemoryStacks ----------------------------
(***************************************************************************)
(* What the proofs about module Memory need to know of numbers and of the  *)
(* stacks that the constructor of PmemTwoLevelStack fills, stated of the   *)
(* constants alone.                                                        *)
(***************************************************************************)
EXTENDS Memory

(* The frames of a large page. *)
Span(p) == p .. p + LargeSize - 1

(* The frames of a stack of small pages, and that none is in it twice. *)
Elems(s) == {s[i] : i \in 1 .. Len(s)}
Distinct(s) == \A i, j \in 1 .. Len(s) : s[i] = s[j] => i = j

(* The same of a stack of large pages. *)
Spread(s) == UNION {Span(s[i]) : i \in 1 .. Len(s)}
Spaced(s) == \A i, j \in 1 .. Len(s) : i # j => Span(s[i]) \cap Span(s[j]) = {}

StackRecords == [rbs : Seq(Nat), rbl : Seq(Nat), small : Nat]

(* The two stacks hold different frames, of the block and past their own    *)
(* pages: small pages up to l, large ones up to m, and small ones.          *)
StacksFit(start, len) ==
  LET s == Stacks(start, len)
      first == start + StackPages(len)
      end == start + len IN
  /\ StackPages(len) \in Nat /\ first <= end
  /\ s \in StackRecords /\ Distinct(s.rbs) /\ Spaced(s.rbl)
  /\ \E l, m \in Nat :
       /\ first <= l /\ l <= m /\ m <= end
       /\ \A y \in Elems(s.rbs) : (first <= y /\ y < l) \/ (m <= y /\ y < end)
       /\ Spread(s.rbl) \subseteq l .. m - 1

(* Among some blocks there is a first of the largest, and the stacks of a   *)
(* block fit in it.                                                         *)
StackFacts ==
  /\ \A f \in [Block -> Nat] : \A S \in SUBSET Block : S # {} =>
       \E b \in S : \A c \in S : f[c] <= f[b] /\ (c < b => f[c] < f[b])
  /\ \A start, len \in Nat : StacksFit(start, len)
=============================================================================
