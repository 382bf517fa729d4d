------------------------ MODULE MemoryStacks_proofs -------------------------
(***************************************************************************)
(* The stacks of a block fit in it, a fact about the constants of module   *)
(* Memory; with it, what Memory_proofs shows of frames, pages and guards   *)
(* holds for every memory map.  Last, the ranges of module Resources.      *)
(***************************************************************************)
EXTENDS Memory_proofs, Resources, FiniteSetTheorems

(* Time limits that leave a slow machine room.                              *)
USE SMTT(30), ZenonT(30)

-----------------------------------------------------------------------------
(* Numbers *)

(* A set of numbers has a least one, from well-foundedness.                 *)
LEMMA NatMinimum ==
  ASSUME NEW S \in SUBSET Nat, S # {}
  PROVE  \E x \in S : \A y \in S : x <= y
<1>1. PICK x \in S : \A y \in S : ~ (<<y, x>> \in OpToRel(<, Nat))
  BY ZenonT(30), WFMin, NatLessThanWellFounded
<1>2. \A y \in S : ~ (y < x)
  BY ZenonT(30), <1>1 DEF OpToRel
<1> QED BY <1>2

(* The subsets of n + 1 elements are those of n of them, without and with  *)
(* the last: the prover knows of powers only as the number of subsets.      *)
LEMMA PowersOfTwo ==
  ASSUME NEW n \in Nat
  PROVE  2 ^ n \in Nat /\ 2 ^ (n + 1) = 2 * 2 ^ n
<1> DEFINE X == SUBSET (1 .. n)
           Z == SUBSET (1 .. n + 1)
           Y == Z \ X
           f == [A \in X |-> A \cup {n + 1}]
<1>1. IsFiniteSet(1 .. n) /\ Cardinality(1 .. n) = n
  BY FS_Interval
<1>2. IsFiniteSet(1 .. n + 1) /\ Cardinality(1 .. n + 1) = n + 1
  BY FS_Interval
<1>3. IsFiniteSet(X) /\ Cardinality(X) = 2 ^ n
  BY ZenonT(30), <1>1, FS_SUBSET
<1>4. Cardinality(Z) = 2 ^ (n + 1)
  BY ZenonT(30), <1>2, FS_SUBSET
<1>5. ExistsBijection(X, Y)
  <2>1. \A A \in X : n + 1 \notin A
    OBVIOUS
  <2>2. 1 .. n + 1 = (1 .. n) \cup {n + 1}
    OBVIOUS
  <2>3. f \in [X -> Y]
    BY ZenonT(30), <2>1, <2>2
  <2>4. \A A, B \in X : f[A] = f[B] => A = B
    <3> SUFFICES ASSUME NEW A \in X, NEW B \in X, f[A] = f[B] PROVE A = B
      BY ZenonT(30)
    <3>1. A \cup {n + 1} = B \cup {n + 1}
      BY ZenonT(30)
    <3> QED BY ZenonT(30), <2>1, <3>1
  <2>5. \A C \in Y : \E A \in X : f[A] = C
    <3> SUFFICES ASSUME NEW C \in Y PROVE \E A \in X : f[A] = C
      BY ZenonT(30)
    <3>1. C \ {n + 1} \in X /\ n + 1 \in C
      BY ZenonT(30), <2>2
    <3>2. f[C \ {n + 1}] = C
      BY ZenonT(30), <3>1
    <3> QED BY ZenonT(30), <3>1, <3>2
  <2> QED
    BY ZenonT(30), <2>3, <2>4, <2>5 DEF ExistsBijection, Bijection, Injection, Surjection, IsInjective
<1>6. IsFiniteSet(Y) /\ Cardinality(Y) = 2 ^ n
  BY ZenonT(30), <1>3, <1>5, FS_Bijection
<1>7. X \cup Y = Z /\ X \cap Y = {}
  <2>1. X \subseteq Z
    OBVIOUS
  <2> QED BY ZenonT(30), <2>1
<1>8. Cardinality(Z) = Cardinality(X) + Cardinality(Y) - Cardinality({})
  BY ZenonT(30), <1>3, <1>6, <1>7, FS_Union
<1>9. Cardinality({}) = 0
  BY FS_EmptySet
<1>10. Cardinality(X) \in Nat
  BY ZenonT(30), <1>3, FS_CardinalityType
<1> HIDE DEF X, Y, Z
<1> QED BY <1>3, <1>4, <1>6, <1>8, <1>9, <1>10

(* The highest bit of a number of entries exists, so that a ring buffer has *)
(* a capacity. *)
LEMMA CapacityNat ==
  ASSUME NEW entries \in Nat
  PROVE  Capacity(entries) \in Nat
<1> DEFINE Fits(e, i) == i \in 0 .. e /\ 2 ^ i <= e /\ e < 2 * 2 ^ i
           S == {e \in Nat \ {0} : \A i \in 0 .. e : ~ Fits(e, i)}
<1>1. S = {}
  <2>1. SUFFICES ASSUME S # {} PROVE FALSE
    OBVIOUS
  <2>2. PICK e \in S : \A y \in S : e <= y
    BY ZenonT(30), <2>1, NatMinimum
  <2>3. CASE e = 1
    <3>1. 2 ^ 0 = 1
      OBVIOUS
    <3>2. Fits(1, 0)
      BY <3>1
    <3> QED BY ZenonT(30), <2>3, <3>2
  <2>4. CASE e # 1
    <3>1. e - 1 \in Nat \ {0} /\ e - 1 \notin S
      BY <2>2, <2>4
    <3>2. PICK i \in 0 .. e - 1 : Fits(e - 1, i)
      BY <3>1
    <3>3. PICK p \in Nat : p = 2 ^ i /\ 2 ^ (i + 1) = 2 * p
      BY PowersOfTwo
    <3>4. CASE e < 2 * p
      <4>1. Fits(e, i)
        BY <3>2, <3>3, <3>4
      <4> QED BY <4>1
    <3>5. CASE e = 2 * p
      <4>1. i + 1 \in 0 .. e /\ p > 0
        BY <3>2, <3>3, <3>5
      <4>2. Fits(e, i + 1)
        BY <3>2, <3>3, <3>5, <4>1
      <4> QED BY <4>1, <4>2
    <3> QED BY <3>2, <3>3, <3>4, <3>5
  <2> QED BY <2>3, <2>4
<1>2. CASE entries = 0
  BY <1>2 DEF Capacity
<1>3. CASE entries # 0
  <2>1. PICK i \in 0 .. entries : Fits(entries, i)
    BY <1>1, <1>3
  <2> DEFINE P == {2 ^ j : j \in 0 .. entries}
             c == CHOOSE p \in P : p <= entries /\ entries < 2 * p
  <2>2. 2 ^ i \in P
    OBVIOUS
  <2>3. c \in P /\ c <= entries /\ entries < 2 * c
    BY ZenonT(30), <2>1, <2>2
  <2>4. P \subseteq Nat
    BY PowersOfTwo
  <2> HIDE DEF P
  <2>5. PICK k \in Nat : k = c /\ entries < 2 * k
    BY ZenonT(30), <2>3, <2>4
  <2>6. k - 1 \in Nat
    BY <1>3, <2>5
  <2>7. Capacity(entries) = c - 1
    BY ZenonT(30), <1>3 DEF Capacity, P
  <2> QED BY <2>5, <2>6, <2>7
<1> QED BY <1>2, <1>3


-----------------------------------------------------------------------------
(* What the two stacks of a block hold *)

(* The stacks of a block fit in it.                                         *)
LEMMA StackPagesFit ==
  ASSUME NEW len \in Nat
  PROVE  StackPages(len) \in Nat /\ StackPages(len) <= len
<1> USE FramesAssumption
<1>1. PICK q \in Nat : q = len \div LargeSize /\ q <= len
  BY DivBounds
<1>2. PICK n \in Nat : n = len + q + EntriesPerPage - 1
  OBVIOUS
<1>3. PICK y \in Nat : y = n \div EntriesPerPage /\ y * EntriesPerPage <= n
  BY DivBounds
<1>4. y = StackPages(len)
  BY <1>1, <1>2, <1>3 DEF StackPages
<1>5. CASE y > len
  <2>1. (len + 1) * EntriesPerPage <= y * EntriesPerPage
    BY <1>5, TimesLeq
  <2>2. 2 * len <= EntriesPerPage * len /\ (len + 1) * EntriesPerPage = EntriesPerPage * len + EntriesPerPage
    BY TimesLeq
  <2>3. EntriesPerPage * len \in Nat /\ y * EntriesPerPage \in Nat
    OBVIOUS
  <2> QED BY <1>1, <1>2, <1>3, <2>1, <2>2, <2>3
<1> QED BY <1>4, <1>5

(* What a loop of Enqueue leaves in an empty stack.                         *)
LEMMA FilledIs ==
  ASSUME NEW c \in Nat, NEW first \in Nat, NEW step \in Nat \ {0}, NEW n \in Nat,
         NEW f, f = Filled(c, first, step, n), NEW last, last = first + n * step
  PROVE  /\ f \in Seq(Nat) /\ Len(f) <= c
         /\ \A i \in 1 .. Len(f) : first <= f[i] /\ f[i] + step <= last
         /\ \A i, j \in 1 .. Len(f) : i < j => f[i] + step <= f[j]
<1>1. PICK k \in Nat : k = Min2(n, c) /\ k <= c /\ k <= n
  BY DEF Min2
<1>2. f = [i \in 1 .. k |-> first + (i - 1) * step]
  BY ZenonT(30), <1>1 DEF Filled
<1>3. \A i \in 1 .. k : (i - 1) * step \in Nat
  BY TimesLeq
<1>4. f \in [1 .. k -> Nat]
  BY <1>2, <1>3
<1>5. f \in Seq(Nat) /\ Len(f) = k
  BY <1>4
<1>6. \A i \in 1 .. k : f[i] = first + (i - 1) * step
  BY <1>2
<1>7. ASSUME NEW i \in 1 .. k
      PROVE  first <= f[i] /\ f[i] + step <= last
  <2>1. PICK z \in Nat : z = (i - 1) * step
    BY <1>3
  <2>2. i * step = z + step
    BY <2>1
  <2>3. i * step <= n * step /\ n * step \in Nat
    BY <1>1, TimesLeq
  <2> QED BY <1>6, <2>1, <2>2, <2>3
<1>8. ASSUME NEW i \in 1 .. k, NEW j \in 1 .. k, i < j
      PROVE  f[i] + step <= f[j]
  <2>1. PICK z \in Nat : z = (i - 1) * step
    BY <1>3
  <2>2. i * step = z + step
    BY <2>1
  <2>3. i * step <= (j - 1) * step /\ (j - 1) * step \in Nat
    BY <1>8, TimesLeq
  <2> QED BY <1>6, <2>1, <2>2, <2>3
<1> QED BY <1>1, <1>5, <1>7, <1>8

(* Small pages, one after another, ...                                      *)
LEMMA FilledElems ==
  ASSUME NEW c \in Nat, NEW first \in Nat, NEW n \in Nat, NEW last \in Nat,
         last = first + n * 1
  PROVE  LET f == Filled(c, first, 1, n) IN
         /\ f \in Seq(Nat) /\ Len(f) <= c /\ Distinct(f)
         /\ \A y \in Elems(f) : first <= y /\ y < last
<1> DEFINE f == Filled(c, first, 1, n)
<1>1. 1 \in Nat \ {0}
  OBVIOUS
<1>2. /\ f \in Seq(Nat) /\ Len(f) <= c
      /\ \A i \in 1 .. Len(f) : first <= f[i] /\ f[i] + 1 <= last
      /\ \A i, j \in 1 .. Len(f) : i < j => f[i] + 1 <= f[j]
  BY ZenonT(30), <1>1, FilledIs
<1> HIDE DEF f
<1>3. Len(f) \in Nat /\ \A i \in 1 .. Len(f) : f[i] \in Nat
  BY ZenonT(30), <1>2, SeqFacts
<1>4. \A i, j \in 1 .. Len(f) : i # j => f[i] # f[j]
  BY <1>2, <1>3
<1>5. \A i \in 1 .. Len(f) : first <= f[i] /\ f[i] < last
  BY <1>2, <1>3
<1> QED BY ZenonT(30), <1>2, <1>4, <1>5 DEF f, Distinct, Elems

(* ... and large ones.                                                      *)
LEMMA FilledSpread ==
  ASSUME NEW c \in Nat, NEW first \in Nat, NEW n \in Nat, NEW last \in Nat,
         last = first + n * LargeSize
  PROVE  LET f == Filled(c, first, LargeSize, n) IN
         f \in Seq(Nat) /\ Spaced(f) /\ Spread(f) \subseteq first .. last - 1
<1> DEFINE f == Filled(c, first, LargeSize, n)
<1>1. LargeSize \in Nat \ {0}
  BY FramesAssumption
<1>2. /\ f \in Seq(Nat)
      /\ \A i \in 1 .. Len(f) : first <= f[i] /\ f[i] + LargeSize <= last
      /\ \A i, j \in 1 .. Len(f) : i < j => f[i] + LargeSize <= f[j]
  BY ZenonT(30), <1>1, FilledIs
<1> HIDE DEF f
<1>3. Len(f) \in Nat /\ \A i \in 1 .. Len(f) : f[i] \in Nat
  BY ZenonT(30), <1>2, SeqFacts
<1>4. ASSUME NEW i \in 1 .. Len(f), NEW j \in 1 .. Len(f), i # j
      PROVE  Span(f[i]) \cap Span(f[j]) = {}
  <2>1. i < j \/ j < i
    BY <1>3, <1>4
  <2>2. f[i] + LargeSize <= f[j] \/ f[j] + LargeSize <= f[i]
    BY ZenonT(30), <1>2, <2>1
  <2>3. PICK u \in Nat, v \in Nat : u = f[i] /\ v = f[j]
    BY ZenonT(30), <1>3
  <2>4. (u .. u + LargeSize - 1) \cap (v .. v + LargeSize - 1) = {}
    BY <1>1, <2>2, <2>3
  <2> QED BY ZenonT(30), <2>3, <2>4 DEF Span
<1>5. ASSUME NEW i \in 1 .. Len(f)
      PROVE  Span(f[i]) \subseteq first .. last - 1
  <2>1. PICK u \in Nat : u = f[i] /\ first <= u /\ u + LargeSize <= last
    BY ZenonT(30), <1>2, <1>3
  <2>2. u .. u + LargeSize - 1 \subseteq first .. last - 1
    BY <1>1, <2>1
  <2> QED BY ZenonT(30), <2>1, <2>2 DEF Span
<1> QED BY ZenonT(30), <1>2, <1>4, <1>5 DEF f, Spaced, Spread

(* One stack's entries after another's.                                     *)
LEMMA JoinDistinct ==
  ASSUME NEW p \in Seq(Nat), NEW q \in Seq(Nat), NEW m \in Nat, Distinct(p), Distinct(q),
         \A i \in 1 .. Len(p) : p[i] < m, \A i \in 1 .. Len(q) : m <= q[i]
  PROVE  /\ p \o q \in Seq(Nat) /\ Distinct(p \o q)
         /\ \A y \in Elems(p \o q) : y \in Elems(p) \/ y \in Elems(q)
<1> DEFINE r == p \o q
           n == Len(p)
<1>1. r \in Seq(Nat) /\ n \in Nat /\ Len(r) = n + Len(q) /\ Len(q) \in Nat
  OBVIOUS
<1>2. \A i \in 1 .. n : r[i] = p[i] /\ p[i] \in Nat
  OBVIOUS
<1>3. \A i \in 1 .. Len(q) : r[n + i] = q[i] /\ q[i] \in Nat
  OBVIOUS
<1> HIDE DEF r, n
<1>4. ASSUME NEW i \in 1 .. Len(r)
      PROVE  i \in 1 .. n \/ \E k \in 1 .. Len(q) : i = n + k
  <2>1. CASE i > n
    <3>1. i - n \in 1 .. Len(q) /\ i = n + (i - n)
      BY <1>1, <2>1
    <3> QED BY <3>1
  <2> QED BY <1>1, <2>1
<1>5. Distinct(r)
  <2> SUFFICES ASSUME NEW i \in 1 .. Len(r), NEW j \in 1 .. Len(r), r[i] = r[j]
               PROVE  i = j
    BY DEF Distinct
  <2>1. CASE i \in 1 .. n /\ j \in 1 .. n
    BY <1>2, <2>1 DEF Distinct, n
  <2>2. CASE \E k \in 1 .. Len(q) : i = n + k
    <3>1. PICK k \in 1 .. Len(q) : i = n + k
      BY <2>2
    <3>2. CASE j \in 1 .. n
      <4>1. p[j] < m /\ m <= q[k] /\ r[j] = p[j] /\ r[i] = q[k] /\ p[j] \in Nat /\ q[k] \in Nat
        BY ZenonT(30), <1>2, <1>3, <3>1, <3>2 DEF n
      <4>2. p[j] # q[k]
        BY <4>1
      <4> QED BY ZenonT(30), <4>1, <4>2
    <3>3. CASE \E h \in 1 .. Len(q) : j = n + h
      <4>1. PICK h \in 1 .. Len(q) : j = n + h
        BY <3>3
      <4>2. q[k] = q[h]
        BY <1>3, <3>1, <4>1
      <4> QED BY <3>1, <4>1, <4>2 DEF Distinct
    <3> QED BY <1>4, <3>2, <3>3
  <2>3. CASE i \in 1 .. n /\ \E k \in 1 .. Len(q) : j = n + k
    <3>1. PICK k \in 1 .. Len(q) : j = n + k
      BY <2>3
    <3>2. p[i] < m /\ m <= q[k] /\ r[i] = p[i] /\ r[j] = q[k] /\ p[i] \in Nat /\ q[k] \in Nat
      BY ZenonT(30), <1>2, <1>3, <2>3, <3>1 DEF n
    <3>3. p[i] # q[k]
      BY <3>2
    <3> QED BY ZenonT(30), <3>2, <3>3
  <2> QED BY <1>4, <2>1, <2>2, <2>3
<1>6. \A i \in 1 .. Len(r) : r[i] \in Elems(p) \/ r[i] \in Elems(q)
  BY ZenonT(30), <1>2, <1>3, <1>4 DEF Elems, n
<1> QED BY ZenonT(30), <1>1, <1>5, <1>6 DEF Elems, r

(* The two stacks hold different frames, of the block and past their own    *)
(* pages: small pages up to l, large ones up to m, and small ones.          *)
LEMMA StacksAre ==
  ASSUME NEW start \in Nat, NEW len \in Nat
  PROVE  StacksFit(start, len)
<1>0. LargeSize \in Nat \ {0}
  BY FramesAssumption
<1>1. PICK x \in Nat : /\ x = start + StackPages(len) /\ x <= start + len
                       /\ StackPages(len) \in Nat
  BY StackPagesFit
<1>2. PICK end \in Nat : end = start + len
  OBVIOUS
<1>3. PICK l \in Nat : /\ l = Min2(align(x, LargeSize), IF x < end THEN end ELSE x)
                      /\ x <= l /\ l <= end
  <2>1. PICK k \in Nat : k = align(x, LargeSize) /\ x <= k
    BY ZenonT(30), <1>0, AlignBounds
  <2> QED BY <1>1, <1>2, <2>1 DEF Min2
<1>4. PICK nl \in Nat : /\ nl = (IF l < end THEN (end - l) \div LargeSize ELSE 0)
                       /\ nl * LargeSize \in Nat /\ l + nl * LargeSize <= end
  <2>1. CASE l < end
    <3>1. PICK n \in Nat : n = end - l
      BY <1>3
    <3>2. PICK q \in Nat, p \in Nat : q = n \div LargeSize /\ p = q * LargeSize /\ p <= n
      BY ZenonT(30), <1>0, DivBounds
    <3>3. l + p <= end
      BY <3>1, <3>2
    <3> QED BY ZenonT(30), <2>1, <3>1, <3>2, <3>3
  <2>2. CASE ~ (l < end)
    <3>1. 0 * LargeSize \in Nat /\ l + 0 * LargeSize <= end
      BY <1>0, <1>3
    <3> QED BY ZenonT(30), <2>2, <3>1
  <2> QED BY <2>1, <2>2
<1>5. PICK m \in Nat : m = l + nl * LargeSize /\ l <= m /\ m <= end
  BY <1>4
<1>6. PICK cs \in Nat, cl \in Nat : cs = Capacity(len) /\ cl = Capacity(len \div LargeSize)
  BY ZenonT(30), <1>0, CapacityNat, DivBounds
<1> DEFINE before == Filled(cs, x, 1, l - x)
<1>7. /\ before \in Seq(Nat) /\ Len(before) <= cs /\ Distinct(before)
      /\ \A y \in Elems(before) : x <= y /\ y < l
  <2>1. l - x \in Nat /\ l = x + (l - x) * 1 /\ 1 \in Nat \ {0}
    BY <1>3
  <2> QED BY ZenonT(30), <2>1, FilledElems
<1> HIDE DEF before
<1>8. PICK na \in Nat : na = (IF m < end THEN end - m ELSE 0) /\ m + na = end
  BY <1>5
<1>9. PICK ca \in Nat : ca = cs - Len(before)
  BY <1>7
<1> DEFINE after == Filled(ca, m, 1, na)
           big == Filled(cl, l, LargeSize, nl)
           rbs == before \o after
<1>10. /\ after \in Seq(Nat) /\ Distinct(after)
       /\ \A y \in Elems(after) : m <= y /\ y < end
  <2>1. end = m + na * 1 /\ 1 \in Nat \ {0}
    BY <1>8
  <2> QED BY ZenonT(30), <2>1, FilledElems
<1>11. big \in Seq(Nat) /\ Spaced(big) /\ Spread(big) \subseteq l .. m - 1
  BY ZenonT(30), <1>5, FilledSpread
<1> DEFINE s == Stacks(start, len)
<1>12. s = [rbs |-> rbs, rbl |-> big, small |-> cs]
  BY ZenonT(30), <1>1, <1>2, <1>3, <1>4, <1>5, <1>6, <1>8, <1>9 DEF Stacks, before
<1> HIDE DEF after, big
<1>13. /\ \A i \in 1 .. Len(before) : before[i] < m
       /\ \A i \in 1 .. Len(after) : m <= after[i]
  <2>1. \A i \in 1 .. Len(before) : before[i] \in Nat /\ before[i] < l
    BY ZenonT(30), <1>7, SeqFacts DEF Elems
  <2>2. \A i \in 1 .. Len(before) : before[i] < m
    BY <1>5, <2>1
  <2> QED BY ZenonT(30), <1>10, <2>2 DEF Elems
<1>14. rbs \in Seq(Nat) /\ Distinct(rbs) /\ \A y \in Elems(rbs) : y \in Elems(before) \/ y \in Elems(after)
  BY ZenonT(30), <1>7, <1>10, <1>13, JoinDistinct
<1> HIDE DEF rbs
<1>15. s \in StackRecords /\ s.rbs = rbs /\ s.rbl = big
  BY <1>11, <1>12, <1>14 DEF StackRecords
<1> HIDE DEF s
<1>16. \A y \in Elems(rbs) : (x <= y /\ y < l) \/ (m <= y /\ y < end)
  BY ZenonT(30), <1>7, <1>10, <1>14
<1> QED BY ZenonT(30), <1>1, <1>2, <1>3, <1>5, <1>11, <1>14, <1>15, <1>16 DEF s, StacksFit

(* Among some of the first n of a list there is a first largest: by         *)
(* induction over the list.                                                 *)
LEMMA FirstLargest ==
  ASSUME NEW n \in Nat, NEW f, \A i \in 1 .. n : f[i] \in Nat,
         NEW S \in SUBSET (1 .. n), S # {}
  PROVE  \E b \in S : \A c \in S : f[c] <= f[b] /\ (c < b => f[c] < f[b])
<1> DEFINE Best(b, T) == b \in T /\ \A c \in T : f[c] <= f[b] /\ (c < b => f[c] < f[b])
           Upto(k) == S \cap (1 .. k)
           Bad == {k \in Nat : Upto(k) # {} /\ \A b \in S : ~ Best(b, Upto(k))}
<1>0. S \subseteq Nat \ {0} /\ \A c \in S : f[c] \in Nat
  OBVIOUS
<1>2. Upto(n) = S
  BY ZenonT(30)
<1>3. Upto(0) = {}
  <2>1. 1 .. 0 = {}
    OBVIOUS
  <2> QED BY ZenonT(30), <2>1
<1>4. ASSUME NEW h \in Nat, NEW k \in Nat, k = h + 1
      PROVE  /\ Upto(k) \subseteq S /\ \A c \in Upto(k) : c \in Upto(h) \/ c = k
             /\ Upto(h) \subseteq Upto(k) /\ \A c \in Upto(h) : c < k
  <2>1. 1 .. k = (1 .. h) \cup {k} /\ \A c \in 1 .. h : c < k
    BY <1>4
  <2> QED BY ZenonT(30), <2>1
<1> HIDE DEF Upto
<1>5. ASSUME NEW h \in Nat, NEW k \in Nat, k = h + 1, NEW b \in S, Best(b, Upto(h))
      PROVE  \E e \in S : Best(e, Upto(k))
  <2>1. b < k /\ b \in Upto(k) /\ b \in Upto(h)
    BY ZenonT(30), <1>4, <1>5
  <2>2. \A c \in Upto(h) : f[c] <= f[b] /\ (c < b => f[c] < f[b])
    BY ZenonT(30), <1>5
  <2>3. f[b] \in Nat /\ b \in Nat /\ k \in Nat
    BY <1>0
  <2>4. CASE k \in Upto(k) /\ f[k] > f[b]
    <3>1. k \in S /\ f[k] \in Nat
      BY ZenonT(30), <1>0, <1>4, <1>5, <2>4
    <3>2. ASSUME NEW c \in Upto(k)
          PROVE  f[c] <= f[k] /\ (c < k => f[c] < f[k])
      <4>1. CASE c = k
        BY <2>3, <3>1, <4>1
      <4>2. CASE c \in Upto(h)
        <5>1. f[c] <= f[b] /\ f[c] \in Nat
          BY ZenonT(30), <1>0, <1>4, <1>5, <2>1, <2>2, <4>2
        <5> QED BY <2>3, <2>4, <3>1, <5>1
      <4> QED BY ZenonT(30), <1>4, <1>5, <4>1, <4>2
    <3> QED BY ZenonT(30), <2>4, <3>1, <3>2
  <2>5. CASE ~ (k \in Upto(k) /\ f[k] > f[b])
    <3>1. ASSUME NEW c \in Upto(k)
          PROVE  f[c] <= f[b] /\ (c < b => f[c] < f[b])
      <4>1. CASE c = k
        <5>1. f[k] \in Nat
          BY ZenonT(30), <1>0, <1>4, <1>5, <4>1
        <5> QED BY <2>1, <2>3, <2>5, <4>1, <5>1
      <4>2. CASE c \in Upto(h)
        BY <2>2, <4>2
      <4> QED BY ZenonT(30), <1>4, <1>5, <4>1, <4>2
    <3> QED BY ZenonT(30), <2>1, <3>1
  <2> QED BY <2>4, <2>5
<1>6. ASSUME NEW h \in Nat, NEW k \in Nat, k = h + 1, Upto(h) = {}, Upto(k) # {}
      PROVE  \E e \in S : Best(e, Upto(k))
  <2>1. Upto(k) \subseteq S /\ \A c \in Upto(k) : c \in Upto(h) \/ c = k
    BY ZenonT(30), <1>4, <1>6
  <2>2. PICK c \in Upto(k) : TRUE
    BY ZenonT(30), <1>6
  <2>3. k \in Upto(k) /\ k \in S /\ \A e \in Upto(k) : e = k
    BY ZenonT(30), <1>6, <2>1, <2>2
  <2>4. f[k] <= f[k] /\ ~ (k < k)
    BY <1>0, <2>3
  <2>5. Best(k, Upto(k))
    BY ZenonT(30), <2>3, <2>4
  <2> QED BY ZenonT(30), <2>3, <2>5
<1> HIDE DEF Best
<1>7. Bad = {}
  <2>1. SUFFICES ASSUME Bad # {} PROVE FALSE
    OBVIOUS
  <2>2. PICK k \in Bad : \A y \in Bad : k <= y
    BY ZenonT(30), <2>1, NatMinimum
  <2>3. k \in Nat /\ Upto(k) # {} /\ \A b \in S : ~ Best(b, Upto(k))
    BY ZenonT(30), <2>2
  <2>4. k # 0
    BY ZenonT(30), <1>3, <2>3
  <2>5. PICK h \in Nat : k = h + 1 /\ ~ (k <= h)
    <3> HIDE DEF Bad
    <3>1. k - 1 \in Nat /\ k = (k - 1) + 1 /\ ~ (k <= k - 1)
      BY <2>3, <2>4
    <3> QED BY <3>1
  <2>6. Upto(h) = {} \/ \E b \in S : Best(b, Upto(h))
    BY ZenonT(30), <2>2, <2>5
  <2> HIDE DEF Bad
  <2> QED BY ZenonT(30), <1>5, <1>6, <2>3, <2>5, <2>6
<1>8. \E b \in S : Best(b, S)
  BY ZenonT(30), <1>2, <1>7
<1> QED BY ZenonT(30), <1>8 DEF Best

(* The constant facts that the proofs of module Memory start from.          *)
THEOREM StackFactsHold == StackFacts
<1>1. Len(Blocks) \in Nat
  BY ZenonT(30), BlocksAssumption, SeqFacts
<1>2. ASSUME NEW f \in [Block -> Nat], NEW S \in SUBSET Block, S # {}
      PROVE  \E b \in S : \A c \in S : f[c] <= f[b] /\ (c < b => f[c] < f[b])
  <2>1. S \in SUBSET (1 .. Len(Blocks)) /\ \A i \in 1 .. Len(Blocks) : f[i] \in Nat
    BY ZenonT(30) DEF Block
  <2> QED BY ZenonT(30), <1>1, <1>2, <2>1, FirstLargest
<1> QED BY ZenonT(30), <1>2, StacksAre DEF StackFacts

(* The guard pages below a thread's stack are never mapped: PFHandler       *)
(* checks the faulting address against stack_protect, map_in maps only in   *)
(* a region of its own, and regions do not overlap.                         *)
THEOREM GuardsHold == MemSpec => []GuardUnmapped
<1> QED BY StackFactsHold, GuardsIfStacksFit, PTL

(* No frame is handed out twice, or while the stacks are stored in it:      *)
(* Release fills the stacks of a block with what the boot code left of it,  *)
(* and GetPage and the splitting of large pages, by threads and the page    *)
(* fault handler, each only move frames from one holder to another.         *)
THEOREM FramesHold == MemSpec => []FramesDisjoint
<1> QED BY StackFactsHold, FramesIfStacksFit, PTL

(* What is mapped was handed out by GetPage, and a page that can be written *)
(* has a frame of its own: Map is never given the blank page, a page of a   *)
(* table or a page of another address to write to.                          *)
THEOREM PagesHold == MemSpec => []PagesPrivate
<1> QED BY StackFactsHold, PagesIfStacksFit, PTL

-----------------------------------------------------------------------------
(* The ranges of a RangeResourceManager *)

Calls == [length : Sizes, align : Factors, bits32 : BOOLEAN]

(* The types of the list used and of the loop variables of Alloc.           *)
RangesTypeOK ==
  /\ given \in Seq(Ranges \cup {NoRange})
  /\ call \in Calls \cup {NoRange}
  /\ item \in 1..Len(FreeRanges) /\ test_addr \in Nat

Owned(g, j) ==
  g[j] # NoRange =>
    /\ \E f \in 1..Len(FreeRanges) : Contains(FreeRanges[f], g[j].a, g[j].l)
    /\ ~g[j].overwrite =>
         \A i \in 1..(j - 1) : g[i] # NoRange /\ ~Intersects(g[i], g[j].a, g[j].l)

RangesInv == RangesTypeOK /\ RangesOwned

(* What is on the list stays owned when another range is added to it, and   *)
(* the list as a whole is owned when the range added is (used.Add).         *)
LEMMA AddOwned ==
  ASSUME RangesTypeOK, RangesOwned, NEW r \in Ranges \cup {NoRange},
         given' = Append(given, r), Owned(given', Len(given) + 1)
  PROVE  RangesOwned'
<1> DEFINE n == Len(given)
<1>1. n \in Nat /\ Len(given') = n + 1 /\ \A k \in 1..n : given'[k] = given[k]
  BY DEF RangesTypeOK
<1>2. \A j \in 1..n : Owned(given, j)
  BY DEF RangesOwned, Owned
<1>3. \A j \in 1..n : Owned(given', j)
  <2> SUFFICES ASSUME NEW j \in 1..n PROVE Owned(given', j)
    OBVIOUS
  <2>1. given'[j] = given[j] /\ \A i \in 1..(j - 1) : given'[i] = given[i]
    BY <1>1
  <2> QED BY <1>2, <2>1 DEF Owned
<1>4. \A j \in 1..(n + 1) : Owned(given', j)
  BY <1>1, <1>3
<1> QED BY <1>1, <1>4 DEF RangesOwned, Owned

(* AllocFixed keeps the list owned: a range is added if it lies in a free   *)
(* one and, unless it may overlap, meets none on the list.                  *)
LEMMA AllocFixedOwned ==
  ASSUME RangesInv, NEW base \in Bases, NEW length \in Sizes, NEW w \in BOOLEAN,
         AllocFixed(base, length, w)
  PROVE  RangesInv'
<1> DEFINE r == Range64(base, length, w)
<1>1. call' = call /\ item' = item /\ test_addr' = test_addr
  BY DEF AllocFixed
<1>2. CASE given' = given
  BY <1>1, <1>2 DEF RangesInv, RangesTypeOK, RangesOwned, Contains, Intersects, End64
<1>3. CASE given' = Append(given, r) /\ (~w => AllClear(base, length))
  <2>1. r \in Ranges /\ r # NoRange
    BY RangesAssumption DEF Range64, Ranges
  <2>2. RangesTypeOK'
    BY <1>1, <1>3, <2>1 DEF RangesInv, RangesTypeOK
  <2>3. given'[Len(given) + 1] = r /\ \A i \in 1..Len(given) : given'[i] = given[i]
    BY <1>3, <2>1 DEF RangesInv, RangesTypeOK
  <2>4. \E f \in 1..Len(FreeRanges) : Contains(FreeRanges[f], base, length)
    BY DEF AllocFixed
  <2>5. ~w => \A i \in 1..Len(given) : given[i] # NoRange /\ ~Intersects(given[i], base, length)
    BY <1>3 DEF AllClear, Stops
  <2>6. r.a = base /\ r.l = length /\ r.overwrite = w
    BY DEF Range64
  <2>7. Owned(given', Len(given) + 1)
    <3>1. (Len(given) + 1) - 1 = Len(given)
      BY DEF RangesInv, RangesTypeOK
    <3> QED BY <2>3, <2>4, <2>5, <2>6, <3>1 DEF Owned
  <2> QED BY <1>3, <2>1, <2>2, <2>7, AddOwned DEF RangesInv
<1> QED BY <1>2, <1>3 DEF AllocFixed

(* An address is aligned upwards, to an address (util.align).               *)
LEMMA AlignUpNat ==
  ASSUME NEW a \in Nat, NEW f \in Nat \ {0}
  PROVE  AlignUp(a, f) \in Nat
<1>1. a % f \in Nat /\ a % f < f
  OBVIOUS
<1> QED BY <1>1 DEF AlignUp

(* Take keeps the list owned: Split refuses a range that alignment has      *)
(* moved out of the free one.                                               *)
LEMMA TakeOwned ==
  ASSUME RangesInv, Take
  PROVE  RangesInv'
<1> DEFINE r == SplitRange(FreeRanges[item], Tried, call.length)
           n == Len(given)
<1>1. call \in Calls
  BY DEF RangesInv, RangesTypeOK, Take, Trying
<1>2. given' = Append(given, r) /\ call' = NoRange /\ item' = 1 /\ test_addr' = 0
  BY DEF Take, Return
<1>3. call.length \in Nat /\ Tried \in Nat
  <2>1. call.length \in Nat /\ call.align \in Nat \ {0}
    BY ZenonT(30), <1>1, RangesAssumption DEF Calls
  <2> QED BY ZenonT(30), <2>1, AlignUpNat DEF Tried, RangesInv, RangesTypeOK
<1>4. CASE ~Contains(FreeRanges[item], Tried, call.length)
  <2>1. r = NoRange
    BY <1>4 DEF SplitRange
  <2>2. RangesTypeOK'
    BY <1>2, <2>1, RangesAssumption DEF RangesInv, RangesTypeOK
  <2>3. given'[n + 1] = NoRange
    BY <1>2, <2>1 DEF RangesInv, RangesTypeOK
  <2>4. Owned(given', n + 1)
    BY <2>3 DEF Owned
  <2> QED BY <1>2, <2>1, <2>2, <2>4, AddOwned DEF RangesInv
<1>5. CASE Contains(FreeRanges[item], Tried, call.length)
  <2>1. r = Range64(Tried, call.length, FALSE)
    BY <1>5 DEF SplitRange
  <2>2. r \in Ranges /\ r.a = Tried /\ r.l = call.length /\ r.overwrite = FALSE
    BY <1>3, <2>1 DEF Range64, Ranges
  <2>3. RangesTypeOK'
    BY <1>2, <2>2, RangesAssumption DEF RangesInv, RangesTypeOK
  <2>4. given'[n + 1] = r /\ \A i \in 1..n : given'[i] = given[i]
    BY <1>2, <2>2 DEF RangesInv, RangesTypeOK
  <2>5. \A i \in 1..n : given[i] # NoRange /\ ~Intersects(given[i], Tried, call.length)
    BY DEF Take, AllClear, Stops
  <2>6. \E f \in 1..Len(FreeRanges) : Contains(FreeRanges[f], Tried, call.length)
    BY <1>5 DEF RangesInv, RangesTypeOK
  <2>7. Owned(given', n + 1)
    <3>1. (n + 1) - 1 = n
      BY DEF RangesInv, RangesTypeOK
    <3> QED BY <2>2, <2>4, <2>5, <2>6, <3>1 DEF Owned
  <2> QED BY <1>2, <2>2, <2>3, <2>7, AddOwned DEF RangesInv
<1> QED BY <1>4, <1>5

(* The list stays as it is in every other step of Alloc, and its loop       *)
(* variables keep their types.                                              *)
LEMMA SearchOwned ==
  ASSUME RangesInv,
         \/ \E l \in Sizes, f \in Factors, w \in BOOLEAN : Alloc(l, f, w)
         \/ NextItem \/ Skip \/ UNCHANGED rangevars
  PROVE  RangesInv'
<1>1. given' = given
  BY DEF Alloc, NextItem, Skip, rangevars
<1>2. \A k \in 1..Len(FreeRanges) : FreeRanges[k].a \in Nat
  <2>1. \A k \in 1..Len(FreeRanges) : FreeRanges[k] \in [a : Nat, l : Nat]
    BY ZenonT(30), RangesAssumption, SeqFacts
  <2> QED BY <2>1
<1>3. 1 \in 1..Len(FreeRanges)
  BY RangesAssumption
<1>4. call' \in Calls \cup {NoRange}
  BY DEF RangesInv, RangesTypeOK, Alloc, NextItem, Skip, Return, rangevars, Calls
<1>5. item' \in 1..Len(FreeRanges) /\ test_addr' \in Nat
  <2>1. CASE \E l \in Sizes, f \in Factors, w \in BOOLEAN : Alloc(l, f, w)
    BY <1>2, <1>3, <2>1 DEF Alloc
  <2>2. CASE NextItem
    BY <1>2, <1>3, <2>2 DEF NextItem, Return, RangesInv, RangesTypeOK
  <2>3. CASE Skip
    <3>1. \A i \in 1..Len(given) : given[i] # NoRange => End64(given[i]) \in Nat
      BY DEF RangesInv, RangesTypeOK, Ranges, End64
    <3> QED BY <2>3, <3>1 DEF Skip, RangesInv, RangesTypeOK
  <2>4. CASE UNCHANGED rangevars
    BY <2>4 DEF rangevars, RangesInv, RangesTypeOK
  <2> QED BY <2>1, <2>2, <2>3, <2>4
<1>6. RangesTypeOK'
  BY <1>1, <1>4, <1>5 DEF RangesInv, RangesTypeOK
<1>7. RangesOwned'
  BY <1>1 DEF RangesInv, RangesOwned, Contains, Intersects, End64
<1> QED BY <1>6, <1>7 DEF RangesInv

(* Every range that a RangeResourceManager hands out lies inside a free one *)
(* and, unless the caller said it may, overlaps none handed out before.     *)
THEOREM RangesOwnedHold == RangesSpec => []RangesOwned
<1>1. RangesInit => RangesInv
  BY RangesAssumption DEF RangesInit, RangesInv, RangesTypeOK, RangesOwned
<1>2. RangesInv /\ [RangesNext]_rangevars => RangesInv'
  <2> SUFFICES ASSUME RangesInv, [RangesNext]_rangevars PROVE RangesInv'
    OBVIOUS
  <2>1. CASE \E b \in Bases, l \in Sizes, w \in BOOLEAN : AllocFixed(b, l, w)
    BY <2>1, AllocFixedOwned
  <2>2. CASE Take
    BY <2>2, TakeOwned
  <2>3. CASE \/ \E l \in Sizes, f \in Factors, w \in BOOLEAN : Alloc(l, f, w)
             \/ NextItem \/ Skip \/ UNCHANGED rangevars
    BY <2>3, SearchOwned
  <2> QED BY <2>1, <2>2, <2>3 DEF RangesNext
<1>3. RangesInv => RangesOwned
  BY DEF RangesInv
<1> QED BY <1>1, <1>2, <1>3, PTL DEF RangesSpec
=============================================================================
