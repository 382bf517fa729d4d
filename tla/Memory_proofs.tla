---------------------------- MODULE Memory_proofs ----------------------------
(***************************************************************************)
(* Frames are handed out once and mapped pages are private, for every      *)
(* memory map and every interleaving of page faults and callers.           *)
(***************************************************************************)
EXTENDS MemorySteps_proofs

(* Time limits that leave a slow machine room.                              *)
USE SMTT(30), ZenonT(30)

-----------------------------------------------------------------------------
(* Who holds a frame.  A block not yet released is held as a whole but for  *)
(* the pages taken while booting; then its frames are in its stacks, in a   *)
(* large page an actor is splitting, or handed out.                         *)

Key(what, i) == <<what, i>>

Holders ==
  ({"small", "large", "stacks", "fresh"} \X Block) \cup ({"split"} \X Actors)
  \cup {Key("handed", 0)}

LeftOf(us, b) == Blocks[b].length - us[b]

SmallIn(u, b) == IF b \in 1 .. Len(u) THEN Elems(u[b].rbs) ELSE {}
LargeIn(u, b) == IF b \in 1 .. Len(u) THEN Spread(u[b].rbl) ELSE {}
StacksIn(us, d, b) ==
  IF b <= d /\ LeftOf(us, b) > 2
  THEN Blocks[b].start .. Blocks[b].start + StackPages(LeftOf(us, b)) - 1 ELSE {}
FreshIn(us, d, b) ==
  IF b > d THEN Blocks[b].start .. Blocks[b].start + LeftOf(us, b) - 1 ELSE {}
SplitIn(p, s) ==
  IF p = "split" THEN {s.page} \cup (s.next .. s.page + LargeSize - 1) ELSE {}

HeldOf(u, us, d, p, s, h) ==
  [k \in Holders |-> CASE k[1] = "small" -> SmallIn(u, k[2])
                       [] k[1] = "large" -> LargeIn(u, k[2])
                       [] k[1] = "stacks" -> StacksIn(us, d, k[2])
                       [] k[1] = "fresh" -> FreshIn(us, d, k[2])
                       [] k[1] = "split" -> SplitIn(p[k[2]], s[k[2]])
                       [] k[1] = "handed" -> h]

Held == HeldOf(upper, used, booted, pc, split, handed)

Separate(f) == \A k, l \in Holders : k # l => f[k] \cap f[l] = {}

(* No frame has two holders, or is in a stack twice. *)
FramesInv ==
  /\ Separate(Held)
  /\ \A b \in 1 .. Len(upper) : Distinct(upper[b].rbs) /\ Spaced(upper[b].rbl)

(* Keys of different kinds or numbers differ.                               *)
LEMMA KeyIs ==
  ASSUME NEW c, NEW d, NEW x, NEW y
  PROVE  /\ (Key(c, x) = Key(d, y)) <=> (c = d /\ x = y)
         /\ Key(c, x)[1] = c /\ Key(c, x)[2] = x
BY ZenonT(30) DEF Key

(* The keys there are.                                                      *)
LEMMA KeysAre ==
  /\ \A b \in Block : /\ Key("small", b) \in Holders /\ Key("large", b) \in Holders
                      /\ Key("stacks", b) \in Holders /\ Key("fresh", b) \in Holders
  /\ \A a \in Actors : Key("split", a) \in Holders
  /\ Key("handed", 0) \in Holders
  /\ \A k \in Holders : \/ \E b \in Block : \/ k = Key("small", b) \/ k = Key("large", b)
                                            \/ k = Key("stacks", b) \/ k = Key("fresh", b)
                        \/ \E a \in Actors : k = Key("split", a)
                        \/ k = Key("handed", 0)
BY DEF Holders, Key

IsHeld(f, u, us, d, p, s, h) ==
  /\ \A b \in Block : f[Key("small", b)] = SmallIn(u, b)
  /\ \A b \in Block : f[Key("large", b)] = LargeIn(u, b)
  /\ \A b \in Block : f[Key("stacks", b)] = StacksIn(us, d, b)
  /\ \A b \in Block : f[Key("fresh", b)] = FreshIn(us, d, b)
  /\ \A a \in Actors : f[Key("split", a)] = SplitIn(p[a], s[a])
  /\ f[Key("handed", 0)] = h

(* What each holder has.                                                    *)
LEMMA HeldIs ==
  ASSUME NEW u, NEW us, NEW d, NEW p, NEW s, NEW h
  PROVE  \E f : f = HeldOf(u, us, d, p, s, h) /\ IsHeld(f, u, us, d, p, s, h)
<1>0. PICK f : f = HeldOf(u, us, d, p, s, h)
  BY ZenonT(30)
<1>1. \A k \in Holders :
        /\ k[1] = "small" => f[k] = SmallIn(u, k[2])
        /\ k[1] = "large" => f[k] = LargeIn(u, k[2])
        /\ k[1] = "stacks" => f[k] = StacksIn(us, d, k[2])
        /\ k[1] = "fresh" => f[k] = FreshIn(us, d, k[2])
        /\ k[1] = "split" => f[k] = SplitIn(p[k[2]], s[k[2]])
        /\ k[1] = "handed" => f[k] = h
  BY ZenonT(30), <1>0 DEF HeldOf
<1>2. \A b \in Block : f[Key("small", b)] = SmallIn(u, b)
  BY <1>1, KeysAre, KeyIs
<1>3. \A b \in Block : f[Key("large", b)] = LargeIn(u, b)
  BY <1>1, KeysAre, KeyIs
<1>4. \A b \in Block : f[Key("stacks", b)] = StacksIn(us, d, b)
  BY <1>1, KeysAre, KeyIs
<1>5. \A b \in Block : f[Key("fresh", b)] = FreshIn(us, d, b)
  BY <1>1, KeysAre, KeyIs
<1>6. \A a \in Actors : f[Key("split", a)] = SplitIn(p[a], s[a])
  BY <1>1, KeysAre, KeyIs
<1>7. f[Key("handed", 0)] = h
  BY <1>1, KeysAre, KeyIs
<1> QED BY ZenonT(30), <1>0, <1>2, <1>3, <1>4, <1>5, <1>6, <1>7 DEF IsHeld

Others(f, g, K) == \A m \in Holders \ K : g[m] \subseteq f[m]

(* Holders stay separate when one gives frames to another.                  *)
LEMMA Moves ==
  ASSUME NEW f, NEW g, Separate(f), NEW k \in Holders, NEW l \in Holders, k # l, NEW M,
         M \subseteq f[k], g[k] \subseteq f[k] \ M, g[l] \subseteq f[l] \cup M,
         Others(f, g, {k, l})
  PROVE  Separate(g)
<1> SUFFICES ASSUME NEW m \in Holders, NEW n \in Holders, m # n, NEW x, x \in g[m], x \in g[n]
             PROVE  FALSE
  BY ZenonT(30) DEF Separate
<1>1. \A i, j \in Holders : i # j => ~ (x \in f[i] /\ x \in f[j])
  BY ZenonT(30) DEF Separate
<1>2. \A i \in Holders : x \in g[i] => \/ i = k /\ x \in f[k] /\ x \notin M
                                       \/ i = l /\ (x \in f[l] \/ x \in M)
                                       \/ i # k /\ i # l /\ x \in f[i]
  BY ZenonT(30) DEF Others
<1>3. x \in M => x \in f[k]
  BY ZenonT(30)
<1> QED BY ZenonT(30), <1>1, <1>2, <1>3

(* What holds of every holder, kind by kind.                                *)
LEMMA ByKind ==
  ASSUME NEW f, NEW g, NEW K,
         \A b \in Block : Key("small", b) \notin K => g[Key("small", b)] \subseteq f[Key("small", b)],
         \A b \in Block : Key("large", b) \notin K => g[Key("large", b)] \subseteq f[Key("large", b)],
         \A b \in Block : Key("stacks", b) \notin K => g[Key("stacks", b)] \subseteq f[Key("stacks", b)],
         \A b \in Block : Key("fresh", b) \notin K => g[Key("fresh", b)] \subseteq f[Key("fresh", b)],
         \A a \in Actors : Key("split", a) \notin K => g[Key("split", a)] \subseteq f[Key("split", a)],
         Key("handed", 0) \notin K => g[Key("handed", 0)] \subseteq f[Key("handed", 0)]
  PROVE  Others(f, g, K)
BY ZenonT(30), KeysAre DEF Others

(* Taking the first of a stack of small pages.                              *)
LEMMA TailElems ==
  ASSUME NEW s \in Seq(Nat), s # << >>, Distinct(s)
  PROVE  /\ Head(s) \in Elems(s) /\ Distinct(Tail(s))
         /\ Elems(Tail(s)) \subseteq Elems(s) \ {Head(s)}
<1>1. /\ Len(s) \in Nat /\ Len(s) > 0 /\ Head(s) = s[1] /\ Len(Tail(s)) = Len(s) - 1
      /\ \A i \in 1 .. Len(s) - 1 : Tail(s)[i] = s[i + 1]
  BY ZenonT(30), HeadTail
<1>2. \A i \in 1 .. Len(s) - 1 : i + 1 \in 1 .. Len(s) /\ i + 1 # 1 /\ i \in Nat
  BY <1>1
<1>3. 1 \in 1 .. Len(s)
  BY <1>1
<1>4. Head(s) \in Elems(s)
  BY ZenonT(30), <1>1, <1>3 DEF Elems
<1>5. Elems(Tail(s)) \subseteq Elems(s) \ {Head(s)}
  <2> SUFFICES ASSUME NEW y \in Elems(Tail(s)) PROVE y \in Elems(s) \ {Head(s)}
    BY ZenonT(30)
  <2>1. PICK i \in 1 .. Len(s) - 1 : y = s[i + 1]
    BY ZenonT(30), <1>1 DEF Elems
  <2>2. PICK j \in 1 .. Len(s) : j = i + 1 /\ j # 1
    BY ZenonT(30), <1>2
  <2>3. y = s[j]
    BY ZenonT(30), <2>1, <2>2
  <2>4. s[j] # s[1]
    BY ZenonT(30), <1>3, <2>2 DEF Distinct
  <2> QED BY ZenonT(30), <1>1, <2>3, <2>4 DEF Elems
<1>6. Distinct(Tail(s))
  <2> SUFFICES ASSUME NEW i \in 1 .. Len(s) - 1, NEW j \in 1 .. Len(s) - 1, s[i + 1] = s[j + 1]
               PROVE  i = j
    BY ZenonT(30), <1>1 DEF Distinct
  <2>1. i + 1 = j + 1
    BY ZenonT(30), <1>2 DEF Distinct
  <2> QED BY <1>2, <2>1
<1> QED BY ZenonT(30), <1>4, <1>5, <1>6

(* A step that moves no frame keeps the holders.                            *)
LEMMA QuietFrames ==
  ASSUME FramesInv, UNCHANGED <<upper, used, booted, split, handed>>,
         \A a \in Actors : pc'[a] = "split" => pc[a] = "split"
  PROVE  FramesInv'
<1>1. PICK f : /\ f = HeldOf(upper, used, booted, pc, split, handed)
               /\ IsHeld(f, upper, used, booted, pc, split, handed)
  BY ZenonT(30), HeldIs
<1>2. PICK g : /\ g = HeldOf(upper, used, booted, pc', split, handed)
               /\ IsHeld(g, upper, used, booted, pc', split, handed)
  BY ZenonT(30), HeldIs
<1>3. \A b \in Block : /\ g[Key("small", b)] = f[Key("small", b)]
                       /\ g[Key("large", b)] = f[Key("large", b)]
                       /\ g[Key("stacks", b)] = f[Key("stacks", b)]
                       /\ g[Key("fresh", b)] = f[Key("fresh", b)]
  BY ZenonT(30), <1>1, <1>2 DEF IsHeld
<1>4. g[Key("handed", 0)] = f[Key("handed", 0)]
  BY ZenonT(30), <1>1, <1>2 DEF IsHeld
<1>5. \A a \in Actors : SplitIn(pc'[a], split[a]) \subseteq SplitIn(pc[a], split[a])
  BY ZenonT(30) DEF SplitIn
<1>6. \A a \in Actors : g[Key("split", a)] \subseteq f[Key("split", a)]
  BY ZenonT(30), <1>1, <1>2, <1>5 DEF IsHeld
<1>7. \A k \in Holders : g[k] \subseteq f[k]
  BY ZenonT(30), <1>3, <1>4, <1>6, KeysAre
<1>8. Separate(f)
  BY ZenonT(30), <1>1 DEF FramesInv, Held
<1>9. Separate(g)
  BY ZenonT(30), <1>7, <1>8 DEF Separate
<1>10. Separate(Held')
  BY ZenonT(30), <1>2, <1>9 DEF Held
<1> QED BY ZenonT(30), <1>10 DEF FramesInv

(* A step after which the holders are separate again.                       *)
LEMMA HeldStep ==
  ASSUME FramesInv
  PROVE  \E f, g : /\ IsHeld(f, upper, used, booted, pc, split, handed) /\ Separate(f)
                   /\ IsHeld(g, upper', used', booted', pc', split', handed')
                   /\ Separate(g) => Separate(Held')
<1>1. PICK f : /\ f = HeldOf(upper, used, booted, pc, split, handed)
               /\ IsHeld(f, upper, used, booted, pc, split, handed)
  BY ZenonT(30), HeldIs
<1>2. PICK g : /\ g = HeldOf(upper', used', booted', pc', split', handed')
               /\ IsHeld(g, upper', used', booted', pc', split', handed')
  BY ZenonT(30), HeldIs
<1> QED BY ZenonT(30), <1>1, <1>2 DEF FramesInv, Held

Kept(K, u, v, p, r, s, t, h, i) ==
  /\ \A b \in Block : Key("small", b) \notin K => SmallIn(v, b) = SmallIn(u, b)
  /\ \A b \in Block : Key("large", b) \notin K => LargeIn(v, b) = LargeIn(u, b)
  /\ \A a \in Actors : Key("split", a) \notin K => SplitIn(r[a], t[a]) \subseteq SplitIn(p[a], s[a])
  /\ Key("handed", 0) \notin K => i = h

(* While booting, the last page left of a block is handed out.              *)
LEMMA EarlyFrames ==
  ASSUME StackFacts, MemTyped, FramesInv, EarlyGetPage
  PROVE  FramesInv'
<1>1. booted = 0 /\ UNCHANGED <<booted, upper, pc, split>>
  BY ZenonT(30), EarlyIs
<1>2. CASE UNCHANGED <<sb, used, handed>>
  BY ZenonT(30), <1>1, <1>2, QuietFrames
<1>3. CASE \E b \in Block :
             /\ Left(b) > 0 /\ sb' = b /\ used' = [used EXCEPT ![b] = used[b] + 1]
             /\ handed' = handed \cup {Blocks[b].start + Blocks[b].length - used[b] - 1}
  <2>1. PICK b \in Block :
             /\ Left(b) > 0 /\ used' = [used EXCEPT ![b] = used[b] + 1]
             /\ handed' = handed \cup {Blocks[b].start + Blocks[b].length - used[b] - 1}
    BY ZenonT(30), <1>3
  <2>2. used \in [Block -> Nat] /\ \A c \in Block : Left(c) \in Nat
    BY ZenonT(30) DEF MemTyped, BootTyped
  <2>3. used'[b] = used[b] + 1 /\ \A c \in Block : c # b => used'[c] = used[c]
    BY ZenonT(30), <2>1, <2>2
  <2>4. PICK s \in Nat, m \in Nat, o \in Nat : s = Blocks[b].start /\ m = Blocks[b].length /\ o = used[b]
    BY ZenonT(30), <2>2, BlockFacts
  <2>5. LeftOf(used, b) = m - o /\ m - o > 0 /\ LeftOf(used', b) = m - (o + 1)
    BY ZenonT(30), <2>1, <2>3, <2>4 DEF Left, LeftOf
  <2>6. PICK x : x = s + m - o - 1
    BY ZenonT(30)
  <2>7. PICK f, g : /\ IsHeld(f, upper, used, booted, pc, split, handed) /\ Separate(f)
                    /\ IsHeld(g, upper', used', booted', pc', split', handed')
                    /\ Separate(g) => Separate(Held')
    BY ZenonT(30), HeldStep
  <2>8. PICK k \in Holders, l \in Holders : k = Key("fresh", b) /\ l = Key("handed", 0) /\ k # l
    BY KeysAre, KeyIs
  <2>9. \A c \in Block : c > 0 /\ ~ (c <= 0)
    BY BlockFacts DEF Block
  <2>10. {x} \subseteq f[k] /\ g[k] \subseteq f[k] \ {x}
    <3>1. FreshIn(used, 0, b) = s .. s + (m - o) - 1 /\ FreshIn(used', 0, b) = s .. s + (m - (o + 1)) - 1
      BY ZenonT(30), <2>4, <2>5, <2>9 DEF FreshIn
    <3>2. f[k] = FreshIn(used, 0, b) /\ g[k] = FreshIn(used', 0, b)
      BY ZenonT(30), <1>1, <2>7, <2>8 DEF IsHeld
    <3>3. PICK F, G : F = s .. s + (m - o) - 1 /\ G = s .. s + (m - (o + 1)) - 1
      BY ZenonT(30)
    <3>4. {x} \subseteq F /\ G \subseteq F \ {x}
      BY <2>5, <2>6, <3>3
    <3> QED BY ZenonT(30), <3>1, <3>2, <3>3, <3>4
  <2>11. g[l] \subseteq f[l] \cup {x}
    BY ZenonT(30), <2>1, <2>4, <2>6, <2>7, <2>8 DEF IsHeld
  <2>12. Others(f, g, {k, l})
    <3>1. \A c \in Block : c # b => FreshIn(used', 0, c) = FreshIn(used, 0, c)
      BY ZenonT(30), <2>3 DEF FreshIn, LeftOf
    <3>2. \A c \in Block : StacksIn(used', 0, c) = {}
      BY ZenonT(30), <2>9 DEF StacksIn
    <3>3. \A c \in Block : Key("fresh", c) \notin {k, l} => g[Key("fresh", c)] \subseteq f[Key("fresh", c)]
      BY ZenonT(30), <1>1, <2>7, <2>8, <3>1 DEF IsHeld
    <3>4. \A c \in Block : g[Key("stacks", c)] \subseteq f[Key("stacks", c)]
      BY ZenonT(30), <1>1, <2>7, <3>2 DEF IsHeld
    <3>5. \A c \in Block : /\ g[Key("small", c)] \subseteq f[Key("small", c)]
                           /\ g[Key("large", c)] \subseteq f[Key("large", c)]
      BY ZenonT(30), <1>1, <2>7 DEF IsHeld
    <3>6. \A c \in Actors : g[Key("split", c)] \subseteq f[Key("split", c)]
      BY ZenonT(30), <1>1, <2>7 DEF IsHeld
    <3> QED BY ZenonT(30), <2>8, <3>3, <3>4, <3>5, <3>6, ByKind
  <2>13. Separate(g)
    BY ZenonT(30), <2>7, <2>8, <2>10, <2>11, <2>12, Moves
  <2> QED BY ZenonT(30), <1>1, <2>7, <2>13 DEF FramesInv
<1> QED BY ZenonT(30), <1>2, <1>3, EarlyIs

(* Release gives the frames of a block to its stacks.                       *)
LEMMA ReleaseFrames ==
  ASSUME StackFacts, MemTyped, FramesInv, NEW b \in Block, Release(b)
  PROVE  FramesInv'
(* Three parts of an interval.                                              *)
<1>ThreeParts.
  ASSUME NEW s \in Nat, NEW n \in Nat, NEW p \in Nat, NEW l \in Nat, NEW m \in Nat,
         s + p <= l, l <= m, m <= s + n, NEW E, NEW L, L \subseteq l .. m - 1,
         \A y \in E : y \in Nat /\ ((s + p <= y /\ y < l) \/ (m <= y /\ y < s + n))
  PROVE  /\ s .. s + p - 1 \subseteq s .. s + n - 1 /\ E \subseteq s .. s + n - 1
         /\ L \subseteq s .. s + n - 1
         /\ (s .. s + p - 1) \cap E = {} /\ (s .. s + p - 1) \cap L = {} /\ E \cap L = {}
  <2> USE <1>ThreeParts
  <2>1. \A y \in s .. s + p - 1 : y \in Nat /\ s <= y /\ y < s + p
    OBVIOUS
  <2>2. \A y \in L : y \in Nat /\ l <= y /\ y < m
    OBVIOUS
  <2>3. \A y \in Nat : s <= y /\ y < s + n => y \in s .. s + n - 1
    OBVIOUS
  <2>4. s .. s + p - 1 \subseteq s .. s + n - 1 /\ L \subseteq s .. s + n - 1
    BY <2>1, <2>2, <2>3
  <2>5. E \subseteq s .. s + n - 1
    BY <2>3
  <2>6. (s .. s + p - 1) \cap E = {}
    BY <2>1
  <2>7. (s .. s + p - 1) \cap L = {}
    BY <2>1, <2>2
  <2>8. E \cap L = {}
    BY <2>2
  <2> QED BY ZenonT(30), <2>4, <2>5, <2>6, <2>7, <2>8
(* What is left of a block is divided: the pages its stacks are in, and the *)
(* small and the large pages they hold.                                     *)
<1>StacksDivide.
  ASSUME NEW s \in Nat, NEW n \in Nat, NEW e, e = Stacks(s, n), NEW A,
         A = s .. s + StackPages(n) - 1
  PROVE  /\ e \in StackRecords /\ Distinct(e.rbs) /\ Spaced(e.rbl)
         /\ A \subseteq s .. s + n - 1 /\ Elems(e.rbs) \subseteq s .. s + n - 1
         /\ Spread(e.rbl) \subseteq s .. s + n - 1
         /\ A \cap Elems(e.rbs) = {} /\ A \cap Spread(e.rbl) = {}
         /\ Elems(e.rbs) \cap Spread(e.rbl) = {}
  <2> USE <1>StacksDivide
  <2>1. PICK p \in Nat : p = StackPages(n)
    BY ZenonT(30) DEF StackFacts, StacksFit
  <2>2. /\ s + p <= s + n /\ e \in StackRecords /\ Distinct(e.rbs) /\ Spaced(e.rbl)
        /\ \E l, m \in Nat :
             /\ s + p <= l /\ l <= m /\ m <= s + n
             /\ \A y \in Elems(e.rbs) : (s + p <= y /\ y < l) \/ (m <= y /\ y < s + n)
             /\ Spread(e.rbl) \subseteq l .. m - 1
    BY ZenonT(30), <2>1 DEF StackFacts, StacksFit
  <2>3. PICK l \in Nat, m \in Nat :
          /\ s + p <= l /\ l <= m /\ m <= s + n
          /\ \A y \in Elems(e.rbs) : (s + p <= y /\ y < l) \/ (m <= y /\ y < s + n)
          /\ Spread(e.rbl) \subseteq l .. m - 1
    BY ZenonT(30), <2>2
  <2>4. \A y \in Elems(e.rbs) : y \in Nat
    <3>1. PICK q \in Seq(Nat) : q = e.rbs
      BY ZenonT(30), <2>2 DEF StackRecords
    <3>2. \A i \in 1 .. Len(q) : q[i] \in Nat
      BY ZenonT(30), SeqFacts
    <3> QED BY ZenonT(30), <3>1, <3>2 DEF Elems
  <2>5. PICK E, L : E = Elems(e.rbs) /\ L = Spread(e.rbl)
    BY ZenonT(30)
  <2>6. /\ \A y \in E : y \in Nat /\ ((s + p <= y /\ y < l) \/ (m <= y /\ y < s + n))
        /\ L \subseteq l .. m - 1
    BY ZenonT(30), <2>3, <2>4, <2>5
  <2>7. s + p <= l /\ l <= m /\ m <= s + n
    BY ZenonT(30), <2>3
  <2>8. A = s .. s + p - 1
    BY ZenonT(30), <2>1
  <2>9. /\ A \subseteq s .. s + n - 1 /\ E \subseteq s .. s + n - 1 /\ L \subseteq s .. s + n - 1
        /\ A \cap E = {} /\ A \cap L = {} /\ E \cap L = {}
    <3>1. /\ s .. s + p - 1 \subseteq s .. s + n - 1 /\ E \subseteq s .. s + n - 1
          /\ L \subseteq s .. s + n - 1
          /\ (s .. s + p - 1) \cap E = {} /\ (s .. s + p - 1) \cap L = {} /\ E \cap L = {}
      BY <2>6, <2>7, <1>ThreeParts
    <3> QED BY ZenonT(30), <2>8, <3>1
  <2> QED BY ZenonT(30), <2>2, <2>5, <2>9
(* They do when one divides its frames among those of K.                    *)
<1>Divided.
  ASSUME NEW f, NEW g, Separate(f), NEW k \in Holders, g[k] = {}, NEW K, Others(f, g, K),
         \A m \in K : g[m] \subseteq f[k], \A m, n \in K : m # n => g[m] \cap g[n] = {}
  PROVE  Separate(g)
  <2> USE <1>Divided
  <2> SUFFICES ASSUME NEW m \in Holders, NEW n \in Holders, m # n, NEW x, x \in g[m], x \in g[n]
               PROVE  FALSE
    BY ZenonT(30) DEF Separate
  <2>1. \A i, j \in Holders : i # j => ~ (x \in f[i] /\ x \in f[j])
    BY ZenonT(30) DEF Separate
  <2>2. m # k /\ n # k
    BY ZenonT(30)
  <2>3. \A i \in Holders : x \in g[i] /\ i \notin K => x \in f[i]
    BY ZenonT(30) DEF Others
  <2>4. \A i \in K : x \in g[i] => x \in f[k]
    BY ZenonT(30)
  <2>5. ~ (m \in K /\ n \in K)
    BY ZenonT(30)
  <2> QED BY ZenonT(30), <2>1, <2>2, <2>3, <2>4, <2>5
<1>1. b = booted + 1 /\ booted' = b /\ UNCHANGED <<used, pc, split, handed>>
  BY ZenonT(30) DEF Release, actor
<1>2. /\ upper \in Seq(StackRecords) /\ Len(upper) \in Nat /\ booted \in Nat /\ Len(upper) <= booted
      /\ Len(Blocks) \in Nat /\ b \in 1 .. Len(Blocks)
  <2>1. /\ upper \in Seq(StackRecords) /\ Len(upper) <= booted /\ booted \in 0 .. Len(Blocks)
        /\ b \in 1 .. Len(Blocks) /\ Len(Blocks) \in Nat
    BY ZenonT(30), BlockFacts DEF MemTyped, BootTyped, Block
  <2>2. Len(upper) \in Nat
    BY ZenonT(30), <2>1, SeqFacts
  <2> QED BY <2>1, <2>2
<1>3. PICK f, g : /\ IsHeld(f, upper, used, booted, pc, split, handed) /\ Separate(f)
                  /\ IsHeld(g, upper', used', booted', pc', split', handed')
                  /\ Separate(g) => Separate(Held')
  BY ZenonT(30), HeldStep
<1>4. PICK k \in Holders : k = Key("fresh", b)
  BY ZenonT(30), KeysAre
<1>5. PICK s \in Nat, n \in Nat : s = Blocks[b].start /\ n = Left(b) /\ n = LeftOf(used, b)
  BY ZenonT(30), BlockFacts DEF MemTyped, BootTyped, Left, LeftOf
<1>6. /\ \A c \in Block : c > b => c > booted
      /\ \A c \in Block : c <= b => c = b \/ c <= booted
      /\ b > booted /\ ~ (b > b) /\ b <= b
  BY <1>1, <1>2 DEF Block
<1>7. f[k] = s .. s + n - 1 /\ g[k] = {}
  BY ZenonT(30), <1>1, <1>3, <1>4, <1>5, <1>6 DEF IsHeld, FreshIn
<1>8. \A c \in Block : g[Key("fresh", c)] \subseteq f[Key("fresh", c)]
  <2>1. \A c \in Block : FreshIn(used, b, c) \subseteq FreshIn(used, booted, c)
    BY ZenonT(30), <1>6 DEF FreshIn
  <2> QED BY ZenonT(30), <1>1, <1>3, <2>1 DEF IsHeld
<1>9. \A c \in Block : c # b \/ ~ (n > 2) => g[Key("stacks", c)] \subseteq f[Key("stacks", c)]
  <2>1. \A c \in Block : c # b \/ ~ (n > 2) => StacksIn(used, b, c) \subseteq StacksIn(used, booted, c)
    BY ZenonT(30), <1>5, <1>6 DEF StacksIn
  <2> QED BY ZenonT(30), <1>1, <1>3, <2>1 DEF IsHeld
<1>10. /\ \A c \in Actors : g[Key("split", c)] \subseteq f[Key("split", c)]
       /\ g[Key("handed", 0)] \subseteq f[Key("handed", 0)]
  BY ZenonT(30), <1>1, <1>3 DEF IsHeld
<1>11. CASE ~ (n > 2)
  <2>1. upper' = upper
    BY ZenonT(30), <1>5, <1>11 DEF Release
  <2>2. \A c \in Block : /\ g[Key("small", c)] \subseteq f[Key("small", c)]
                         /\ g[Key("large", c)] \subseteq f[Key("large", c)]
    BY ZenonT(30), <1>3, <2>1 DEF IsHeld
  <2>3. Others(f, g, {})
    BY ZenonT(30), <1>8, <1>9, <1>10, <1>11, <2>2, ByKind
  <2>4. Separate(g)
    BY ZenonT(30), <1>3, <2>3 DEF Others, Separate
  <2> QED BY ZenonT(30), <1>3, <2>1, <2>4 DEF FramesInv
<1>12. CASE n > 2
  <2>1. PICK e : e = Stacks(s, n)
    BY ZenonT(30)
  <2>2. PICK A : A = s .. s + StackPages(n) - 1
    BY ZenonT(30)
  <2>3. PICK E, L, F : E = Elems(e.rbs) /\ L = Spread(e.rbl) /\ F = s .. s + n - 1
    BY ZenonT(30)
  <2>4. e \in StackRecords /\ Distinct(e.rbs) /\ Spaced(e.rbl)
    BY ZenonT(30), <2>1, <2>2, <1>StacksDivide
  <2>5. A \subseteq F /\ E \subseteq F /\ L \subseteq F /\ A \cap E = {} /\ A \cap L = {} /\ E \cap L = {}
    BY ZenonT(30), <2>1, <2>2, <2>3, <1>StacksDivide
  <2>6. upper' = Append(upper, e)
    BY ZenonT(30), <1>5, <1>12, <2>1 DEF Release
  <2>7. PICK i \in Block : i = Len(upper) + 1
    BY <1>1, <1>2 DEF Block
  <2>8. /\ Len(upper') = i /\ upper'[i] = e
        /\ \A c \in 1 .. i : c = i \/ c \in 1 .. Len(upper)
        /\ \A c \in 1 .. Len(upper) : c \in 1 .. i /\ c # i /\ upper'[c] = upper[c]
        /\ i \in 1 .. i
    BY <1>2, <2>4, <2>6, <2>7
  <2>9. SmallIn(upper', i) = E /\ LargeIn(upper', i) = L
    BY ZenonT(30), <2>3, <2>8 DEF SmallIn, LargeIn
  <2>10. \A c \in Block : c # i => SmallIn(upper', c) = SmallIn(upper, c) /\ LargeIn(upper', c) = LargeIn(upper, c)
    BY ZenonT(30), <2>8 DEF SmallIn, LargeIn
  <2>11. StacksIn(used, b, b) = A
    BY ZenonT(30), <1>5, <1>6, <1>12, <2>2 DEF StacksIn
  <2>12. PICK o, p, q : o = Key("small", i) /\ p = Key("large", i) /\ q = Key("stacks", b)
    BY ZenonT(30)
  <2>13. g[o] = E /\ g[p] = L /\ g[q] = A
    BY ZenonT(30), <1>1, <1>3, <2>9, <2>11, <2>12 DEF IsHeld
  <2>14. Others(f, g, {o, p, q})
    <3>1. \A c \in Block : Key("small", c) \notin {o, p, q} => g[Key("small", c)] \subseteq f[Key("small", c)]
      BY ZenonT(30), <1>3, <2>10, <2>12 DEF IsHeld
    <3>2. \A c \in Block : Key("large", c) \notin {o, p, q} => g[Key("large", c)] \subseteq f[Key("large", c)]
      BY ZenonT(30), <1>3, <2>10, <2>12 DEF IsHeld
    <3>3. \A c \in Block : Key("stacks", c) \notin {o, p, q} => g[Key("stacks", c)] \subseteq f[Key("stacks", c)]
      BY ZenonT(30), <1>9, <2>12
    <3> QED BY ZenonT(30), <1>8, <1>10, <3>1, <3>2, <3>3, ByKind
  <2>15. \A m \in {o, p, q} : g[m] \subseteq f[k]
    BY ZenonT(30), <1>7, <2>3, <2>5, <2>13
  <2>16. \A m, r \in {o, p, q} : m # r => g[m] \cap g[r] = {}
    <3>1. /\ g[o] \cap g[p] = {} /\ g[p] \cap g[o] = {} /\ g[o] \cap g[q] = {}
          /\ g[q] \cap g[o] = {} /\ g[p] \cap g[q] = {} /\ g[q] \cap g[p] = {}
      <4>1. \A S, T : S \cap T = {} => T \cap S = {}
        BY ZenonT(30)
      <4> QED BY ZenonT(30), <2>5, <2>13, <4>1
    <3> QED BY <3>1
  <2>17. Separate(g)
    <3>1. PICK K : K = {o, p, q}
      BY ZenonT(30)
    <3>2. /\ Others(f, g, K) /\ \A m \in K : g[m] \subseteq f[k]
          /\ \A m, r \in K : m # r => g[m] \cap g[r] = {}
      BY ZenonT(30), <2>14, <2>15, <2>16, <3>1
    <3>3. Separate(f) /\ g[k] = {}
      BY ZenonT(30), <1>3, <1>7
    <3> QED BY ZenonT(30), <3>2, <3>3, <1>Divided
  <2>18. \A c \in 1 .. Len(upper') : Distinct(upper'[c].rbs) /\ Spaced(upper'[c].rbl)
    BY ZenonT(30), <2>4, <2>8 DEF FramesInv
  <2> QED BY ZenonT(30), <1>3, <2>17, <2>18 DEF FramesInv
<1> QED BY ZenonT(30), <1>11, <1>12

(* Before booting, the blocks are apart.                                    *)
LEMMA InitFrames == MemInit => FramesInv
<1> SUFFICES ASSUME MemInit PROVE FramesInv
  OBVIOUS
<1>1. /\ used = [b \in Block |-> 0] /\ booted = 0 /\ upper = << >> /\ handed = {}
      /\ \A a \in Actors : pc[a] = "idle"
  BY ZenonT(30) DEF MemInit
<1>2. \A b \in Block : /\ b > 0 /\ ~ (b <= 0) /\ b \notin 1 .. Len(upper)
                       /\ b \in Nat /\ Blocks[b].start \in Nat /\ Blocks[b].length \in Nat
  <2>1. \A b \in Block : Blocks[b].start \in Nat /\ Blocks[b].length \in Nat
    BY ZenonT(30), BlockFacts
  <2>2. Len(upper) = 0
    BY ZenonT(30), <1>1
  <2> QED BY <2>1, <2>2, BlockFacts DEF Block
<1>3. \A b \in Block : LeftOf(used, b) = Blocks[b].length
  <2>1. \A b \in Block : used[b] = 0
    BY ZenonT(30), <1>1
  <2> QED BY <1>2, <2>1 DEF LeftOf
<1>4. PICK f : /\ f = HeldOf(upper, used, booted, pc, split, handed)
               /\ IsHeld(f, upper, used, booted, pc, split, handed)
  BY ZenonT(30), HeldIs
<1>5. \A b \in Block : /\ f[Key("small", b)] = {} /\ f[Key("large", b)] = {}
  BY ZenonT(30), <1>2, <1>4 DEF IsHeld, SmallIn, LargeIn
<1>6. \A b \in Block : f[Key("stacks", b)] = {}
  BY ZenonT(30), <1>1, <1>2, <1>4 DEF IsHeld, StacksIn
<1>7. \A a \in Actors : f[Key("split", a)] = {}
  <2>1. \A a \in Actors : pc[a] # "split"
    BY ZenonT(30), <1>1
  <2> QED BY ZenonT(30), <1>4, <2>1 DEF IsHeld, SplitIn
<1>8. f[Key("handed", 0)] = {}
  BY ZenonT(30), <1>1, <1>4 DEF IsHeld
<1>9. \A b \in Block : f[Key("fresh", b)] = Blocks[b].start .. Blocks[b].start + Blocks[b].length - 1
  BY ZenonT(30), <1>1, <1>2, <1>3, <1>4 DEF IsHeld, FreshIn
<1>10. \A k \in Holders : f[k] # {} => \E b \in Block : k = Key("fresh", b)
  BY ZenonT(30), <1>5, <1>6, <1>7, <1>8, KeysAre
<1>11. ASSUME NEW b \in Block, NEW c \in Block, b # c
       PROVE  f[Key("fresh", b)] \cap f[Key("fresh", c)] = {}
  <2>1. PICK s \in Nat, n \in Nat : s = Blocks[b].start /\ n = Blocks[b].length
    BY ZenonT(30), <1>2
  <2>2. PICK t \in Nat, m \in Nat : t = Blocks[c].start /\ m = Blocks[c].length
    BY ZenonT(30), <1>2
  <2>3. b < c \/ c < b
    BY <1>2, <1>11
  <2>4. s + n <= t \/ t + m <= s
    BY ZenonT(30), <2>1, <2>2, <2>3, BlocksAssumption
  <2>5. (s .. s + n - 1) \cap (t .. t + m - 1) = {}
    BY <2>4
  <2> QED BY ZenonT(30), <1>9, <2>1, <2>2, <2>5
<1>12. Separate(f)
  <2> SUFFICES ASSUME NEW k \in Holders, NEW l \in Holders, k # l PROVE f[k] \cap f[l] = {}
    BY ZenonT(30) DEF Separate
  <2>1. CASE f[k] = {} \/ f[l] = {}
    BY ZenonT(30), <2>1
  <2>2. CASE f[k] # {} /\ f[l] # {}
    <3>1. PICK b \in Block, c \in Block : k = Key("fresh", b) /\ l = Key("fresh", c)
      BY ZenonT(30), <1>10, <2>2
    <3>2. b # c
      BY ZenonT(30), <3>1
    <3> QED BY ZenonT(30), <1>11, <3>1, <3>2
  <2> QED BY ZenonT(30), <2>1, <2>2
<1>13. \A b \in 1 .. Len(upper) : Distinct(upper[b].rbs) /\ Spaced(upper[b].rbl)
  <2>1. 1 .. Len(upper) = {}
    BY <1>1
  <2> QED BY ZenonT(30), <2>1
<1> QED BY ZenonT(30), <1>4, <1>12, <1>13 DEF FramesInv, Held

(* An actor that takes a page keeps the frames apart.                       *)
LEMMA TakeFrames ==
  ASSUME MemTyped, FramesInv, NEW a \in Actors, Small(a) \/ Large(a) \/ Split(a)
  PROVE  FramesInv'
(* Holders outside K keep what they have when their stacks do.               *)
<1>OthersKeep.
  ASSUME NEW f, NEW g, NEW u, NEW v, NEW us, NEW d, NEW p, NEW r, NEW s, NEW t, NEW h,
         NEW i, NEW K, IsHeld(f, u, us, d, p, s, h), IsHeld(g, v, us, d, r, t, i),
         Kept(K, u, v, p, r, s, t, h, i)
  PROVE  Others(f, g, K)
  <2> USE <1>OthersKeep
  <2>1. \A b \in Block : Key("small", b) \notin K => g[Key("small", b)] \subseteq f[Key("small", b)]
    BY ZenonT(30) DEF IsHeld, Kept
  <2>2. \A b \in Block : Key("large", b) \notin K => g[Key("large", b)] \subseteq f[Key("large", b)]
    BY ZenonT(30) DEF IsHeld, Kept
  <2>3. \A b \in Block : /\ g[Key("stacks", b)] \subseteq f[Key("stacks", b)]
                         /\ g[Key("fresh", b)] \subseteq f[Key("fresh", b)]
    BY ZenonT(30) DEF IsHeld, Kept
  <2>4. \A c \in Actors : Key("split", c) \notin K => g[Key("split", c)] \subseteq f[Key("split", c)]
    BY ZenonT(30) DEF IsHeld, Kept
  <2>5. Key("handed", 0) \notin K => g[Key("handed", 0)] \subseteq f[Key("handed", 0)]
    BY ZenonT(30) DEF IsHeld, Kept
  <2> QED BY ZenonT(30), <2>1, <2>2, <2>3, <2>4, <2>5, ByKind
(* Taking the first of a stack of large pages.                              *)
<1>TailSpread.
  ASSUME NEW s \in Seq(Nat), s # << >>, Spaced(s)
  PROVE  /\ Span(Head(s)) \subseteq Spread(s) /\ Spaced(Tail(s))
         /\ Spread(Tail(s)) \subseteq Spread(s) \ Span(Head(s))
  <2> USE <1>TailSpread
  <2>1. /\ Len(s) \in Nat /\ Len(s) > 0 /\ Head(s) = s[1] /\ Len(Tail(s)) = Len(s) - 1
        /\ \A i \in 1 .. Len(s) - 1 : Tail(s)[i] = s[i + 1]
    BY ZenonT(30), HeadTail
  <2>2. \A i \in 1 .. Len(s) - 1 : i + 1 \in 1 .. Len(s) /\ i + 1 # 1 /\ i \in Nat
    BY <2>1
  <2>3. 1 \in 1 .. Len(s)
    BY <2>1
  <2>4. Span(Head(s)) \subseteq Spread(s)
    BY ZenonT(30), <2>1, <2>3 DEF Spread
  <2>5. Spread(Tail(s)) \subseteq Spread(s) \ Span(Head(s))
    <3> SUFFICES ASSUME NEW y \in Spread(Tail(s)) PROVE y \in Spread(s) \ Span(Head(s))
      BY ZenonT(30)
    <3>1. PICK i \in 1 .. Len(s) - 1 : y \in Span(s[i + 1])
      BY ZenonT(30), <2>1 DEF Spread
    <3>2. PICK j \in 1 .. Len(s) : j = i + 1 /\ j # 1
      BY ZenonT(30), <2>2
    <3>3. y \in Span(s[j])
      BY ZenonT(30), <3>1, <3>2
    <3>4. Span(s[j]) \cap Span(s[1]) = {}
      BY ZenonT(30), <2>3, <3>2 DEF Spaced
    <3> QED BY ZenonT(30), <2>1, <3>3, <3>4 DEF Spread
  <2>6. Spaced(Tail(s))
    <3> SUFFICES ASSUME NEW i \in 1 .. Len(s) - 1, NEW j \in 1 .. Len(s) - 1, i # j
                 PROVE  Span(s[i + 1]) \cap Span(s[j + 1]) = {}
      BY ZenonT(30), <2>1 DEF Spaced
    <3>1. i + 1 # j + 1
      BY <2>2
    <3> QED BY ZenonT(30), <2>2, <3>1 DEF Spaced
  <2> QED BY ZenonT(30), <2>4, <2>5, <2>6
(* Putting a page on a stack it is not in.                                  *)
<1>EnqueueElems.
  ASSUME NEW s \in Seq(Nat), NEW k, NEW x \in Nat, Distinct(s), x \notin Elems(s)
  PROVE  /\ Distinct(Enqueue(s, k, x))
         /\ Elems(Enqueue(s, k, x)) \subseteq Elems(s) \cup {x}
  <2> USE <1>EnqueueElems
  <2>1. PICK q : q = Enqueue(s, k, x)
    BY ZenonT(30)
  <2>2. CASE q = s
    BY ZenonT(30), <2>1, <2>2
  <2>3. CASE q = Append(s, x)
    <3>1. /\ Len(s) \in Nat /\ Len(q) = Len(s) + 1 /\ q[Len(s) + 1] = x
          /\ \A i \in 1 .. Len(s) : q[i] = s[i]
      BY <2>3
    <3>2. \A i \in 1 .. Len(s) + 1 : i = Len(s) + 1 \/ i \in 1 .. Len(s)
      BY <3>1
    <3>3. Elems(q) \subseteq Elems(s) \cup {x}
      BY ZenonT(30), <3>1, <3>2 DEF Elems
    <3>4. \A i \in 1 .. Len(s) : s[i] # x
      BY ZenonT(30) DEF Elems
    <3>5. Distinct(q)
      BY ZenonT(30), <3>1, <3>2, <3>4 DEF Distinct
    <3> QED BY ZenonT(30), <2>1, <3>3, <3>5
  <2> QED BY ZenonT(30), <2>1, <2>2, <2>3, EnqueueIs
(* The first small page of a stack is handed out.                           *)
<1>SmallFrames.
  ASSUME NEW b \in 1 .. Len(upper), pc[a] = "small", upper[b].rbs # << >>, NEW x,
         x = Head(upper[b].rbs), NEW q, q = Tail(upper[b].rbs),
         upper' = SetSmall(upper, b, q), UNCHANGED <<used, booted, split>>,
         handed' = handed \cup {x}, pc'[a] = "walk",
         \A c \in Actors \ {a} : pc'[c] = pc[c]
  PROVE  FramesInv'
  <2> USE <1>SmallFrames
  <2>1. /\ b \in Block /\ upper \in Seq(StackRecords) /\ upper[b].rbs \in Seq(Nat)
    BY ZenonT(30), StackOf DEF MemTyped
  <2>2. Distinct(upper[b].rbs)
    BY ZenonT(30) DEF FramesInv
  <2>3. /\ x \in Elems(upper[b].rbs) /\ Distinct(q) /\ q \in Seq(Nat)
        /\ Elems(q) \subseteq Elems(upper[b].rbs) \ {x}
    BY ZenonT(30), <2>1, <2>2, TailElems, HeadTail
  <2>4. /\ Len(upper') = Len(upper) /\ upper'[b].rbs = q /\ upper'[b].rbl = upper[b].rbl
        /\ \A c \in 1 .. Len(upper) : c # b => upper'[c] = upper[c]
    <3>1. SmallOnly(upper, upper', b, q)
      BY ZenonT(30), <2>1, <2>3, OnlyChange
    <3> QED BY ZenonT(30), <3>1 DEF SmallOnly
  <2>5. PICK f, g : /\ IsHeld(f, upper, used, booted, pc, split, handed) /\ Separate(f)
                    /\ IsHeld(g, upper', used', booted', pc', split', handed')
                    /\ Separate(g) => Separate(Held')
    BY ZenonT(30), HeldStep
  <2>6. PICK k \in Holders, l \in Holders : k = Key("small", b) /\ l = Key("handed", 0) /\ k # l
    BY <2>1, KeysAre, KeyIs
  <2>7. {x} \subseteq f[k] /\ g[k] \subseteq f[k] \ {x}
    <3>1. SmallIn(upper, b) = Elems(upper[b].rbs) /\ SmallIn(upper', b) = Elems(q)
      BY ZenonT(30), <2>4 DEF SmallIn
    <3>2. f[k] = SmallIn(upper, b) /\ g[k] = SmallIn(upper', b)
      BY ZenonT(30), <2>1, <2>5, <2>6 DEF IsHeld
    <3> QED BY ZenonT(30), <2>3, <3>1, <3>2
  <2>8. g[l] \subseteq f[l] \cup {x}
    BY ZenonT(30), <2>5, <2>6 DEF IsHeld
  <2>9. Others(f, g, {k, l})
    <3>1. \A c \in Block : Key("small", c) \notin {k, l} => SmallIn(upper', c) = SmallIn(upper, c)
      BY ZenonT(30), <2>4, <2>6 DEF SmallIn
    <3>2. \A c \in Block : LargeIn(upper', c) = LargeIn(upper, c)
      BY ZenonT(30), <2>4 DEF LargeIn
    <3>3. \A c \in Actors : SplitIn(pc'[c], split[c]) \subseteq SplitIn(pc[c], split[c])
      BY ZenonT(30) DEF SplitIn
    <3>4. Key("handed", 0) \in {k, l}
      BY ZenonT(30), <2>6
    <3>5. /\ IsHeld(f, upper, used, booted, pc, split, handed)
          /\ IsHeld(g, upper', used, booted, pc', split, handed')
      BY ZenonT(30), <2>5
    <3>6. Kept({k, l}, upper, upper', pc, pc', split, split, handed, handed')
      BY ZenonT(30), <3>1, <3>2, <3>3, <3>4 DEF Kept
    <3> QED BY ZenonT(30), <3>5, <3>6, <1>OthersKeep
  <2>10. Separate(g)
    BY ZenonT(30), <2>5, <2>6, <2>7, <2>8, <2>9, Moves
  <2>11. \A c \in 1 .. Len(upper') : Distinct(upper'[c].rbs) /\ Spaced(upper'[c].rbl)
    BY ZenonT(30), <2>3, <2>4 DEF FramesInv
  <2> QED BY ZenonT(30), <2>5, <2>10, <2>11 DEF FramesInv
(* The first large page of a stack is about to be split.                    *)
<1>LargeFrames.
  ASSUME NEW b \in 1 .. Len(upper), pc[a] # "split", upper[b].rbl # << >>, NEW x,
         x = Head(upper[b].rbl), NEW q, q = Tail(upper[b].rbl),
         upper' = SetLarge(upper, b, q), UNCHANGED <<used, booted, handed>>,
         split' = [split EXCEPT ![a] = [page |-> x, next |-> x + 1]],
         \A c \in Actors \ {a} : pc'[c] = pc[c]
  PROVE  FramesInv'
  <2> USE <1>LargeFrames
  <2>1. /\ b \in Block /\ upper \in Seq(StackRecords) /\ upper[b].rbl \in Seq(Nat)
        /\ DOMAIN split = Actors
    BY ZenonT(30), StackOf DEF MemTyped, ActorDomains
  <2>2. Spaced(upper[b].rbl)
    BY ZenonT(30) DEF FramesInv
  <2>3. /\ Span(x) \subseteq Spread(upper[b].rbl) /\ Spaced(q) /\ q \in Seq(Nat) /\ x \in Nat
        /\ Spread(q) \subseteq Spread(upper[b].rbl) \ Span(x)
    BY ZenonT(30), <2>1, <2>2, <1>TailSpread, HeadTail
  <2>4. /\ Len(upper') = Len(upper) /\ upper'[b].rbl = q /\ upper'[b].rbs = upper[b].rbs
        /\ \A c \in 1 .. Len(upper) : c # b => upper'[c] = upper[c]
    <3>1. LargeOnly(upper, upper', b, q)
      BY ZenonT(30), <2>1, <2>3, OnlyChange
    <3> QED BY ZenonT(30), <3>1 DEF LargeOnly
  <2>5. PICK f, g : /\ IsHeld(f, upper, used, booted, pc, split, handed) /\ Separate(f)
                    /\ IsHeld(g, upper', used', booted', pc', split', handed')
                    /\ Separate(g) => Separate(Held')
    BY ZenonT(30), HeldStep
  <2>6. PICK k \in Holders, l \in Holders : k = Key("large", b) /\ l = Key("split", a) /\ k # l
    BY <2>1, KeysAre, KeyIs
  <2>7. Span(x) \subseteq f[k] /\ g[k] \subseteq f[k] \ Span(x)
    <3>1. LargeIn(upper, b) = Spread(upper[b].rbl) /\ LargeIn(upper', b) = Spread(q)
      BY ZenonT(30), <2>4 DEF LargeIn
    <3>2. f[k] = LargeIn(upper, b) /\ g[k] = LargeIn(upper', b)
      BY ZenonT(30), <2>1, <2>5, <2>6 DEF IsHeld
    <3> QED BY ZenonT(30), <2>3, <3>1, <3>2
  <2>8. g[l] \subseteq f[l] \cup Span(x)
    <3>1. PICK s : s = [page |-> x, next |-> x + 1]
      BY ZenonT(30)
    <3>2. split'[a] = s
      BY ZenonT(30), <2>1, <3>1
    <3>3. {s.page} \cup (s.next .. s.page + LargeSize - 1) \subseteq Span(x)
      BY <2>3, <3>1, FramesAssumption DEF Span
    <3>4. SplitIn(pc'[a], s) \subseteq Span(x)
      BY ZenonT(30), <3>3 DEF SplitIn
    <3>5. g[l] = SplitIn(pc'[a], s)
      BY ZenonT(30), <2>5, <2>6, <3>2 DEF IsHeld
    <3> QED BY ZenonT(30), <3>4, <3>5
  <2>9. Others(f, g, {k, l})
    <3>1. \A c \in Block : Key("large", c) \notin {k, l} => LargeIn(upper', c) = LargeIn(upper, c)
      BY ZenonT(30), <2>4, <2>6 DEF LargeIn
    <3>2. \A c \in Block : SmallIn(upper', c) = SmallIn(upper, c)
      BY ZenonT(30), <2>4 DEF SmallIn
    <3>3. \A c \in Actors : Key("split", c) \notin {k, l} =>
                            SplitIn(pc'[c], split'[c]) \subseteq SplitIn(pc[c], split[c])
      BY ZenonT(30), <2>1, <2>6
    <3>4. /\ IsHeld(f, upper, used, booted, pc, split, handed)
          /\ IsHeld(g, upper', used, booted, pc', split', handed)
      BY ZenonT(30), <2>5
    <3>5. Kept({k, l}, upper, upper', pc, pc', split, split', handed, handed)
      BY ZenonT(30), <3>1, <3>2, <3>3 DEF Kept
    <3> QED BY ZenonT(30), <3>4, <3>5, <1>OthersKeep
  <2>10. Separate(g)
    BY ZenonT(30), <2>5, <2>6, <2>7, <2>8, <2>9, Moves
  <2>11. \A c \in 1 .. Len(upper') : Distinct(upper'[c].rbs) /\ Spaced(upper'[c].rbl)
    BY ZenonT(30), <2>3, <2>4 DEF FramesInv
  <2> QED BY ZenonT(30), <2>5, <2>10, <2>11 DEF FramesInv
(* A page of a large one goes to the small pages.                           *)
<1>SplitFrames.
  ASSUME NEW b \in 1 .. Len(upper), pc[a] = "split", NEW p \in Nat, NEW n \in Nat,
         p = split[a].page, n = split[a].next, p < n, n < p + LargeSize, NEW q,
         q = Enqueue(upper[b].rbs, upper[b].small, n), upper' = SetSmall(upper, b, q),
         UNCHANGED <<used, booted, handed, pc>>,
         split' = [split EXCEPT ![a] = [page |-> p, next |-> n + 1]]
  PROVE  FramesInv'
  <2> USE <1>SplitFrames
  <2>1. /\ b \in Block /\ upper \in Seq(StackRecords) /\ upper[b].rbs \in Seq(Nat)
        /\ DOMAIN split = Actors
    BY ZenonT(30), StackOf DEF MemTyped, ActorDomains
  <2>2. PICK f, g : /\ IsHeld(f, upper, used, booted, pc, split, handed) /\ Separate(f)
                    /\ IsHeld(g, upper', used', booted', pc', split', handed')
                    /\ Separate(g) => Separate(Held')
    BY ZenonT(30), HeldStep
  <2>3. PICK k \in Holders, l \in Holders : k = Key("split", a) /\ l = Key("small", b) /\ k # l
    BY <2>1, KeysAre, KeyIs
  <2>4. f[k] = {p} \cup (n .. p + LargeSize - 1)
    BY ZenonT(30), <2>2, <2>3 DEF IsHeld, SplitIn
  <2>5. g[k] = {p} \cup (n + 1 .. p + LargeSize - 1)
    <3>1. PICK s : s = [page |-> p, next |-> n + 1]
      BY ZenonT(30)
    <3>2. split'[a] = s /\ pc'[a] = "split"
      BY ZenonT(30), <2>1, <3>1
    <3>3. s.page = p /\ s.next = n + 1
      BY ZenonT(30), <3>1
    <3>4. g[k] = SplitIn(pc'[a], split'[a])
      BY ZenonT(30), <2>2, <2>3 DEF IsHeld
    <3> QED BY ZenonT(30), <3>2, <3>3, <3>4 DEF SplitIn
  <2>6. n \in f[k] /\ g[k] \subseteq f[k] \ {n}
    <3>1. PICK F, G : F = f[k] /\ G = g[k]
      BY ZenonT(30)
    <3>2. n \in F /\ G \subseteq F \ {n}
      BY <2>4, <2>5, <3>1, FramesAssumption
    <3> QED BY ZenonT(30), <3>1, <3>2
  <2>7. f[l] = Elems(upper[b].rbs)
    BY ZenonT(30), <2>1, <2>2, <2>3 DEF IsHeld, SmallIn
  <2>8. n \notin Elems(upper[b].rbs)
    <3>1. f[k] \cap f[l] = {}
      BY ZenonT(30), <2>2, <2>3 DEF Separate
    <3> QED BY ZenonT(30), <2>6, <2>7, <3>1
  <2>9. Distinct(upper[b].rbs)
    BY ZenonT(30) DEF FramesInv
  <2>10. q \in Seq(Nat) /\ Distinct(q) /\ Elems(q) \subseteq Elems(upper[b].rbs) \cup {n}
    <3>1. PICK s \in Seq(Nat) : s = upper[b].rbs
      BY ZenonT(30), <2>1
    <3>2. PICK c : c = upper[b].small
      BY ZenonT(30)
    <3>3. q = Enqueue(s, c, n) /\ Distinct(s) /\ n \notin Elems(s)
      BY ZenonT(30), <2>8, <2>9, <3>1, <3>2
    <3>4. Enqueue(s, c, n) \in Seq(Nat)
      BY ZenonT(30), EnqueueIs
    <3>5. /\ Distinct(Enqueue(s, c, n))
          /\ Elems(Enqueue(s, c, n)) \subseteq Elems(s) \cup {n}
      BY ZenonT(30), <3>3, <1>EnqueueElems
    <3> QED BY ZenonT(30), <3>1, <3>3, <3>4, <3>5
  <2>11. /\ Len(upper') = Len(upper) /\ upper'[b].rbs = q /\ upper'[b].rbl = upper[b].rbl
         /\ \A c \in 1 .. Len(upper) : c # b => upper'[c] = upper[c]
    <3>1. SmallOnly(upper, upper', b, q)
      BY ZenonT(30), <2>1, <2>10, OnlyChange
    <3> QED BY ZenonT(30), <3>1 DEF SmallOnly
  <2>12. g[l] \subseteq f[l] \cup {n}
    <3>1. SmallIn(upper', b) = Elems(q)
      BY ZenonT(30), <2>11 DEF SmallIn
    <3>2. g[l] = SmallIn(upper', b)
      BY ZenonT(30), <2>1, <2>2, <2>3 DEF IsHeld
    <3> QED BY ZenonT(30), <2>7, <2>10, <3>1, <3>2
  <2>13. Others(f, g, {k, l})
    <3>1. \A c \in Block : Key("small", c) \notin {k, l} => SmallIn(upper', c) = SmallIn(upper, c)
      BY ZenonT(30), <2>3, <2>11 DEF SmallIn
    <3>2. \A c \in Block : LargeIn(upper', c) = LargeIn(upper, c)
      BY ZenonT(30), <2>11 DEF LargeIn
    <3>3. \A c \in Actors : Key("split", c) \notin {k, l} =>
                            SplitIn(pc[c], split'[c]) \subseteq SplitIn(pc[c], split[c])
      BY ZenonT(30), <2>1, <2>3
    <3>4. /\ IsHeld(f, upper, used, booted, pc, split, handed)
          /\ IsHeld(g, upper', used, booted, pc, split', handed)
      BY ZenonT(30), <2>2
    <3>5. Kept({k, l}, upper, upper', pc, pc, split, split', handed, handed)
      BY ZenonT(30), <3>1, <3>2, <3>3 DEF Kept
    <3> QED BY ZenonT(30), <3>4, <3>5, <1>OthersKeep
  <2>14. Separate(g)
    <3>1. {n} \subseteq f[k] /\ g[k] \subseteq f[k] \ {n}
      BY ZenonT(30), <2>6
    <3> QED BY ZenonT(30), <2>2, <2>3, <2>12, <2>13, <3>1, Moves
  <2>15. \A c \in 1 .. Len(upper') : Distinct(upper'[c].rbs) /\ Spaced(upper'[c].rbl)
    BY ZenonT(30), <2>10, <2>11 DEF FramesInv
  <2> QED BY ZenonT(30), <2>2, <2>14, <2>15 DEF FramesInv
(* The last page of a large one is handed out.                              *)
<1>DoneFrames.
  ASSUME pc[a] = "split", NEW p, p = split[a].page, split' = [split EXCEPT ![a] = 0],
         UNCHANGED <<upper, used, booted>>, handed' = handed \cup {p}, pc'[a] = "walk",
         \A c \in Actors \ {a} : pc'[c] = pc[c]
  PROVE  FramesInv'
  <2> USE <1>DoneFrames
  <2>1. DOMAIN split = Actors
    BY ZenonT(30) DEF MemTyped, ActorDomains
  <2>2. PICK f, g : /\ IsHeld(f, upper, used, booted, pc, split, handed) /\ Separate(f)
                    /\ IsHeld(g, upper', used', booted', pc', split', handed')
                    /\ Separate(g) => Separate(Held')
    BY ZenonT(30), HeldStep
  <2>3. PICK k \in Holders, l \in Holders : k = Key("split", a) /\ l = Key("handed", 0) /\ k # l
    BY KeysAre, KeyIs
  <2>4. {p} \subseteq f[k] /\ g[k] \subseteq f[k] \ {p}
    <3>1. f[k] = SplitIn(pc[a], split[a]) /\ g[k] = SplitIn(pc'[a], split'[a])
      BY ZenonT(30), <2>2, <2>3 DEF IsHeld
    <3>2. p \in SplitIn(pc[a], split[a]) /\ SplitIn(pc'[a], split'[a]) = {}
      BY ZenonT(30) DEF SplitIn
    <3> QED BY ZenonT(30), <3>1, <3>2
  <2>5. g[l] \subseteq f[l] \cup {p}
    BY ZenonT(30), <2>2, <2>3 DEF IsHeld
  <2>6. Others(f, g, {k, l})
    <3>1. \A c \in Actors : Key("split", c) \notin {k, l} =>
                            SplitIn(pc'[c], split'[c]) \subseteq SplitIn(pc[c], split[c])
      BY ZenonT(30), <2>1, <2>3
    <3>2. Kept({k, l}, upper, upper, pc, pc', split, split', handed, handed')
      BY ZenonT(30), <2>3, <3>1 DEF Kept
    <3>3. /\ IsHeld(f, upper, used, booted, pc, split, handed)
          /\ IsHeld(g, upper, used, booted, pc', split', handed')
      BY ZenonT(30), <2>2
    <3> QED BY ZenonT(30), <3>2, <3>3, <1>OthersKeep
  <2>7. Separate(g)
    BY ZenonT(30), <2>2, <2>3, <2>4, <2>5, <2>6, Moves
  <2> QED BY ZenonT(30), <2>2, <2>7 DEF FramesInv
<1>1. CASE Small(a)
  <2>1. pc[a] = "small" /\ pc[a] \in Taking /\ UNCHANGED <<used, booted, split>>
    BY ZenonT(30), <1>1, SmallIs
  <2>2. ASSUME NEW p \in {"stuck", "large"}, Goto(a, p), UNCHANGED <<upper, handed>>
        PROVE  FramesInv'
    <3>1. pc'[a] # "split" /\ \A c \in Actors \ {a} : pc'[c] = pc[c]
      BY ZenonT(30), <2>2, GotoIs
    <3> QED BY ZenonT(30), <2>1, <2>2, <3>1, QuietFrames
  <2>3. ASSUME NEW b, b = block[a], b \in 1 .. Len(upper), upper[b].rbs # << >>,
               NEW x, NEW q, x = Head(upper[b].rbs), q = Tail(upper[b].rbs),
               upper' = SetSmall(upper, b, q), Got(a, x)
        PROVE  FramesInv'
    <3>1. upper[b].rbs \in Seq(Nat)
      BY ZenonT(30), <2>3, StackOf DEF MemTyped
    <3>2. x \in Nat
      BY ZenonT(30), <2>3, <3>1, HeadTail
    <3>3. handed' = handed \cup {x} /\ pc'[a] = "walk" /\ \A c \in Actors \ {a} : pc'[c] = pc[c]
      BY ZenonT(30), <2>1, <2>3, <3>2, GotIs
    <3> QED BY ZenonT(30), <2>1, <2>3, <3>3, <1>SmallFrames
  <2> QED BY ZenonT(30), <1>1, <2>2, <2>3, SmallIs
<1>2. CASE Large(a)
  <2>1. /\ pc[a] = "large" /\ block[a] \in 1 .. Len(upper) /\ UNCHANGED <<used, booted, handed>>
    BY ZenonT(30), <1>2, LargeIs
  <2>2. pc[a] # "split"
    BY ZenonT(30), <2>1
  <2>3. ASSUME Goto(a, "small"), UNCHANGED <<upper, split>>
        PROVE  FramesInv'
    <3>1. pc'[a] = "small" /\ \A c \in Actors \ {a} : pc'[c] = pc[c]
      BY ZenonT(30), <2>3, GotoIs
    <3>2. pc'[a] # "split"
      BY ZenonT(30), <3>1
    <3> QED BY ZenonT(30), <2>1, <2>3, <3>1, <3>2, QuietFrames
  <2>4. ASSUME NEW b, b = block[a], upper[b].rbl # << >>,
               NEW x, NEW q, x = Head(upper[b].rbl), q = Tail(upper[b].rbl),
               upper' = SetLarge(upper, b, q), Goto(a, "split"),
               split' = [split EXCEPT ![a] = [page |-> x, next |-> x + 1]]
        PROVE  FramesInv'
    <3>1. \A c \in Actors \ {a} : pc'[c] = pc[c]
      BY ZenonT(30), <2>4, GotoIs
    <3> QED BY ZenonT(30), <2>1, <2>2, <2>4, <3>1, <1>LargeFrames
  <2>5. \/ Goto(a, "small") /\ UNCHANGED <<upper, split>>
        \/ /\ upper[block[a]].rbl # << >>
           /\ \E x, q : /\ x = Head(upper[block[a]].rbl) /\ q = Tail(upper[block[a]].rbl)
                        /\ upper' = SetLarge(upper, block[a], q)
                        /\ split' = [split EXCEPT ![a] = [page |-> x, next |-> x + 1]]
           /\ Goto(a, "split")
    BY ZenonT(30), <1>2, LargeIs
  <2> QED BY ZenonT(30), <2>3, <2>4, <2>5
<1>3. CASE Split(a)
  <2>1. /\ pc[a] = "split" /\ pc[a] \in Taking /\ block[a] \in 1 .. Len(upper)
        /\ UNCHANGED <<used, booted>>
    BY ZenonT(30), <1>3, SplitIs
  <2>2. PICK p \in Nat, n \in Nat :
          /\ p = split[a].page /\ n = split[a].next /\ p < n
          /\ \/ /\ n < p + LargeSize
                /\ upper' = SetSmall(upper, block[a],
                             Enqueue(upper[block[a]].rbs, upper[block[a]].small, n))
                /\ split' = [split EXCEPT ![a] = [page |-> p, next |-> n + 1]]
                /\ UNCHANGED <<pc, map, bp, tables, pages, handed>>
             \/ /\ n = p + LargeSize
                /\ split' = [split EXCEPT ![a] = 0]
                /\ Got(a, p) /\ UNCHANGED upper
    BY ZenonT(30), <1>3, SplitIs
  <2>3. ASSUME NEW b, b = block[a], n < p + LargeSize, NEW q,
               q = Enqueue(upper[b].rbs, upper[b].small, n), upper' = SetSmall(upper, b, q),
               split' = [split EXCEPT ![a] = [page |-> p, next |-> n + 1]],
               UNCHANGED <<pc, handed>>
        PROVE  FramesInv'
    BY ZenonT(30), <2>1, <2>2, <2>3, <1>SplitFrames
  <2>4. ASSUME split' = [split EXCEPT ![a] = 0], Got(a, p), UNCHANGED upper
        PROVE  FramesInv'
    <3>1. handed' = handed \cup {p} /\ pc'[a] = "walk" /\ \A c \in Actors \ {a} : pc'[c] = pc[c]
      BY ZenonT(30), <2>1, <2>4, GotIs
    <3>2. p = split[a].page
      BY ZenonT(30), <2>2
    <3> QED BY ZenonT(30), <2>1, <2>4, <3>1, <3>2, <1>DoneFrames
  <2> QED BY ZenonT(30), <2>2, <2>3, <2>4
<1> QED BY ZenonT(30), <1>1, <1>2, <1>3

(* Every step keeps the frames apart.                                       *)
LEMMA NextFrames ==
  ASSUME StackFacts, RegionsInv, MemTyped, FramesInv, [MemNext]_memvars
  PROVE  FramesInv'
<1>1. \A n \in 0 .. AddressEnd - 1 : n \in Nat
  BY LayoutAssumption
<1>2. CASE UNCHANGED memvars
  <2>1. UNCHANGED <<upper, used, booted, split, handed, pc>>
    BY ZenonT(30), <1>2 DEF memvars, boot, actor
  <2> QED BY ZenonT(30), <2>1, QuietFrames
<1>3. ASSUME NEW a \in Actors, Frame(a)
      PROVE  FramesInv'
  <2>1. /\ UNCHANGED <<upper, used, booted, split, handed>>
        /\ (\E w : GetPage(a, w, 0, 0)) \/ Goto(a, "walk")
    BY ZenonT(30), <1>3, FrameIs
  <2>2. pc'[a] \in {"small", "walk"} /\ \A c \in Actors \ {a} : pc'[c] = pc[c]
    BY ZenonT(30), <2>1, GetPageIs, GotoIs
  <2>3. pc'[a] # "split"
    BY ZenonT(30), <2>2
  <2> QED BY ZenonT(30), <2>1, <2>2, <2>3, QuietFrames
<1>4. ASSUME NEW a \in Actors, Walk(a)
      PROVE  FramesInv'
  <2>1. /\ UNCHANGED <<upper, used, booted, split, handed>>
        /\ (\E l \in Int : \E i : GetPage(a, "table", l, i)) \/ Goto(a, "idle") \/ UNCHANGED pc
    BY ZenonT(30), <1>4, WalkIs
  <2>2. CASE UNCHANGED pc
    BY ZenonT(30), <2>1, <2>2, QuietFrames
  <2>3. CASE ~ UNCHANGED pc
    <3>1. pc'[a] \in {"small", "idle"} /\ \A c \in Actors \ {a} : pc'[c] = pc[c]
      BY ZenonT(30), <2>1, <2>3, GetPageIs, GotoIs
    <3>2. pc'[a] # "split"
      BY ZenonT(30), <3>1
    <3> QED BY ZenonT(30), <2>1, <3>1, <3>2, QuietFrames
  <2> QED BY ZenonT(30), <2>2, <2>3
<1>5. ASSUME NEW n \in Nat, NEW kind \in {"read", "write"}, Fault(n, kind)
      PROVE  FramesInv'
  <2>1. /\ UNCHANGED <<upper, used, booted, split, handed>>
        /\ StartMap(PF, PageOf(n), kind) \/ UNCHANGED pc
    BY ZenonT(30), <1>5 DEF Fault, boot
  <2>2. \A a \in Actors : pc'[a] = "split" => pc[a] = "split"
    <3>1. CASE UNCHANGED pc
      BY ZenonT(30), <3>1
    <3>2. CASE StartMap(PF, PageOf(n), kind)
      <4>1. PF \in Actors /\ kind \in Kinds(PF) /\ PageOf(n) \in Nat
        BY ZenonT(30), <1>5, PageOfNat DEF Actors, Kinds
      <4>2. pc'[PF] = "frame" /\ \A c \in Actors \ {PF} : pc'[c] = pc[c]
        BY ZenonT(30), <3>2, <4>1, StartMapIs
      <4> QED BY ZenonT(30), <4>2
    <3> QED BY ZenonT(30), <2>1, <3>1, <3>2
  <2> QED BY ZenonT(30), <2>1, <2>2, QuietFrames
<1>6. ASSUME NEW th \in Threads, NewRegion(th)
      PROVE  FramesInv'
  <2>1. UNCHANGED <<upper, used, booted, split, handed, pc>>
    BY ZenonT(30), <1>6 DEF NewRegion, boot, actor
  <2> QED BY ZenonT(30), <2>1, QuietFrames
<1>7. ASSUME NEW th \in Threads, MapIn(th)
      PROVE  FramesInv'
  <2>1. /\ UNCHANGED <<upper, used, booted, split, handed>>
        /\ pc' = [pc EXCEPT ![th] = "frame"]
    BY ZenonT(30), <1>7 DEF MapIn, StartMap, Goto, boot
  <2>2. th \in Actors /\ DOMAIN pc = Actors
    BY ZenonT(30) DEF Actors, MemTyped, ActorDomains
  <2>3. \A a \in Actors : pc'[a] = "split" => pc[a] = "split"
    BY ZenonT(30), <2>1, <2>2
  <2> QED BY ZenonT(30), <2>1, <2>3, QuietFrames
<1> QED BY ZenonT(30), <1>1, <1>2, <1>3, <1>4, <1>5, <1>6, <1>7,
           TakeFrames, EarlyFrames, ReleaseFrames DEF MemNext

IsClaim(c, w, x, i, S) ==
  c = <<w, x, i, S>> /\ c[1] = w /\ c[2] = x /\ c[4] = S

(* Frames are handed out once, if the stacks fit: see FramesHold.           *)
LEMMA FramesIfStacksFit == StackFacts /\ MemSpec => []FramesDisjoint
(* A claim's parts.                                                         *)
<1>ClaimParts.
  ASSUME NEW w, NEW x, NEW i, NEW S
  PROVE  IsClaim(<<w, x, i, S>>, w, x, i, S)
  BY ZenonT(30), <1>ClaimParts DEF IsClaim
(* The claims there are.                                                    *)
<1>ClaimsAre.
  ASSUME NEW c \in Claims
  PROVE  \/ \E b \in 1 .. Len(upper) : \E i \in 1 .. Len(upper[b].rbs) :
              IsClaim(c, "small", b, i, {upper[b].rbs[i]})
         \/ \E b \in 1 .. Len(upper) : \E i \in 1 .. Len(upper[b].rbl) :
              IsClaim(c, "large", b, i, Span(upper[b].rbl[i]))
         \/ \E a \in Actors : IsClaim(c, "split", a, 0, SplitIn(pc[a], split[a]))
         \/ \E b \in Block : IsClaim(c, "stacks", b, 0, StacksIn(used, booted, b))
         \/ IsClaim(c, "handed", 0, 0, handed)
  <2> USE <1>ClaimsAre
  <2> DEFINE A(b) == {<<"small", b, i, {upper[b].rbs[i]}>> : i \in 1 .. Len(upper[b].rbs)}
             B(b) == {<<"large", b, i, upper[b].rbl[i] .. upper[b].rbl[i] + LargeSize - 1>> :
                        i \in 1 .. Len(upper[b].rbl)}
             C == {<<"split", a, 0, {split[a].page} \cup (split[a].next .. split[a].page + LargeSize - 1)>> :
                     a \in {e \in Actors : pc[e] = "split"}}
             D == {<<"stacks", b, 0, Blocks[b].start .. Blocks[b].start + StackPages(Left(b)) - 1>> :
                     b \in {e \in Block : e <= booted /\ Left(e) > 2}}
             E == {<<"handed", 0, 0, handed>>}
             U == UNION {A(b) \cup B(b) : b \in 1 .. Len(upper)}
  <2>1. Claims = U \cup C \cup D \cup E
    BY ZenonT(30) DEF Claims
  <2>2. c \in U \/ c \in C \/ c \in D \/ c \in E
    <3> HIDE DEF U, C, D, E
    <3> QED BY ZenonT(30), <2>1
  <2>3. c \in U => \E b \in 1 .. Len(upper) : c \in A(b) \/ c \in B(b)
    <3> HIDE DEF A, B
    <3> QED BY ZenonT(30)
  <2>4. ASSUME NEW b, c \in A(b)
        PROVE  \E i \in 1 .. Len(upper[b].rbs) : IsClaim(c, "small", b, i, {upper[b].rbs[i]})
    <3>1. PICK i \in 1 .. Len(upper[b].rbs) : c = <<"small", b, i, {upper[b].rbs[i]}>>
      BY ZenonT(30), <2>4
    <3>2. IsClaim(<<"small", b, i, {upper[b].rbs[i]}>>, "small", b, i, {upper[b].rbs[i]})
      BY ZenonT(30), <1>ClaimParts
    <3> QED BY ZenonT(30), <3>1, <3>2
  <2>5. ASSUME NEW b, c \in B(b)
        PROVE  \E i \in 1 .. Len(upper[b].rbl) : IsClaim(c, "large", b, i, Span(upper[b].rbl[i]))
    <3>1. PICK i \in 1 .. Len(upper[b].rbl) : c = <<"large", b, i, Span(upper[b].rbl[i])>>
      BY ZenonT(30), <2>5 DEF Span
    <3>2. IsClaim(<<"large", b, i, Span(upper[b].rbl[i])>>, "large", b, i, Span(upper[b].rbl[i]))
      BY ZenonT(30), <1>ClaimParts
    <3> QED BY ZenonT(30), <3>1, <3>2
  <2>6. ASSUME c \in C
        PROVE  \E a \in Actors : IsClaim(c, "split", a, 0, SplitIn(pc[a], split[a]))
    <3>1. PICK a \in Actors :
            /\ pc[a] = "split"
            /\ c = <<"split", a, 0, {split[a].page} \cup (split[a].next .. split[a].page + LargeSize - 1)>>
      BY ZenonT(30), <2>6
    <3>2. SplitIn(pc[a], split[a]) = {split[a].page} \cup (split[a].next .. split[a].page + LargeSize - 1)
      BY ZenonT(30), <3>1 DEF SplitIn
    <3>3. PICK S : S = SplitIn(pc[a], split[a])
      BY ZenonT(30)
    <3>4. IsClaim(<<"split", a, 0, S>>, "split", a, 0, S)
      BY ZenonT(30), <1>ClaimParts
    <3>5. c = <<"split", a, 0, S>>
      BY ZenonT(30), <3>1, <3>2, <3>3
    <3> QED BY ZenonT(30), <3>3, <3>4, <3>5
  <2>7. ASSUME c \in D
        PROVE  \E b \in Block : IsClaim(c, "stacks", b, 0, StacksIn(used, booted, b))
    <3>1. PICK b \in Block :
            /\ b <= booted /\ Left(b) > 2
            /\ c = <<"stacks", b, 0, Blocks[b].start .. Blocks[b].start + StackPages(Left(b)) - 1>>
      BY ZenonT(30), <2>7
    <3>2. StacksIn(used, booted, b) = Blocks[b].start .. Blocks[b].start + StackPages(Left(b)) - 1
      BY ZenonT(30), <3>1 DEF StacksIn, Left, LeftOf
    <3>3. PICK S : S = StacksIn(used, booted, b)
      BY ZenonT(30)
    <3>4. IsClaim(<<"stacks", b, 0, S>>, "stacks", b, 0, S)
      BY ZenonT(30), <1>ClaimParts
    <3>5. c = <<"stacks", b, 0, S>>
      BY ZenonT(30), <3>1, <3>2, <3>3
    <3> QED BY ZenonT(30), <3>3, <3>4, <3>5
  <2>8. c \in E => IsClaim(c, "handed", 0, 0, handed)
    BY ZenonT(30), <1>ClaimParts
  <2> HIDE DEF U, A, B, C, D, E
  <2> QED BY ZenonT(30), <2>2, <2>3, <2>4, <2>5, <2>6, <2>7, <2>8
(* A frame claimed has a holder.                                            *)
<1>ClaimHeld.
  ASSUME MemTyped, NEW f, IsHeld(f, upper, used, booted, pc, split, handed),
         NEW c \in Claims
  PROVE  /\ Key(c[1], c[2]) \in Holders /\ c[4] \subseteq f[Key(c[1], c[2])]
  <2> USE <1>ClaimHeld
  <2>1. \A b \in 1 .. Len(upper) : b \in Block
    BY ZenonT(30), StackOf DEF MemTyped
  <2>2. ASSUME NEW b \in 1 .. Len(upper), NEW i \in 1 .. Len(upper[b].rbs),
               IsClaim(c, "small", b, i, {upper[b].rbs[i]})
        PROVE  Key(c[1], c[2]) \in Holders /\ c[4] \subseteq f[Key(c[1], c[2])]
    <3>1. c[1] = "small" /\ c[2] = b /\ c[4] = {upper[b].rbs[i]}
      BY ZenonT(30), <2>2 DEF IsClaim
    <3>2. {upper[b].rbs[i]} \subseteq SmallIn(upper, b)
      BY ZenonT(30) DEF SmallIn, Elems
    <3>3. f[Key("small", b)] = SmallIn(upper, b) /\ Key("small", b) \in Holders
      BY ZenonT(30), <2>1, KeysAre DEF IsHeld
    <3> QED BY ZenonT(30), <3>1, <3>2, <3>3
  <2>3. ASSUME NEW b \in 1 .. Len(upper), NEW i \in 1 .. Len(upper[b].rbl),
               IsClaim(c, "large", b, i, Span(upper[b].rbl[i]))
        PROVE  Key(c[1], c[2]) \in Holders /\ c[4] \subseteq f[Key(c[1], c[2])]
    <3>1. c[1] = "large" /\ c[2] = b /\ c[4] = Span(upper[b].rbl[i])
      BY ZenonT(30), <2>3 DEF IsClaim
    <3>2. Span(upper[b].rbl[i]) \subseteq LargeIn(upper, b)
      BY ZenonT(30) DEF LargeIn, Spread
    <3>3. f[Key("large", b)] = LargeIn(upper, b) /\ Key("large", b) \in Holders
      BY ZenonT(30), <2>1, KeysAre DEF IsHeld
    <3> QED BY ZenonT(30), <3>1, <3>2, <3>3
  <2>4. ASSUME NEW a \in Actors, IsClaim(c, "split", a, 0, SplitIn(pc[a], split[a]))
        PROVE  Key(c[1], c[2]) \in Holders /\ c[4] \subseteq f[Key(c[1], c[2])]
    <3>1. c[1] = "split" /\ c[2] = a /\ c[4] = SplitIn(pc[a], split[a])
      BY ZenonT(30), <2>4 DEF IsClaim
    <3>2. f[Key("split", a)] = SplitIn(pc[a], split[a]) /\ Key("split", a) \in Holders
      BY ZenonT(30), KeysAre DEF IsHeld
    <3> QED BY ZenonT(30), <3>1, <3>2
  <2>5. ASSUME NEW b \in Block, IsClaim(c, "stacks", b, 0, StacksIn(used, booted, b))
        PROVE  Key(c[1], c[2]) \in Holders /\ c[4] \subseteq f[Key(c[1], c[2])]
    <3>1. c[1] = "stacks" /\ c[2] = b /\ c[4] = StacksIn(used, booted, b)
      BY ZenonT(30), <2>5 DEF IsClaim
    <3>2. f[Key("stacks", b)] = StacksIn(used, booted, b) /\ Key("stacks", b) \in Holders
      BY ZenonT(30), KeysAre DEF IsHeld
    <3> QED BY ZenonT(30), <3>1, <3>2
  <2>6. ASSUME IsClaim(c, "handed", 0, 0, handed)
        PROVE  Key(c[1], c[2]) \in Holders /\ c[4] \subseteq f[Key(c[1], c[2])]
    <3>1. c[1] = "handed" /\ c[2] = 0 /\ c[4] = handed
      BY ZenonT(30), <2>6 DEF IsClaim
    <3>2. f[Key("handed", 0)] = handed /\ Key("handed", 0) \in Holders
      BY ZenonT(30), KeysAre DEF IsHeld
    <3> QED BY ZenonT(30), <3>1, <3>2
  <2> QED BY ZenonT(30), <2>2, <2>3, <2>4, <2>5, <2>6, <1>ClaimsAre
(* Two claims of one holder are of different entries of its stack.          *)
<1>ClaimsApart.
  ASSUME FramesInv, NEW c \in Claims, NEW d \in Claims, c # d, c[1] = d[1], c[2] = d[2]
  PROVE  c[4] \cap d[4] = {}
  <2> USE <1>ClaimsApart
  <2>1. ASSUME NEW b \in 1 .. Len(upper), NEW i \in 1 .. Len(upper[b].rbs),
               IsClaim(c, "small", b, i, {upper[b].rbs[i]})
        PROVE  c[4] \cap d[4] = {}
    <3>1. d[1] = "small" /\ d[2] = b /\ c[4] = {upper[b].rbs[i]} /\ c = <<"small", b, i, {upper[b].rbs[i]}>>
      BY ZenonT(30), <2>1 DEF IsClaim
    <3>2. PICK j \in 1 .. Len(upper[b].rbs) : IsClaim(d, "small", b, j, {upper[b].rbs[j]})
      <4>1. \A w, x, k, S : IsClaim(d, w, x, k, S) => w = "small" /\ x = b
        BY ZenonT(30), <3>1 DEF IsClaim
      <4>2. \E x \in 1 .. Len(upper) : \E j \in 1 .. Len(upper[x].rbs) :
              IsClaim(d, "small", x, j, {upper[x].rbs[j]})
        BY ZenonT(30), <4>1, <1>ClaimsAre
      <4> QED BY ZenonT(30), <4>1, <4>2
    <3>3. d[4] = {upper[b].rbs[j]} /\ d = <<"small", b, j, {upper[b].rbs[j]}>>
      BY ZenonT(30), <3>2 DEF IsClaim
    <3>4. i # j
      BY ZenonT(30), <3>1, <3>3
    <3>5. upper[b].rbs[i] # upper[b].rbs[j]
      BY ZenonT(30), <3>4 DEF FramesInv, Distinct
    <3> QED BY ZenonT(30), <3>1, <3>3, <3>5
  <2>2. ASSUME NEW b \in 1 .. Len(upper), NEW i \in 1 .. Len(upper[b].rbl),
               IsClaim(c, "large", b, i, Span(upper[b].rbl[i]))
        PROVE  c[4] \cap d[4] = {}
    <3>1. d[1] = "large" /\ d[2] = b /\ c[4] = Span(upper[b].rbl[i]) /\ c = <<"large", b, i, Span(upper[b].rbl[i])>>
      BY ZenonT(30), <2>2 DEF IsClaim
    <3>2. PICK j \in 1 .. Len(upper[b].rbl) : IsClaim(d, "large", b, j, Span(upper[b].rbl[j]))
      <4>1. \A w, x, k, S : IsClaim(d, w, x, k, S) => w = "large" /\ x = b
        BY ZenonT(30), <3>1 DEF IsClaim
      <4>2. \E x \in 1 .. Len(upper) : \E j \in 1 .. Len(upper[x].rbl) :
              IsClaim(d, "large", x, j, Span(upper[x].rbl[j]))
        BY ZenonT(30), <4>1, <1>ClaimsAre
      <4> QED BY ZenonT(30), <4>1, <4>2
    <3>3. d[4] = Span(upper[b].rbl[j]) /\ d = <<"large", b, j, Span(upper[b].rbl[j])>>
      BY ZenonT(30), <3>2 DEF IsClaim
    <3>4. i # j
      BY ZenonT(30), <3>1, <3>3
    <3>5. Span(upper[b].rbl[i]) \cap Span(upper[b].rbl[j]) = {}
      BY ZenonT(30), <3>4 DEF FramesInv, Spaced
    <3> QED BY ZenonT(30), <3>1, <3>3, <3>5
  <2>3. ASSUME NEW a \in Actors, IsClaim(c, "split", a, 0, SplitIn(pc[a], split[a]))
        PROVE  FALSE
    <3>1. d[1] = "split" /\ d[2] = a /\ c = <<"split", a, 0, SplitIn(pc[a], split[a])>>
      BY ZenonT(30), <2>3 DEF IsClaim
    <3>2. IsClaim(d, "split", a, 0, SplitIn(pc[a], split[a]))
      BY ZenonT(30), <3>1, <1>ClaimsAre DEF IsClaim
    <3> QED BY ZenonT(30), <3>1, <3>2 DEF IsClaim
  <2>4. ASSUME NEW b \in Block, IsClaim(c, "stacks", b, 0, StacksIn(used, booted, b))
        PROVE  FALSE
    <3>1. d[1] = "stacks" /\ d[2] = b /\ c = <<"stacks", b, 0, StacksIn(used, booted, b)>>
      BY ZenonT(30), <2>4 DEF IsClaim
    <3>2. IsClaim(d, "stacks", b, 0, StacksIn(used, booted, b))
      BY ZenonT(30), <3>1, <1>ClaimsAre DEF IsClaim
    <3> QED BY ZenonT(30), <3>1, <3>2 DEF IsClaim
  <2>5. ASSUME IsClaim(c, "handed", 0, 0, handed)
        PROVE  FALSE
    <3>1. d[1] = "handed" /\ c = <<"handed", 0, 0, handed>>
      BY ZenonT(30), <2>5 DEF IsClaim
    <3>2. IsClaim(d, "handed", 0, 0, handed)
      BY ZenonT(30), <3>1, <1>ClaimsAre DEF IsClaim
    <3> QED BY ZenonT(30), <3>1, <3>2 DEF IsClaim
  <2> QED BY ZenonT(30), <2>1, <2>2, <2>3, <2>4, <2>5, <1>ClaimsAre
<1>1. MemTyped /\ FramesInv => FramesDisjoint
  <2> SUFFICES ASSUME MemTyped, FramesInv, NEW c \in Claims, NEW d \in Claims, c # d
               PROVE  c[4] \cap d[4] = {}
    BY ZenonT(30) DEF FramesDisjoint
  <2>1. PICK f : /\ f = HeldOf(upper, used, booted, pc, split, handed)
                 /\ IsHeld(f, upper, used, booted, pc, split, handed)
    BY ZenonT(30), HeldIs
  <2>2. Separate(f)
    BY ZenonT(30), <2>1 DEF FramesInv, Held
  <2>3. PICK k \in Holders : k = Key(c[1], c[2]) /\ c[4] \subseteq f[k]
    BY ZenonT(30), <2>1, <1>ClaimHeld
  <2>4. PICK l \in Holders : l = Key(d[1], d[2]) /\ d[4] \subseteq f[l]
    BY ZenonT(30), <2>1, <1>ClaimHeld
  <2>5. CASE k # l
    <3>1. f[k] \cap f[l] = {}
      BY ZenonT(30), <2>2, <2>5 DEF Separate
    <3> QED BY ZenonT(30), <2>3, <2>4, <3>1
  <2>6. CASE k = l
    <3>1. c[1] = d[1] /\ c[2] = d[2]
      <4>1. PICK w, x, y, z : w = c[1] /\ x = c[2] /\ y = d[1] /\ z = d[2]
        BY ZenonT(30)
      <4>2. Key(w, x) = Key(y, z)
        BY ZenonT(30), <2>3, <2>4, <2>6, <4>1
      <4>3. w = y /\ x = z
        BY <4>2, KeyIs
      <4> QED BY ZenonT(30), <4>1, <4>3
    <3> QED BY ZenonT(30), <3>1, <1>ClaimsApart
  <2> QED BY ZenonT(30), <2>5, <2>6
<1>2. MemInit => RegionsInv
  BY ZenonT(30), InitRegions DEF MemInit
<1>3. ASSUME StackFacts PROVE MemSpec => []FramesDisjoint
  <2>1. RegionsInv /\ MemTyped /\ FramesInv /\ [MemNext]_memvars
        => RegionsInv' /\ MemTyped' /\ FramesInv'
    BY ZenonT(30), <1>3, MemRegions, NextTyped, NextFrames
  <2> QED BY <1>1, <1>2, <2>1, InitTyped, InitFrames, PTL DEF MemSpec
<1> QED BY ZenonT(30), <1>3

-----------------------------------------------------------------------------
(* The frames of pages.  A page that can be written, a page table and the   *)
(* frame the page fault handler is about to map for a write each have a     *)
(* frame of their own, and it is not the blank page.                        *)

OwnPages(pg) ==
  \A v, u \in DOMAIN pg :
    v # u /\ pg[v].writeable /\ pg[v].frame # Device => pg[u].frame # pg[v].frame

PrivateOf(tb, pg, b, h) ==
  /\ b # None => b \in h
  /\ \A v \in DOMAIN pg : pg[v].writeable => pg[v].frame \in (h \ {b}) \cup {Device}
  /\ \A v \in DOMAIN pg : ~ pg[v].writeable => b # None /\ pg[v].frame = b
  /\ \A t \in DOMAIN tb : tb[t] \in h \ {b}
  /\ \A t, s \in DOMAIN tb : tb[t] = tb[s] => t = s
  /\ \A v \in DOMAIN pg, t \in DOMAIN tb :
       pg[v].writeable /\ pg[v].frame # Device => tb[t] # pg[v].frame
  /\ OwnPages(pg)

Own(x, tb, pg, b, h) ==
  /\ x \in h /\ x # b
  /\ \A t \in DOMAIN tb : tb[t] # x
  /\ \A v \in DOMAIN pg : pg[v].frame # x

(* A frame has been found for the page that is being mapped. *)
Mapping(p, n) == p = "walk" \/ (p \in Taking /\ n.what = "table")

ActorPrivate(a, p, n, m, tb, pg, b, h) ==
  /\ a # PF /\ p \in Taking => n.what = "table"
  /\ a # PF /\ Mapping(p, n) => m.frame = Device
  /\ a = PF /\ p \in Taking /\ n.what = "page" => m.kind = "write"
  /\ a = PF /\ p \in Taking /\ n.what = "blank" => m.kind = "read" /\ b = None
  /\ a = PF /\ Mapping(p, n) /\ m.kind = "read" => b # None /\ m.frame = b
  /\ a = PF /\ Mapping(p, n) /\ m.kind = "write" => Own(m.frame, tb, pg, b, h)

PrivateInv ==
  /\ PrivateOf(tables, pages, bp, handed)
  /\ \A a \in Actors : ActorPrivate(a, pc[a], need[a], map[a], tables, pages, bp, handed)

(* More frames may be handed out ...                                        *)
LEMMA PrivateMore ==
  ASSUME NEW tb, NEW pg, NEW b, NEW h, NEW i, h \subseteq i
  PROVE  /\ PrivateOf(tb, pg, b, h) => PrivateOf(tb, pg, b, i)
         /\ \A x : Own(x, tb, pg, b, h) => Own(x, tb, pg, b, i)
BY ZenonT(30) DEF PrivateOf, Own

(* ... a new one of them is nobody's ...                                    *)
LEMMA PrivateNew ==
  ASSUME NEW tb, NEW pg, NEW b, NEW h, h \subseteq Nat, b \in Nat \cup {None},
         PrivateOf(tb, pg, b, h), NEW x \in Nat, x \notin h
  PROVE  Own(x, tb, pg, b, h \cup {x})
<1>1. x # None /\ x # Device
  BY ZenonT(30), FramesAssumption
<1>2. x # b
  BY ZenonT(30), <1>1 DEF PrivateOf
<1>3. \A t \in DOMAIN tb : tb[t] # x
  BY ZenonT(30) DEF PrivateOf
<1>4. ASSUME NEW v \in DOMAIN pg PROVE pg[v].frame # x
  BY ZenonT(30), <1>1, <1>2 DEF PrivateOf
<1> QED BY ZenonT(30), <1>2, <1>3, <1>4 DEF Own

(* Pages that remain have frames of their own.                              *)
LEMMA FewerPages ==
  ASSUME NEW pg, NEW pq, OwnPages(pg), DOMAIN pq \subseteq DOMAIN pg,
         \A v \in DOMAIN pq : pq[v] = pg[v]
  PROVE  OwnPages(pq)
<1> SUFFICES ASSUME NEW v \in DOMAIN pq, NEW u \in DOMAIN pq, v # u,
                    pq[v].writeable, pq[v].frame # Device
             PROVE  pq[u].frame # pq[v].frame
  BY ZenonT(30) DEF OwnPages
<1>1. pq[v] = pg[v] /\ pq[u] = pg[u] /\ v \in DOMAIN pg /\ u \in DOMAIN pg
  BY ZenonT(30)
<1> QED BY ZenonT(30), <1>1 DEF OwnPages

(* ... the first of them may become the blank page ...                      *)
LEMMA PrivateBlank ==
  ASSUME NEW tb, NEW pg, NEW h, h \subseteq Nat, PrivateOf(tb, pg, None, h),
         NEW x \in Nat, x \notin h, NEW pq,
         DOMAIN pq \subseteq DOMAIN pg, \A v \in DOMAIN pq : pq[v] = pg[v]
  PROVE  PrivateOf(tb, pq, x, h \cup {x})
<1>1. \A v \in DOMAIN pq : pq[v].writeable /\ pq[v].frame \in h \cup {Device}
  BY ZenonT(30) DEF PrivateOf
<1>2. /\ \A t \in DOMAIN tb : tb[t] \in h
      /\ \A t, s \in DOMAIN tb : tb[t] = tb[s] => t = s
  BY ZenonT(30) DEF PrivateOf
<1>3. OwnPages(pq)
  BY ZenonT(30), FewerPages DEF PrivateOf
<1>4. \A v \in DOMAIN pq, t \in DOMAIN tb :
        pq[v].writeable /\ pq[v].frame # Device => tb[t] # pq[v].frame
  <2>1. \A v \in DOMAIN pg, t \in DOMAIN tb :
          pg[v].writeable /\ pg[v].frame # Device => tb[t] # pg[v].frame
    BY ZenonT(30) DEF PrivateOf
  <2> QED BY ZenonT(30), <2>1
<1>5. x # Device
  BY ZenonT(30), FramesAssumption
<1> QED BY ZenonT(30), <1>1, <1>2, <1>3, <1>4, <1>5 DEF PrivateOf

(* ... or a page table, of which the pages below are gone ...               *)
LEMMA PrivateTable ==
  ASSUME NEW tb, NEW pg, NEW b, NEW h, h \subseteq Nat, b \in Nat \cup {None},
         PrivateOf(tb, pg, b, h), NEW x \in Nat, x \notin h, NEW tc, NEW pq, NEW t,
         \A s \in DOMAIN tc : (s = t /\ tc[s] = x) \/ (s \in DOMAIN tb /\ tc[s] = tb[s]),
         DOMAIN pq \subseteq DOMAIN pg, \A v \in DOMAIN pq : pq[v] = pg[v]
  PROVE  /\ PrivateOf(tc, pq, b, h \cup {x})
         /\ \A y : Own(y, tb, pg, b, h) => Own(y, tc, pq, b, h \cup {x})
<1>1. Own(x, tb, pg, b, h \cup {x})
  BY ZenonT(30), PrivateNew
<1>2. /\ \A s \in DOMAIN tc : tc[s] \in (h \cup {x}) \ {b}
      /\ \A r, s \in DOMAIN tc : tc[r] = tc[s] => r = s
  <2>1. \A s \in DOMAIN tb : tb[s] \in h \ {b} /\ tb[s] # x
    BY ZenonT(30), <1>1 DEF PrivateOf, Own
  <2>2. \A r, s \in DOMAIN tb : tb[r] = tb[s] => r = s
    BY ZenonT(30) DEF PrivateOf
  <2>3. x # b
    BY ZenonT(30), <1>1 DEF Own
  <2>4. \A s \in DOMAIN tc : tc[s] \in (h \cup {x}) \ {b}
    BY ZenonT(30), <2>1, <2>3
  <2>5. \A r, s \in DOMAIN tc : tc[r] = tc[s] => r = s
    BY ZenonT(30), <2>1, <2>2
  <2> QED BY ZenonT(30), <2>4, <2>5
<1>3. /\ b # None => b \in h \cup {x}
      /\ \A v \in DOMAIN pq : pq[v].writeable => pq[v].frame \in ((h \cup {x}) \ {b}) \cup {Device}
      /\ \A v \in DOMAIN pq : ~ pq[v].writeable => b # None /\ pq[v].frame = b
  BY ZenonT(30) DEF PrivateOf
<1>4. OwnPages(pq)
  BY ZenonT(30), FewerPages DEF PrivateOf
<1>5. \A v \in DOMAIN pq, s \in DOMAIN tc :
        pq[v].writeable /\ pq[v].frame # Device => tc[s] # pq[v].frame
  <2>1. \A v \in DOMAIN pg : pg[v].frame # x
    BY ZenonT(30), <1>1 DEF Own
  <2>2. \A v \in DOMAIN pg, s \in DOMAIN tb :
          pg[v].writeable /\ pg[v].frame # Device => tb[s] # pg[v].frame
    BY ZenonT(30) DEF PrivateOf
  <2> QED BY ZenonT(30), <2>1, <2>2
<1>6. ASSUME NEW y, Own(y, tb, pg, b, h) PROVE Own(y, tc, pq, b, h \cup {x})
  BY ZenonT(30), <1>6 DEF Own
<1> QED BY ZenonT(30), <1>2, <1>3, <1>4, <1>5, <1>6 DEF PrivateOf

(* ... and a page may be mapped to a frame that is its own, the device's or *)
(* the blank one.                                                           *)
LEMMA PrivatePut ==
  ASSUME NEW tb, NEW pg, NEW b, NEW h, h \subseteq Nat, b \in Nat \cup {None},
         PrivateOf(tb, pg, b, h), NEW v, NEW e, NEW w \in BOOLEAN,
         e.writeable <=> w,
         \/ w /\ e.frame = Device
         \/ w /\ Own(e.frame, tb, pg, b, h)
         \/ ~ w /\ b # None /\ e.frame = b
  PROVE  PrivateOf(tb, Put(pg, v, e), b, h)
<1>1. PICK pq : pq = Put(pg, v, e)
  BY ZenonT(30)
<1>2. DOMAIN pq = DOMAIN pg \cup {v} /\ pq[v] = e /\ \A u \in DOMAIN pg \ {v} : pq[u] = pg[u]
  BY ZenonT(30), <1>1 DEF Put
<1>3. pq[v].writeable <=> w
  BY ZenonT(30), <1>2
<1>4. \A u \in DOMAIN pq : u = v \/ (u # v /\ u \in DOMAIN pg /\ pq[u] = pg[u])
  BY ZenonT(30), <1>2
<1>5. /\ b # None => b \in h
      /\ \A t \in DOMAIN tb : tb[t] \in h \ {b}
      /\ \A t, s \in DOMAIN tb : tb[t] = tb[s] => t = s
  BY ZenonT(30) DEF PrivateOf
<1>6. \A u \in DOMAIN pq : pq[u].writeable => pq[u].frame \in (h \ {b}) \cup {Device}
  <2>1. \A u \in DOMAIN pg : pg[u].writeable => pg[u].frame \in (h \ {b}) \cup {Device}
    BY ZenonT(30) DEF PrivateOf
  <2>2. w => e.frame \in (h \ {b}) \cup {Device}
    BY ZenonT(30) DEF Own
  <2> QED BY ZenonT(30), <1>2, <1>3, <1>4, <2>1, <2>2
<1>7. \A u \in DOMAIN pq : ~ pq[u].writeable => b # None /\ pq[u].frame = b
  <2>1. \A u \in DOMAIN pg : ~ pg[u].writeable => b # None /\ pg[u].frame = b
    BY ZenonT(30) DEF PrivateOf
  <2> QED BY ZenonT(30), <1>2, <1>3, <1>4, <2>1
<1>8. \A u \in DOMAIN pq, t \in DOMAIN tb :
        pq[u].writeable /\ pq[u].frame # Device => tb[t] # pq[u].frame
  <2>1. \A u \in DOMAIN pg, t \in DOMAIN tb :
          pg[u].writeable /\ pg[u].frame # Device => tb[t] # pg[u].frame
    BY ZenonT(30) DEF PrivateOf
  <2>2. w /\ e.frame # Device => \A t \in DOMAIN tb : tb[t] # e.frame
    BY ZenonT(30) DEF Own
  <2> QED BY ZenonT(30), <1>2, <1>3, <1>4, <2>1, <2>2
<1>9. OwnPages(pq)
  <2> SUFFICES ASSUME NEW y \in DOMAIN pq, NEW u \in DOMAIN pq, y # u,
                      pq[y].writeable, pq[y].frame # Device
               PROVE  pq[u].frame # pq[y].frame
    BY ZenonT(30) DEF OwnPages
  <2>1. CASE y = v
    <3>1. u \in DOMAIN pg /\ pq[u] = pg[u]
      BY ZenonT(30), <1>4, <2>1
    <3>2. Own(e.frame, tb, pg, b, h)
      BY ZenonT(30), <1>2, <1>3, <2>1
    <3> QED BY ZenonT(30), <1>2, <2>1, <3>1, <3>2 DEF Own
  <2>2. CASE u = v
    <3>1. y \in DOMAIN pg /\ pq[y] = pg[y]
      BY ZenonT(30), <1>4, <2>2
    <3>2. pg[y].frame \in h \ {b}
      BY ZenonT(30), <3>1 DEF PrivateOf
    <3>3. w /\ Own(e.frame, tb, pg, b, h) => pg[y].frame # e.frame
      BY ZenonT(30), <3>1 DEF Own
    <3>4. e.frame = b => pg[y].frame # e.frame
      BY ZenonT(30), <3>2
    <3>5. e.frame = Device => pg[y].frame # e.frame
      BY ZenonT(30), <3>1
    <3> QED BY ZenonT(30), <1>2, <2>2, <3>1, <3>3, <3>4, <3>5
  <2>3. CASE y # v /\ u # v
    <3>1. y \in DOMAIN pg /\ pq[y] = pg[y] /\ u \in DOMAIN pg /\ pq[u] = pg[u]
      BY ZenonT(30), <1>4, <2>3
    <3>2. OwnPages(pg)
      BY ZenonT(30) DEF PrivateOf
    <3> QED BY ZenonT(30), <3>1, <3>2 DEF OwnPages
  <2> QED BY ZenonT(30), <2>1, <2>2, <2>3
<1>10. PrivateOf(tb, pq, b, h)
  BY ZenonT(30), <1>5, <1>6, <1>7, <1>8, <1>9 DEF PrivateOf
<1> QED BY ZenonT(30), <1>1, <1>10

(* A frame that is owned is not another page's when that page is mapped to  *)
(* a device.                                                                *)
LEMMA OwnPut ==
  ASSUME NEW tb, NEW pg, NEW b, NEW h, NEW y, Own(y, tb, pg, b, h), NEW v, NEW e, e.frame # y
  PROVE  Own(y, tb, Put(pg, v, e), b, h)
<1>1. PICK pq : pq = Put(pg, v, e)
  BY ZenonT(30)
<1>2. DOMAIN pq = DOMAIN pg \cup {v} /\ pq[v] = e /\ \A u \in DOMAIN pg \ {v} : pq[u] = pg[u]
  BY ZenonT(30), <1>1 DEF Put
<1>3. \A u \in DOMAIN pq : pq[u].frame # y
  BY ZenonT(30), <1>2 DEF Own
<1>4. Own(y, tb, pq, b, h)
  BY ZenonT(30), <1>3 DEF Own
<1> QED BY ZenonT(30), <1>1, <1>4

(* An actor that takes a step of its own keeps the pages private when it is *)
(* in order afterwards and, if it is a thread, takes no frame that the page *)
(* fault handler has.                                                       *)
LEMMA PrivateStep ==
  ASSUME PrivateInv, NEW a \in Actors, PrivateOf(tables, pages, bp, handed)',
         ActorPrivate(a, pc'[a], need'[a], map'[a], tables', pages', bp', handed'),
         \A c \in Actors \ {a} : pc'[c] = pc[c] /\ map'[c] = map[c] /\ need'[c] = need[c],
         a # PF => /\ bp' = bp
                   /\ \A x : Own(x, tables, pages, bp, handed)
                               => Own(x, tables', pages', bp', handed')
  PROVE  PrivateInv'
<1>1. ASSUME NEW c \in Actors
      PROVE  ActorPrivate(c, pc'[c], need'[c], map'[c], tables', pages', bp', handed')
  <2>1. CASE c = a
    BY ZenonT(30), <2>1
  <2>2. CASE c # a
    <3>1. pc'[c] = pc[c] /\ map'[c] = map[c] /\ need'[c] = need[c]
      BY ZenonT(30), <2>2
    <3>2. ActorPrivate(c, pc[c], need[c], map[c], tables, pages, bp, handed)
      BY ZenonT(30) DEF PrivateInv
    <3>3. c = PF => a # PF
      BY ZenonT(30), <2>2
    <3>4. ActorPrivate(c, pc[c], need[c], map[c], tables', pages', bp', handed')
      BY ZenonT(30), <3>2, <3>3 DEF ActorPrivate
    <3> QED BY ZenonT(30), <3>1, <3>4
  <2> QED BY ZenonT(30), <2>1, <2>2
<1> QED BY ZenonT(30), <1>1 DEF PrivateInv

(* A page that is got was nobody's: an actor that gets one keeps the pages  *)
(* private.                                                                 *)
LEMMA GotPrivate ==
  ASSUME MemTyped, PrivateInv, NEW a \in Actors, NEW x \in Nat, x \notin handed,
         pc[a] \in Taking, Got(a, x), need' = need
  PROVE  PrivateInv'
<1>1. /\ handed' = handed \cup {x} /\ pc'[a] = "walk"
      /\ map'[a].kind = map[a].kind
      /\ \A c \in Actors \ {a} : pc'[c] = pc[c] /\ map'[c] = map[c] /\ need'[c] = need[c]
      /\ DOMAIN pages' \subseteq DOMAIN pages
      /\ \A v \in DOMAIN pages' : pages'[v] = pages[v]
  BY ZenonT(30), GotIs
<1>2. /\ handed \subseteq Nat /\ bp \in Nat \cup {None} /\ need[a].what \in {"page", "blank", "table"}
      /\ map[a].kind \in Kinds(a)
  <2>1. ActorOK(a) /\ pc[a] # "idle"
    BY ZenonT(30) DEF MemTyped, Taking
  <2>2. IsNeed(need[a]) /\ map[a] \in Maps(a)
    BY ZenonT(30), <2>1 DEF ActorOK
  <2> QED BY ZenonT(30), <2>2, NeedFields, MapFields DEF MemTyped, BootTyped
<1>3. /\ PrivateOf(tables, pages, bp, handed)
      /\ ActorPrivate(a, pc[a], need[a], map[a], tables, pages, bp, handed)
  BY ZenonT(30) DEF PrivateInv
<1>4. pc'[a] \notin Taking /\ Mapping(pc'[a], need'[a])
  BY ZenonT(30), <1>1 DEF Taking, Mapping
<1>5. ASSUME bp' = bp, NEW t,
             \A s \in DOMAIN tables' : (s = t /\ tables'[s] = x)
                                       \/ (s \in DOMAIN tables /\ tables'[s] = tables[s])
      PROVE  /\ PrivateOf(tables, pages, bp, handed)'
             /\ \A y : Own(y, tables, pages, bp, handed)
                         => Own(y, tables', pages', bp', handed')
  <2>1. /\ PrivateOf(tables', pages', bp, handed \cup {x})
        /\ \A y : Own(y, tables, pages, bp, handed) => Own(y, tables', pages', bp, handed \cup {x})
    BY ZenonT(30), <1>1, <1>2, <1>3, <1>5, PrivateTable
  <2> QED BY ZenonT(30), <1>1, <1>5, <2>1
<1>6. CASE need[a].what = "table"
  <2>1. bp' = bp /\ map'[a].frame = map[a].frame
    BY ZenonT(30), <1>6, GotIs
  <2>2. PICK t : \A s \in DOMAIN tables' : (s = t /\ tables'[s] = x)
                                       \/ (s \in DOMAIN tables /\ tables'[s] = tables[s])
    <3>1. TableAt(tables, tables', x)
      BY ZenonT(30), <1>6, GotIs
    <3>2. PICK t : \A s \in DOMAIN tables' :
            \/ s = t /\ tables'[s] = x
            \/ s # t /\ s \in DOMAIN tables /\ tables'[s] = tables[s]
      BY ZenonT(30), <3>1 DEF TableAt
    <3>3. \A s \in DOMAIN tables' : (s = t /\ tables'[s] = x)
                                   \/ (s \in DOMAIN tables /\ tables'[s] = tables[s])
      BY ZenonT(30), <3>2
    <3> QED BY ZenonT(30), <3>3
  <2>3. /\ PrivateOf(tables, pages, bp, handed)'
        /\ \A y : Own(y, tables, pages, bp, handed) => Own(y, tables', pages', bp', handed')
    BY ZenonT(30), <1>5, <2>1, <2>2
  <2>4. Mapping(pc[a], need[a])
    BY ZenonT(30), <1>6 DEF Mapping
  <2>5. ActorPrivate(a, pc'[a], need'[a], map'[a], tables', pages', bp', handed')
    <3>1. /\ a # PF => map'[a].frame = Device
          /\ a = PF /\ map'[a].kind = "read" => bp' # None /\ map'[a].frame = bp'
          /\ a = PF /\ map'[a].kind = "write" => Own(map'[a].frame, tables', pages', bp', handed')
      BY ZenonT(30), <1>1, <1>3, <2>1, <2>3, <2>4 DEF ActorPrivate
    <3> QED BY ZenonT(30), <1>4, <3>1 DEF ActorPrivate
  <2> QED BY ZenonT(30), <1>1, <2>1, <2>3, <2>5, PrivateStep
<1>7. CASE need[a].what = "page"
  <2>1. bp' = bp /\ map'[a].frame = x /\ tables' = tables /\ need[a].what # "table"
    BY ZenonT(30), <1>7, GotIs
  <2>2. a = PF /\ map[a].kind = "write" /\ map[a].kind # "read"
    <3>1. a = PF
      BY ZenonT(30), <1>3, <2>1 DEF ActorPrivate
    <3>2. map[a].kind = "write"
      BY ZenonT(30), <1>3, <1>7, <3>1 DEF ActorPrivate
    <3> QED BY ZenonT(30), <3>1, <3>2
  <2>3. PrivateOf(tables, pages, bp, handed)'
    BY ZenonT(30), <1>5, <2>1
  <2>4. Own(x, tables, pages, bp, handed \cup {x})
    BY ZenonT(30), <1>2, <1>3, PrivateNew
  <2>5. Own(x, tables', pages', bp', handed')
    BY ZenonT(30), <1>1, <2>1, <2>4 DEF Own
  <2>6. ActorPrivate(a, pc'[a], need'[a], map'[a], tables', pages', bp', handed')
    BY ZenonT(30), <1>1, <1>4, <2>1, <2>2, <2>5 DEF ActorPrivate
  <2> QED BY ZenonT(30), <1>1, <2>2, <2>3, <2>6, PrivateStep
<1>8. CASE need[a].what = "blank"
  <2>1. bp' = x /\ map'[a].frame = x /\ tables' = tables /\ need[a].what # "table" /\ x # None
    BY <1>8, GotIs, FramesAssumption
  <2>2. a = PF /\ map[a].kind = "read" /\ bp = None /\ map[a].kind # "write"
    <3>1. a = PF
      BY ZenonT(30), <1>3, <2>1 DEF ActorPrivate
    <3>2. map[a].kind = "read" /\ bp = None
      BY ZenonT(30), <1>3, <1>8, <3>1 DEF ActorPrivate
    <3> QED BY ZenonT(30), <3>1, <3>2
  <2>3. PrivateOf(tables, pages', x, handed \cup {x})
    BY ZenonT(30), <1>1, <1>2, <1>3, <2>2, PrivateBlank
  <2>4. PrivateOf(tables, pages, bp, handed)'
    BY ZenonT(30), <1>1, <2>1, <2>3
  <2>5. ActorPrivate(a, pc'[a], need'[a], map'[a], tables', pages', bp', handed')
    BY ZenonT(30), <1>1, <1>4, <2>1, <2>2 DEF ActorPrivate
  <2> QED BY ZenonT(30), <1>1, <2>2, <2>4, <2>5, PrivateStep
<1> QED BY ZenonT(30), <1>2, <1>6, <1>7, <1>8

(* Steps that only hand frames out, or stop looking for one, keep it.       *)
LEMMA QuietPrivate ==
  ASSUME MemTyped, PrivateInv, UNCHANGED <<bp, tables, pages>>, handed \subseteq handed',
         \A a \in Actors : \/ pc'[a] \notin Taking /\ pc'[a] # "walk"
                           \/ /\ UNCHANGED <<map, need>>
                              /\ (pc'[a] = "walk" => pc[a] = "walk")
                              /\ (pc'[a] \in Taking => pc[a] \in Taking)
                           \/ pc'[a] = pc[a] /\ map'[a] = map[a] /\ need'[a] = need[a]
  PROVE  PrivateInv'
<1>1. /\ PrivateOf(tables, pages, bp, handed)'
      /\ \A x : Own(x, tables, pages, bp, handed) => Own(x, tables', pages', bp', handed')
  BY ZenonT(30), PrivateMore DEF PrivateInv
<1>2. ASSUME NEW a \in Actors
      PROVE  ActorPrivate(a, pc'[a], need'[a], map'[a], tables', pages', bp', handed')
  <2>1. ActorPrivate(a, pc[a], need[a], map[a], tables, pages, bp, handed)
    BY ZenonT(30) DEF PrivateInv
  <2>2. CASE pc'[a] \notin Taking /\ pc'[a] # "walk"
    BY ZenonT(30), <2>2 DEF ActorPrivate, Mapping
  <2>3. CASE /\ map'[a] = map[a] /\ need'[a] = need[a]
             /\ (pc'[a] = "walk" => pc[a] = "walk") /\ (pc'[a] \in Taking => pc[a] \in Taking)
    <3>1. Mapping(pc'[a], need[a]) => Mapping(pc[a], need[a])
      BY ZenonT(30), <2>3 DEF Mapping
    <3>2. ActorPrivate(a, pc'[a], need[a], map[a], tables, pages, bp, handed)
      BY ZenonT(30), <2>1, <2>3, <3>1 DEF ActorPrivate
    <3>3. ActorPrivate(a, pc'[a], need[a], map[a], tables', pages', bp', handed')
      BY ZenonT(30), <1>1, <3>2 DEF ActorPrivate
    <3> QED BY ZenonT(30), <2>3, <3>3
  <2> QED BY ZenonT(30), <2>2, <2>3
<1> QED BY ZenonT(30), <1>1, <1>2 DEF PrivateInv

(* A page that is about to be got has not been handed out.                  *)
LEMMA NotHanded ==
  ASSUME FramesInv, NEW k \in Holders, k # Key("handed", 0), NEW x, NEW f,
         IsHeld(f, upper, used, booted, pc, split, handed), Separate(f), x \in f[k]
  PROVE  x \notin handed
<1>1. Key("handed", 0) \in Holders
  BY ZenonT(30), KeysAre
<1>2. f[Key("handed", 0)] = handed
  BY ZenonT(30) DEF IsHeld
<1> QED BY ZenonT(30), <1>1, <1>2 DEF Separate

(* The first of the small pages and the first page of one being split.      *)
LEMMA FreshPages ==
  ASSUME MemTyped, FramesInv
  PROVE  /\ \A b \in 1 .. Len(upper) :
              upper[b].rbs # << >> =>
                Head(upper[b].rbs) \in Nat /\ Head(upper[b].rbs) \notin handed
         /\ \A a \in Actors : pc[a] = "split" => split[a].page \notin handed
<1>1. PICK f : /\ f = HeldOf(upper, used, booted, pc, split, handed)
               /\ IsHeld(f, upper, used, booted, pc, split, handed)
  BY ZenonT(30), HeldIs
<1>2. Separate(f)
  BY ZenonT(30), <1>1 DEF FramesInv, Held
<1>3. ASSUME NEW b \in 1 .. Len(upper), upper[b].rbs # << >>, NEW x, x = Head(upper[b].rbs)
      PROVE  x \in Nat /\ x \notin handed
  <2>1. b \in Block /\ upper[b].rbs \in Seq(Nat)
    BY ZenonT(30), <1>3, StackOf DEF MemTyped
  <2>2. Distinct(upper[b].rbs)
    BY ZenonT(30), <1>3 DEF FramesInv
  <2>3. x \in Elems(upper[b].rbs) /\ x \in Nat
    BY ZenonT(30), <1>3, <2>1, <2>2, TailElems, HeadTail
  <2>4. x \in SmallIn(upper, b)
    BY ZenonT(30), <1>3, <2>3 DEF SmallIn
  <2>5. x \in f[Key("small", b)]
    BY ZenonT(30), <1>1, <2>1, <2>4 DEF IsHeld
  <2>6. Key("small", b) \in Holders /\ Key("small", b) # Key("handed", 0)
    BY <2>1, KeysAre, KeyIs
  <2> QED BY ZenonT(30), <1>1, <1>2, <2>3, <2>5, <2>6, NotHanded
<1>4. ASSUME NEW a \in Actors, pc[a] = "split"
      PROVE  split[a].page \notin handed
  <2>1. IsSplit(split[a])
    BY ZenonT(30), <1>4 DEF MemTyped, ActorOK
  <2>2. PICK x \in Nat, n \in Nat : x = split[a].page /\ n = split[a].next /\ x < n /\ n <= x + LargeSize
    BY ZenonT(30), <2>1 DEF IsSplit
  <2>3. x \in SplitIn(pc[a], split[a])
    BY ZenonT(30), <1>4, <2>2, FramesAssumption DEF SplitIn, Span
  <2>4. x \in f[Key("split", a)]
    BY ZenonT(30), <1>1, <2>3 DEF IsHeld
  <2>5. Key("split", a) \in Holders /\ Key("split", a) # Key("handed", 0)
    BY KeysAre, KeyIs
  <2> QED BY ZenonT(30), <1>1, <1>2, <2>2, <2>4, <2>5, NotHanded
<1> QED BY ZenonT(30), <1>3, <1>4

(* Small, Large and Split keep the pages private.                           *)
LEMMA TakePrivate ==
  ASSUME MemTyped, FramesInv, PrivateInv, NEW a \in Actors, Small(a) \/ Large(a) \/ Split(a)
  PROVE  PrivateInv'
<1>1. ASSUME NEW p \in {"stuck", "small", "large", "split"}, Goto(a, p), pc[a] \in Taking,
             UNCHANGED <<map, need, bp, tables, pages, handed>>
      PROVE  PrivateInv'
  <2>1. pc'[a] = p /\ \A c \in Actors \ {a} : pc'[c] = pc[c]
    BY ZenonT(30), <1>1, GotoIs
  <2>2. pc'[a] # "walk"
    BY ZenonT(30), <1>1, <2>1
  <2>3. ASSUME NEW c \in Actors
        PROVE  /\ pc'[c] = "walk" => pc[c] = "walk"
               /\ pc'[c] \in Taking => pc[c] \in Taking
    BY ZenonT(30), <1>1, <2>1, <2>2
  <2> QED BY ZenonT(30), <1>1, <2>3, QuietPrivate
<1>2. CASE Small(a)
  <2>1. pc[a] \in Taking /\ need' = need
    BY ZenonT(30), <1>2, SmallIs
  <2>2. \/ \E p \in {"stuck", "large"} : Goto(a, p) /\ UNCHANGED <<map, bp, tables, pages, handed>>
        \/ \E x : /\ x = Head(upper[block[a]].rbs) /\ block[a] \in 1 .. Len(upper)
                  /\ upper[block[a]].rbs # << >> /\ Got(a, x)
    BY ZenonT(30), <1>2, SmallIs
  <2>3. ASSUME NEW x, x = Head(upper[block[a]].rbs), block[a] \in 1 .. Len(upper),
               upper[block[a]].rbs # << >>, Got(a, x)
        PROVE  PrivateInv'
    <3>1. x \in Nat /\ x \notin handed
      BY ZenonT(30), <2>3, FreshPages
    <3> QED BY ZenonT(30), <2>1, <2>3, <3>1, GotPrivate
  <2>4. ASSUME NEW p \in {"stuck", "large"}, Goto(a, p), UNCHANGED <<map, bp, tables, pages, handed>>
        PROVE  PrivateInv'
    BY ZenonT(30), <1>1, <2>1, <2>4
  <2> QED BY ZenonT(30), <2>2, <2>3, <2>4
<1>3. CASE Large(a)
  <2>1. pc[a] = "large" /\ UNCHANGED <<map, need, bp, tables, pages, handed>>
    BY ZenonT(30), <1>3, LargeIs
  <2>2. \E p \in {"stuck", "small", "large", "split"} : Goto(a, p)
    BY ZenonT(30), <1>3, LargeIs
  <2>3. pc[a] \in Taking
    BY ZenonT(30), <2>1 DEF Taking
  <2> QED BY ZenonT(30), <1>1, <2>1, <2>2, <2>3
<1>4. CASE Split(a)
  <2>1. pc[a] = "split" /\ pc[a] \in Taking /\ need' = need
    BY ZenonT(30), <1>4, SplitIs
  <2>2. \/ UNCHANGED <<pc, map, bp, tables, pages, handed>>
        \/ \E p \in Nat : p = split[a].page /\ Got(a, p)
    BY ZenonT(30), <1>4, SplitIs
  <2>3. ASSUME NEW p \in Nat, p = split[a].page, Got(a, p)
        PROVE  PrivateInv'
    <3>1. p \notin handed
      BY ZenonT(30), <2>1, <2>3, FreshPages
    <3> QED BY ZenonT(30), <2>1, <2>3, <3>1, GotPrivate
  <2>4. ASSUME UNCHANGED <<pc, map, bp, tables, pages, handed>>
        PROVE  PrivateInv'
    BY ZenonT(30), <2>1, <2>4, QuietPrivate
  <2> QED BY ZenonT(30), <2>2, <2>3, <2>4
<1> QED BY ZenonT(30), <1>2, <1>3, <1>4

(* Frame finds a frame of the right kind.                                   *)
LEMMA FramePrivate ==
  ASSUME MemTyped, PrivateInv, NEW a \in Actors, Frame(a)
  PROVE  PrivateInv'
<1>1. /\ map[a] \in Maps(a) /\ UNCHANGED <<bp, tables, pages, handed>>
      /\ map[a].kind \in Kinds(a) /\ DOMAIN map = Actors /\ bp \in Nat \cup {None}
  BY ZenonT(30), FrameIs, MapFields DEF MemTyped, ActorDomains, BootTyped
<1>2. /\ PrivateOf(tables, pages, bp, handed)'
      /\ \A x : Own(x, tables, pages, bp, handed) => Own(x, tables', pages', bp', handed')
  BY ZenonT(30), <1>1 DEF PrivateInv
<1>3. /\ a # PF => map[a].kind = "device"
      /\ "device" # "read" /\ "device" # "write" /\ "read" # "write"
  BY ZenonT(30), <1>1 DEF Kinds
<1>4. ASSUME NEW w \in {"page", "blank"}, GetPage(a, w, 0, 0), UNCHANGED map,
             w = "page" => map[a].kind = "write",
             w = "blank" => map[a].kind = "read" /\ bp = None
      PROVE  PrivateInv'
  <2>1. /\ need'[a].what = w /\ pc'[a] = "small"
        /\ \A c \in Actors \ {a} : pc'[c] = pc[c] /\ need'[c] = need[c]
    <3>1. GetPage(a, w, 0, 0)
      BY ZenonT(30), <1>4
    <3> QED BY ZenonT(30), <3>1, GetPageIs
  <2>2. need'[a].what = w /\ w # "table" /\ pc'[a] # "walk" /\ a = PF
    BY ZenonT(30), <1>3, <1>4, <2>1
  <2>3. ~ Mapping(pc'[a], need'[a])
    BY ZenonT(30), <2>2 DEF Mapping
  <2>4. ActorPrivate(a, pc'[a], need'[a], map'[a], tables', pages', bp', handed')
    BY ZenonT(30), <1>1, <1>4, <2>2, <2>3 DEF ActorPrivate
  <2> QED BY ZenonT(30), <1>2, <1>4, <2>1, <2>2, <2>4, PrivateStep
<1>5. ASSUME map[a].kind # "write", NEW x \in {bp, Device},
             map' = [map EXCEPT ![a] = [map[a] EXCEPT !.frame = x]],
             IF map[a].kind = "read" THEN x = bp /\ bp # None ELSE x = Device,
             Goto(a, "walk"), need' = need
      PROVE  PrivateInv'
  <2>1. PICK m : m = [map[a] EXCEPT !.frame = x]
    BY ZenonT(30)
  <2>2. m.kind = map[a].kind /\ m.frame = x
    BY <1>1, <1>5, <2>1, MapFrame
  <2>3. map' = [map EXCEPT ![a] = m]
    BY ZenonT(30), <1>5, <2>1
  <2>4. map'[a] = m /\ \A c \in Actors \ {a} : map'[c] = map[c]
    BY ZenonT(30), <1>1, <2>3
  <2>5. pc'[a] = "walk" /\ \A c \in Actors \ {a} : pc'[c] = pc[c]
    BY ZenonT(30), <1>5, GotoIs
  <2>6. pc'[a] \notin Taking
    BY ZenonT(30), <2>5 DEF Taking
  <2>7. ActorPrivate(a, pc'[a], need'[a], map'[a], tables', pages', bp', handed')
    <3>1. a # PF => map'[a].frame = Device
      BY ZenonT(30), <1>3, <1>5, <2>2, <2>4
    <3>2. map'[a].kind # "write" /\ (map'[a].kind = "read" => bp # None /\ map'[a].frame = bp)
      BY ZenonT(30), <1>5, <2>2, <2>4
    <3> QED BY ZenonT(30), <1>1, <2>6, <3>1, <3>2 DEF ActorPrivate
  <2>8. a # PF => bp' = bp
    BY ZenonT(30), <1>1
  <2> QED BY ZenonT(30), <1>2, <1>5, <2>4, <2>5, <2>7, <2>8, PrivateStep
<1>6. \/ \E w \in {"page", "blank"} :
           /\ GetPage(a, w, 0, 0) /\ UNCHANGED map
           /\ w = "page" => map[a].kind = "write"
           /\ w = "blank" => map[a].kind = "read" /\ bp = None
      \/ /\ map[a].kind # "write"
         /\ \E x \in {bp, Device} :
              /\ map' = [map EXCEPT ![a] = [map[a] EXCEPT !.frame = x]]
              /\ IF map[a].kind = "read" THEN x = bp /\ bp # None ELSE x = Device
         /\ Goto(a, "walk") /\ need' = need
  BY ZenonT(30), FrameIs
<1> QED BY ZenonT(30), <1>4, <1>5, <1>6

(* Walk maps the page to the frame that was found.                          *)
LEMMA WalkPrivate ==
  ASSUME MemTyped, PrivateInv, NEW a \in Actors, Walk(a)
  PROVE  PrivateInv'
<1>1. /\ pc[a] = "walk" /\ map[a] \in Maps(a) /\ UNCHANGED <<bp, tables, handed>>
      /\ map[a].kind \in Kinds(a) /\ DOMAIN map = Actors /\ bp \in Nat \cup {None}
      /\ handed \subseteq Nat
  BY ZenonT(30), WalkIs, MapFields DEF MemTyped, ActorDomains, BootTyped
<1>2. /\ PrivateOf(tables, pages, bp, handed)
      /\ ActorPrivate(a, pc[a], need[a], map[a], tables, pages, bp, handed)
      /\ Mapping(pc[a], need[a])
  BY ZenonT(30), <1>1 DEF PrivateInv, Mapping
<1>3. /\ a # PF => map[a].frame = Device
      /\ a = PF /\ map[a].kind = "read" => bp # None /\ map[a].frame = bp
      /\ a = PF /\ map[a].kind = "write" => Own(map[a].frame, tables, pages, bp, handed)
  BY ZenonT(30), <1>2 DEF ActorPrivate
<1>4. ASSUME pages' = pages, map'[a].frame = map[a].frame, map'[a].kind = map[a].kind,
             \A c \in Actors \ {a} : pc'[c] = pc[c] /\ map'[c] = map[c] /\ need'[c] = need[c],
             pc'[a] \in Taking => need'[a].what = "table"
      PROVE  PrivateInv'
  <2>1. /\ PrivateOf(tables, pages, bp, handed)'
        /\ \A x : Own(x, tables, pages, bp, handed) => Own(x, tables', pages', bp', handed')
    BY ZenonT(30), <1>1, <1>2, <1>4
  <2>2. /\ a # PF => map'[a].frame = Device
        /\ a = PF /\ map'[a].kind = "read" => bp' # None /\ map'[a].frame = bp'
        /\ a = PF /\ map'[a].kind = "write" => Own(map'[a].frame, tables', pages', bp', handed')
    BY ZenonT(30), <1>1, <1>3, <1>4, <2>1
  <2>3. "table" # "page" /\ "table" # "blank"
    OBVIOUS
  <2>4. ActorPrivate(a, pc'[a], need'[a], map'[a], tables', pages', bp', handed')
    BY ZenonT(30), <1>4, <2>2, <2>3 DEF ActorPrivate
  <2> QED BY ZenonT(30), <1>1, <1>4, <2>1, <2>4, PrivateStep
<1>5. ASSUME NEW l \in Int, NEW i, GetPage(a, "table", l, i), UNCHANGED <<map, pages>>
      PROVE  PrivateInv'
  <2>1. /\ need'[a].what = "table"
        /\ \A c \in Actors \ {a} : pc'[c] = pc[c] /\ need'[c] = need[c]
    BY ZenonT(30), <1>5, GetPageIs
  <2> QED BY ZenonT(30), <1>4, <1>5, <2>1
<1>6. ASSUME NEW l \in Int, map' = [map EXCEPT ![a] = [map[a] EXCEPT !.level = l]],
             UNCHANGED <<pc, need, pages>>
      PROVE  PrivateInv'
  <2>1. PICK m : m = [map[a] EXCEPT !.level = l]
    BY ZenonT(30)
  <2>2. m.kind = map[a].kind /\ m.frame = map[a].frame
    BY <1>1, <2>1, MapLevel
  <2>3. map' = [map EXCEPT ![a] = m]
    BY ZenonT(30), <1>6, <2>1
  <2>4. map'[a] = m /\ \A c \in Actors \ {a} : map'[c] = map[c]
    BY ZenonT(30), <1>1, <2>3
  <2>5. pc'[a] \notin Taking
    BY ZenonT(30), <1>1, <1>6 DEF Taking
  <2> QED BY ZenonT(30), <1>4, <1>6, <2>2, <2>4, <2>5
<1>7. ASSUME NEW e, e = [frame |-> map[a].frame, writeable |-> map[a].kind # "read"],
             pages' = Put(pages, map[a].page, e), Goto(a, "idle"), UNCHANGED <<map, need>>
      PROVE  PrivateInv'
  <2>1. pc'[a] = "idle" /\ \A c \in Actors \ {a} : pc'[c] = pc[c]
    BY ZenonT(30), <1>7, GotoIs
  <2>2. PICK w \in BOOLEAN : w <=> (map[a].kind # "read")
    BY ZenonT(30)
  <2>3. e.frame = map[a].frame /\ (e.writeable <=> w)
    BY ZenonT(30), <1>7, <2>2
  <2>4. /\ a # PF => w
        /\ a = PF /\ w => map[a].kind = "write"
    BY ZenonT(30), <1>1, <2>2 DEF Kinds
  <2>5. \/ w /\ e.frame = Device
        \/ w /\ Own(e.frame, tables, pages, bp, handed)
        \/ ~ w /\ bp # None /\ e.frame = bp
    BY ZenonT(30), <1>3, <2>2, <2>3, <2>4
  <2>6. PrivateOf(tables, pages', bp, handed)
    BY ZenonT(30), <1>1, <1>2, <1>7, <2>3, <2>5, PrivatePut
  <2>7. ASSUME a # PF, NEW x, Own(x, tables, pages, bp, handed)
        PROVE  Own(x, tables', pages', bp', handed')
    <3>1. x \in Nat
      BY ZenonT(30), <1>1, <2>7 DEF Own
    <3>2. e.frame # x
      BY ZenonT(30), <1>3, <2>3, <2>7, <3>1, FramesAssumption
    <3>3. Own(x, tables, pages', bp, handed)
      BY ZenonT(30), <1>7, <2>7, <3>2, OwnPut
    <3> QED BY ZenonT(30), <1>1, <3>3
  <2>8. pc'[a] \notin Taking /\ pc'[a] # "walk"
    BY ZenonT(30), <2>1 DEF Taking
  <2>9. ActorPrivate(a, pc'[a], need'[a], map'[a], tables', pages', bp', handed')
    BY ZenonT(30), <2>8 DEF ActorPrivate, Mapping
  <2>10. PrivateOf(tables, pages, bp, handed)'
    BY ZenonT(30), <1>1, <2>6
  <2>11. a # PF => bp' = bp /\ \A x : Own(x, tables, pages, bp, handed)
                                     => Own(x, tables', pages', bp', handed')
    BY ZenonT(30), <1>1, <2>7
  <2> QED BY ZenonT(30), <1>7, <2>1, <2>9, <2>10, <2>11, PrivateStep
<1>8. \/ (\E l \in Int : \E i : GetPage(a, "table", l, i)) /\ UNCHANGED <<map, pages>>
      \/ /\ \E l \in Int : map' = [map EXCEPT ![a] = [map[a] EXCEPT !.level = l]]
         /\ UNCHANGED <<pc, need, pages>>
      \/ /\ pages' = Put(pages, map[a].page,
                         [frame |-> map[a].frame, writeable |-> map[a].kind # "read"])
         /\ Goto(a, "idle") /\ UNCHANGED <<map, need>>
  BY ZenonT(30), WalkIs
<1> QED BY ZenonT(30), <1>5, <1>6, <1>7, <1>8

(* At first nothing is mapped.                                              *)
LEMMA InitPrivate == MemInit => PrivateInv
<1> SUFFICES ASSUME MemInit PROVE PrivateInv
  OBVIOUS
<1>1. /\ bp = None /\ tables = << >> /\ pages = << >>
      /\ \A a \in Actors : pc[a] = "idle"
  BY ZenonT(30) DEF MemInit
<1>2. DOMAIN pages = {} /\ DOMAIN tables = {}
  BY <1>1
<1>3. PrivateOf(tables, pages, bp, handed)
  BY ZenonT(30), <1>1, <1>2 DEF PrivateOf, OwnPages
<1>4. \A a \in Actors : pc[a] \notin Taking /\ pc[a] # "walk"
  BY ZenonT(30), <1>1 DEF Taking
<1> QED BY ZenonT(30), <1>3, <1>4 DEF PrivateInv, ActorPrivate, Mapping

(* A page fault or a call of map_in only starts to map a page, and booting  *)
(* maps none.                                                               *)
LEMMA StartPrivate ==
  ASSUME StackFacts, MemTyped, PrivateInv,
         \/ EarlyGetPage \/ \E b \in Block : Release(b)
         \/ \E n \in Nat, kind \in {"read", "write"} : Fault(n, kind)
         \/ \E th \in Threads : NewRegion(th) \/ MapIn(th)
         \/ UNCHANGED memvars
  PROVE  PrivateInv'
<1>1. UNCHANGED <<pc, map, need, bp, tables, pages>> /\ handed \subseteq handed' => PrivateInv'
  BY ZenonT(30), QuietPrivate
<1>2. ASSUME NEW a \in Actors, NEW v, NEW kind, StartMap(a, v, kind),
             UNCHANGED <<need, bp, tables, pages, handed>>
      PROVE  PrivateInv'
  <2>1. PICK m : map' = [map EXCEPT ![a] = m] /\ pc' = [pc EXCEPT ![a] = "frame"]
    BY ZenonT(30), <1>2 DEF StartMap, Goto
  <2>2. DOMAIN pc = Actors /\ DOMAIN map = Actors
    BY ZenonT(30) DEF MemTyped, ActorDomains
  <2>3. pc'[a] = "frame" /\ \A c \in Actors \ {a} : pc'[c] = pc[c] /\ map'[c] = map[c]
    BY ZenonT(30), <2>1, <2>2
  <2>4. pc'[a] \notin Taking /\ pc'[a] # "walk"
    BY ZenonT(30), <2>3 DEF Taking
  <2>5. \A c \in Actors : \/ pc'[c] \notin Taking /\ pc'[c] # "walk"
                          \/ pc'[c] = pc[c] /\ map'[c] = map[c] /\ need'[c] = need[c]
    BY ZenonT(30), <1>2, <2>3, <2>4
  <2> QED BY ZenonT(30), <1>2, <2>5, QuietPrivate
<1>3. CASE EarlyGetPage
  <2>1. UNCHANGED <<pc, map, need, bp, tables, pages>>
    BY ZenonT(30), <1>3 DEF EarlyGetPage, paging, actor
  <2>2. handed \subseteq handed'
    BY ZenonT(30), <1>3, EarlyIs
  <2> QED BY ZenonT(30), <1>1, <2>1, <2>2
<1>4. ASSUME NEW b \in Block, Release(b) PROVE PrivateInv'
  <2>1. UNCHANGED <<pc, map, need, bp, tables, pages, handed>>
    BY ZenonT(30), <1>4 DEF Release, paging, actor
  <2> QED BY ZenonT(30), <1>1, <2>1
<1>5. ASSUME NEW n \in Nat, NEW kind \in {"read", "write"}, Fault(n, kind) PROVE PrivateInv'
  <2>1. UNCHANGED <<need, bp, tables, pages, handed>> /\ PF \in Actors
    BY ZenonT(30), <1>5 DEF Fault, paging, Actors
  <2>2. StartMap(PF, PageOf(n), kind) \/ UNCHANGED <<map, pc>>
    BY ZenonT(30), <1>5 DEF Fault
  <2> QED BY ZenonT(30), <1>1, <1>2, <2>1, <2>2
<1>6. ASSUME NEW th \in Threads, NewRegion(th) PROVE PrivateInv'
  <2>1. UNCHANGED <<pc, map, need, bp, tables, pages, handed>>
    BY ZenonT(30), <1>6 DEF NewRegion, paging, actor
  <2> QED BY ZenonT(30), <1>1, <2>1
<1>7. ASSUME NEW th \in Threads, MapIn(th) PROVE PrivateInv'
  <2>1. UNCHANGED <<need, bp, tables, pages, handed>> /\ th \in Actors
    BY ZenonT(30), <1>7 DEF MapIn, paging, Actors
  <2>2. StartMap(th, PageOf(align(free.start, PageSize)), "device")
    BY ZenonT(30), <1>7 DEF MapIn
  <2> QED BY ZenonT(30), <1>2, <2>1, <2>2
<1>8. CASE UNCHANGED memvars
  <2>1. UNCHANGED <<pc, map, need, bp, tables, pages, handed>>
    BY ZenonT(30), <1>8 DEF memvars, paging, actor
  <2> QED BY ZenonT(30), <1>1, <2>1
<1> QED BY ZenonT(30), <1>3, <1>4, <1>5, <1>6, <1>7, <1>8

(* Mapped pages are private, if the stacks fit: see PagesHold.              *)
LEMMA PagesIfStacksFit == StackFacts /\ MemSpec => []PagesPrivate
<1>1. PrivateInv => PagesPrivate
  <2> SUFFICES ASSUME PrivateInv PROVE PagesPrivate
    OBVIOUS
  <2>1. PrivateOf(tables, pages, bp, handed)
    BY ZenonT(30) DEF PrivateInv
  <2>2. \A v \in DOMAIN pages : pages[v].frame \in handed \cup {Device}
    BY ZenonT(30), <2>1 DEF PrivateOf
  <2>3. ASSUME NEW v \in DOMAIN pages, pages[v].writeable, pages[v].frame # Device
        PROVE  /\ pages[v].frame # bp
               /\ \A u \in DOMAIN pages \ {v} : pages[u].frame # pages[v].frame
               /\ \A t \in DOMAIN tables : tables[t] # pages[v].frame
    BY ZenonT(30), <2>1, <2>3 DEF PrivateOf, OwnPages
  <2>4. /\ \A t \in DOMAIN tables : tables[t] # bp
        /\ \A t, s \in DOMAIN tables : tables[t] = tables[s] => t = s
    BY ZenonT(30), <2>1 DEF PrivateOf
  <2> QED BY ZenonT(30), <2>2, <2>3, <2>4 DEF PagesPrivate
<1>2. MemInit => RegionsInv
  BY ZenonT(30), InitRegions DEF MemInit
<1>3. \A n \in 0 .. AddressEnd - 1 : n \in Nat
  BY LayoutAssumption
<1>4. ASSUME StackFacts PROVE MemSpec => []PagesPrivate
  <2>1. MemTyped /\ FramesInv /\ PrivateInv /\ [MemNext]_memvars => PrivateInv'
    BY ZenonT(30), <1>3, <1>4, TakePrivate, FramePrivate, WalkPrivate, StartPrivate DEF MemNext
  <2>2. RegionsInv /\ MemTyped /\ FramesInv /\ PrivateInv /\ [MemNext]_memvars
        => RegionsInv' /\ MemTyped' /\ FramesInv' /\ PrivateInv'
    BY ZenonT(30), <1>4, <2>1, MemRegions, NextTyped, NextFrames
  <2> QED BY <1>1, <1>2, <2>2, InitTyped, InitFrames, InitPrivate, PTL DEF MemSpec
<1> QED BY <1>4

=============================================================================
