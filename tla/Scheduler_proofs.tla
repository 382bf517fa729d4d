-------------------------- MODULE Scheduler_proofs --------------------------
(***************************************************************************)
(* Proofs about Scheduler, for any threads, events, number of levels and   *)
(* slice, and about the collector's threads on it (GcThreads).             *)
(***************************************************************************)
EXTENDS GcThreads, SequenceTheorems, WellFoundedInduction, TLAPS

(* Time limits that leave a slow machine room.                              *)
USE SMTT(30), ZenonT(30)

-----------------------------------------------------------------------------
(* Extreme elements *)

(* A set of numbers has a least one, from well-foundedness.                 *)
LEMMA NatMinimum ==
  ASSUME NEW S \in SUBSET Nat, S # {}
  PROVE  \E x \in S : \A y \in S : x <= y
<1>1. PICK x \in S : \A y \in S : ~ (<<y, x>> \in OpToRel(<, Nat))
  BY ZenonT(30), WFMin, NatLessThanWellFounded
<1>2. \A y \in S : ~ (y < x)
  BY ZenonT(30), <1>1 DEF OpToRel
<1> QED BY <1>2

(* The highest level at which a thread is ready exists. *)
LEMMA LevelMaximum ==
  ASSUME NEW S \in SUBSET Levels, S # {}
  PROVE  \E l \in S : \A y \in S : y <= l
<1> DEFINE T == {n \in Nat : \E l \in S : n = priorities - l}
<1>1. T # {} /\ T \in SUBSET Nat
  <2>1. PICK l \in S : TRUE
    OBVIOUS
  <2>2. priorities - l \in T
    BY <2>1, PrioritiesAssumption DEF Levels
  <2> QED BY <2>2
<1>2. PICK n \in T : \A m \in T : n <= m
  BY ZenonT(30), <1>1, NatMinimum
<1>3. PICK l \in S : n = priorities - l
  BY <1>2
<1>4. ASSUME NEW y \in S PROVE y <= l
  <2>1. priorities - y \in T
    BY PrioritiesAssumption DEF Levels
  <2>2. priorities - l <= priorities - y
    BY <1>2, <1>3, <2>1
  <2> QED BY <2>2, PrioritiesAssumption DEF Levels
<1> QED BY <1>4
-----------------------------------------------------------------------------
(* Queues *)

(* Find of LinkedList returns a node that holds the thread.                 *)
LEMMA FindFirst ==
  ASSUME NEW T, NEW q \in Seq(T), NEW t, Contains(q, t)
  PROVE  Find(q, t) \in 1 .. Len(q) /\ q[Find(q, t)] = t
<1> DEFINE I == {i \in 1 .. Len(q) : q[i] = t}
<1>1. I \in SUBSET Nat /\ I # {}
  BY DEF Contains
<1>2. PICK k \in I : \A y \in I : k <= y
  BY ZenonT(30), <1>1, NatMinimum
<1>3. k \in 1 .. Len(q) /\ q[k] = t /\ \A j \in 1 .. k - 1 : q[j] # t
  BY <1>2
<1> QED BY <1>3 DEF Find

(* RemoveNode of LinkedList closes the gap and keeps the order.             *)
LEMMA RemoveNodeFacts ==
  ASSUME NEW T, NEW q \in Seq(T), NEW k \in 1 .. Len(q)
  PROVE  /\ RemoveNode(q, k) \in Seq(T)
         /\ Len(RemoveNode(q, k)) = Len(q) - 1
         /\ \A i \in 1 .. Len(q) - 1 :
              RemoveNode(q, k)[i] = IF i < k THEN q[i] ELSE q[i + 1]
<1> DEFINE a == SubSeq(q, 1, k - 1)
           b == SubSeq(q, k + 1, Len(q))
<1>1. a \in Seq(T) /\ Len(a) = k - 1 /\ \A i \in 1 .. k - 1 : a[i] = q[i]
  BY SubSeqProperties
<1>2. /\ b \in Seq(T) /\ Len(b) = Len(q) - k
      /\ \A i \in 1 .. Len(q) - k : b[i] = q[k + i]
  BY SubSeqProperties
<1>3. /\ a \o b \in Seq(T) /\ Len(a \o b) = Len(q) - 1
      /\ \A i \in 1 .. Len(q) - 1 :
           (a \o b)[i] = IF i < k THEN q[i] ELSE q[i + 1]
  <2> HIDE DEF a, b
  <2>1. a \o b \in Seq(T) /\ Len(a \o b) = Len(a) + Len(b)
    BY ZenonT(30), <1>1, <1>2, ConcatProperties
  <2>2. ASSUME NEW i \in 1 .. Len(q) - 1, i < k
        PROVE  (a \o b)[i] = q[i]
    BY <1>1, <1>2, <2>2, ConcatProperties
  <2>3. ASSUME NEW i \in 1 .. Len(q) - 1, ~ (i < k)
        PROVE  (a \o b)[i] = q[i + 1]
    <3>1. i \in Len(a) + 1 .. Len(a) + Len(b)
      BY <1>1, <1>2, <2>3
    <3>2. (a \o b)[i] = b[i - Len(a)]
      BY <1>1, <1>2, <3>1, ConcatProperties
    <3>3. i - (k - 1) \in 1 .. Len(q) - k /\ k + (i - (k - 1)) = i + 1
      BY <2>3
    <3> QED BY ZenonT(30), <1>1, <1>2, <3>2, <3>3
  <2> QED BY <1>1, <1>2, <2>1, <2>2, <2>3
<1> QED BY ZenonT(30), <1>3 DEF RemoveNode

(* A queue without one of its threads. *)
LEMMA RemoveFacts ==
  ASSUME NEW T, NEW q \in Seq(T), NEW t, NoDuplicates(q)
  PROVE  /\ Remove(q, t) \in Seq(T)
         /\ NoDuplicates(Remove(q, t))
         /\ ~ Contains(Remove(q, t), t)
         /\ \A u : u # t =>
              (Contains(Remove(q, t), u) <=> Contains(q, u))
         /\ \A p \in 1 .. Len(q) : q[p] = t =>
              /\ Len(Remove(q, t)) = Len(q) - 1
              /\ \A i \in 1 .. p - 1 : Remove(q, t)[i] = q[i]
<1>1. CASE ~ Contains(q, t)
  <2>1. Remove(q, t) = q
    BY <1>1 DEF Remove
  <2> QED BY <1>1, <2>1 DEF Contains
<1>2. CASE Contains(q, t)
  <2> DEFINE r == Remove(q, t)
  <2>1. PICK k \in 1 .. Len(q) : q[k] = t /\ r = RemoveNode(q, k)
    BY <1>2, FindFirst DEF Remove
  <2>2. /\ r \in Seq(T) /\ Len(r) = Len(q) - 1
        /\ \A i \in 1 .. Len(q) - 1 : r[i] = IF i < k THEN q[i] ELSE q[i + 1]
    BY ZenonT(30), <2>1, RemoveNodeFacts
  <2> HIDE DEF r
  <2>3. Len(q) \in Nat
    OBVIOUS
  <2>4. ASSUME NEW p \in 1 .. Len(q), q[p] = t PROVE p = k
    BY <2>1, <2>4 DEF NoDuplicates
  <2>5. NoDuplicates(r)
    <3> SUFFICES ASSUME NEW i \in 1 .. Len(r), NEW j \in 1 .. Len(r), r[i] = r[j]
                 PROVE  i = j
      BY DEF NoDuplicates
    <3> DEFINE f(n) == IF n < k THEN n ELSE n + 1
    <3>1. f(i) \in 1 .. Len(q) /\ f(j) \in 1 .. Len(q)
      BY <2>2, <2>3
    <3>2. r[i] = q[f(i)] /\ r[j] = q[f(j)]
      BY ZenonT(30), <2>2, <2>3
    <3>3. f(i) = f(j)
      BY ZenonT(30), <3>1, <3>2 DEF NoDuplicates
    <3> QED BY <3>3, <2>2, <2>3
  <2>6. ~ Contains(r, t)
    <3> SUFFICES ASSUME NEW i \in 1 .. Len(r), r[i] = t PROVE FALSE
      BY DEF Contains
    <3>1. CASE i < k
      BY <2>2, <2>3, <2>4, <3>1
    <3>2. CASE ~ (i < k)
      <4>1. i + 1 \in 1 .. Len(q) /\ q[i + 1] = t
        BY <2>2, <2>3, <3>2
      <4> QED BY <4>1, <2>4, <3>2, <2>2, <2>3
    <3> QED BY <3>1, <3>2
  <2>7. ASSUME NEW u, u # t PROVE Contains(r, u) <=> Contains(q, u)
    <3>1. ASSUME NEW i \in 1 .. Len(r), r[i] = u PROVE Contains(q, u)
      BY <2>2, <2>3, <3>1 DEF Contains
    <3>2. ASSUME NEW i \in 1 .. Len(q), q[i] = u PROVE Contains(r, u)
      <4>1. CASE i < k
        <5>1. i \in 1 .. Len(r) /\ r[i] = u
          BY <4>1, <3>2, <2>2, <2>3
        <5> QED BY <5>1 DEF Contains
      <4>2. CASE ~ (i < k)
        <5>1. i # k
          BY <2>1, <2>7, <3>2
        <5>2. i - 1 \in 1 .. Len(r) /\ ~ (i - 1 < k) /\ (i - 1) + 1 = i
          BY <4>2, <5>1, <2>2, <2>3
        <5>3. r[i - 1] = u
          BY <5>2, <3>2, <2>2
        <5> QED BY <5>2, <5>3 DEF Contains
      <4> QED BY <4>1, <4>2
    <3> QED BY <3>1, <3>2 DEF Contains
  <2>8. ASSUME NEW p \in 1 .. Len(q), q[p] = t
        PROVE  Len(r) = Len(q) - 1 /\ \A i \in 1 .. p - 1 : r[i] = q[i]
    BY <2>2, <2>3, <2>4, <2>8
  <2> QED BY <2>2, <2>5, <2>6, <2>7, <2>8 DEF r
<1> QED BY <1>1, <1>2

(* A queue with one more thread. *)
LEMMA AppendFacts ==
  ASSUME NEW T, NEW q \in Seq(T), NEW t \in T, NoDuplicates(q), ~ Contains(q, t)
  PROVE  /\ Append(q, t) \in Seq(T)
         /\ NoDuplicates(Append(q, t))
         /\ Contains(Append(q, t), t)
         /\ \A u : u # t => (Contains(Append(q, t), u) <=> Contains(q, u))
<1> DEFINE r == Append(q, t)
<1>1. /\ r \in Seq(T) /\ Len(r) = Len(q) + 1 /\ r[Len(q) + 1] = t
      /\ \A i \in 1 .. Len(q) : r[i] = q[i]
  BY AppendProperties
<1>2. Len(q) \in Nat
  OBVIOUS
<1> HIDE DEF r
<1>3. NoDuplicates(r)
  <2> SUFFICES ASSUME NEW i \in 1 .. Len(r), NEW j \in 1 .. Len(r), r[i] = r[j]
               PROVE  i = j
    BY DEF NoDuplicates
  <2>1. i \in 1 .. Len(q) \/ i = Len(q) + 1
    BY <1>1, <1>2
  <2>2. j \in 1 .. Len(q) \/ j = Len(q) + 1
    BY <1>1, <1>2
  <2> QED BY <2>1, <2>2, <1>1 DEF NoDuplicates, Contains
<1>4. Contains(r, t)
  BY <1>1, <1>2 DEF Contains
<1>5. ASSUME NEW u, u # t PROVE Contains(r, u) <=> Contains(q, u)
  <2>1. \A i : i \in 1 .. Len(r) <=> i \in 1 .. Len(q) \/ i = Len(q) + 1
    BY <1>1, <1>2
  <2> QED BY <2>1, <1>1, <1>5 DEF Contains
<1> QED BY <1>1, <1>3, <1>4, <1>5 DEF r
-----------------------------------------------------------------------------
(* The inductive invariant *)

(* A ready thread is queued at its own priority. *)
AtPriority == \A t \in Threads : location[t] >= 0 => location[t] = priority[t]

(* The part of the invariant that is about the lists alone. *)
ListsOK ==
  /\ location \in [Threads -> Levels \cup {LOC_BLOCKING, LOC_RELEASED}]
  /\ priority \in [Threads -> Levels]
  /\ time_to_run \in [Threads -> 0 .. Slice]
  /\ BlockingOn \in [Threads -> Events \cup {NoEvent}]
  /\ running_tasks \in [Levels -> Seq(Threads)]
  /\ blocking_tasks \in Seq(Threads)
  /\ Placement

QueuesOK == ListsOK /\ AtPriority

(* The types of what is not in the queues. *)
RestOK ==
  /\ cur \in Threads \cup {NoThread}
  /\ poll \in Nat
  /\ charge \in BOOLEAN
  /\ set \in [Events -> BOOLEAN]
  /\ step \in [Threads -> Steps]
  /\ awaited \in [Threads -> Events \cup {NoEvent}]
  /\ kept \in 0 .. Slice + 1

(* A blocked thread has an event, and so has a wait loop. *)
OnEvents ==
  \A t \in Threads :
    /\ location[t] = LOC_BLOCKING => BlockingOn[t] \in Events
    /\ step[t] \in {"test", "block"} => awaited[t] \in Events

(* A blocked thread that is not waiting for its event any more is the       *)
(* running one, and its event is set: the next poll will see it.            *)
Waiting(t) == step[t] \in {"test", "block"} /\ awaited[t] = BlockingOn[t]
StillSeen ==
  \A t \in Threads :
    location[t] = LOC_BLOCKING /\ BlockingOn[t] \notin Resettable
      => Waiting(t) \/ (t = cur /\ set[BlockingOn[t]])

(* What the poll has gone past is not set. *)
Polled ==
  \A i \in 1 .. Len(blocking_tasks) :
    i < poll => ~ set[BlockingOn[blocking_tasks[i]]]

IInv == QueuesOK /\ RestOK /\ OnEvents /\ StillSeen /\ Polled

-----------------------------------------------------------------------------
(* The queue operations *)

(* What is known of the lists is known of the queues.                       *)
LEMMA InLists == QueuesOK => ListsOK
BY DEF QueuesOK

(* No level is taken for the blocking list or for no list.                  *)
LEMMA LocationsDiffer ==
  \A l \in Levels : l # LOC_BLOCKING /\ l # LOC_RELEASED /\ l >= 0
BY PrioritiesAssumption DEF Levels, LOC_BLOCKING, LOC_RELEASED

(* Taking a thread off its list leaves all others where they are.           *)
LEMMA WithoutFacts ==
  ASSUME ListsOK, NEW t \in Threads
  PROVE  /\ RunningWithout(t) \in [Levels -> Seq(Threads)]
         /\ \A l \in Levels :
              /\ NoDuplicates(RunningWithout(t)[l])
              /\ ~ Contains(RunningWithout(t)[l], t)
              /\ \A u \in Threads : u # t =>
                   (Contains(RunningWithout(t)[l], u) <=> location[u] = l)
         /\ BlockingWithout(t) \in Seq(Threads)
         /\ NoDuplicates(BlockingWithout(t))
         /\ ~ Contains(BlockingWithout(t), t)
         /\ \A u \in Threads : u # t =>
              (Contains(BlockingWithout(t), u) <=> location[u] = LOC_BLOCKING)
<1>1. ASSUME NEW l \in Levels
      PROVE  /\ RunningWithout(t)[l] \in Seq(Threads)
             /\ NoDuplicates(RunningWithout(t)[l])
             /\ ~ Contains(RunningWithout(t)[l], t)
             /\ \A u \in Threads : u # t =>
                  (Contains(RunningWithout(t)[l], u) <=> location[u] = l)
  <2>1. /\ running_tasks[l] \in Seq(Threads)
        /\ NoDuplicates(running_tasks[l])
        /\ \A u \in Threads : Contains(running_tasks[l], u) <=> location[u] = l
    BY DEF ListsOK, Placement
  <2>2. CASE location[t] = l
    <3>1. RunningWithout(t)[l] = Remove(running_tasks[l], t)
      BY <2>2 DEF RunningWithout
    <3> QED BY <2>1, <3>1, RemoveFacts
  <2>3. CASE location[t] # l
    <3>1. RunningWithout(t)[l] = running_tasks[l]
      BY <2>3 DEF RunningWithout
    <3> QED BY <2>1, <2>3, <3>1
  <2> QED BY <2>2, <2>3
<1>2. RunningWithout(t) \in [Levels -> Seq(Threads)]
  BY <1>1 DEF RunningWithout
<1>3. /\ blocking_tasks \in Seq(Threads)
      /\ NoDuplicates(blocking_tasks)
      /\ \A u \in Threads :
           Contains(blocking_tasks, u) <=> location[u] = LOC_BLOCKING
  BY DEF ListsOK, Placement
<1>4. /\ BlockingWithout(t) \in Seq(Threads)
      /\ NoDuplicates(BlockingWithout(t))
      /\ ~ Contains(BlockingWithout(t), t)
      /\ \A u \in Threads : u # t =>
           (Contains(BlockingWithout(t), u) <=> location[u] = LOC_BLOCKING)
  <2>1. CASE location[t] = LOC_BLOCKING
    BY <1>3, <2>1, RemoveFacts DEF BlockingWithout
  <2>2. CASE location[t] # LOC_BLOCKING
    BY <1>3, <2>2 DEF BlockingWithout
  <2> QED BY <2>1, <2>2
<1> QED BY <1>1, <1>2, <1>4

(* Thread t has moved to loc, and the others have stayed where they were. *)
MovedTo(t, loc) ==
  /\ location' = [location EXCEPT ![t] = loc]
  /\ \A l \in Levels :
       /\ NoDuplicates(running_tasks'[l])
       /\ Contains(running_tasks'[l], t) <=> loc = l
       /\ \A u \in Threads : u # t =>
            (Contains(running_tasks'[l], u) <=> location[u] = l)
  /\ NoDuplicates(blocking_tasks')
  /\ Contains(blocking_tasks', t) <=> loc = LOC_BLOCKING
  /\ \A u \in Threads : u # t =>
       (Contains(blocking_tasks', u) <=> location[u] = LOC_BLOCKING)

(* A thread moved to another list is on this one only.                      *)
LEMMA Moved ==
  ASSUME ListsOK, NEW t \in Threads,
         NEW loc \in Levels \cup {LOC_BLOCKING, LOC_RELEASED}, MovedTo(t, loc)
  PROVE  /\ location' \in [Threads -> Levels \cup {LOC_BLOCKING, LOC_RELEASED}]
         /\ Placement'
<1>1. location \in [Threads -> Levels \cup {LOC_BLOCKING, LOC_RELEASED}]
  BY DEF ListsOK
<1>2. location'[t] = loc /\ \A u \in Threads : u # t => location'[u] = location[u]
  BY <1>1 DEF MovedTo
<1>3. ASSUME NEW u \in Threads
      PROVE  /\ \A l \in Levels :
                  Contains(running_tasks'[l], u) <=> location'[u] = l
             /\ Contains(blocking_tasks', u) <=> location'[u] = LOC_BLOCKING
  <2>1. CASE u = t
    BY <1>2, <2>1 DEF MovedTo
  <2>2. CASE u # t
    BY <1>2, <2>2 DEF MovedTo
  <2> QED BY <2>1, <2>2
<1>4. location' \in [Threads -> Levels \cup {LOC_BLOCKING, LOC_RELEASED}]
  BY <1>1 DEF MovedTo
<1> QED BY <1>3, <1>4 DEF Placement, MovedTo

(* Releasing a thread from its list keeps the lists in order.               *)
LEMMA ReleaseLists ==
  ASSUME ListsOK, NEW t \in Threads, Release(t), UNCHANGED priority
  PROVE  ListsOK'
<1>1. /\ location' = [location EXCEPT ![t] = LOC_RELEASED]
      /\ running_tasks' = RunningWithout(t)
      /\ blocking_tasks' = BlockingWithout(t)
      /\ UNCHANGED <<time_to_run, BlockingOn, priority>>
  BY DEF Release
<1>2. location \in [Threads -> Levels \cup {LOC_BLOCKING, LOC_RELEASED}]
  BY DEF ListsOK
<1>3. LOC_RELEASED # LOC_BLOCKING
  BY DEF LOC_RELEASED, LOC_BLOCKING
<1>4. MovedTo(t, LOC_RELEASED)
  BY <1>1, <1>3, WithoutFacts, LocationsDiffer DEF MovedTo
<1> QED BY ZenonT(30), <1>1, <1>4, WithoutFacts, Moved DEF ListsOK

(* A released thread is at no level.                                        *)
LEMMA ReleaseQueues ==
  ASSUME QueuesOK, NEW t \in Threads, Release(t), UNCHANGED priority
  PROVE  QueuesOK'
<1>1. /\ location' = [location EXCEPT ![t] = LOC_RELEASED]
      /\ location \in [Threads -> Levels \cup {LOC_BLOCKING, LOC_RELEASED}]
  BY ZenonT(30) DEF Release, QueuesOK, ListsOK
<1>2. AtPriority'
  BY <1>1, LocationsDiffer DEF QueuesOK, AtPriority, LOC_RELEASED
<1> QED BY ZenonT(30), <1>2, ReleaseLists DEF QueuesOK

(* Putting a thread on the blocking list keeps the lists in order.          *)
LEMMA BlockLists ==
  ASSUME ListsOK, NEW t \in Threads, NEW e \in Events \cup {NoEvent},
         BlockThread(t, e), UNCHANGED priority
  PROVE  ListsOK'
<1>1. /\ location' = [location EXCEPT ![t] = LOC_BLOCKING]
      /\ running_tasks' = RunningWithout(t)
      /\ blocking_tasks' = Append(BlockingWithout(t), t)
      /\ BlockingOn' = [BlockingOn EXCEPT ![t] = e]
      /\ UNCHANGED <<time_to_run, priority>>
  BY DEF BlockThread
<1>2. /\ location \in [Threads -> Levels \cup {LOC_BLOCKING, LOC_RELEASED}]
      /\ BlockingOn \in [Threads -> Events \cup {NoEvent}]
  BY DEF ListsOK
<1>3. /\ blocking_tasks' \in Seq(Threads)
      /\ NoDuplicates(blocking_tasks')
      /\ Contains(blocking_tasks', t)
      /\ \A u \in Threads : u # t =>
           (Contains(blocking_tasks', u) <=> location[u] = LOC_BLOCKING)
  BY ZenonT(30), <1>1, WithoutFacts, AppendFacts
<1>4. MovedTo(t, LOC_BLOCKING)
  BY <1>1, <1>3, WithoutFacts, LocationsDiffer DEF MovedTo
<1>5. BlockingOn' \in [Threads -> Events \cup {NoEvent}]
  BY ZenonT(30), <1>1, <1>2
<1> QED BY <1>1, <1>3, <1>4, <1>5, WithoutFacts, Moved DEF ListsOK

(* A blocked thread is at no level.                                         *)
LEMMA BlockQueues ==
  ASSUME QueuesOK, NEW t \in Threads, NEW e \in Events,
         BlockThread(t, e), UNCHANGED priority
  PROVE  QueuesOK'
<1>1. /\ location' = [location EXCEPT ![t] = LOC_BLOCKING]
      /\ location \in [Threads -> Levels \cup {LOC_BLOCKING, LOC_RELEASED}]
  BY ZenonT(30) DEF BlockThread, QueuesOK, ListsOK
<1>2. AtPriority'
  BY <1>1, LocationsDiffer DEF QueuesOK, AtPriority, LOC_BLOCKING
<1> QED BY ZenonT(30), <1>2, BlockLists DEF QueuesOK

(* Reschedule keeps the lists in order.                                     *)
LEMMA RescheduleLists ==
  ASSUME ListsOK, NEW t \in Threads, Reschedule(t), UNCHANGED priority
  PROVE  ListsOK'
<1> DEFINE p == priority[t]
<1>1. /\ location' = [location EXCEPT ![t] = p]
      /\ running_tasks' = [RunningWithout(t) EXCEPT ![p] = Append(@, t)]
      /\ blocking_tasks' = BlockingWithout(t)
      /\ BlockingOn' = [BlockingOn EXCEPT ![t] = NoEvent]
      /\ time_to_run' = [time_to_run EXCEPT ![t] = Slice]
      /\ UNCHANGED priority
  BY DEF Reschedule
<1>2. /\ location \in [Threads -> Levels \cup {LOC_BLOCKING, LOC_RELEASED}]
      /\ BlockingOn \in [Threads -> Events \cup {NoEvent}]
      /\ time_to_run \in [Threads -> 0 .. Slice]
      /\ p \in Levels
  BY DEF ListsOK
<1> HIDE DEF p
<1>3. ASSUME NEW l \in Levels
      PROVE  /\ running_tasks'[l] \in Seq(Threads)
             /\ NoDuplicates(running_tasks'[l])
             /\ Contains(running_tasks'[l], t) <=> p = l
             /\ \A u \in Threads : u # t =>
                  (Contains(running_tasks'[l], u) <=> location[u] = l)
  <2>1. CASE p = l
    <3>1. running_tasks'[l] = Append(RunningWithout(t)[l], t)
      BY <1>1, <1>2, <2>1, WithoutFacts
    <3>2. /\ RunningWithout(t)[l] \in Seq(Threads)
          /\ NoDuplicates(RunningWithout(t)[l])
          /\ ~ Contains(RunningWithout(t)[l], t)
      BY WithoutFacts
    <3> QED BY <2>1, <3>1, <3>2, WithoutFacts, AppendFacts
  <2>2. CASE p # l
    <3>1. running_tasks'[l] = RunningWithout(t)[l]
      BY <1>1, <1>2, <2>2, WithoutFacts
    <3> QED BY <2>2, <3>1, WithoutFacts
  <2> QED BY ZenonT(30), <2>1, <2>2
<1>4. running_tasks' \in [Levels -> Seq(Threads)]
  BY ZenonT(30), <1>1, <1>2, <1>3, WithoutFacts
<1>5. MovedTo(t, p)
  BY <1>1, <1>2, <1>3, WithoutFacts, LocationsDiffer DEF MovedTo
<1>6. /\ BlockingOn' \in [Threads -> Events \cup {NoEvent}]
      /\ time_to_run' \in [Threads -> 0 .. Slice]
  BY <1>1, <1>2, SliceAssumption
<1>7. priority' \in [Threads -> Levels] /\ blocking_tasks' \in Seq(Threads)
  BY <1>1, WithoutFacts DEF ListsOK
<1> QED BY ZenonT(30), <1>2, <1>4, <1>5, <1>6, <1>7, Moved DEF ListsOK

(* A rescheduled thread is queued at its priority.                          *)
LEMMA RescheduleQueues ==
  ASSUME QueuesOK, NEW t \in Threads, Reschedule(t), UNCHANGED priority
  PROVE  QueuesOK'
<1>1. /\ location' = [location EXCEPT ![t] = priority[t]]
      /\ location \in [Threads -> Levels \cup {LOC_BLOCKING, LOC_RELEASED}]
  BY ZenonT(30) DEF Reschedule, QueuesOK, ListsOK
<1>2. AtPriority'
  BY <1>1 DEF QueuesOK, AtPriority
<1> QED BY ZenonT(30), <1>2, RescheduleLists DEF QueuesOK

(* What a rescheduling leaves alone. *)
LEMMA RescheduleFrame ==
  ASSUME ListsOK, NEW t \in Threads, Reschedule(t)
  PROVE  /\ location'[t] = priority[t] /\ location'[t] # LOC_BLOCKING
         /\ \A u \in Threads : u # t =>
              location'[u] = location[u] /\ BlockingOn'[u] = BlockingOn[u]
<1>1. /\ location \in [Threads -> Levels \cup {LOC_BLOCKING, LOC_RELEASED}]
      /\ BlockingOn \in [Threads -> Events \cup {NoEvent}]
      /\ priority[t] \in Levels
  BY DEF ListsOK
<1> QED BY <1>1, LocationsDiffer DEF Reschedule

-----------------------------------------------------------------------------
(* Every step preserves the invariant *)

(* The invariant gives the types.                                           *)
LEMMA Types == IInv => TypeOK
BY DEF TypeOK, QueuesOK, ListsOK, RestOK, IInv

(* The scheduler starts with the invariant.                                 *)
LEMMA InitInv == Init => IInv
<1> SUFFICES ASSUME Init PROVE IInv
  OBVIOUS
<1>1. QueuesOK
  <2>1. Placement
    <3>1. ASSUME NEW q, q = <<>> PROVE NoDuplicates(q) /\ \A t : ~ Contains(q, t)
      BY <3>1 DEF NoDuplicates, Contains
    <3>2. /\ \A l \in Levels : running_tasks[l] = <<>>
          /\ blocking_tasks = <<>>
          /\ \A t \in Threads : location[t] = LOC_RELEASED
      BY DEF Init
    <3>3. LOC_RELEASED # LOC_BLOCKING
      BY DEF LOC_RELEASED, LOC_BLOCKING
    <3> QED BY <3>1, <3>2, <3>3, LocationsDiffer DEF Placement
  <2>2. AtPriority
    BY DEF Init, AtPriority, LOC_RELEASED
  <2> QED BY <2>1, <2>2, SliceAssumption DEF Init, QueuesOK, ListsOK
<1>2. RestOK
  <2>1. /\ step \in [Threads -> Steps]
        /\ set \in [Events -> BOOLEAN]
        /\ awaited \in [Threads -> Events \cup {NoEvent}]
    BY DEF Init, Steps
  <2>2. kept \in 0 .. Slice + 1 /\ poll \in Nat
    BY SliceAssumption DEF Init
  <2> QED BY ZenonT(30), <2>1, <2>2 DEF Init, RestOK
<1>3. OnEvents /\ StillSeen
  BY DEF Init, OnEvents, StillSeen, LOC_RELEASED, LOC_BLOCKING
<1>4. Polled
  BY DEF Init, Polled
<1> QED BY <1>1, <1>2, <1>3, <1>4 DEF IInv

(* A turn of _WakeUpBlockingTasks keeps the invariant.                      *)
LEMMA PollStep == IInv /\ PollOne => IInv'
<1> SUFFICES ASSUME IInv, PollOne PROVE IInv'
  OBVIOUS
<1> DEFINE t == blocking_tasks[poll]
<1>1. QueuesOK /\ RestOK /\ OnEvents /\ StillSeen /\ Polled
  BY ZenonT(30) DEF IInv
<1>2. /\ poll \in 1 .. Len(blocking_tasks)
      /\ t \in Threads
      /\ NoDuplicates(blocking_tasks)
      /\ blocking_tasks \in Seq(Threads)
      /\ location[t] = LOC_BLOCKING
  BY <1>1 DEF PollOne, QueuesOK, ListsOK, RestOK, Placement, Contains
<1>3. UNCHANGED <<priority, cur, charge, set, step, awaited, kept>>
  BY DEF PollOne
<1>4. CASE set[BlockingOn[t]] /\ Reschedule(t) /\ UNCHANGED poll
  <2>1. QueuesOK'
    BY ZenonT(30), <1>1, <1>2, <1>3, <1>4, RescheduleQueues
  <2>2. RestOK'
    BY <1>1, <1>3, <1>4 DEF RestOK
  <2>3. /\ location'[t] # LOC_BLOCKING
        /\ \A u \in Threads : u # t =>
             location'[u] = location[u] /\ BlockingOn'[u] = BlockingOn[u]
    BY ZenonT(30), <1>1, <1>2, <1>4, InLists, RescheduleFrame
  <2> HIDE DEF t
  <2>4. OnEvents' /\ StillSeen'
    BY <1>1, <1>3, <2>3 DEF OnEvents, StillSeen, Waiting
  <2>5. Polled'
    <3>1. blocking_tasks' = Remove(blocking_tasks, t)
      BY <1>2, <1>4 DEF Reschedule, BlockingWithout
    <3>2. /\ Len(blocking_tasks') = Len(blocking_tasks) - 1
          /\ \A i \in 1 .. poll - 1 : blocking_tasks'[i] = blocking_tasks[i]
      BY <1>2, <3>1, RemoveFacts DEF t
    <3> SUFFICES ASSUME NEW i \in 1 .. Len(blocking_tasks'), i < poll
                 PROVE  ~ set[BlockingOn'[blocking_tasks'[i]]]
      BY <1>3, <1>4 DEF Polled
    <3>3. i \in 1 .. Len(blocking_tasks) /\ i \in 1 .. poll - 1 /\ i # poll
      BY <1>2, <3>2
    <3>4. blocking_tasks'[i] = blocking_tasks[i] /\ blocking_tasks[i] # t
      BY ZenonT(30), <1>2, <3>2, <3>3 DEF NoDuplicates, t
    <3>5. BlockingOn'[blocking_tasks[i]] = BlockingOn[blocking_tasks[i]]
      BY <1>2, <2>3, <3>3, <3>4
    <3> QED BY ZenonT(30), <1>1, <3>3, <3>4, <3>5 DEF Polled
  <2> QED BY <2>1, <2>2, <2>4, <2>5 DEF IInv
<1>5. CASE ~ set[BlockingOn[t]] /\ poll' = poll + 1 /\ UNCHANGED queues
  <2>1. QueuesOK' /\ RestOK'
    BY <1>1, <1>3, <1>5 DEF QueuesOK, ListsOK, RestOK, Placement, AtPriority, queues
  <2>2. OnEvents' /\ StillSeen'
    BY <1>1, <1>3, <1>5 DEF OnEvents, StillSeen, Waiting, queues
  <2>3. Polled'
    <3> SUFFICES ASSUME NEW i \in 1 .. Len(blocking_tasks), i < poll + 1
                 PROVE  ~ set[BlockingOn[blocking_tasks[i]]]
      BY <1>3, <1>5 DEF Polled, queues
    <3>1. i < poll \/ i = poll
      BY <1>2
    <3> QED BY ZenonT(30), <1>1, <1>5, <3>1 DEF Polled
  <2> QED BY ZenonT(30), <2>1, <2>2, <2>3 DEF IInv
<1> QED BY <1>4, <1>5 DEF PollOne

(* The thread a decision takes is queued at the highest level in use. *)
LEMMA NextThreadFacts ==
  ASSUME ListsOK, NextThread # NoThread
  PROVE  /\ NextThread \in Threads
         /\ location[NextThread] \in Levels
         /\ \A u \in Threads : location[u] >= 0 => location[u] <= location[NextThread]
<1> DEFINE m == Highest
<1>1. ReadyLevels # {} /\ ReadyLevels \in SUBSET Levels
  BY DEF NextThread, ReadyLevels
<1>2. m \in ReadyLevels /\ \A l \in ReadyLevels : l <= m
  BY <1>1, LevelMaximum DEF Highest
<1> HIDE DEF m
<1>3. running_tasks[m] \in Seq(Threads) /\ running_tasks[m] # <<>>
  BY <1>2 DEF ReadyLevels, ListsOK
<1>4. NextThread = running_tasks[m][1] /\ 1 \in 1 .. Len(running_tasks[m])
  BY <1>1, <1>3 DEF NextThread, m
<1>5. NextThread \in Threads /\ Contains(running_tasks[m], NextThread)
  BY <1>3, <1>4 DEF Contains
<1>6. m \in Levels
  BY <1>1, <1>2
<1>7. location[NextThread] = m
  BY <1>5, <1>6 DEF ListsOK, Placement
<1>8. ASSUME NEW u \in Threads, location[u] >= 0 PROVE location[u] <= m
  <2>1. location[u] \in Levels
    <3>1. location[u] \in Levels \cup {LOC_BLOCKING, LOC_RELEASED}
      BY DEF ListsOK
    <3>2. ~ (LOC_BLOCKING >= 0) /\ ~ (LOC_RELEASED >= 0)
      BY DEF LOC_BLOCKING, LOC_RELEASED
    <3> QED BY <1>8, <3>1, <3>2
  <2>2. Contains(running_tasks[location[u]], u)
    BY <2>1 DEF ListsOK, Placement
  <2>3. running_tasks[location[u]] # <<>>
    BY <2>2 DEF Contains
  <2> QED BY <1>2, <2>1, <2>3 DEF ReadyLevels
<1> QED BY <1>5, <1>6, <1>7, <1>8

(* Charging a thread for its slice moves it within its level at most.       *)
LEMMA ChargeFacts ==
  ASSUME QueuesOK, NEW t \in Threads, location[t] \in Levels,
         Charge(t), UNCHANGED priority
  PROVE  /\ QueuesOK'
         /\ location' = location
         /\ \A u \in Threads :
              location[u] = LOC_BLOCKING => BlockingOn'[u] = BlockingOn[u]
<1>1. CASE time_to_run[t] <= 1 /\ Reschedule(t)
  <2>1. QueuesOK'
    BY <1>1, RescheduleQueues
  <2>2. location[t] = priority[t] /\ location[t] # LOC_BLOCKING
    BY LocationsDiffer DEF QueuesOK, ListsOK, AtPriority
  <2>3. location' = location
    BY ZenonT(30), <1>1, <2>2 DEF Reschedule, QueuesOK, ListsOK
  <2> QED BY ZenonT(30), <1>1, <2>1, <2>2, <2>3, InLists, RescheduleFrame
<1>2. CASE /\ time_to_run[t] > 1
           /\ time_to_run' = [time_to_run EXCEPT ![t] = @ - 1]
           /\ UNCHANGED <<location, BlockingOn, running_tasks, blocking_tasks>>
  <2>1. time_to_run' \in [Threads -> 0 .. Slice]
    BY <1>2, SliceAssumption DEF QueuesOK, ListsOK
  <2> QED BY <1>2, <2>1 DEF QueuesOK, ListsOK, Placement, AtPriority
<1> QED BY ZenonT(30), <1>1, <1>2 DEF Charge

(* What the end of a decision does to the queues. *)
LEMMA PickFacts ==
  ASSUME QueuesOK, Pick
  PROVE  /\ QueuesOK'
         /\ location' = location
         /\ \A u \in Threads :
              location[u] = LOC_BLOCKING => BlockingOn'[u] = BlockingOn[u]
         /\ cur' = IF NextThread = NoThread THEN cur ELSE NextThread
<1>1. /\ IF charge /\ NextThread # NoThread
         THEN Charge(NextThread) ELSE UNCHANGED queues
      /\ cur' = IF NextThread = NoThread THEN cur ELSE NextThread
      /\ UNCHANGED priority
  BY DEF Pick
<1>2. CASE charge /\ NextThread # NoThread
  BY ZenonT(30), <1>1, <1>2, InLists, NextThreadFacts, ChargeFacts
<1>3. CASE ~ (charge /\ NextThread # NoThread)
  <2>1. UNCHANGED queues
    BY <1>1, <1>3
  <2> QED BY <1>1, <2>1 DEF queues, QueuesOK, ListsOK, Placement, AtPriority
<1> QED BY <1>2, <1>3

(* The choice of the next thread keeps the invariant.                       *)
LEMMA PickStep == IInv /\ Pick => IInv'
<1> SUFFICES ASSUME IInv, Pick PROVE IInv'
  OBVIOUS
<1>1. QueuesOK /\ RestOK /\ OnEvents /\ StillSeen /\ Polled
  BY DEF IInv
<1>2. /\ poll > Len(blocking_tasks)
      /\ poll' = 0
      /\ kept' \in {0, kept, kept + 1} /\ (kept' = kept + 1 => kept <= Slice)
      /\ UNCHANGED <<charge, set, step, awaited>>
  BY <1>1, SliceAssumption DEF Pick, RestOK
<1>3. /\ QueuesOK' /\ location' = location
      /\ \A u \in Threads :
           location[u] = LOC_BLOCKING => BlockingOn'[u] = BlockingOn[u]
      /\ cur' = IF NextThread = NoThread THEN cur ELSE NextThread
  BY <1>1, PickFacts
<1>4. RestOK'
  <2>1. cur' \in Threads \cup {NoThread}
    BY <1>1, <1>3, InLists, NextThreadFacts DEF RestOK
  <2>2. kept' \in 0 .. Slice + 1
    BY <1>1, <1>2, SliceAssumption DEF RestOK
  <2> QED BY ZenonT(30), <1>1, <1>2, <2>1, <2>2 DEF RestOK
<1>5. OnEvents'
  BY <1>1, <1>2, <1>3 DEF OnEvents
<1>6. StillSeen'
  <2> SUFFICES ASSUME NEW t \in Threads, location[t] = LOC_BLOCKING,
                      BlockingOn[t] \notin Resettable
               PROVE  Waiting(t)
    BY ZenonT(30), <1>2, <1>3 DEF StillSeen, Waiting
  <2>1. PICK i \in 1 .. Len(blocking_tasks) : blocking_tasks[i] = t
    BY <1>1 DEF QueuesOK, ListsOK, Placement, Contains
  <2>2. i < poll
    BY <1>1, <1>2 DEF QueuesOK, ListsOK, RestOK
  <2> QED BY ZenonT(30), <1>1, <2>1, <2>2 DEF StillSeen, Polled
<1>7. Polled'
  BY <1>2 DEF Polled
<1> QED BY ZenonT(30), <1>3, <1>4, <1>5, <1>6, <1>7 DEF IInv

(* Nothing has been polled at the start of a decision, or between two. *)
LEMMA NothingPolled == poll' \in {0, 1} => Polled'
BY DEF Polled

(* A step that touches no list keeps the lists in order.                    *)
LEMMA QueuesUnchanged ==
  QueuesOK /\ UNCHANGED <<queues, priority>> => QueuesOK'
BY DEF QueuesOK, ListsOK, Placement, AtPriority, queues

(* A step that reschedules a thread, and starts a decision perhaps. *)
LEMMA RescheduleStep ==
  ASSUME IInv, NEW t \in Threads, Reschedule(t),
         poll' \in {0, 1}, charge' \in BOOLEAN,
         step' \in {step, [step EXCEPT ![t] = "run"]},
         UNCHANGED <<priority, cur, set, awaited, kept>>
  PROVE  IInv'
<1>1. QueuesOK /\ RestOK /\ OnEvents /\ StillSeen
  BY DEF IInv
<1>2. QueuesOK'
  BY ZenonT(30), <1>1, RescheduleQueues
<1>3. /\ location'[t] # LOC_BLOCKING
      /\ \A u \in Threads : u # t =>
           location'[u] = location[u] /\ BlockingOn'[u] = BlockingOn[u]
  BY ZenonT(30), <1>1, InLists, RescheduleFrame
<1>4. step' \in [Threads -> Steps] /\ step'[t] \in {step[t], "run"}
      /\ \A u \in Threads : u # t => step'[u] = step[u]
  BY ZenonT(30), <1>1 DEF RestOK, Steps
<1>5. RestOK'
  BY <1>1, <1>4 DEF RestOK
<1>6. OnEvents'
  BY ZenonT(30), <1>1, <1>3, <1>4 DEF OnEvents
<1>7. StillSeen'
  BY <1>1, <1>3, <1>4 DEF StillSeen, Waiting
<1> QED BY <1>2, <1>5, <1>6, <1>7, NothingPolled DEF IInv

(* Process.Start, Syscalls.Yield, the boot code's Yield, the timer. *)
LEMMA StartStep == ASSUME IInv, NEW t \in Threads, Start(t) PROVE IInv'
<1>1. charge \in BOOLEAN
  BY DEF IInv, RestOK
<1> QED BY ZenonT(30), <1>1, RescheduleStep DEF Start

(* Yield keeps the invariant.                                               *)
LEMMA YieldStep == ASSUME IInv, NEW t \in Threads, Yield(t) PROVE IInv'
BY ZenonT(30), RescheduleStep DEF Yield, Decide

(* The timer, and the end of the boot code, keep the invariant.             *)
LEMMA DecideStep ==
  ASSUME IInv, Boot \/ TimerTick
  PROVE  IInv'
<1>1. /\ UNCHANGED <<queues, priority>> /\ UNCHANGED <<cur, set, step, awaited, kept>>
      /\ poll' = 1 /\ charge' \in BOOLEAN
  BY ZenonT(30) DEF Boot, TimerTick, Decide
<1>2. RestOK'
  BY ZenonT(30), <1>1 DEF IInv, RestOK
<1>3. OnEvents' /\ StillSeen'
  BY <1>1 DEF IInv, OnEvents, StillSeen, Waiting, queues
<1> QED BY <1>1, <1>2, <1>3, QueuesUnchanged, NothingPolled DEF IInv

(* The wait loop. *)
LEMMA LoopStep ==
  ASSUME IInv, NEW t \in Threads, Test(t) \/ \E e \in Events : Wait(t, e)
  PROVE  IInv'
<1>1. QueuesOK /\ RestOK /\ OnEvents /\ StillSeen
  BY DEF IInv
<1>2. /\ UNCHANGED <<queues, priority>> /\ UNCHANGED <<cur, poll, charge, set, kept>>
      /\ poll = 0 /\ cur = t
  BY DEF Test, Wait, Running
<1>3. /\ step' \in [Threads -> Steps]
      /\ awaited' \in [Threads -> Events \cup {NoEvent}]
      /\ \A u \in Threads : u # t => step'[u] = step[u] /\ awaited'[u] = awaited[u]
  BY ZenonT(30), <1>1 DEF Test, Wait, RestOK, Steps
<1>4. \/ step[t] = "test" /\ set[awaited[t]] /\ step'[t] = "run"
      \/ step[t] = "test" /\ step'[t] = "block" /\ awaited'[t] = awaited[t]
      \/ step[t] = "run" /\ awaited'[t] \in Events
  BY <1>1 DEF Test, Wait, Running, RestOK
<1>5. RestOK'
  BY ZenonT(30), <1>1, <1>2, <1>3 DEF RestOK
<1>6. OnEvents'
  BY ZenonT(30), <1>1, <1>2, <1>3, <1>4 DEF OnEvents, queues
<1>7. StillSeen'
  <2> SUFFICES ASSUME NEW u \in Threads, location[u] = LOC_BLOCKING,
                      BlockingOn[u] \notin Resettable
               PROVE  Waiting(u)' \/ (u = cur /\ set[BlockingOn[u]])
    BY ZenonT(30), <1>2 DEF StillSeen, queues
  <2>1. CASE u # t
    BY ZenonT(30), <1>1, <1>2, <1>3, <2>1 DEF StillSeen, Waiting, queues
  <2>2. CASE u = t
    BY ZenonT(30), <1>1, <1>2, <1>4, <2>2 DEF StillSeen, Waiting, queues
  <2> QED BY ZenonT(30), <2>1, <2>2
<1> QED BY ZenonT(30), <1>1, <1>2, <1>5, <1>6, <1>7, QueuesUnchanged, NothingPolled DEF IInv

(* Block keeps the invariant.                                               *)
LEMMA BlockStep == ASSUME IInv, NEW t \in Threads, Block(t) PROVE IInv'
<1>1. QueuesOK /\ RestOK /\ OnEvents /\ StillSeen
  BY DEF IInv
<1>2. /\ poll' = 1 /\ charge' = FALSE
      /\ step' = [step EXCEPT ![t] = "test"]
      /\ UNCHANGED <<priority, cur, set, awaited, kept>>
  BY DEF Block, Decide
<1>3. awaited[t] \in Events /\ BlockThread(t, awaited[t])
  BY <1>1 DEF OnEvents, Block, Running
<1>4. QueuesOK'
  BY ZenonT(30), <1>1, <1>2, <1>3, BlockQueues
<1>5. /\ location' = [location EXCEPT ![t] = LOC_BLOCKING]
      /\ BlockingOn' = [BlockingOn EXCEPT ![t] = awaited[t]]
  BY <1>3 DEF BlockThread
<1>6. /\ BlockingOn'[t] = awaited[t]
      /\ \A u \in Threads : u # t =>
           location'[u] = location[u] /\ BlockingOn'[u] = BlockingOn[u]
  BY <1>1, <1>5 DEF QueuesOK, ListsOK
<1>7. step' \in [Threads -> Steps] /\ step'[t] = "test"
      /\ \A u \in Threads : u # t => step'[u] = step[u]
  BY <1>1, <1>2 DEF RestOK, Steps
<1>8. RestOK'
  BY ZenonT(30), <1>1, <1>2, <1>7 DEF RestOK
<1>9. OnEvents'
  BY ZenonT(30), <1>1, <1>2, <1>3, <1>6, <1>7 DEF OnEvents
<1>10. StillSeen'
  BY ZenonT(30), <1>1, <1>2, <1>6, <1>7 DEF StillSeen, Waiting
<1> QED BY ZenonT(30), <1>2, <1>4, <1>8, <1>9, <1>10, NothingPolled DEF IInv

(* The exit of a thread keeps the invariant.                                *)
LEMMA ExitStep == ASSUME IInv, NEW t \in Threads, Exit(t) PROVE IInv'
<1>1. QueuesOK /\ RestOK /\ OnEvents /\ StillSeen
  BY DEF IInv
<1>2. /\ poll = 0 /\ step' = [step EXCEPT ![t] = "dead"] /\ Release(t)
      /\ UNCHANGED <<priority, cur, poll, charge, set, awaited, kept>>
  BY DEF Exit, Running
<1>3. QueuesOK'
  BY ZenonT(30), <1>1, <1>2, ReleaseQueues
<1>4. /\ location'[t] # LOC_BLOCKING
      /\ UNCHANGED BlockingOn
      /\ \A u \in Threads : u # t => location'[u] = location[u]
  BY <1>1, <1>2 DEF Release, QueuesOK, ListsOK, LOC_RELEASED, LOC_BLOCKING
<1>5. step' \in [Threads -> Steps] /\ step'[t] = "dead"
      /\ \A u \in Threads : u # t => step'[u] = step[u]
  BY ZenonT(30), <1>1, <1>2 DEF RestOK, Steps
<1>6. RestOK'
  BY ZenonT(30), <1>1, <1>2, <1>5 DEF RestOK
<1>7. OnEvents' /\ StillSeen'
  BY ZenonT(30), <1>1, <1>2, <1>4, <1>5 DEF OnEvents, StillSeen, Waiting
<1> QED BY <1>2, <1>3, <1>6, <1>7, NothingPolled DEF IInv

(* An event is set, or unset: not one that is waited for, unless it is      *)
(* resettable.                                                              *)
LEMMA EventStep ==
  ASSUME IInv, NEW e \in Events,
         Interrupt(e) \/ \E t \in Threads : SetEvent(t, e)
  PROVE  IInv'
<1>1. QueuesOK /\ RestOK /\ OnEvents /\ StillSeen
  BY DEF IInv
<1>2. /\ poll = 0
      /\ UNCHANGED <<queues, priority>>
      /\ UNCHANGED <<cur, poll, charge, step, awaited, kept>>
  BY DEF Interrupt, SetEvent, Running
<1>3. \/ set' = [set EXCEPT ![e] = TRUE]
      \/ set' = [set EXCEPT ![e] = FALSE] /\ (e \in Resettable \/ ~ InUse(e))
  BY DEF Interrupt, SetEvent
<1>4. RestOK'
  BY ZenonT(30), <1>1, <1>2, <1>3 DEF RestOK
<1>5. OnEvents'
  BY ZenonT(30), <1>1, <1>2 DEF OnEvents, queues
<1>6. StillSeen'
  <2> SUFFICES ASSUME NEW t \in Threads, location[t] = LOC_BLOCKING,
                      BlockingOn[t] \notin Resettable, set[BlockingOn[t]]
               PROVE  set'[BlockingOn[t]]
    BY ZenonT(30), <1>1, <1>2 DEF StillSeen, Waiting, queues
  <2>1. BlockingOn[t] \in Events
    BY <1>1 DEF OnEvents
  <2>2. BlockingOn[t] # e \/ set' = [set EXCEPT ![e] = TRUE]
    BY <1>3 DEF InUse
  <2> QED BY ZenonT(30), <1>1, <1>3, <2>1, <2>2 DEF RestOK
<1> QED BY <1>1, <1>2, <1>4, <1>5, <1>6, QueuesUnchanged, NothingPolled DEF IInv

(* So every step keeps the invariant,                                       *)
LEMMA NextInv == IInv /\ [Next]_vars => IInv'
<1> SUFFICES ASSUME IInv, [Next]_vars PROVE IInv'
  OBVIOUS
<1>1. CASE UNCHANGED vars
  BY <1>1 DEF vars, IInv, QueuesOK, ListsOK, RestOK, Placement, AtPriority, OnEvents,
              StillSeen, Waiting, Polled
<1>2. CASE PollOne
  BY <1>2, PollStep
<1>3. CASE Pick
  BY <1>3, PickStep
<1>4. CASE Boot \/ TimerTick
  BY <1>4, DecideStep
<1>5. CASE \E t \in Threads : Start(t) \/ Thread(t)
  BY ZenonT(30), <1>5, StartStep, YieldStep, LoopStep, BlockStep, ExitStep, EventStep
     DEF Thread
<1>6. CASE \E e \in Events : Interrupt(e)
  BY <1>6, EventStep
<1> QED BY <1>1, <1>2, <1>3, <1>4, <1>5, <1>6 DEF Next

(* and it always holds.                                                     *)
LEMMA Invariant == Spec => []IInv
BY InitInv, NextInv, PTL DEF Spec

-----------------------------------------------------------------------------
(* Theorems *)

(* Scheduler.cs and its callers keep all state in its types.                *)
THEOREM TypeCorrect == Spec => []TypeOK
BY Invariant, Types, PTL

(* Every thread is in exactly the queue its location field names, once.     *)
THEOREM PlacementHolds == Spec => []Placement
<1>1. IInv => Placement
  BY DEF IInv, QueuesOK, ListsOK
<1> QED BY <1>1, Invariant, PTL

(* A thread that has lost the processor while on the blocking list is in    *)
(* its wait loop, polled for the event it waits for there, provided that    *)
(* event is not unset behind its back.                                      *)
THEOREM BlockedInLoopHolds == Spec => []BlockedInLoop
<1>1. IInv => BlockedInLoop
  BY DEF IInv, StillSeen, BlockedInLoop, Waiting
<1> QED BY <1>1, Invariant, PTL

(* GetNextThread gives the processor to a thread of the highest level at    *)
(* which one is ready, those its own poll has just woken included.          *)
THEOREM HighestFirstHolds == Spec => HighestFirst
<1>1. ASSUME IInv, Pick, NEW t \in Threads, location'[t] >= 0
      PROVE  location'[t] <= location'[cur']
  <2>1. QueuesOK
    BY ZenonT(30), <1>1 DEF IInv
  <2>2. /\ location' = location
        /\ cur' = IF NextThread = NoThread THEN cur ELSE NextThread
    BY <1>1, <2>1, PickFacts
  <2>3. NextThread # NoThread
    <3>1. location[t] \in Levels
      <4>1. location[t] \in Levels \cup {LOC_BLOCKING, LOC_RELEASED}
        BY <2>1 DEF QueuesOK, ListsOK
      <4>2. ~ (LOC_BLOCKING >= 0) /\ ~ (LOC_RELEASED >= 0)
        BY DEF LOC_BLOCKING, LOC_RELEASED
      <4> QED BY <1>1, <2>2, <4>1, <4>2
    <3>2. running_tasks[location[t]] # <<>>
      BY <2>1, <3>1 DEF QueuesOK, ListsOK, Placement, Contains
    <3>3. ReadyLevels # {} /\ ReadyLevels \in SUBSET Levels
      BY <3>1, <3>2 DEF ReadyLevels
    <3>4. Highest \in ReadyLevels
      BY <3>3, LevelMaximum DEF Highest
    <3>5. Head(running_tasks[Highest]) \in Threads
      BY <2>1, <3>3, <3>4 DEF ReadyLevels, QueuesOK, ListsOK
    <3> QED BY <3>3, <3>5, NoThreadAssumption DEF NextThread
  <2> QED BY <1>1, <2>1, <2>2, <2>3, InLists, NextThreadFacts
<1>2. IInv /\ [Next]_vars =>
        [Pick => \A t \in Threads :
                   location'[t] >= 0 => location'[t] <= location'[cur']]_vars
  BY <1>1
<1> QED BY <1>2, Invariant, PTL DEF Spec, HighestFirst

-----------------------------------------------------------------------------
(* Slices *)

(* Another thread is first in the queue of t. *)
Behind(t) == running_tasks[location[t]] # <<>> /\ running_tasks[location[t]][1] # t

(* A thread that has been kept has ended, or its slice has room for the     *)
(* decisions that kept it, or the next decision will take another.          *)
InSlice(t) ==
  \/ location[t] = LOC_RELEASED
  \/ location[t] \in Levels /\ (kept + time_to_run[t] <= Slice \/ Behind(t))
SliceInv ==
  /\ kept <= Slice
  /\ \A t \in Threads : /\ location[t] \in Levels => time_to_run[t] > 0
                        /\ step[t] = "new" => location[t] = LOC_RELEASED
  /\ poll = 0 \/ charge => (kept > 0 => cur # NoThread /\ InSlice(cur))
  /\ charge => cur # NoThread

(* Steps that leave the queues alone.                                       *)
LEMMA SliceFrame ==
  ASSUME SliceInv, UNCHANGED <<location, time_to_run, running_tasks, cur, kept>>,
         poll' = 0 \/ charge' => poll = 0 \/ charge, charge' => cur # NoThread,
         \A t \in Threads : step'[t] = "new" => step[t] = "new"
  PROVE  SliceInv'
<1>1. \A t : InSlice(t)' <=> InSlice(t)
  BY ZenonT(30) DEF InSlice, Behind
<1> QED BY ZenonT(30), <1>1 DEF SliceInv

(* _Reschedule of a thread that is in no run queue.                         *)
LEMMA SliceJoin ==
  ASSUME IInv, SliceInv, NEW t \in Threads, location[t] \notin Levels, Reschedule(t),
         UNCHANGED <<cur, kept>>, poll' = 0 \/ charge' => poll = 0 \/ charge,
         cur # t \/ kept = 0 \/ ~(poll' = 0 \/ charge'), charge' => charge,
         \A u \in Threads : step'[u] = "new" => step[u] = "new" /\ u # t
  PROVE  SliceInv'
<1>1. /\ location \in [Threads -> Levels \cup {LOC_BLOCKING, LOC_RELEASED}]
      /\ time_to_run \in [Threads -> 0 .. Slice] /\ running_tasks \in [Levels -> Seq(Threads)]
      /\ priority[t] \in Levels /\ kept \in 0 .. Slice + 1 /\ cur \in Threads \cup {NoThread}
  BY ZenonT(30) DEF IInv, QueuesOK, ListsOK, RestOK
<1>2. /\ location'[t] = priority[t] /\ time_to_run'[t] = Slice
      /\ \A u \in Threads : u # t => location'[u] = location[u] /\ time_to_run'[u] = time_to_run[u]
  BY ZenonT(30), <1>1 DEF Reschedule
<1>3. ASSUME NEW l \in Levels
      PROVE  running_tasks'[l] \in {running_tasks[l], Append(running_tasks[l], t)}
  <2>1. RunningWithout(t) = running_tasks
    BY <1>1 DEF RunningWithout
  <2>2. running_tasks' = [running_tasks EXCEPT ![priority[t]] = Append(@, t)]
    BY ZenonT(30), <2>1 DEF Reschedule
  <2> QED BY ZenonT(30), <1>1, <2>2
<1>4. ASSUME NEW u \in Threads, u # t, InSlice(u) PROVE InSlice(u)'
  <2>1. CASE location[u] = LOC_RELEASED
    BY ZenonT(30), <1>2, <1>4, <2>1 DEF InSlice
  <2>2. CASE location[u] \in Levels /\ kept + time_to_run[u] <= Slice
    BY ZenonT(30), <1>2, <1>4, <2>2 DEF InSlice
  <2>3. CASE location[u] \in Levels /\ Behind(u)
    <3>1. PICK q \in Seq(Threads) : q = running_tasks[location[u]] /\ q # <<>> /\ q[1] # u
      BY ZenonT(30), <1>1, <2>3 DEF Behind
    <3>2. running_tasks'[location[u]] \in {q, Append(q, t)}
      BY ZenonT(30), <1>3, <2>3, <3>1
    <3>3. Append(q, t) # <<>> /\ Append(q, t)[1] = q[1]
      BY <3>1
    <3>4. Behind(u)'
      BY ZenonT(30), <1>2, <1>4, <3>1, <3>2, <3>3 DEF Behind
    <3> QED BY ZenonT(30), <1>2, <1>4, <2>3, <3>4 DEF InSlice
  <2> QED BY ZenonT(30), <1>4, <2>1, <2>2, <2>3 DEF InSlice
<1>5. ASSUME NEW u \in Threads
      PROVE  /\ location'[u] \in Levels => time_to_run'[u] > 0
             /\ step'[u] = "new" => location'[u] = LOC_RELEASED
  <2>1. Slice > 0
    BY SliceAssumption
  <2> QED BY ZenonT(30), <1>2, <2>1 DEF SliceInv
<1>6. ASSUME poll' = 0 \/ charge', kept' > 0 PROVE cur' # NoThread /\ InSlice(cur)'
  <2>1. kept # 0
    BY <1>6
  <2>2. cur # NoThread /\ InSlice(cur) /\ cur # t
    BY ZenonT(30), <1>6, <2>1 DEF SliceInv
  <2>3. \A u : u = cur => (InSlice(u)' => InSlice(cur)')
    BY ZenonT(30) DEF InSlice, Behind
  <2> QED BY ZenonT(30), <1>1, <1>4, <2>2, <2>3
<1> QED BY ZenonT(30), <1>5, <1>6 DEF SliceInv

(* The thread a decision takes is the first of its queue.                   *)
LEMMA NextIsFirst ==
  ASSUME QueuesOK, NextThread # NoThread
  PROVE  /\ running_tasks[location[NextThread]] \in Seq(Threads)
         /\ running_tasks[location[NextThread]] # <<>>
         /\ running_tasks[location[NextThread]][1] = NextThread
<1>1. ReadyLevels # {} /\ ReadyLevels \in SUBSET Levels
  BY DEF NextThread, ReadyLevels
<1>2. PICK m \in ReadyLevels : m = Highest
  BY <1>1, LevelMaximum DEF Highest
<1>3. running_tasks[m] \in Seq(Threads) /\ running_tasks[m] # <<>> /\ m \in Levels
  BY <1>1 DEF ReadyLevels, QueuesOK, ListsOK
<1>4. NextThread = running_tasks[m][1] /\ 1 \in 1 .. Len(running_tasks[m])
  BY <1>1, <1>2, <1>3 DEF NextThread
<1>5. NextThread \in Threads /\ Contains(running_tasks[m], NextThread)
  BY <1>3, <1>4 DEF Contains
<1>6. location[NextThread] = m
  BY ZenonT(30), <1>3, <1>5 DEF QueuesOK, ListsOK, Placement
<1> QED BY ZenonT(30), <1>3, <1>4, <1>6

(* A thread that a charge sends to the end of its queue is not the first    *)
(* there if it was not alone.                                               *)
LEMMA SentBack ==
  ASSUME QueuesOK, NEW t \in Threads, location[t] \in Levels, Reschedule(t),
         Len(running_tasks[location[t]]) > 1
  PROVE  Behind(t)'
<1>1. PICK l \in Levels : l = location[t] /\ l = priority[t]
  BY DEF QueuesOK, ListsOK, AtPriority, Levels
<1>2. PICK q \in Seq(Threads) : q = running_tasks[l] /\ Len(q) > 1
  BY ZenonT(30), <1>1 DEF QueuesOK, ListsOK
<1>3. PICK u \in Threads : u # t /\ Contains(q, u)
  <2>1. q[1] \in Threads /\ q[2] \in Threads /\ Contains(q, q[1]) /\ Contains(q, q[2])
    BY <1>2 DEF Contains
  <2>2. NoDuplicates(q)
    BY ZenonT(30), <1>2 DEF QueuesOK, ListsOK, Placement
  <2>3. q[1] # q[2]
    BY <1>2, <2>2 DEF NoDuplicates
  <2> QED BY ZenonT(30), <2>1, <2>3
<1>4. location[u] = l
  BY ZenonT(30), <1>2, <1>3 DEF QueuesOK, ListsOK, Placement
<1>5. PICK r \in Seq(Threads) : r = RunningWithout(t)[l] /\ ~Contains(r, t) /\ Contains(r, u)
  <2>1. /\ RunningWithout(t) \in [Levels -> Seq(Threads)]
        /\ ~ Contains(RunningWithout(t)[l], t)
        /\ Contains(RunningWithout(t)[l], u) <=> location[u] = l
    BY <1>3, InLists, WithoutFacts
  <2>2. RunningWithout(t)[l] \in Seq(Threads)
    BY ZenonT(30), <2>1
  <2> QED BY ZenonT(30), <1>4, <2>1, <2>2
<1>6. r # <<>> /\ r[1] # t
  BY <1>5 DEF Contains
<1>7. running_tasks' = [RunningWithout(t) EXCEPT ![l] = Append(@, t)] /\ location'[t] = l
  BY ZenonT(30), <1>1 DEF Reschedule, QueuesOK, ListsOK
<1>8. running_tasks'[l] = Append(r, t)
  BY ZenonT(30), <1>5, <1>7 DEF RunningWithout
<1>9. Append(r, t) # <<>> /\ Append(r, t)[1] = r[1]
  BY <1>6
<1> QED BY ZenonT(30), <1>6, <1>7, <1>8, <1>9 DEF Behind

(* The decision of the timer charges the thread it keeps.                   *)
LEMMA SlicePick == ASSUME IInv, SliceInv, Pick PROVE SliceInv'
<1>1. QueuesOK /\ kept \in 0 .. Slice + 1 /\ cur \in Threads \cup {NoThread} /\ Slice \in Nat \ {0}
  BY ZenonT(30), SliceAssumption DEF IInv, RestOK
<1>2. location' = location /\ cur' = IF NextThread = NoThread THEN cur ELSE NextThread
  BY ZenonT(30), <1>1, PickFacts
<1>3. /\ UNCHANGED <<charge, step>>
      /\ IF charge /\ NextThread # NoThread THEN Charge(NextThread) ELSE UNCHANGED queues
      /\ kept' = IF charge /\ NextThread = cur /\ OthersReady(cur)
                 THEN (IF kept > Slice THEN kept ELSE kept + 1) ELSE 0
  BY ZenonT(30) DEF Pick
<1>4. charge' => cur' # NoThread
  BY ZenonT(30), <1>2, <1>3 DEF SliceInv
<1>5. ASSUME NEW t \in Threads, location[t] \in Levels PROVE time_to_run'[t] > 0
  <2>1. time_to_run \in [Threads -> 0 .. Slice] /\ time_to_run[t] > 0
    BY ZenonT(30), <1>1, <1>5 DEF QueuesOK, ListsOK, SliceInv
  <2>2. CASE ~(charge /\ NextThread # NoThread)
    BY ZenonT(30), <1>3, <2>1, <2>2 DEF queues
  <2>3. CASE charge /\ NextThread # NoThread
    <3>1. PICK u \in Threads : u = NextThread /\ Charge(u)
      BY ZenonT(30), <1>1, <1>3, <2>3, InLists, NextThreadFacts
    <3>2. \/ time_to_run' = [time_to_run EXCEPT ![u] = Slice]
          \/ time_to_run[u] > 1 /\ time_to_run' = [time_to_run EXCEPT ![u] = @ - 1]
      BY ZenonT(30), <3>1 DEF Charge, Reschedule
    <3> QED BY <1>1, <2>1, <3>2
  <2> QED BY ZenonT(30), <2>2, <2>3
<1>6. \A t \in Threads : /\ location'[t] \in Levels => time_to_run'[t] > 0
                         /\ step'[t] = "new" => location'[t] = LOC_RELEASED
  BY ZenonT(30), <1>2, <1>3, <1>5 DEF SliceInv
<1>7. CASE charge /\ NextThread = cur /\ OthersReady(cur)
  <2>1. cur # NoThread /\ NextThread # NoThread
    BY ZenonT(30), <1>7 DEF SliceInv
  <2>2. PICK t \in Threads : t = cur /\ location[t] \in Levels /\ Charge(t)
    BY ZenonT(30), <1>1, <1>3, <1>7, <2>1, InLists, NextThreadFacts
  <2>3. running_tasks[location[t]] # <<>> /\ running_tasks[location[t]][1] = t
    BY ZenonT(30), <1>1, <1>7, <2>1, <2>2, NextIsFirst
  <2>4. time_to_run[t] \in 0 .. Slice /\ time_to_run[t] > 0 /\ kept <= Slice
    BY ZenonT(30), <1>1, <2>2 DEF QueuesOK, ListsOK, SliceInv
  <2>5. kept > 0 => kept + time_to_run[t] <= Slice
    <3>1. location[t] # LOC_RELEASED /\ ~Behind(t)
      BY ZenonT(30), <2>2, <2>3, LocationsDiffer DEF Behind
    <3> QED BY ZenonT(30), <1>7, <2>2, <3>1 DEF SliceInv, InSlice
  <2>6. kept + time_to_run[t] <= Slice /\ kept' = kept + 1
    BY <1>1, <1>3, <1>7, <2>4, <2>5
  <2>7. kept' <= Slice
    BY <1>1, <2>4, <2>6
  <2>8. CASE time_to_run[t] <= 1 /\ Reschedule(t)
    <3>1. Len(running_tasks[location[t]]) > 1
      BY ZenonT(30), <1>7, <2>2 DEF OthersReady
    <3>2. Behind(t)'
      BY ZenonT(30), <1>1, <2>2, <2>8, <3>1, SentBack
    <3>3. InSlice(t)'
      BY ZenonT(30), <1>2, <2>2, <3>2 DEF InSlice
    <3>4. cur' = t
      BY ZenonT(30), <1>2, <1>7, <2>2
    <3>5. InSlice(cur)'
      BY ZenonT(30), <3>3, <3>4 DEF InSlice, Behind
    <3> QED BY ZenonT(30), <1>4, <1>6, <2>1, <2>2, <2>7, <3>4, <3>5 DEF SliceInv
  <2>9. CASE time_to_run[t] > 1 /\ time_to_run' = [time_to_run EXCEPT ![t] = @ - 1]
    <3>1. time_to_run'[t] = time_to_run[t] - 1
      BY ZenonT(30), <1>1, <2>9 DEF QueuesOK, ListsOK
    <3>2. kept' + time_to_run'[t] <= Slice
      BY <1>1, <2>4, <2>6, <3>1
    <3>3. cur' = t
      BY ZenonT(30), <1>2, <1>7, <2>2
    <3>4. InSlice(cur)'
      BY ZenonT(30), <1>2, <2>2, <3>2, <3>3 DEF InSlice
    <3> QED BY ZenonT(30), <1>4, <1>6, <2>1, <2>2, <2>7, <3>3, <3>4 DEF SliceInv
  <2> QED BY ZenonT(30), <2>2, <2>8, <2>9 DEF Charge
<1>8. CASE ~(charge /\ NextThread = cur /\ OthersReady(cur))
  <2>1. kept' = 0
    BY ZenonT(30), <1>3, <1>8
  <2>2. kept' <= Slice /\ ~(kept' > 0)
    BY <1>1, <2>1
  <2> QED BY ZenonT(30), <1>4, <1>6, <2>2 DEF SliceInv
<1> QED BY ZenonT(30), <1>7, <1>8

(* At boot nobody has been kept.                                            *)
LEMMA InitSlice == Init => SliceInv
<1> SUFFICES ASSUME Init PROVE SliceInv
  OBVIOUS
<1>1. \A t \in Threads : location[t] = LOC_RELEASED /\ location[t] \notin Levels
  BY LocationsDiffer DEF Init
<1>2. kept <= Slice /\ ~(kept > 0) /\ ~charge
  BY SliceAssumption DEF Init
<1> QED BY ZenonT(30), <1>1, <1>2 DEF SliceInv

(* Every step keeps the count within the slice.                             *)
LEMMA NextSlice == IInv /\ SliceInv /\ [Next]_vars => SliceInv'
<1>1. SUFFICES ASSUME IInv, SliceInv, [Next]_vars PROVE SliceInv'
  OBVIOUS
<1>2. /\ location \in [Threads -> Levels \cup {LOC_BLOCKING, LOC_RELEASED}]
      /\ blocking_tasks \in Seq(Threads) /\ Placement /\ step \in [Threads -> Steps]
      /\ poll \in Nat /\ cur \in Threads \cup {NoThread} /\ kept \in 0 .. Slice + 1
  BY ZenonT(30), <1>1 DEF IInv, QueuesOK, ListsOK, RestOK
<1>3. CASE UNCHANGED vars
  BY ZenonT(30), <1>1, <1>3, SliceFrame DEF vars, SliceInv
<1>4. CASE PollOne
  <2>1. poll > 0 /\ poll \in 1 .. Len(blocking_tasks) /\ UNCHANGED <<cur, kept, charge, step>>
    BY <1>2, <1>4 DEF PollOne
  <2>2. PICK t \in Threads : t = blocking_tasks[poll]
    BY <1>2, <2>1
  <2>3. location[t] = LOC_BLOCKING
    BY ZenonT(30), <1>2, <2>1, <2>2 DEF Placement, Contains
  <2>4. location[t] \notin Levels /\ LOC_BLOCKING # LOC_RELEASED
    BY <2>3, LocationsDiffer DEF LOC_BLOCKING, LOC_RELEASED
  <2>5. CASE Reschedule(t) /\ UNCHANGED poll
    <3>1. \A u \in Threads : step'[u] = "new" => step[u] = "new" /\ u # t
      BY ZenonT(30), <1>1, <2>1, <2>3, <2>4 DEF SliceInv
    <3>2. poll # 0 /\ (poll' = 0 \/ charge' => charge)
      BY <2>1, <2>5
    <3>3. charge => cur # t \/ ~(kept > 0)
      BY ZenonT(30), <1>1, <2>3, <2>4 DEF SliceInv, InSlice
    <3>4. ~(kept > 0) => kept = 0
      BY <1>2
    <3> QED BY ZenonT(30), <1>1, <2>1, <2>4, <2>5, <3>1, <3>2, <3>3, <3>4, SliceJoin
  <2>6. CASE poll' = poll + 1 /\ UNCHANGED queues
    <3>1. poll' # 0
      BY <1>2, <2>6
    <3> QED BY ZenonT(30), <1>1, <2>1, <2>6, <3>1, SliceFrame DEF queues, SliceInv
  <2> QED BY ZenonT(30), <1>4, <2>2, <2>5, <2>6 DEF PollOne
<1>5. CASE Pick
  BY ZenonT(30), <1>1, <1>5, SlicePick
<1>6. CASE Boot \/ TimerTick
  BY ZenonT(30), <1>1, <1>6, SliceFrame DEF Boot, TimerTick, Decide, queues
<1>7. ASSUME NEW t \in Threads, Start(t) PROVE SliceInv'
  <2>1. /\ step[t] = "new" /\ step' = [step EXCEPT ![t] = "run"] /\ Reschedule(t)
        /\ cur # NoThread => step[cur] = "run"
        /\ poll = 0 /\ UNCHANGED <<cur, poll, charge, kept>>
    BY ZenonT(30), <1>7 DEF Start
  <2>2. location[t] \notin Levels
    BY ZenonT(30), <1>1, <2>1, LocationsDiffer DEF SliceInv
  <2>3. cur # t
    BY <2>1, NoThreadAssumption
  <2>4. \A u \in Threads : step'[u] = "new" => step[u] = "new" /\ u # t
    BY <1>2, <2>1
  <2> QED BY ZenonT(30), <1>1, <2>1, <2>2, <2>3, <2>4, SliceJoin
<1>8. ASSUME NEW t \in Threads, Yield(t) PROVE SliceInv'
  <2>1. /\ step[t] = "run" /\ cur = t /\ Reschedule(t) /\ poll' = 1 /\ ~charge'
        /\ UNCHANGED <<step, cur, kept>>
    BY ZenonT(30), <1>8 DEF Yield, Running, Decide
  <2>2. /\ location'[t] = priority[t] /\ time_to_run'[t] = Slice
        /\ \A u \in Threads : u # t => location'[u] = location[u] /\ time_to_run'[u] = time_to_run[u]
    BY ZenonT(30), <1>1, <1>2, <2>1 DEF Reschedule, IInv, QueuesOK, ListsOK
  <2>3. Slice > 0 /\ poll' # 0 /\ step[t] # "new"
    BY <2>1, SliceAssumption
  <2> QED BY ZenonT(30), <1>1, <2>1, <2>2, <2>3 DEF SliceInv
<1>9. ASSUME NEW t \in Threads, Block(t) PROVE SliceInv'
  <2>1. /\ step' = [step EXCEPT ![t] = "test"] /\ location' = [location EXCEPT ![t] = LOC_BLOCKING]
        /\ poll' = 1 /\ ~charge' /\ UNCHANGED <<time_to_run, cur, kept>>
    BY ZenonT(30), <1>9 DEF Block, BlockThread, Decide
  <2>2. /\ location'[t] \notin Levels /\ step'[t] # "new" /\ poll' # 0
        /\ \A u \in Threads : u # t => location'[u] = location[u] /\ step'[u] = step[u]
    BY <1>2, <2>1, LocationsDiffer
  <2> QED BY ZenonT(30), <1>1, <2>1, <2>2 DEF SliceInv
<1>10. ASSUME NEW t \in Threads, Exit(t) PROVE SliceInv'
  <2>1. /\ step' = [step EXCEPT ![t] = "dead"] /\ location' = [location EXCEPT ![t] = LOC_RELEASED]
        /\ cur = t /\ UNCHANGED <<time_to_run, cur, kept, poll, charge>>
    BY ZenonT(30), <1>10 DEF Exit, Release, Running
  <2>2. /\ location'[t] = LOC_RELEASED
        /\ \A u \in Threads : u # t => location'[u] = location[u] /\ step'[u] = step[u]
    BY ZenonT(30), <1>2, <2>1
  <2>3. InSlice(cur)'
    BY ZenonT(30), <2>1, <2>2 DEF InSlice
  <2>4. LOC_RELEASED \notin Levels
    BY LocationsDiffer
  <2> QED BY ZenonT(30), <1>1, <2>1, <2>2, <2>3, <2>4 DEF SliceInv
<1>11. ASSUME NEW t \in Threads, NEW e \in Events, Wait(t, e) \/ SetEvent(t, e)
       PROVE  SliceInv'
  <2>1. /\ UNCHANGED <<queues, cur, poll, charge, kept>>
        /\ step' \in {step, [step EXCEPT ![t] = "test"]}
    BY ZenonT(30), <1>11 DEF Wait, SetEvent
  <2>2. \A u \in Threads : step'[u] = "new" => step[u] = "new"
    BY <1>2, <2>1
  <2> QED BY ZenonT(30), <1>1, <2>1, <2>2, SliceFrame DEF queues, SliceInv
<1>12. ASSUME NEW t \in Threads, Test(t) PROVE SliceInv'
  <2>1. /\ UNCHANGED <<queues, cur, poll, charge, kept>>
        /\ step' \in {[step EXCEPT ![t] = "run"], [step EXCEPT ![t] = "block"]}
    BY ZenonT(30), <1>12 DEF Test
  <2>2. \A u \in Threads : step'[u] = "new" => step[u] = "new"
    BY <1>2, <2>1
  <2> QED BY ZenonT(30), <1>1, <2>1, <2>2, SliceFrame DEF queues, SliceInv
<1>13. ASSUME NEW e \in Events, Interrupt(e) PROVE SliceInv'
  BY ZenonT(30), <1>1, <1>13, SliceFrame DEF Interrupt, queues, SliceInv
<1> QED BY ZenonT(30), <1>1, <1>3, <1>4, <1>5, <1>6, <1>7, <1>8, <1>9, <1>10, <1>11, <1>12, <1>13
        DEF Next, Thread

(* _GetNextThread takes the processor from a thread that has used up its    *)
(* slice while another of its level is ready.                               *)
THEOREM SliceBoundHolds == Spec => []SliceBound
<1>1. SliceInv => SliceBound
  BY ZenonT(30) DEF SliceInv, SliceBound
<1> QED BY <1>1, InitSlice, NextSlice, Invariant, PTL DEF Spec

-----------------------------------------------------------------------------
(* The collector's threads *)

(* The thread that collects at the maximum is ready at the highest level,   *)
(* or blocked on its event.                                                 *)
MaxReady ==
  \/ location[t_max] = HIGH
  \/ location[t_max] = LOC_BLOCKING /\ BlockingOn[t_max] = e_max

(* Mutators are below it. *)
MutatorsLow ==
  \A m \in Mutators : /\ priority[m] = DEF_PRIORITY
                      /\ location[m] \in {DEF_PRIORITY, LOC_BLOCKING, LOC_RELEASED}

(* No decision is taken before the threads have been started. *)
BootOK ==
  /\ boot \in 1 .. 7 /\ (boot < 7 => poll = 0 /\ cur = NoThread)
  /\ (boot > 1 => priority[t_max] = HIGH) /\ (boot > 2 => MaxReady)

(* The event of the maximum is what its delegate says, and if the poll has  *)
(* gone past the thread it is not set. *)
MaxPolled ==
  \A i \in 1 .. Len(blocking_tasks) :
    i < poll /\ blocking_tasks[i] = t_max => ~ set[e_max]
Counters ==
  /\ allocs \in Nat /\ max_allocs \in Nat
  /\ set[e_max] <=> allocs >= max_allocs

GcInv == ListsOK /\ RestOK /\ MutatorsLow /\ BootOK /\ MaxPolled /\ Counters

(* The constants of the collector's threads.                                *)
LEMMA GcConstants ==
  /\ t_max \in Threads /\ t_min \in Threads /\ t_request \in Threads
  /\ t_min # t_max /\ t_request # t_max /\ t_max # NoThread
  /\ \A m \in Mutators : m \in Threads /\ m # t_max /\ m # t_min /\ m # t_request
  /\ \A t \in GcThread : t \in Threads /\ t \notin Mutators
  /\ e_max \in Events /\ e_min \in Events /\ e_request \in Events
  /\ e_min # e_max /\ e_request # e_max
BY ZenonT(30), GcAssumption, NoThreadAssumption DEF GcThread, GcEvents, Mutators

(* The levels KMain assigns.                                                *)
LEMMA GcLevels ==
  /\ HIGH \in Levels /\ LOW \in Levels /\ DEF_PRIORITY \in Levels
  /\ HIGH # START /\ LOW # START /\ DEF_PRIORITY < HIGH
  /\ \A l \in Levels : l <= HIGH
BY GcAssumption, PrioritiesAssumption DEF HIGH, LOW, START, Levels

(* What each thread waits for.                                              *)
LEMMA WaitedFacts ==
  /\ Waited[t_max] = e_max
  /\ \A t \in GcThread : Waited[t] \in Events
BY GcConstants, GcAssumption DEF Waited, GcThread

(* The steps of KMain.                                                      *)
LEMMA BootSteps ==
  /\ Len(BootCode) = 6
  /\ BootCode[1] = <<t_max, HIGH>> /\ BootCode[2] = <<t_max, START>>
  /\ BootCode[3] = <<t_min, LOW>> /\ BootCode[4] = <<t_min, START>>
  /\ BootCode[5] = <<t_min, HIGH>> /\ BootCode[6] = <<t_request, START>>
BY DEF BootCode

(* A thread that is rescheduled goes to its level: mutators stay low, and   *)
(* the collector of the maximum is ready.                                   *)
LEMMA GcReschedule ==
  ASSUME ListsOK, MutatorsLow, NEW t \in Threads, Reschedule(t), UNCHANGED priority
  PROVE  /\ ListsOK' /\ MutatorsLow'
         /\ t = t_max /\ priority[t_max] = HIGH => MaxReady'
         /\ t # t_max /\ MaxReady => MaxReady'
<1>1. ListsOK'
  BY ZenonT(30), RescheduleLists
<1>2. /\ location'[t] = priority[t]
      /\ \A u \in Threads : u # t =>
           location'[u] = location[u] /\ BlockingOn'[u] = BlockingOn[u]
  BY ZenonT(30), RescheduleFrame
<1>3. MutatorsLow'
  <2> SUFFICES ASSUME NEW m \in Mutators
               PROVE  /\ priority'[m] = DEF_PRIORITY
                      /\ location'[m] \in {DEF_PRIORITY, LOC_BLOCKING, LOC_RELEASED}
    BY ZenonT(30) DEF MutatorsLow
  <2>1. m \in Threads
    BY ZenonT(30), GcConstants
  <2> QED BY ZenonT(30), <1>2, <2>1 DEF MutatorsLow
<1>4. t = t_max /\ priority[t_max] = HIGH => MaxReady'
  BY ZenonT(30), <1>2 DEF MaxReady, HIGH
<1>5. t # t_max /\ MaxReady => MaxReady'
  BY ZenonT(30), <1>2, GcConstants DEF MaxReady, HIGH
<1> QED BY ZenonT(30), <1>1, <1>3, <1>4, <1>5

(* A step that leaves lists and counters alone.                             *)
LEMMA GcFrame ==
  ASSUME GcInv, UNCHANGED <<queues, priority, boot, allocs, max_allocs>>, RestOK',
         set'[e_max] = set[e_max], boot < 7 => UNCHANGED <<poll, cur>>,
         poll' \in {0, 1} \/ poll' = poll
  PROVE  GcInv'
<1>1. ListsOK' /\ MutatorsLow'
  BY ZenonT(30) DEF GcInv, ListsOK, Placement, MutatorsLow, queues
<1>2. BootOK'
  BY ZenonT(30) DEF GcInv, BootOK, MaxReady, queues
<1>3. MaxPolled'
  <2>1. CASE poll' = poll
    BY ZenonT(30), <2>1 DEF GcInv, MaxPolled, queues
  <2>2. CASE poll' \in {0, 1}
    BY <2>2 DEF MaxPolled
  <2> QED BY ZenonT(30), <2>1, <2>2
<1>4. Counters'
  BY ZenonT(30) DEF GcInv, Counters
<1> QED BY ZenonT(30), <1>1, <1>2, <1>3, <1>4 DEF GcInv

(* Nothing runs, and nothing is decided, before KMain has ended.            *)
LEMMA AfterBoot ==
  ASSUME GcInv, poll > 0 \/ cur # NoThread
  PROVE  boot = 7 /\ priority[t_max] = HIGH /\ MaxReady
<1>1. boot \in 1 .. 7 /\ ~ (boot < 7)
  BY DEF GcInv, BootOK, RestOK
<1>2. boot = 7 /\ boot > 1 /\ boot > 2
  BY <1>1
<1> QED BY ZenonT(30), <1>2 DEF GcInv, BootOK

(* After KMain, a step that keeps the collector's thread ready.             *)
LEMMA GcJoin ==
  ASSUME GcInv, boot = 7, UNCHANGED <<priority, boot, allocs, max_allocs>>,
         set'[e_max] = set[e_max],
         ListsOK', RestOK', MutatorsLow', MaxReady', MaxPolled'
  PROVE  GcInv'
<1>1. BootOK'
  <2>1. boot' \in 1 .. 7 /\ ~ (boot' < 7) /\ boot > 1
    OBVIOUS
  <2>2. priority'[t_max] = HIGH
    BY ZenonT(30), <2>1 DEF GcInv, BootOK
  <2> QED BY ZenonT(30), <2>1, <2>2 DEF BootOK, HIGH
<1>2. Counters'
  BY ZenonT(30) DEF GcInv, Counters
<1> QED BY ZenonT(30), <1>1, <1>2 DEF GcInv

(* _WakeUpBlockingTasks: a thread that is passed over has its event unset.  *)
LEMMA GcPoll == ASSUME GcInv, PollOne, UNCHANGED gcvars PROVE GcInv'
<1> DEFINE t == blocking_tasks[poll]
<1>1. ListsOK /\ RestOK /\ MutatorsLow /\ MaxPolled
  BY ZenonT(30) DEF GcInv
<1>2. /\ poll \in 1 .. Len(blocking_tasks) /\ poll > 0
      /\ t \in Threads
      /\ NoDuplicates(blocking_tasks)
      /\ blocking_tasks \in Seq(Threads)
      /\ location[t] = LOC_BLOCKING
  BY <1>1 DEF PollOne, ListsOK, RestOK, Placement, Contains
<1>3. UNCHANGED <<priority, cur, charge, set, step, awaited, kept>>
  BY DEF PollOne
<1>4. boot = 7 /\ priority[t_max] = HIGH /\ MaxReady
  BY ZenonT(30), <1>2, AfterBoot
<1>5. UNCHANGED <<boot, allocs, max_allocs>>
  BY ZenonT(30) DEF gcvars
<1>6. CASE set[BlockingOn[t]] /\ Reschedule(t) /\ UNCHANGED poll
  <2>1. ListsOK' /\ MutatorsLow' /\ MaxReady'
    BY ZenonT(30), <1>1, <1>2, <1>3, <1>4, <1>6, GcReschedule
  <2>2. RestOK'
    BY ZenonT(30), <1>1, <1>3, <1>6 DEF RestOK
  <2>3. MaxPolled'
    <3>1. blocking_tasks' = Remove(blocking_tasks, t)
      BY ZenonT(30), <1>2, <1>6 DEF Reschedule, BlockingWithout
    <3> HIDE DEF t
    <3>2. /\ Len(blocking_tasks') = Len(blocking_tasks) - 1
          /\ \A i \in 1 .. poll - 1 : blocking_tasks'[i] = blocking_tasks[i]
      BY <1>2, <3>1, RemoveFacts DEF t
    <3> SUFFICES ASSUME NEW i \in 1 .. Len(blocking_tasks'), i < poll,
                        blocking_tasks'[i] = t_max
                 PROVE  ~ set[e_max]
      BY ZenonT(30), <1>3, <1>6 DEF MaxPolled
    <3>3. i \in 1 .. Len(blocking_tasks) /\ i \in 1 .. poll - 1
      BY <1>2, <3>2
    <3> QED BY ZenonT(30), <1>1, <3>2, <3>3 DEF MaxPolled
  <2> QED BY ZenonT(30), <1>3, <1>4, <1>5, <2>1, <2>2, <2>3, GcJoin
<1>7. CASE ~ set[BlockingOn[t]] /\ poll' = poll + 1 /\ UNCHANGED queues
  <2>1. ListsOK' /\ MutatorsLow' /\ MaxReady'
    BY ZenonT(30), <1>1, <1>3, <1>4, <1>7
       DEF ListsOK, Placement, MutatorsLow, MaxReady, HIGH, queues
  <2>2. poll' \in Nat
    BY <1>2, <1>7
  <2>3. RestOK'
    BY ZenonT(30), <1>1, <1>3, <2>2 DEF RestOK
  <2>4. t = t_max => ~ set[e_max]
    <3>1. LOC_BLOCKING # HIGH
      BY GcLevels DEF Levels, LOC_BLOCKING
    <3> QED BY ZenonT(30), <1>2, <1>4, <1>7, <3>1 DEF MaxReady
  <2> HIDE DEF t
  <2>5. MaxPolled'
    <3> SUFFICES ASSUME NEW i \in 1 .. Len(blocking_tasks), i < poll + 1,
                        blocking_tasks[i] = t_max
                 PROVE  ~ set[e_max]
      BY ZenonT(30), <1>3, <1>7 DEF MaxPolled, queues
    <3>1. i < poll \/ i = poll
      BY <1>2
    <3> QED BY ZenonT(30), <1>1, <2>4, <3>1 DEF MaxPolled, t
  <2> QED BY ZenonT(30), <1>3, <1>4, <1>5, <2>1, <2>3, <2>5, GcJoin
<1> QED BY ZenonT(30), <1>6, <1>7 DEF PollOne

(* Nothing has been polled at the start of a decision, or between two.      *)
LEMMA MaxNotPolled == poll' \in {0, 1} => MaxPolled'
BY DEF MaxPolled

(* The end of a decision.                                                   *)
LEMMA GcPick == ASSUME GcInv, Pick, UNCHANGED gcvars PROVE GcInv'
<1>1. ListsOK /\ RestOK /\ MutatorsLow
  BY ZenonT(30) DEF GcInv
<1>2. /\ poll > 0 /\ poll' = 0
      /\ kept' \in {0, kept, kept + 1} /\ (kept' = kept + 1 => kept <= Slice)
      /\ UNCHANGED <<priority, charge, set, step, awaited>>
  BY <1>1, SliceAssumption DEF Pick, RestOK, ListsOK
<1>3. /\ cur' = IF NextThread = NoThread THEN cur ELSE NextThread
      /\ IF charge /\ NextThread # NoThread
         THEN Charge(NextThread) ELSE UNCHANGED queues
  BY ZenonT(30) DEF Pick
<1>4. boot = 7 /\ priority[t_max] = HIGH /\ MaxReady
  BY ZenonT(30), <1>2, AfterBoot
<1>5. NextThread # NoThread => NextThread \in Threads
  BY ZenonT(30), <1>1, NextThreadFacts
<1>6. RestOK'
  <2>1. cur' \in Threads \cup {NoThread}
    BY ZenonT(30), <1>1, <1>3, <1>5 DEF RestOK
  <2>2. kept' \in 0 .. Slice + 1
    BY <1>1, <1>2, SliceAssumption DEF RestOK
  <2>3. poll' \in Nat
    BY <1>2
  <2> QED BY ZenonT(30), <1>1, <1>2, <2>1, <2>2, <2>3 DEF RestOK
<1>7. ListsOK' /\ MutatorsLow' /\ MaxReady'
  <2>1. CASE NextThread # NoThread /\ Reschedule(NextThread)
    BY ZenonT(30), <1>1, <1>2, <1>4, <1>5, <2>1, GcReschedule
  <2>2. CASE /\ NextThread # NoThread /\ time_to_run[NextThread] > 1
             /\ time_to_run' = [time_to_run EXCEPT ![NextThread] = @ - 1]
             /\ UNCHANGED <<location, BlockingOn, running_tasks, blocking_tasks>>
    <3>1. time_to_run' \in [Threads -> 0 .. Slice]
      BY <1>1, <1>5, <2>2, SliceAssumption DEF ListsOK
    <3> QED BY ZenonT(30), <1>1, <1>2, <1>4, <2>2, <3>1
               DEF ListsOK, Placement, MutatorsLow, MaxReady, HIGH
  <2>3. CASE UNCHANGED queues
    BY ZenonT(30), <1>1, <1>2, <1>4, <2>3
       DEF ListsOK, Placement, MutatorsLow, MaxReady, HIGH, queues
  <2> QED BY ZenonT(30), <1>3, <2>1, <2>2, <2>3 DEF Charge
<1>8. MaxPolled'
  BY <1>2, MaxNotPolled
<1>9. UNCHANGED <<boot, allocs, max_allocs>>
  BY ZenonT(30) DEF gcvars
<1> QED BY ZenonT(30), <1>2, <1>4, <1>6, <1>7, <1>8, <1>9, GcJoin

(* A thread is blocked: a mutator, or one of the collector's on its event.  *)
LEMMA GcBlocked ==
  ASSUME GcInv, NEW t \in Threads, NEW e \in Events \cup {NoEvent},
         BlockThread(t, e), t = t_max => e = e_max, cur # NoThread, poll' = 1, RestOK',
         UNCHANGED <<priority, set, boot, allocs, max_allocs>>
  PROVE  GcInv'
<1>1. ListsOK /\ MutatorsLow
  BY ZenonT(30) DEF GcInv
<1>2. boot = 7 /\ MaxReady
  BY ZenonT(30), AfterBoot
<1>3. ListsOK'
  BY ZenonT(30), <1>1, BlockLists
<1>4. /\ location'[t] = LOC_BLOCKING /\ BlockingOn'[t] = e
      /\ \A u \in Threads : u # t =>
           location'[u] = location[u] /\ BlockingOn'[u] = BlockingOn[u]
  BY <1>1 DEF BlockThread, ListsOK
<1>5. MutatorsLow'
  BY ZenonT(30), <1>1, <1>4, GcConstants DEF MutatorsLow
<1>6. MaxReady'
  BY ZenonT(30), <1>2, <1>4, GcConstants DEF MaxReady, HIGH
<1>7. MaxPolled'
  BY MaxNotPolled
<1> QED BY ZenonT(30), <1>2, <1>3, <1>5, <1>6, <1>7, GcJoin

(* A mutator ends.                                                          *)
LEMMA GcExit == ASSUME GcInv, NEW t \in Mutators, Exit(t), UNCHANGED gcvars PROVE GcInv'
<1>1. ListsOK /\ RestOK /\ MutatorsLow /\ t \in Threads /\ t # t_max
  BY ZenonT(30), GcConstants DEF GcInv
<1>2. /\ poll = 0 /\ cur = t /\ step' = [step EXCEPT ![t] = "dead"] /\ Release(t)
      /\ UNCHANGED <<priority, cur, poll, charge, set, awaited, kept>>
  BY ZenonT(30) DEF Exit, Running
<1>3. boot = 7 /\ MaxReady
  BY ZenonT(30), <1>1, <1>2, AfterBoot, NoThreadAssumption
<1>4. ListsOK'
  BY ZenonT(30), <1>1, <1>2, ReleaseLists
<1>5. /\ location'[t] = LOC_RELEASED /\ UNCHANGED BlockingOn
      /\ \A u \in Threads : u # t => location'[u] = location[u]
  BY <1>1, <1>2 DEF Release, ListsOK
<1>6. MutatorsLow'
  BY ZenonT(30), <1>1, <1>2, <1>5, GcConstants DEF MutatorsLow
<1>7. MaxReady'
  BY ZenonT(30), <1>1, <1>3, <1>5, GcConstants DEF MaxReady, HIGH
<1>8. MaxPolled'
  BY <1>2, MaxNotPolled
<1>9. RestOK'
  <2>1. step' \in [Threads -> Steps]
    BY ZenonT(30), <1>1, <1>2 DEF RestOK, Steps
  <2> QED BY ZenonT(30), <1>1, <1>2, <2>1 DEF RestOK
<1>10. UNCHANGED <<boot, allocs, max_allocs>>
  BY ZenonT(30) DEF gcvars
<1> QED BY ZenonT(30), <1>2, <1>3, <1>4, <1>6, <1>7, <1>8, <1>9, <1>10, GcJoin

(* A mutator is started, or yields.                                         *)
LEMMA GcMove ==
  ASSUME GcInv, NEW t \in Mutators, Start(t) \/ Yield(t), boot > 6, UNCHANGED gcvars
  PROVE  GcInv'
<1>1. ListsOK /\ RestOK /\ MutatorsLow /\ t \in Threads /\ t # t_max
  BY ZenonT(30), GcConstants DEF GcInv
<1>2. /\ Reschedule(t) /\ poll' \in {0, 1} /\ charge' \in BOOLEAN
      /\ step' \in {step, [step EXCEPT ![t] = "run"]}
      /\ UNCHANGED <<priority, cur, set, awaited, kept>>
  BY ZenonT(30), <1>1 DEF Start, Yield, Decide, RestOK
<1>3. boot = 7 /\ MaxReady
  <2>1. boot \in 1 .. 7
    BY ZenonT(30) DEF GcInv, BootOK
  <2>2. boot = 7 /\ boot > 2
    BY <2>1
  <2> QED BY ZenonT(30), <2>2 DEF GcInv, BootOK
<1>4. ListsOK' /\ MutatorsLow' /\ MaxReady'
  BY ZenonT(30), <1>1, <1>2, <1>3, GcReschedule
<1>5. MaxPolled'
  BY <1>2, MaxNotPolled
<1>6. RestOK'
  <2>1. step' \in [Threads -> Steps]
    BY ZenonT(30), <1>1, <1>2 DEF RestOK, Steps
  <2>2. poll' \in Nat
    BY <1>2
  <2> QED BY ZenonT(30), <1>1, <1>2, <2>1, <2>2 DEF RestOK
<1>7. UNCHANGED <<boot, allocs, max_allocs>>
  BY ZenonT(30) DEF gcvars
<1> QED BY ZenonT(30), <1>2, <1>3, <1>4, <1>5, <1>6, <1>7, GcJoin

(* The timer and the end of KMain, the wait loop, and the other events.     *)
LEMMA GcQuiet ==
  ASSUME GcInv, UNCHANGED gcvars,
         \/ TimerTick
         \/ Boot /\ boot > 6
         \/ \E t \in Mutators : Test(t)
         \/ \E e \in Events \ GcEvents :
              Interrupt(e) \/ \E t \in Mutators : Wait(t, e) \/ SetEvent(t, e)
  PROVE  GcInv'
<1>1. RestOK /\ BootOK /\ e_max \in GcEvents /\ e_max \in Events
  BY ZenonT(30), GcConstants DEF GcInv, GcEvents
<1>2. UNCHANGED <<queues, priority, boot, allocs, max_allocs>>
  BY ZenonT(30) DEF gcvars, TimerTick, Boot, Test, Interrupt, Wait, SetEvent
<1>3. UNCHANGED <<cur, kept>> /\ (UNCHANGED poll \/ poll' = 1) /\ charge' \in BOOLEAN
  BY ZenonT(30), <1>1 DEF TimerTick, Boot, Test, Interrupt, Wait, SetEvent, Decide, RestOK
<1>4. cur # NoThread \/ boot > 6
  BY ZenonT(30), GcConstants, NoThreadAssumption
     DEF TimerTick, Boot, Test, Interrupt, Wait, SetEvent, Running
<1>5. ~ (boot < 7)
  <2>1. boot \in 1 .. 7
    BY ZenonT(30), <1>1 DEF BootOK
  <2>2. boot > 6 => ~ (boot < 7)
    BY <2>1
  <2> QED BY ZenonT(30), <1>1, <1>4, <2>2 DEF BootOK
<1>6. set' \in [Events -> BOOLEAN] /\ set'[e_max] = set[e_max]
  <2>1. \/ set' = set
        \/ \E e \in Events \ GcEvents : \E b \in BOOLEAN : set' = [set EXCEPT ![e] = b]
    BY ZenonT(30) DEF TimerTick, Boot, Test, Interrupt, Wait, SetEvent
  <2>2. set \in [Events -> BOOLEAN]
    BY ZenonT(30), <1>1 DEF RestOK
  <2> QED BY <1>1, <2>1, <2>2
<1>7. step' \in [Threads -> Steps] /\ awaited' \in [Threads -> Events \cup {NoEvent}]
  <2>1. step \in [Threads -> Steps] /\ awaited \in [Threads -> Events \cup {NoEvent}]
    BY ZenonT(30), <1>1 DEF RestOK
  <2>2. \/ UNCHANGED <<step, awaited>>
        \/ \E t \in Threads : Test(t)
        \/ \E t \in Threads, e \in Events : Wait(t, e)
    BY ZenonT(30), GcConstants DEF TimerTick, Boot, Interrupt, SetEvent
  <2>3. ASSUME NEW t \in Threads, Test(t)
        PROVE  step' \in [Threads -> Steps] /\ awaited' \in [Threads -> Events \cup {NoEvent}]
    BY ZenonT(30), <2>1, <2>3 DEF Test, Steps
  <2>4. ASSUME NEW t \in Threads, NEW e \in Events, Wait(t, e)
        PROVE  step' \in [Threads -> Steps] /\ awaited' \in [Threads -> Events \cup {NoEvent}]
    BY ZenonT(30), <2>1, <2>4 DEF Wait, Steps
  <2> QED BY ZenonT(30), <2>1, <2>2, <2>3, <2>4
<1>8. poll' \in Nat
  BY <1>1, <1>3 DEF RestOK
<1>9. RestOK'
  BY ZenonT(30), <1>1, <1>3, <1>6, <1>7, <1>8 DEF RestOK
<1> QED BY ZenonT(30), <1>2, <1>3, <1>5, <1>6, <1>9, GcFrame

(* What one step of KMain does.                                             *)
LEMMA KMainIs ==
  ASSUME GcInv, KMain
  PROVE  /\ boot \in 1 .. 6
         /\ \/ \E t \in Threads :
                 /\ Reschedule(t) /\ step' = [step EXCEPT ![t] = "run"]
                 /\ UNCHANGED priority
                 /\ boot > 1 /\ (boot = 2 <=> t = t_max)
            \/ \E t \in Threads, l \in Levels :
                 /\ priority' = [priority EXCEPT ![t] = l] /\ UNCHANGED <<queues, step>>
                 /\ boot # 2 /\ (boot = 1 <=> t = t_max) /\ t \in GcThread
                 /\ boot = 1 => l = HIGH
<1> DEFINE t == BootCode[boot][1]
           what == BootCode[boot][2]
<1>1. boot \in 1 .. 6
  BY BootSteps DEF KMain, GcInv, BootOK
<1>2. \/ what = START /\ Reschedule(t) /\ step' = [step EXCEPT ![t] = "run"]
         /\ UNCHANGED priority
      \/ what # START /\ priority' = [priority EXCEPT ![t] = what]
         /\ UNCHANGED <<queues, step>>
  BY ZenonT(30) DEF KMain
<1>3. /\ boot = 1 => t = t_max /\ what = HIGH
      /\ boot = 2 => t = t_max /\ what = START
      /\ boot = 3 => t = t_min /\ what = LOW
      /\ boot = 4 => t = t_min /\ what = START
      /\ boot = 5 => t = t_min /\ what = HIGH
      /\ boot = 6 => t = t_request /\ what = START
  BY BootSteps
<1> HIDE DEF t, what
<1>4. /\ t \in Threads /\ t \in GcThread /\ (t = t_max <=> boot \in {1, 2})
      /\ what = START <=> boot \in {2, 4, 6}
      /\ what # START => what \in Levels
      /\ boot = 1 => what = HIGH
  BY <1>1, <1>3, GcConstants, GcLevels DEF GcThread
<1>5. CASE what = START
  <2>1. boot > 1 /\ (boot = 2 <=> t = t_max)
    BY <1>4, <1>5
  <2> QED BY ZenonT(30), <1>1, <1>2, <1>4, <1>5, <2>1
<1>6. CASE what # START
  <2>1. boot # 2 /\ (boot = 1 <=> t = t_max)
    BY <1>1, <1>4, <1>6
  <2> QED BY ZenonT(30), <1>1, <1>2, <1>4, <1>6, <2>1
<1> QED BY ZenonT(30), <1>5, <1>6

(* KMain makes the collector's thread ready at the highest level.           *)
LEMMA GcKMain == ASSUME GcInv, KMain PROVE GcInv'
<1>1. ListsOK /\ RestOK /\ MutatorsLow /\ BootOK /\ MaxPolled
  BY ZenonT(30) DEF GcInv
<1>2. /\ boot' = boot + 1 /\ boot \in 1 .. 6
      /\ UNCHANGED <<cur, poll, charge, set, awaited, kept, allocs, max_allocs>>
  BY ZenonT(30), KMainIs DEF KMain
<1>3. /\ boot' \in 1 .. 7 /\ boot < 7
      /\ boot > 1 \/ boot = 1
      /\ boot' > 2 => boot > 2 \/ boot = 2
      /\ boot > 2 => boot > 1 /\ boot # 2
  BY <1>2
<1>4. poll' = 0 /\ cur' = NoThread
  BY ZenonT(30), <1>1, <1>2, <1>3 DEF BootOK
<1>5. step' \in [Threads -> Steps]
  BY ZenonT(30), <1>1, KMainIs DEF RestOK, Steps
<1>6. RestOK' /\ Counters' /\ MaxPolled'
  <2>1. RestOK'
    BY ZenonT(30), <1>1, <1>2, <1>5 DEF RestOK
  <2>2. Counters'
    BY ZenonT(30), <1>2 DEF GcInv, Counters
  <2> QED BY ZenonT(30), <1>4, <2>1, <2>2, MaxNotPolled
<1>7. ASSUME ListsOK', MutatorsLow', priority'[t_max] = HIGH, boot' > 2 => MaxReady'
      PROVE  GcInv'
  <2>1. BootOK'
    BY ZenonT(30), <1>3, <1>4, <1>7 DEF BootOK, HIGH
  <2> QED BY ZenonT(30), <1>6, <1>7, <2>1 DEF GcInv
<1>8. ASSUME NEW t \in Threads, Reschedule(t), UNCHANGED priority,
             boot > 1, boot = 2 <=> t = t_max
      PROVE  GcInv'
  <2>1. priority[t_max] = HIGH /\ (boot > 2 => MaxReady)
    BY ZenonT(30), <1>1, <1>8 DEF BootOK
  <2>2. ListsOK' /\ MutatorsLow' /\ (boot' > 2 => MaxReady')
    BY ZenonT(30), <1>1, <1>3, <1>8, <2>1, GcReschedule
  <2> QED BY ZenonT(30), <1>7, <1>8, <2>1, <2>2 DEF HIGH
<1>9. ASSUME NEW t \in Threads, NEW l \in Levels, priority' = [priority EXCEPT ![t] = l],
             UNCHANGED queues, boot # 2, boot = 1 <=> t = t_max, t \in GcThread,
             boot = 1 => l = HIGH
      PROVE  GcInv'
  <2>1. /\ priority \in [Threads -> Levels] /\ priority' \in [Threads -> Levels]
        /\ priority'[t] = l /\ \A u \in Threads : u # t => priority'[u] = priority[u]
    BY <1>1, <1>9 DEF ListsOK
  <2>2. ListsOK'
    BY ZenonT(30), <1>1, <1>9, <2>1 DEF ListsOK, Placement, queues
  <2>3. MutatorsLow'
    BY ZenonT(30), <1>1, <1>9, <2>1, GcConstants DEF MutatorsLow, queues
  <2>4. priority'[t_max] = HIGH
    BY ZenonT(30), <1>1, <1>3, <1>9, <2>1, GcConstants DEF BootOK
  <2>5. boot' > 2 => MaxReady'
    BY ZenonT(30), <1>1, <1>3, <1>9 DEF BootOK, MaxReady, HIGH, queues
  <2> QED BY ZenonT(30), <1>7, <2>2, <2>3, <2>4, <2>5
<1> QED BY ZenonT(30), <1>8, <1>9, KMainIs

(* Allocations are counted, and collections start the count again.          *)
LEMMA GcCount ==
  ASSUME GcInv, \/ \E t \in GcThread : Collect(t)
                \/ \E t \in Mutators : Alloc(t)
  PROVE  GcInv'
<1>1. ListsOK /\ RestOK /\ MutatorsLow /\ BootOK /\ Counters
  BY ZenonT(30) DEF GcInv
<1>2. /\ UNCHANGED <<queues, priority>> /\ UNCHANGED <<cur, poll, charge, awaited, kept, boot>>
      /\ poll = 0 /\ Delegates
  BY ZenonT(30) DEF Collect, Alloc, Running
<1>3. allocs' \in Nat /\ max_allocs' \in Nat
  <2>1. CASE \E t \in GcThread : Collect(t)
    BY <1>1, <2>1, GcAssumption DEF Collect, Counters
  <2>2. CASE \E t \in Mutators : Alloc(t)
    BY <1>1, <2>2 DEF Alloc, Counters
  <2> QED BY ZenonT(30), <2>1, <2>2
<1>4. set' \in [Events -> BOOLEAN] /\ (set'[e_max] <=> allocs' >= max_allocs')
  <2>1. set \in [Events -> BOOLEAN]
    BY ZenonT(30), <1>1 DEF RestOK
  <2>2. (allocs' >= max_allocs') \in BOOLEAN /\ (allocs' >= min_allocs) \in BOOLEAN
    OBVIOUS
  <2> QED BY ZenonT(30), <1>2, <2>1, <2>2, GcConstants DEF Delegates
<1>5. step' \in [Threads -> Steps]
  BY ZenonT(30), <1>1, GcConstants DEF Collect, Alloc, RestOK, Steps
<1>6. RestOK'
  BY ZenonT(30), <1>1, <1>2, <1>4, <1>5 DEF RestOK
<1>7. ListsOK' /\ MutatorsLow' /\ BootOK'
  BY ZenonT(30), <1>1, <1>2
     DEF ListsOK, Placement, MutatorsLow, BootOK, MaxReady, HIGH, queues
<1>8. MaxPolled'
  BY ZenonT(30), <1>2, MaxNotPolled
<1> QED BY ZenonT(30), <1>3, <1>4, <1>6, <1>7, <1>8 DEF GcInv, Counters

(* A mutator in its wait loop, or a thread of the collector, blocks.        *)
LEMMA GcBlocks ==
  ASSUME GcInv, \/ \E t \in Mutators : Block(t) /\ UNCHANGED gcvars
                \/ \E t \in GcThread : GcBlock(t)
  PROVE  GcInv'
<1>1. RestOK
  BY ZenonT(30) DEF GcInv
<1>2. PICK t \in Threads :
        /\ t = t_max => t \in GcThread /\ GcBlock(t)
        /\ \/ t \in Mutators /\ Block(t) /\ UNCHANGED gcvars
           \/ t \in GcThread /\ GcBlock(t)
  BY ZenonT(30), GcConstants
<1>3. PICK e \in Events \cup {NoEvent} : BlockThread(t, e) /\ (t = t_max => e = e_max)
  BY ZenonT(30), <1>1, <1>2, WaitedFacts, GcConstants DEF Block, GcBlock, RestOK
<1>4. /\ cur = t /\ poll' = 1 /\ charge' = FALSE /\ step' = [step EXCEPT ![t] = "test"]
      /\ UNCHANGED <<priority, cur, set, awaited, kept, boot, allocs, max_allocs>>
  BY ZenonT(30), <1>2 DEF Block, GcBlock, Running, Decide, gcvars
<1>5. RestOK'
  <2>1. step' \in [Threads -> Steps]
    BY ZenonT(30), <1>1, <1>4 DEF RestOK, Steps
  <2>2. poll' \in Nat
    BY <1>4
  <2> QED BY ZenonT(30), <1>1, <1>4, <2>1, <2>2 DEF RestOK
<1>6. cur # NoThread
  BY ZenonT(30), <1>4, NoThreadAssumption
<1> QED BY ZenonT(30), <1>3, <1>4, <1>5, <1>6, GcBlocked

(* The state KMain starts in.                                               *)
LEMMA GcInitInv == GcInit => GcInv
<1> SUFFICES ASSUME GcInit PROVE GcInv
  OBVIOUS
<1>1. Init
  BY ZenonT(30) DEF GcInit
<1>2. ListsOK /\ RestOK
  BY ZenonT(30), <1>1, InitInv, InLists DEF IInv
<1>3. MutatorsLow
  BY ZenonT(30), <1>1, GcConstants DEF GcInit, Init, MutatorsLow
<1>4. boot = 1 /\ poll = 0 /\ cur = NoThread
  BY ZenonT(30), <1>1 DEF GcInit, Init
<1>5. BootOK
  BY <1>4 DEF BootOK
<1>6. MaxPolled
  BY <1>4 DEF MaxPolled
<1>7. Counters
  <2>1. set[e_max] = FALSE /\ allocs = 0 /\ max_allocs = first_max_allocs
    BY ZenonT(30), <1>1, GcConstants DEF GcInit, Init
  <2> QED BY <2>1, GcAssumption DEF Counters
<1> QED BY ZenonT(30), <1>2, <1>3, <1>5, <1>6, <1>7 DEF GcInv

(* Every step of the collector's threads, of KMain and of the mutators      *)
(* keeps the invariant.                                                     *)
LEMMA GcNextInv == GcInv /\ [GcNext]_allvars => GcInv'
<1> SUFFICES ASSUME GcInv, [GcNext]_allvars PROVE GcInv'
  OBVIOUS
<1>1. CASE UNCHANGED allvars
  BY ZenonT(30), <1>1
     DEF allvars, vars, gcvars, GcInv, ListsOK, RestOK, Placement, MutatorsLow, BootOK,
         MaxReady, MaxPolled, Counters, HIGH
<1>2. CASE KMain
  BY ZenonT(30), <1>2, GcKMain
<1>3. CASE Kernel
  <2>1. Booted => boot > 6
    BY BootSteps DEF Booted
  <2> QED BY ZenonT(30), <1>3, <2>1, GcPoll, GcPick, GcQuiet, GcMove DEF Kernel
<1>4. CASE \E t \in GcThread : GcBlock(t) \/ Collect(t)
  BY ZenonT(30), <1>4, GcBlocks, GcCount
<1>5. CASE \E t \in Mutators : Alloc(t)
  BY ZenonT(30), <1>5, GcCount
<1>6. ASSUME NEW t \in Mutators, Mutate(t) PROVE GcInv'
  <2>1. CASE Yield(t)
    <3>1. cur # NoThread
      BY ZenonT(30), <2>1, GcConstants, NoThreadAssumption DEF Yield, Running
    <3>2. boot = 7
      BY ZenonT(30), <3>1, AfterBoot
    <3>3. boot > 6
      BY <3>2
    <3> QED BY ZenonT(30), <1>6, <2>1, <3>3, GcMove DEF Mutate
  <2>2. CASE ~ Yield(t)
    BY ZenonT(30), <1>6, <2>2, GcQuiet, GcBlocks, GcExit DEF Mutate
  <2> QED BY ZenonT(30), <2>1, <2>2
<1> QED BY ZenonT(30), <1>1, <1>2, <1>3, <1>4, <1>5, <1>6 DEF GcNext

(* gengc_collectthread.cs and KMain: once allocs has reached max_allocs no  *)
(* decision gives the processor to a mutator.  The collector's thread is    *)
(* not on the blocking list when the poll has ended, so it is ready, at a   *)
(* level no mutator is at.                                                  *)
THEOREM MaxAllocFirstHolds == GcSpec => MaxAllocFirst
<1>1. ASSUME GcInv, Pick, allocs >= max_allocs PROVE cur' \notin Mutators
  <2>1. ListsOK /\ RestOK /\ MutatorsLow /\ MaxPolled /\ set[e_max]
    BY ZenonT(30), <1>1 DEF GcInv, Counters
  <2>2. poll > Len(blocking_tasks) /\ poll > 0
    BY <1>1, <2>1 DEF Pick, RestOK, ListsOK
  <2>3. MaxReady
    BY ZenonT(30), <1>1, <2>2, AfterBoot
  <2>4. ~ Contains(blocking_tasks, t_max)
    <3>1. \A i \in 1 .. Len(blocking_tasks) : i < poll
      BY <2>1, <2>2 DEF RestOK, ListsOK
    <3> QED BY ZenonT(30), <2>1, <3>1 DEF MaxPolled, Contains
  <2>5. location[t_max] = HIGH
    BY ZenonT(30), <2>1, <2>3, <2>4, GcConstants DEF MaxReady, ListsOK, Placement
  <2>6. NextThread # NoThread
    <3>1. Contains(running_tasks[HIGH], t_max)
      BY ZenonT(30), <2>1, <2>5, GcConstants, GcLevels DEF ListsOK, Placement
    <3>2. HIGH \in ReadyLevels
      BY <3>1, GcLevels DEF Contains, ReadyLevels
    <3>3. ReadyLevels # {} /\ ReadyLevels \in SUBSET Levels
      BY <3>2 DEF ReadyLevels
    <3>4. Highest \in ReadyLevels
      BY <3>3, LevelMaximum DEF Highest
    <3>5. running_tasks[Highest] \in Seq(Threads) /\ running_tasks[Highest] # <<>>
      BY <3>4, <2>1 DEF ReadyLevels, ListsOK
    <3> QED BY <3>3, <3>5, NoThreadAssumption DEF NextThread
  <2>7. /\ NextThread \in Threads /\ location[NextThread] \in Levels
        /\ \A u \in Threads : location[u] >= 0 => location[u] <= location[NextThread]
    BY ZenonT(30), <2>1, <2>6, NextThreadFacts
  <2>8. cur' = NextThread
    BY ZenonT(30), <1>1, <2>6 DEF Pick
  <2>9. location[NextThread] = HIGH
    <3>1. HIGH \in Nat
      BY GcLevels DEF Levels
    <3>2. HIGH <= location[NextThread]
      BY <2>5, <2>7, <3>1, GcConstants
    <3> QED BY <2>7, <3>1, <3>2, GcLevels DEF Levels
  <2>10. HIGH \notin {DEF_PRIORITY, LOC_BLOCKING, LOC_RELEASED}
    BY GcLevels DEF Levels, LOC_BLOCKING, LOC_RELEASED
  <2> QED BY ZenonT(30), <2>1, <2>8, <2>9, <2>10 DEF MutatorsLow
<1>2. GcSpec => []GcInv
  BY GcInitInv, GcNextInv, PTL DEF GcSpec
<1>3. GcInv /\ [GcNext]_allvars => [Pick /\ allocs >= max_allocs => cur' \notin Mutators]_allvars
  BY ZenonT(30), <1>1
<1> QED BY <1>2, <1>3, PTL DEF GcSpec, MaxAllocFirst
=============================================================================
