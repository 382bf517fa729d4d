----------------------------- MODULE RingBuffer -----------------------------
(***************************************************************************)
(* collections/RingBuffer.cs: the ring buffer under every IPC mailbox and  *)
(* every physical-page stack.  Enqueue, Dequeue and Peek are split at      *)
(* their accesses to the shared indices, the places where a thread can be  *)
(* preempted: each read, each compare-and-exchange and each slot access is *)
(* an action.                                                              *)
(*                                                                         *)
(* The four int indices only ever grow.  `index & mask' is index % N; as N *)
(* is a power of two it divides 2^32, so wrapping the indices at 32 bits   *)
(* changes none of the slot numbers nor the masked comparisons, and they   *)
(* are kept as naturals.                                                   *)
(***************************************************************************)
EXTENDS Naturals, Sequences

CONSTANTS
  Producers,    \* threads that call Enqueue
  Consumers,    \* threads that call Dequeue
  Peekers,      \* threads that call Peek; a consumer may be one
  Values,       \* the values enqueued: IPC message pointers, page addresses
  None,         \* default(T), and the content of a slot never written
  N,            \* mask + 1, the number of slots
  Limit         \* bound: no Enqueue starts once prod_head has reached it

ASSUME NAssumption == N \in Nat \ {0}
ASSUME LimitAssumption == Limit \in Nat
ASSUME NoneAssumption == None \notin Values
ASSUME ThreadsAssumption ==
  /\ Producers \cap Consumers = {}
  /\ Producers \cap Peekers = {}

VARIABLES
  prod_head, prod_tail, cons_head, cons_tail,
  d,            \* the slots
  pc,           \* where each thread is in its call ("idle": in none)
  other,        \* l_cons_tail of a producer, l_prod_tail of the others
  head,         \* l_prod_head of a producer, l_cons_head of the others
  val,          \* the argument of Enqueue, the result of Dequeue and Peek
  sent          \* history: the values in the order their slots were reserved

shared == <<prod_head, prod_tail, cons_head, cons_tail, d>>
vars == <<prod_head, prod_tail, cons_head, cons_tail, d,
          pc, other, head, val, sent>>

Threads == Producers \cup Consumers \cup Peekers
Slots == 0 .. N - 1
Steps == {"idle", "read", "cas", "copy", "publish",
          "peek read", "peek copy", "peek check"}

(* index & mask *)
Slot(i) == i % N

Init ==
  /\ prod_head = 0 /\ prod_tail = 0 /\ cons_head = 0 /\ cons_tail = 0
  /\ d = [s \in Slots |-> None]
  /\ pc = [t \in Threads |-> "idle"]
  /\ other = [t \in Threads |-> 0]
  /\ head = [t \in Threads |-> 0]
  /\ val = [t \in Threads |-> None]
  /\ sent = <<>>

Goto(t, step) == pc' = [pc EXCEPT ![t] = step]

-----------------------------------------------------------------------------
(* Faulty variants of the actions below, one per property: each is a slip   *)
(* the code could contain, and each is caught by the property named.        *)

(* EventuallyPublished: prod_head stored, not compared and exchanged.       *)
EnqueueReserve_Store(p) ==
  /\ pc[p] = "cas"
  /\ prod_head' = head[p] + 1
  /\ sent' = Append(sent, val[p])
  /\ Goto(p, "copy")
  /\ UNCHANGED <<prod_tail, cons_head, cons_tail, d, other, head, val>>

(* NoOverrun, Refines: no test for a full buffer.                           *)
EnqueueReadHead_NoTest(p) ==
  /\ pc[p] = "read"
  /\ head' = [head EXCEPT ![p] = prod_head]
  /\ Goto(p, "cas")
  /\ UNCHANGED <<shared, other, val, sent>>

(* EventuallyTaken: a buffer of one value is taken for empty.               *)
DequeueReadHead_Early(c) ==
  /\ pc[c] = "read"
  /\ head' = [head EXCEPT ![c] = cons_head]
  /\ IF Slot(other[c]) \in {Slot(cons_head), Slot(cons_head + 1)}
       THEN Goto(c, "idle") /\ val' = [val EXCEPT ![c] = None]
       ELSE Goto(c, "cas") /\ UNCHANGED val
  /\ UNCHANGED <<shared, other, sent>>

(* Fifo: the slot after the reserved one is copied.                         *)
DequeueCopy_Next(c) ==
  /\ pc[c] = "copy"
  /\ val' = [val EXCEPT ![c] = d[Slot(head[c] + 1)]]
  /\ Goto(c, "publish")
  /\ UNCHANGED <<shared, other, head, sent>>

(* PeekSeesFront: the newest value is copied, not the oldest.               *)
PeekCopy_Tail(k) ==
  /\ pc[k] = "peek copy"
  /\ val' = [val EXCEPT ![k] = d[Slot(other[k] - 1)]]
  /\ Goto(k, "peek check")
  /\ UNCHANGED <<shared, other, head, sent>>

-----------------------------------------------------------------------------
(* Enqueue(val) *)

(* The call, and l_cons_tail = cons_tail. *)
EnqueueCall(p, v) ==
  /\ pc[p] = "idle"
  /\ prod_head < Limit
  /\ val' = [val EXCEPT ![p] = v]
  /\ other' = [other EXCEPT ![p] = cons_tail]
  /\ Goto(p, "read")
  /\ UNCHANGED <<shared, head, sent>>

(* l_prod_head = prod_head, then the test for a full buffer on the copies.  *)
EnqueueReadHead(p) ==
  /\ pc[p] = "read"
  /\ head' = [head EXCEPT ![p] = prod_head]
  /\ IF Slot(prod_head + 1) = Slot(other[p])
       THEN Goto(p, "idle")              \* out of space: returns false
       ELSE Goto(p, "cas")
  /\ UNCHANGED <<shared, other, val, sent>>

(* The compare-and-exchange of prod_head; on failure the loop starts again  *)
(* with a new read of cons_tail.                                            *)
EnqueueReserve(p) ==
  /\ pc[p] = "cas"
  /\ \/ /\ prod_head = head[p]
        /\ prod_head' = head[p] + 1
        /\ sent' = Append(sent, val[p])
        /\ Goto(p, "copy")
        /\ UNCHANGED other
     \/ /\ prod_head # head[p]
        /\ other' = [other EXCEPT ![p] = cons_tail]
        /\ Goto(p, "read")
        /\ UNCHANGED <<prod_head, sent>>
  /\ UNCHANGED <<prod_tail, cons_head, cons_tail, d, head, val>>

(* d[l_prod_head & mask] = val *)
EnqueueStore(p) ==
  /\ pc[p] = "copy"
  /\ d' = [d EXCEPT ![Slot(head[p])] = val[p]]
  /\ Goto(p, "publish")
  /\ UNCHANGED <<prod_head, prod_tail, cons_head, cons_tail,
                 other, head, val, sent>>

(* The exchange of prod_tail that ends the spin; a failed one changes       *)
(* nothing.                                                                 *)
EnqueuePublish(p) ==
  /\ pc[p] = "publish"
  /\ prod_tail = head[p]
  /\ prod_tail' = head[p] + 1
  /\ Goto(p, "idle")
  /\ UNCHANGED <<prod_head, cons_head, cons_tail, d, other, head, val, sent>>

-----------------------------------------------------------------------------
(* Dequeue(out val) *)

DequeueCall(c) ==
  /\ pc[c] = "idle"
  /\ other' = [other EXCEPT ![c] = prod_tail]
  /\ Goto(c, "read")
  /\ UNCHANGED <<shared, head, val, sent>>

DequeueReadHead(c) ==
  /\ pc[c] = "read"
  /\ head' = [head EXCEPT ![c] = cons_head]
  /\ IF Slot(other[c]) = Slot(cons_head)
       THEN /\ Goto(c, "idle")           \* empty: returns false
            /\ val' = [val EXCEPT ![c] = None]
       ELSE /\ Goto(c, "cas")
            /\ UNCHANGED val
  /\ UNCHANGED <<shared, other, sent>>

DequeueReserve(c) ==
  /\ pc[c] = "cas"
  /\ \/ /\ cons_head = head[c]
        /\ cons_head' = head[c] + 1
        /\ Goto(c, "copy")
        /\ UNCHANGED other
     \/ /\ cons_head # head[c]
        /\ other' = [other EXCEPT ![c] = prod_tail]
        /\ Goto(c, "read")
        /\ UNCHANGED cons_head
  /\ UNCHANGED <<prod_head, prod_tail, cons_tail, d, head, val, sent>>

DequeueCopy(c) ==
  /\ pc[c] = "copy"
  /\ val' = [val EXCEPT ![c] = d[Slot(head[c])]]
  /\ Goto(c, "publish")
  /\ UNCHANGED <<shared, other, head, sent>>

DequeuePublish(c) ==
  /\ pc[c] = "publish"
  /\ cons_tail = head[c]
  /\ cons_tail' = head[c] + 1
  /\ Goto(c, "idle")
  /\ UNCHANGED <<prod_head, prod_tail, cons_head, d, other, head, val, sent>>

-----------------------------------------------------------------------------
(* Peek(out val): l_prod_tail, then l_cons_head and the test for an empty   *)
(* buffer, then the slot, then the test that cons_head has not moved.       *)

PeekCall(k) ==
  /\ pc[k] = "idle"
  /\ other' = [other EXCEPT ![k] = prod_tail]
  /\ val' = [val EXCEPT ![k] = None]
  /\ Goto(k, "peek read")
  /\ UNCHANGED <<shared, head, sent>>

PeekReadHead(k) ==
  /\ pc[k] = "peek read"
  /\ head' = [head EXCEPT ![k] = cons_head]
  /\ Goto(k, IF Slot(other[k]) = Slot(cons_head) THEN "idle" ELSE "peek copy")
  /\ UNCHANGED <<shared, other, val, sent>>

PeekCopy(k) ==
  /\ pc[k] = "peek copy"
  /\ val' = [val EXCEPT ![k] = d[Slot(head[k])]]
  /\ Goto(k, "peek check")
  /\ UNCHANGED <<shared, other, head, sent>>

(* cons_head == l_cons_head ? return the value : try again *)
PeekRecheck(k) ==
  /\ pc[k] = "peek check"
  /\ \/ /\ cons_head = head[k]
        /\ Goto(k, "idle")
        /\ UNCHANGED <<other, val>>
     \/ /\ cons_head # head[k]
        /\ other' = [other EXCEPT ![k] = prod_tail]
        /\ val' = [val EXCEPT ![k] = None]
        /\ Goto(k, "peek read")
  /\ UNCHANGED <<shared, head, sent>>

-----------------------------------------------------------------------------

Enqueue(p) ==
  \/ \E v \in Values : EnqueueCall(p, v)
  \/ EnqueueReadHead(p)
  \/ EnqueueReserve(p)
  \/ EnqueueStore(p)
  \/ EnqueuePublish(p)

Dequeue(c) ==
  \/ DequeueCall(c)
  \/ DequeueReadHead(c)
  \/ DequeueReserve(c)
  \/ DequeueCopy(c)
  \/ DequeuePublish(c)

Peek(k) ==
  \/ PeekCall(k)
  \/ PeekReadHead(k)
  \/ PeekCopy(k)
  \/ PeekRecheck(k)

Next ==
  \/ \E p \in Producers : Enqueue(p)
  \/ \E c \in Consumers : Dequeue(c)
  \/ \E k \in Peekers : Peek(k)

Spec == Init /\ [][Next]_vars

(* The scheduler is preemptive, so a thread inside a call always runs       *)
(* again.  Nobody is obliged to start a call, except that the owner of a    *)
(* mailbox, whatever else it does, comes back to read it (MessageLoop).     *)
Fairness ==
  /\ \A p \in Producers :
       WF_vars(EnqueueReadHead(p) \/ EnqueueReserve(p)
               \/ EnqueueStore(p) \/ EnqueuePublish(p))
  /\ \A c \in Consumers :
       /\ SF_vars(DequeueCall(c))
       /\ WF_vars(DequeueReadHead(c) \/ DequeueReserve(c)
                  \/ DequeueCopy(c) \/ DequeuePublish(c))
  /\ \A k \in Peekers :
       WF_vars(PeekReadHead(k) \/ PeekCopy(k) \/ PeekRecheck(k))

FairSpec == Spec /\ Fairness

-----------------------------------------------------------------------------
(* The indices, slots and local copies of the calls keep their types, and   *)
(* every thread is at a step of a call or in none.                          *)
TypeOK ==
  /\ prod_head \in Nat /\ prod_tail \in Nat
  /\ cons_head \in Nat /\ cons_tail \in Nat
  /\ d \in [Slots -> Values \cup {None}]
  /\ pc \in [Threads -> Steps]
  /\ other \in [Threads -> Nat]
  /\ head \in [Threads -> Nat]
  /\ val \in [Threads -> Values \cup {None}]
  /\ sent \in Seq(Values)

Reserving(t) == pc[t] \in {"copy", "publish"}

(* Whatever the number of threads, the compare-and-exchange of a head gives *)
(* an index to one thread only, and the spin on the tail publishes indices  *)
(* in the order they were reserved: between tail and head, every index is   *)
(* held by exactly one call, and no call holds another index.               *)
Reservations ==
  /\ prod_tail <= prod_head
  /\ cons_tail <= cons_head
  /\ \A p \in Producers :
       Reserving(p) => prod_tail <= head[p] /\ head[p] < prod_head
  /\ \A c \in Consumers :
       Reserving(c) => cons_tail <= head[c] /\ head[c] < cons_head
  /\ \A p, q \in Producers :
       Reserving(p) /\ Reserving(q) /\ head[p] = head[q] => p = q
  /\ \A c, e \in Consumers :
       Reserving(c) /\ Reserving(e) /\ head[c] = head[e] => c = e

(* The buffer is never over-filled: a slot is reserved for writing only     *)
(* after the value that was in it has been copied out.  One slot stays free *)
(* so that a full buffer does not look empty.                               *)
NoOverrun == prod_head <= cons_tail + (N - 1)

(* The buffer is never over-drained: a slot is reserved for reading only    *)
(* after a value has been published in it.                                  *)
NoUnderrun == cons_head <= prod_tail

(* First in, first out: the value a Dequeue is about to return is the value *)
(* whose slot was reserved in the same position.                            *)
Fifo ==
  \A c \in Consumers : pc[c] = "publish" =>
    /\ head[c] < Len(sent)
    /\ val[c] = sent[head[c] + 1]

(* A value Peek is about to return is the value at the front of the queue   *)
(* at that moment: the second look at cons_head discards the others.        *)
PeekSeesFront ==
  \A k \in Peekers : pc[k] = "peek check" /\ cons_head = head[k] =>
    /\ head[k] < Len(sent)
    /\ val[k] = sent[head[k] + 1]

(* A reserved slot is eventually published, although publishing waits for   *)
(* every earlier reservation: the spins on prod_tail do not deadlock.       *)
EventuallyPublished ==
  \A p \in Producers : Reserving(p) ~> pc[p] = "idle"

(* Every value that was enqueued is eventually taken out by the owner of    *)
(* the mailbox.                                                             *)
EventuallyTaken ==
  \A i \in 1 .. Limit : Len(sent) >= i ~> cons_tail >= i

-----------------------------------------------------------------------------
(* The promise: a bounded first-in first-out queue of the published values  *)
(* that no Dequeue has claimed.                                             *)

queue == SubSeq(sent, cons_head + 1, prod_tail)

Abstract == INSTANCE BoundedFifo WITH q <- queue, Capacity <- N - 1

(* Enqueue and Dequeue implement the queue's Put and Take, however their    *)
(* steps interleave: a value is put when it is published and taken when its *)
(* index is reserved.                                                       *)
Refines == Abstract!Spec
=============================================================================
