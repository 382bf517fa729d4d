-------------------------- MODULE RingBuffer_proofs --------------------------
(***************************************************************************)
(* Theorems about RingBuffer.cs, for every number of slots, every set of   *)
(* values and every bound.  They say which threads may share a buffer:     *)
(*   - any producers and consumers: an index belongs to one call at a time *)
(*     (ReservationsHold);                                                 *)
(*   - one producer: no over-filling, however many consumers (NoOverrun);  *)
(*   - one consumer: no over-draining, however many producers (NoUnderrun);*)
(*   - one of each: the values come out in order (Fifo), a Peek by the     *)
(*     consumer sees the front (PeekSeesFront), and the buffer implements  *)
(*     a bounded queue (Refines).                                          *)
(***************************************************************************)
EXTENDS RingBuffer, Integers, SequenceTheorems, TLAPS

(* Time limits that leave a slow machine room.                              *)
USE SMTT(30), ZenonT(30)

-----------------------------------------------------------------------------
(* Slot numbers *)

(* Euclid's equation for the slot of an index.                              *)
LEMMA DivMod ==
  ASSUME NEW i \in Nat
  PROVE  i = N * (i \div N) + (i % N)
BY NAssumption

(* The quotient of a division by N is unique.                               *)
LEMMA QuotientUnique ==
  ASSUME NEW a \in Int, NEW b \in Int, NEW r \in Slots, NEW s \in Slots,
         N * a + r = N * b + s
  PROVE  a = b
<1>1. N * (a - b) = s - r
  BY NAssumption DEF Slots
<1>2. a - b <= 0
  <2>1. SUFFICES ASSUME a - b >= 1 PROVE FALSE
    BY NAssumption
  <2>2. N * (a - b) >= N
    BY NAssumption, <2>1
  <2> QED BY <2>2, <1>1, NAssumption DEF Slots
<1>3. a - b >= 0
  <2>1. SUFFICES ASSUME a - b <= -1 PROVE FALSE
    BY NAssumption
  <2>2. N * (a - b) <= -N
    BY NAssumption, <2>1
  <2> QED BY <2>2, <1>1, NAssumption DEF Slots
<1> QED BY <1>2, <1>3

(* `index & mask' is a slot.                                                *)
LEMMA SlotType ==
  ASSUME NEW i \in Nat
  PROVE  Slot(i) \in Slots
BY NAssumption DEF Slot, Slots

(* An index and the one N further use the same slot.                        *)
LEMMA SlotPeriod ==
  ASSUME NEW i \in Nat
  PROVE  Slot(i + N) = Slot(i)
<1> DEFINE q == i \div N        r == i % N
           u == (i + N) \div N  s == (i + N) % N
<1>1. q \in Int /\ u \in Int /\ r \in Slots /\ s \in Slots
  BY NAssumption DEF Slots
<1>2. i = N * q + r
  BY DivMod
<1>3. i + N = N * u + s
  BY DivMod, NAssumption
<1>4. N * (q + 1) + r = N * u + s
  BY <1>1, <1>2, <1>3, NAssumption DEF Slots
<1>5. q + 1 = u
  BY <1>1, <1>4, QuotientUnique
<1> QED BY <1>1, <1>4, <1>5, NAssumption DEF Slot, Slots

(* Fewer than N consecutive indices use different slots.                    *)
LEMMA SlotsDiffer ==
  ASSUME NEW i \in Nat, NEW j \in Nat, i < j, j < i + N
  PROVE  Slot(i) # Slot(j)
<1> DEFINE q == i \div N  r == i % N
           u == j \div N  s == j % N
<1>1. q \in Int /\ u \in Int /\ r \in Slots /\ s \in Slots
  BY NAssumption DEF Slots
<1>2. i = N * q + r
  BY DivMod
<1>3. j = N * u + s
  BY DivMod
<1>4. SUFFICES ASSUME r = s PROVE FALSE
  BY DEF Slot
<1>5. N * u + 0 = N * q + (j - i)
  BY <1>1, <1>2, <1>3, <1>4, NAssumption DEF Slots
<1>6. 0 \in Slots /\ j - i \in Slots
  BY NAssumption DEF Slots
<1> HIDE DEF q, r, u, s
<1>7. u = q
  BY <1>1, <1>5, <1>6, QuotientUnique
<1> QED BY <1>1, <1>5, <1>7, NAssumption

-----------------------------------------------------------------------------
(* Types.  A producer inside a call carries the value it was given, which   *)
(* is why only values get into `sent'.                                      *)

ProducerHasValue == \A p \in Producers : pc[p] # "idle" => val[p] \in Values

TypeInv == TypeOK /\ ProducerHasValue

(* What a thread's copies of the indices are.                               *)
LEMMA HeadType ==
  ASSUME TypeOK, NEW t \in Threads
  PROVE  /\ head[t] \in Nat /\ head[t] + 1 \in Nat
         /\ other[t] \in Nat /\ pc[t] \in Steps
BY DEF TypeOK

(* Sending a value leaves the values sent before as they were.              *)
LEMMA AppendType ==
  ASSUME NEW s \in Seq(Values), NEW v \in Values
  PROVE  /\ Append(s, v) \in Seq(Values)
         /\ Len(Append(s, v)) = Len(s) + 1
         /\ Append(s, v)[Len(s) + 1] = v
         /\ \A i \in 1 .. Len(s) : Append(s, v)[i] = s[i]
OBVIOUS

(* The buffer the constructor makes has the types.                          *)
LEMMA InitType == Init => TypeInv
BY NAssumption DEF Init, TypeInv, TypeOK, ProducerHasValue, Steps, Threads

(* Enqueue keeps the types, and a producer inside it carries a value.       *)
LEMMA EnqueueType ==
  ASSUME TypeInv, NEW p \in Producers, Enqueue(p)
  PROVE  TypeInv'
<1> USE DEF TypeInv, TypeOK, ProducerHasValue, shared, Goto, Threads, Steps
<1>1. ASSUME NEW v \in Values, EnqueueCall(p, v) PROVE TypeInv'
  BY ZenonT(30), <1>1 DEF EnqueueCall
<1>2. CASE EnqueueReadHead(p)
  BY ZenonT(30), <1>2 DEF EnqueueReadHead
<1>3. CASE EnqueueReserve(p)
  <2>1. head[p] \in Nat /\ head[p] + 1 \in Nat
    BY ZenonT(30), HeadType
  <2>2. CASE prod_head = head[p]
    <3>1. val[p] \in Values
      BY ZenonT(30), <1>3 DEF EnqueueReserve
    <3>2. Append(sent, val[p]) \in Seq(Values)
      BY ZenonT(30), <3>1, AppendType
    <3> QED BY ZenonT(30), <1>3, <2>1, <2>2, <3>2 DEF EnqueueReserve
  <2>3. CASE prod_head # head[p]
    BY ZenonT(30), <1>3, <2>1, <2>3 DEF EnqueueReserve
  <2> QED BY ZenonT(30), <2>2, <2>3
<1>4. CASE EnqueueStore(p)
  BY ZenonT(30), <1>4, SlotType DEF EnqueueStore
<1>5. CASE EnqueuePublish(p)
  <2>1. head[p] \in Nat /\ head[p] + 1 \in Nat
    BY ZenonT(30), HeadType
  <2> QED BY ZenonT(30), <1>5, <2>1 DEF EnqueuePublish
<1> QED BY ZenonT(30), <1>1, <1>2, <1>3, <1>4, <1>5 DEF Enqueue

(* Dequeue keeps the types.                                                 *)
LEMMA DequeueType ==
  ASSUME TypeInv, NEW c \in Consumers, Dequeue(c)
  PROVE  TypeInv'
<1> USE ThreadsAssumption
    DEF TypeInv, TypeOK, ProducerHasValue, shared, Goto, Threads, Steps
<1>1. CASE DequeueCall(c)
  BY ZenonT(30), <1>1 DEF DequeueCall
<1>2. CASE DequeueReadHead(c)
  BY ZenonT(30), <1>2 DEF DequeueReadHead
<1>3. CASE DequeueReserve(c)
  <2>1. head[c] \in Nat /\ head[c] + 1 \in Nat
    BY ZenonT(30), HeadType
  <2>2. CASE cons_head = head[c]
    BY ZenonT(30), <1>3, <2>1, <2>2 DEF DequeueReserve
  <2>3. CASE cons_head # head[c]
    <3>1. /\ pc' = [pc EXCEPT ![c] = "read"]
          /\ other' = [other EXCEPT ![c] = prod_tail]
          /\ UNCHANGED <<prod_head, prod_tail, cons_head, cons_tail,
                         d, head, val, sent>>
      BY ZenonT(30), <1>3, <2>3 DEF DequeueReserve
    <3>2. other' \in [Threads -> Nat]
      BY ZenonT(30), <3>1
    <3> QED BY ZenonT(30), <3>1, <3>2
  <2> QED BY ZenonT(30), <2>2, <2>3
<1>4. CASE DequeueCopy(c)
  BY ZenonT(30), <1>4, SlotType DEF DequeueCopy
<1>5. CASE DequeuePublish(c)
  <2>1. head[c] \in Nat /\ head[c] + 1 \in Nat
    BY ZenonT(30), HeadType
  <2> QED BY ZenonT(30), <1>5, <2>1 DEF DequeuePublish
<1> QED BY ZenonT(30), <1>1, <1>2, <1>3, <1>4, <1>5 DEF Dequeue

(* Peek keeps the types.                                                    *)
LEMMA PeekType ==
  ASSUME TypeInv, NEW k \in Peekers, Peek(k)
  PROVE  TypeInv'
<1> USE ThreadsAssumption
    DEF TypeInv, TypeOK, ProducerHasValue, shared, Goto, Threads, Steps
<1>1. CASE PeekCall(k)
  BY ZenonT(30), <1>1 DEF PeekCall
<1>2. CASE PeekReadHead(k)
  BY ZenonT(30), <1>2 DEF PeekReadHead
<1>3. CASE PeekCopy(k)
  BY ZenonT(30), <1>3, SlotType DEF PeekCopy
<1>4. CASE PeekRecheck(k)
  <2>1. CASE cons_head = head[k]
    BY ZenonT(30), <1>4, <2>1 DEF PeekRecheck
  <2>2. CASE cons_head # head[k]
    <3>1. k \notin Producers
      BY Zenon
    <3>2. TypeOK'
      <4>1. other' \in [Threads -> Nat]
        BY ZenonT(30), <1>4, <2>2 DEF PeekRecheck
      <4>2. val' \in [Threads -> Values \cup {None}]
        BY ZenonT(30), <1>4, <2>2 DEF PeekRecheck
      <4>3. pc' \in [Threads -> Steps]
        BY ZenonT(30), <1>4, <2>2 DEF PeekRecheck
      <4> QED BY ZenonT(30), <1>4, <4>1, <4>2, <4>3 DEF PeekRecheck
    <3>3. ProducerHasValue'
      BY ZenonT(30), <1>4, <2>2, <3>1 DEF PeekRecheck
    <3> QED BY ZenonT(30), <3>2, <3>3
  <2> QED BY ZenonT(30), <2>1, <2>2
<1> QED BY ZenonT(30), <1>1, <1>2, <1>3, <1>4 DEF Peek

(* So the types always hold.                                                *)
LEMMA TypesHold == Spec => []TypeInv
<1>1. TypeInv /\ [Next]_vars => TypeInv'
  <2> SUFFICES ASSUME TypeInv, [Next]_vars PROVE TypeInv'
    OBVIOUS
  <2>1. CASE UNCHANGED vars
    BY <2>1 DEF vars, TypeInv, TypeOK, ProducerHasValue
  <2> QED BY <2>1, EnqueueType, DequeueType, PeekType DEF Next
<1> QED BY <1>1, InitType, PTL DEF Spec

(* The state of the ring buffer is well-typed, whatever its users do.       *)
THEOREM TypeCorrect == Spec => []TypeOK
<1>1. TypeInv => TypeOK
  BY ZenonT(30) DEF TypeInv
<1> QED BY <1>1, TypesHold, PTL

-----------------------------------------------------------------------------
(* Reservations is inductive together with the types.                       *)

(* Enqueue's exchange gives an index to one producer only.                  *)
LEMMA EnqueueReservations ==
  ASSUME TypeInv, Reservations, NEW p \in Producers, Enqueue(p)
  PROVE  Reservations'
<1> USE ThreadsAssumption
    DEF TypeInv, TypeOK, Reservations, Reserving, shared, Goto, Threads
<1>1. ASSUME NEW v \in Values, EnqueueCall(p, v) PROVE Reservations'
  BY <1>1 DEF EnqueueCall
<1>2. CASE EnqueueReadHead(p)
  BY <1>2 DEF EnqueueReadHead
<1>3. CASE EnqueueReserve(p)
  <2>1. CASE prod_head = head[p]
    <3>1. /\ prod_head' = prod_head + 1
          /\ pc' = [pc EXCEPT ![p] = "copy"]
          /\ UNCHANGED <<prod_tail, cons_head, cons_tail, head>>
      BY <1>3, <2>1 DEF EnqueueReserve
    <3>2. \A t \in Producers : Reserving(t)' => t = p \/ Reserving(t)
      BY <3>1
    <3>3. \A t \in Consumers : Reserving(t)' => Reserving(t)
      BY <3>1
    <3> HIDE DEF Reserving
    <3>4. \A t \in Producers :
            Reserving(t)' => prod_tail' <= head'[t] /\ head'[t] < prod_head'
      BY <3>1, <3>2, <2>1
    <3>5. \A t, u \in Producers :
            Reserving(t)' /\ Reserving(u)' /\ head'[t] = head'[u] => t = u
      BY <3>1, <3>2, <2>1
    <3> QED BY <3>1, <3>3, <3>4, <3>5
  <2>2. CASE prod_head # head[p]
    <3>1. /\ pc' = [pc EXCEPT ![p] = "read"]
          /\ UNCHANGED <<prod_head, prod_tail, cons_head, cons_tail, head>>
      BY <1>3, <2>2 DEF EnqueueReserve
    <3>2. \A t \in Threads : Reserving(t)' => Reserving(t)
      BY <3>1
    <3> HIDE DEF Reserving
    <3> QED BY <3>1, <3>2
  <2> QED BY <2>1, <2>2
<1>4. CASE EnqueueStore(p)
  BY <1>4 DEF EnqueueStore
<1>5. CASE EnqueuePublish(p)
  BY <1>5 DEF EnqueuePublish
<1> QED BY <1>1, <1>2, <1>3, <1>4, <1>5 DEF Enqueue

(* Dequeue's exchange gives an index to one consumer only.                  *)
LEMMA DequeueReservations ==
  ASSUME TypeInv, Reservations, NEW c \in Consumers, Dequeue(c)
  PROVE  Reservations'
<1> USE ThreadsAssumption
    DEF TypeInv, TypeOK, Reservations, Reserving, shared, Goto, Threads
<1>1. CASE DequeueCall(c)
  BY <1>1 DEF DequeueCall
<1>2. CASE DequeueReadHead(c)
  BY <1>2 DEF DequeueReadHead
<1>3. CASE DequeueReserve(c)
  <2>1. CASE cons_head = head[c]
    <3>1. /\ cons_head' = cons_head + 1
          /\ pc' = [pc EXCEPT ![c] = "copy"]
          /\ UNCHANGED <<cons_tail, prod_head, prod_tail, head>>
      BY <1>3, <2>1 DEF DequeueReserve
    <3>2. \A t \in Consumers : Reserving(t)' => t = c \/ Reserving(t)
      BY <3>1
    <3>3. \A t \in Producers : Reserving(t)' => Reserving(t)
      BY <3>1
    <3> HIDE DEF Reserving
    <3>4. \A t \in Consumers :
            Reserving(t)' => cons_tail' <= head'[t] /\ head'[t] < cons_head'
      BY <3>1, <3>2, <2>1
    <3>5. \A t, u \in Consumers :
            Reserving(t)' /\ Reserving(u)' /\ head'[t] = head'[u] => t = u
      BY <3>1, <3>2, <2>1
    <3> QED BY <3>1, <3>3, <3>4, <3>5
  <2>2. CASE cons_head # head[c]
    <3>1. /\ pc' = [pc EXCEPT ![c] = "read"]
          /\ UNCHANGED <<prod_head, prod_tail, cons_head, cons_tail, head>>
      BY <1>3, <2>2 DEF DequeueReserve
    <3>2. \A t \in Threads : Reserving(t)' => Reserving(t)
      BY <3>1
    <3> HIDE DEF Reserving
    <3> QED BY <3>1, <3>2
  <2> QED BY <2>1, <2>2
<1>4. CASE DequeueCopy(c)
  BY <1>4 DEF DequeueCopy
<1>5. CASE DequeuePublish(c)
  BY <1>5 DEF DequeuePublish
<1> QED BY <1>1, <1>2, <1>3, <1>4, <1>5 DEF Dequeue

(* Peek takes no index.                                                     *)
LEMMA PeekReservations ==
  ASSUME TypeInv, Reservations, NEW k \in Peekers, Peek(k)
  PROVE  Reservations'
<1> USE ThreadsAssumption
    DEF TypeInv, TypeOK, Reservations, Reserving, shared, Goto, Threads
<1>1. CASE PeekCall(k)
  BY ZenonT(30), <1>1 DEF PeekCall
<1>2. CASE PeekReadHead(k)
  BY ZenonT(30), <1>2 DEF PeekReadHead
<1>3. CASE PeekCopy(k)
  BY ZenonT(30), <1>3 DEF PeekCopy
<1>4. CASE PeekRecheck(k)
  BY ZenonT(30), <1>4 DEF PeekRecheck
<1> QED BY <1>1, <1>2, <1>3, <1>4 DEF Peek

(* However many threads share the buffer, an index is reserved by one call  *)
(* at a time and published in the order of reservation.                     *)
THEOREM ReservationsHold == Spec => []Reservations
<1>1. Init => Reservations
  BY DEF Init, Reservations, Reserving, Threads
<1>2. TypeInv /\ Reservations /\ [Next]_vars => Reservations'
  <2> SUFFICES ASSUME TypeInv, Reservations, [Next]_vars PROVE Reservations'
    OBVIOUS
  <2>1. CASE UNCHANGED vars
    BY <2>1 DEF vars, Reservations, Reserving
  <2> QED BY <2>1, EnqueueReservations, DequeueReservations, PeekReservations
          DEF Next
<1> QED BY <1>1, <1>2, TypesHold, PTL DEF Spec

-----------------------------------------------------------------------------
(* One producer: what it has read of cons_tail is at most cons_tail, and    *)
(* prod_head cannot move between its reads and its exchange.                *)

OneProducer == \A p, q \in Producers : p = q

ProducerRoom ==
  /\ NoOverrun
  /\ \A p \in Producers :
       /\ pc[p] = "read" => other[p] <= cons_tail
                            /\ prod_head <= other[p] + (N - 1)
       /\ pc[p] = "cas" => other[p] <= cons_tail
                           /\ head[p] = prod_head
                           /\ head[p] + 1 <= other[p] + (N - 1)

(* What the one producer knows of the room stays true as Enqueue goes on.   *)
LEMMA EnqueueRoom ==
  ASSUME OneProducer, TypeInv, ProducerRoom, NEW p \in Producers, Enqueue(p)
  PROVE  ProducerRoom'
<1> USE ThreadsAssumption, NAssumption
    DEF OneProducer, TypeInv, TypeOK, ProducerRoom, NoOverrun, shared, Goto,
        Threads
<1>1. ASSUME NEW v \in Values, EnqueueCall(p, v) PROVE ProducerRoom'
  BY <1>1 DEF EnqueueCall
<1>2. CASE EnqueueReadHead(p)
  <2>1. CASE Slot(prod_head + 1) = Slot(other[p])
    BY <1>2, <2>1 DEF EnqueueReadHead
  <2>2. CASE Slot(prod_head + 1) # Slot(other[p])
    <3>1. /\ prod_head <= other[p] + (N - 1)
          /\ other[p] \in Nat /\ prod_head \in Nat /\ N \in Nat
      BY <1>2 DEF EnqueueReadHead
    <3>2. prod_head + 1 # other[p] + N
      BY ZenonT(30), <2>2, <3>1, SlotPeriod
    <3>3. prod_head + 1 <= other[p] + (N - 1)
      BY ONLY <3>1, <3>2
    <3> QED BY <1>2, <2>2, <3>3 DEF EnqueueReadHead
  <2> QED BY <2>1, <2>2
<1>3. CASE EnqueueReserve(p)
  BY <1>3 DEF EnqueueReserve
<1>4. CASE EnqueueStore(p)
  BY <1>4 DEF EnqueueStore
<1>5. CASE EnqueuePublish(p)
  BY <1>5 DEF EnqueuePublish
<1> QED BY <1>1, <1>2, <1>3, <1>4, <1>5 DEF Enqueue

(* Dequeue only makes more room.                                            *)
LEMMA DequeueRoom ==
  ASSUME TypeInv, ProducerRoom, NEW c \in Consumers, Dequeue(c)
  PROVE  ProducerRoom'
<1>1. \A p \in Producers :
        p # c /\ p \in Threads
  BY ThreadsAssumption DEF Threads
<1>2. /\ \A p \in Producers :
           pc'[p] = pc[p] /\ other'[p] = other[p] /\ head'[p] = head[p]
      /\ prod_head' = prod_head
      /\ cons_tail' \in {cons_tail, cons_tail + 1}
  <2> USE <1>1 DEF TypeInv, TypeOK, shared, Goto
  <2>1. CASE DequeueCall(c)
    BY <2>1 DEF DequeueCall
  <2>2. CASE DequeueReadHead(c)
    BY <2>2 DEF DequeueReadHead
  <2>3. CASE DequeueReserve(c)
    BY <2>3 DEF DequeueReserve
  <2>4. CASE DequeueCopy(c)
    BY <2>4 DEF DequeueCopy
  <2>5. CASE DequeuePublish(c)
    BY <2>5 DEF DequeuePublish
  <2> QED BY <2>1, <2>2, <2>3, <2>4, <2>5 DEF Dequeue
<1> QED BY <1>1, <1>2, NAssumption DEF ProducerRoom, NoOverrun, TypeInv, TypeOK

(* Peek changes no index.                                                   *)
LEMMA PeekRoom ==
  ASSUME TypeInv, ProducerRoom, NEW k \in Peekers, Peek(k)
  PROVE  ProducerRoom'
<1>1. \A p \in Producers : p # k /\ p \in Threads
  BY ThreadsAssumption DEF Threads
<1>2. /\ \A p \in Producers :
           pc'[p] = pc[p] /\ other'[p] = other[p] /\ head'[p] = head[p]
      /\ prod_head' = prod_head /\ cons_tail' = cons_tail
  BY ZenonT(30), <1>1 DEF TypeInv, TypeOK, shared, Goto,
              Peek, PeekCall, PeekReadHead, PeekCopy, PeekRecheck
<1> QED BY <1>2 DEF ProducerRoom, NoOverrun

(* A buffer with one producer is never over-filled, however many threads    *)
(* take values out of it.                                                   *)
THEOREM SingleProducerNoOverrun ==
  ASSUME OneProducer
  PROVE  Spec => []NoOverrun
<1>1. Init => ProducerRoom
  BY NAssumption DEF Init, ProducerRoom, NoOverrun, Threads
<1>2. TypeInv /\ ProducerRoom /\ [Next]_vars => ProducerRoom'
  <2> SUFFICES ASSUME TypeInv, ProducerRoom, [Next]_vars PROVE ProducerRoom'
    OBVIOUS
  <2>1. CASE UNCHANGED vars
    BY <2>1 DEF vars, ProducerRoom, NoOverrun
  <2> QED BY <2>1, EnqueueRoom, DequeueRoom, PeekRoom DEF Next
<1>3. ProducerRoom => NoOverrun
  BY ZenonT(30) DEF ProducerRoom
<1> QED BY <1>1, <1>2, <1>3, TypesHold, PTL DEF Spec

-----------------------------------------------------------------------------
(* One consumer: what it has read of prod_tail is at most prod_tail, and    *)
(* cons_head cannot move between its reads and its exchange.                *)

OneConsumer == \A c, e \in Consumers : c = e

ConsumerStock ==
  /\ NoUnderrun
  /\ \A c \in Consumers :
       /\ pc[c] = "read" => other[c] <= prod_tail /\ cons_head <= other[c]
       /\ pc[c] = "cas" => other[c] <= prod_tail
                           /\ head[c] = cons_head
                           /\ head[c] + 1 <= other[c]

(* What the one consumer knows of the values stays true in Dequeue.         *)
LEMMA DequeueStock ==
  ASSUME OneConsumer, TypeInv, ConsumerStock, NEW c \in Consumers, Dequeue(c)
  PROVE  ConsumerStock'
<1> USE ThreadsAssumption
    DEF OneConsumer, TypeInv, TypeOK, ConsumerStock, NoUnderrun, shared, Goto,
        Threads
<1>1. CASE DequeueCall(c)
  BY <1>1 DEF DequeueCall
<1>2. CASE DequeueReadHead(c)
  <2>1. CASE Slot(other[c]) = Slot(cons_head)
    BY <1>2, <2>1 DEF DequeueReadHead
  <2>2. CASE Slot(other[c]) # Slot(cons_head)
    <3>1. cons_head <= other[c] /\ other[c] # cons_head
      BY <1>2, <2>2 DEF DequeueReadHead
    <3> QED BY <1>2, <2>2, <3>1 DEF DequeueReadHead
  <2> QED BY <2>1, <2>2
<1>3. CASE DequeueReserve(c)
  BY <1>3 DEF DequeueReserve
<1>4. CASE DequeueCopy(c)
  BY <1>4 DEF DequeueCopy
<1>5. CASE DequeuePublish(c)
  BY <1>5 DEF DequeuePublish
<1> QED BY <1>1, <1>2, <1>3, <1>4, <1>5 DEF Dequeue

(* Enqueue only makes more values.                                          *)
LEMMA EnqueueStock ==
  ASSUME TypeInv, ConsumerStock, NEW p \in Producers, Enqueue(p)
  PROVE  ConsumerStock'
<1>1. \A c \in Consumers : c # p /\ c \in Threads
  BY ThreadsAssumption DEF Threads
<1>2. /\ \A c \in Consumers :
           pc'[c] = pc[c] /\ other'[c] = other[c] /\ head'[c] = head[c]
      /\ cons_head' = cons_head
      /\ prod_tail' \in {prod_tail, prod_tail + 1}
  <2> USE <1>1 DEF TypeInv, TypeOK, shared, Goto
  <2>1. ASSUME NEW v \in Values, EnqueueCall(p, v) PROVE <1>2!:
    BY <2>1 DEF EnqueueCall
  <2>2. CASE EnqueueReadHead(p)
    BY <2>2 DEF EnqueueReadHead
  <2>3. CASE EnqueueReserve(p)
    BY ZenonT(30), <2>3 DEF EnqueueReserve
  <2>4. CASE EnqueueStore(p)
    BY <2>4 DEF EnqueueStore
  <2>5. CASE EnqueuePublish(p)
    BY <2>5 DEF EnqueuePublish
  <2> QED BY <2>1, <2>2, <2>3, <2>4, <2>5 DEF Enqueue
<1> QED BY <1>1, <1>2 DEF ConsumerStock, NoUnderrun, TypeInv, TypeOK

(* A consumer that peeks is between two Dequeues.                           *)
LEMMA PeekStock ==
  ASSUME TypeInv, ConsumerStock, NEW k \in Peekers, Peek(k)
  PROVE  ConsumerStock'
<1>1. \A c \in Consumers : c \in Threads
  BY DEF Threads
<1>2. /\ prod_tail' = prod_tail /\ cons_head' = cons_head
      /\ \A c \in Consumers :
           \/ pc'[c] = pc[c] /\ other'[c] = other[c] /\ head'[c] = head[c]
           \/ pc'[c] \notin {"read", "cas"}
  BY ZenonT(30), <1>1 DEF TypeInv, TypeOK, shared, Goto,
              Peek, PeekCall, PeekReadHead, PeekCopy, PeekRecheck
<1> QED BY <1>2 DEF ConsumerStock, NoUnderrun

(* A buffer with one consumer is never over-drained, however many threads   *)
(* put values into it.                                                      *)
THEOREM SingleConsumerNoUnderrun ==
  ASSUME OneConsumer
  PROVE  Spec => []NoUnderrun
<1>1. Init => ConsumerStock
  BY DEF Init, ConsumerStock, NoUnderrun, Threads
<1>2. TypeInv /\ ConsumerStock /\ [Next]_vars => ConsumerStock'
  <2> SUFFICES ASSUME TypeInv, ConsumerStock, [Next]_vars PROVE ConsumerStock'
    OBVIOUS
  <2>1. CASE UNCHANGED vars
    BY <2>1 DEF vars, ConsumerStock, NoUnderrun
  <2> QED BY <2>1, EnqueueStock, DequeueStock, PeekStock DEF Next
<1>3. ConsumerStock => NoUnderrun
  BY DEF ConsumerStock
<1> QED BY <1>1, <1>2, <1>3, TypesHold, PTL DEF Spec

-----------------------------------------------------------------------------
(* One producer and one consumer: every published slot that has not been    *)
(* released holds the value sent at its index.  A store cannot disturb      *)
(* another of these slots, as they are fewer than N consecutive indices.    *)

Contents ==
  /\ Len(sent) = prod_head
  /\ \A i \in Nat :
       cons_tail <= i /\ i < prod_tail => d[Slot(i)] = sent[i + 1]
  /\ \A p \in Producers :
       /\ pc[p] = "copy" => val[p] = sent[head[p] + 1]
       /\ pc[p] = "publish" => d[Slot(head[p])] = sent[head[p] + 1]
  /\ \A c \in Consumers : pc[c] = "publish" => val[c] = sent[head[c] + 1]

BufferInv == TypeInv /\ Reservations /\ NoOverrun /\ NoUnderrun

(* The indices follow one another, at most a lap apart.                     *)
LEMMA IndexOrder ==
  ASSUME BufferInv
  PROVE  /\ cons_tail <= cons_head /\ cons_head <= prod_tail
         /\ prod_tail <= prod_head /\ prod_head < cons_tail + N
BY NAssumption
   DEF BufferInv, TypeInv, TypeOK, Reservations, NoOverrun, NoUnderrun

(* Enqueue stores into a slot that holds no value still to be taken.        *)
LEMMA EnqueueContents ==
  ASSUME OneProducer, BufferInv, Contents, NEW p \in Producers, Enqueue(p)
  PROVE  Contents'
<1>1. /\ \A c \in Consumers : c # p /\ c \in Threads
      /\ \A q \in Producers : q = p
      /\ p \in Threads
  BY ThreadsAssumption DEF Threads, OneProducer
<1>2. head[p] \in Nat /\ TypeOK /\ ProducerHasValue
  BY ZenonT(30), <1>1, HeadType DEF BufferInv, TypeInv
<1> USE <1>1, <1>2, IndexOrder DEF shared, Goto
<1>3. ASSUME NEW v \in Values, EnqueueCall(p, v) PROVE Contents'
  BY <1>3 DEF EnqueueCall, Contents, TypeOK
<1>4. CASE EnqueueReadHead(p)
  BY <1>4 DEF EnqueueReadHead, Contents, TypeOK
<1>5. CASE EnqueueReserve(p)
  <2>1. CASE prod_head = head[p]
    <3>1. /\ prod_head' = prod_head + 1 /\ pc' = [pc EXCEPT ![p] = "copy"]
          /\ sent' = Append(sent, val[p]) /\ sent \in Seq(Values)
          /\ val[p] \in Values
          /\ UNCHANGED <<prod_tail, cons_tail, cons_head, d, head, val>>
      BY <1>5, <2>1 DEF EnqueueReserve, TypeOK, ProducerHasValue
    <3>2. /\ Len(sent') = prod_head' /\ sent'[head[p] + 1] = val[p]
          /\ \A i \in 1 .. prod_head : sent'[i] = sent[i]
      BY <3>1, <2>1, AppendType DEF Contents
    <3>3. \A i \in Nat : cons_tail <= i /\ i < prod_tail
                           => d[Slot(i)] = sent'[i + 1]
      BY <3>2 DEF Contents, TypeOK
    <3>4. \A c \in Consumers : pc[c] = "publish" => val[c] = sent'[head[c] + 1]
      BY <3>2 DEF Contents, TypeOK, BufferInv, Reservations, Reserving
    <3> QED BY ZenonT(30), <3>1, <3>2, <3>3, <3>4 DEF Contents, TypeOK
  <2>2. CASE prod_head # head[p]
    BY ZenonT(30), <1>5, <2>2 DEF EnqueueReserve, Contents, TypeOK
  <2> QED BY <2>1, <2>2
<1>6. CASE EnqueueStore(p)
  <2>1. /\ d' = [d EXCEPT ![Slot(head[p])] = val[p]]
        /\ pc' = [pc EXCEPT ![p] = "publish"] /\ pc[p] = "copy"
        /\ UNCHANGED <<prod_head, prod_tail, cons_tail, head, val, sent>>
    BY <1>6 DEF EnqueueStore
  <2>2. prod_tail <= head[p] /\ head[p] < cons_tail + N
    <3>1. prod_tail <= head[p] /\ head[p] < prod_head
      BY <2>1 DEF BufferInv, Reservations, Reserving
    <3>2. prod_head \in Nat /\ cons_tail \in Nat /\ N \in Nat
      BY NAssumption DEF TypeOK
    <3> QED BY <3>1, <3>2
  <2>3. ASSUME NEW i \in Nat, cons_tail <= i, i < prod_tail
        PROVE  d'[Slot(i)] = sent[i + 1]
    <3>1. i < head[p] /\ head[p] < i + N
      BY <2>2, <2>3, NAssumption DEF TypeOK
    <3>2. Slot(i) # Slot(head[p])
      BY <3>1, SlotsDiffer
    <3> QED BY <2>1, <2>3, <3>2, SlotType DEF Contents, TypeOK
  <2>4. d'[Slot(head[p])] = sent[head[p] + 1]
    BY ZenonT(30), <2>1, SlotType DEF Contents, TypeOK
  <2> QED BY <2>1, <2>3, <2>4 DEF Contents, TypeOK
<1>7. CASE EnqueuePublish(p)
  <2>1. /\ prod_tail' = prod_tail + 1 /\ prod_tail = head[p]
        /\ pc' = [pc EXCEPT ![p] = "idle"] /\ pc[p] = "publish"
        /\ UNCHANGED <<prod_head, d, cons_tail, head, val, sent>>
    BY <1>7 DEF EnqueuePublish
  <2>2. \A i \in Nat : cons_tail <= i /\ i < prod_tail + 1
                         => d[Slot(i)] = sent[i + 1]
    <3>1. d[Slot(prod_tail)] = sent[prod_tail + 1]
      BY <2>1 DEF Contents
    <3>2. \A i \in Nat : i < prod_tail + 1 => i < prod_tail \/ i = prod_tail
      BY DEF TypeOK
    <3> QED BY <3>1, <3>2 DEF Contents
  <2> QED BY ZenonT(30), <2>1, <2>2 DEF Contents, TypeOK
<1> QED BY <1>3, <1>4, <1>5, <1>6, <1>7 DEF Enqueue

(* Dequeue stores nothing.                                                  *)
LEMMA DequeueContents ==
  ASSUME BufferInv, Contents, NEW c \in Consumers, Dequeue(c)
  PROVE  Contents'
<1>1. /\ \A p \in Producers : p # c /\ p \in Threads
      /\ \A e \in Consumers : e \in Threads
  BY ThreadsAssumption DEF Threads
<1>2. head[c] \in Nat /\ TypeOK
  BY ZenonT(30), <1>1, HeadType DEF BufferInv, TypeInv
<1> USE <1>1, <1>2, IndexOrder DEF shared, Goto
<1>3. CASE DequeueCall(c)
  BY ZenonT(30), <1>3 DEF DequeueCall, Contents, TypeOK
<1>4. CASE DequeueReadHead(c)
  BY <1>4 DEF DequeueReadHead, Contents, TypeOK
<1>5. CASE DequeueReserve(c)
  BY <1>5 DEF DequeueReserve, Contents, TypeOK
<1>6. CASE DequeueCopy(c)
  <2>1. cons_tail <= head[c] /\ head[c] < prod_tail
    BY <1>6 DEF DequeueCopy, BufferInv, Reservations, Reserving, TypeOK
  <2>2. d[Slot(head[c])] = sent[head[c] + 1]
    BY <2>1 DEF Contents
  <2> QED BY ZenonT(30), <1>6, <2>2 DEF DequeueCopy, Contents, TypeOK
<1>7. CASE DequeuePublish(c)
  BY <1>7 DEF DequeuePublish, Contents, TypeOK
<1> QED BY <1>3, <1>4, <1>5, <1>6, <1>7 DEF Dequeue

(* Peek stores nothing.                                                     *)
LEMMA PeekContents ==
  ASSUME BufferInv, Contents, NEW k \in Peekers, Peek(k)
  PROVE  Contents'
<1>1. /\ \A p \in Producers : p # k /\ p \in Threads
      /\ \A e \in Consumers : e \in Threads
  BY ThreadsAssumption DEF Threads
<1>2. TypeOK
  BY DEF BufferInv, TypeInv
<1>3. /\ UNCHANGED <<prod_head, prod_tail, cons_tail, d, sent>>
      /\ \A p \in Producers :
           pc'[p] = pc[p] /\ val'[p] = val[p] /\ head'[p] = head[p]
      /\ \A e \in Consumers :
           \/ pc'[e] = pc[e] /\ val'[e] = val[e] /\ head'[e] = head[e]
           \/ pc'[e] # "publish"
  BY ZenonT(30), <1>1, <1>2 DEF TypeOK, shared, Goto,
              Peek, PeekCall, PeekReadHead, PeekCopy, PeekRecheck
<1> QED BY <1>3 DEF Contents

(* With one producer and one consumer the slots hold what was sent.         *)
LEMMA BufferCorrect ==
  ASSUME OneProducer, OneConsumer
  PROVE  Spec => [](BufferInv /\ Contents)
<1>1. Init => Contents
  BY DEF Init, Contents, Threads
<1>2. BufferInv /\ Contents /\ [Next]_vars => Contents'
  <2> SUFFICES ASSUME BufferInv, Contents, [Next]_vars PROVE Contents'
    OBVIOUS
  <2>1. CASE UNCHANGED vars
    BY <2>1 DEF vars, Contents
  <2> QED BY <2>1, EnqueueContents, DequeueContents, PeekContents DEF Next
<1>3. BufferInv <=> TypeInv /\ Reservations /\ NoOverrun /\ NoUnderrun
  BY DEF BufferInv
<1> QED BY <1>1, <1>2, <1>3, TypesHold, ReservationsHold,
           SingleProducerNoOverrun, SingleConsumerNoUnderrun, PTL DEF Spec

(* With one producer and one consumer, the values come out in the order     *)
(* their slots were reserved.                                               *)
THEOREM SingleProducerConsumerFifo ==
  ASSUME OneProducer, OneConsumer
  PROVE  Spec => []Fifo
<1>1. BufferInv /\ Contents => Fifo
  <2> SUFFICES ASSUME BufferInv, Contents, NEW c \in Consumers,
                      pc[c] = "publish"
               PROVE  head[c] < Len(sent) /\ val[c] = sent[head[c] + 1]
    BY DEF Fifo
  <2>1. head[c] < cons_head /\ head[c] \in Nat
    BY HeadType DEF BufferInv, TypeInv, Reservations, Reserving, Threads
  <2> QED BY <2>1, IndexOrder DEF Contents, BufferInv, TypeInv, TypeOK
<1> QED BY <1>1, BufferCorrect, PTL

-----------------------------------------------------------------------------
(* Peek by the consumer itself: as nobody else moves cons_head, its copy of *)
(* prod_tail is not behind cons_head when the two are compared, and the     *)
(* slot it copies is a published one.                                       *)

PeekerConsumes == OneConsumer /\ Peekers \subseteq Consumers

PeekInv ==
  \A k \in Peekers :
    /\ pc[k] = "peek read" => cons_head <= other[k] /\ other[k] <= prod_tail
    /\ pc[k] \in {"peek copy", "peek check"} =>
         head[k] = cons_head /\ head[k] < prod_tail
    /\ pc[k] = "peek check" => val[k] = sent[head[k] + 1]

(* A producer only moves prod_tail on, and only adds to what was sent.      *)
LEMMA EnqueuePeek ==
  ASSUME BufferInv, Contents, PeekInv, NEW p \in Producers, Enqueue(p)
  PROVE  PeekInv'
<1>1. /\ \A k \in Peekers : k # p /\ k \in Threads
      /\ p \in Threads
  BY ThreadsAssumption DEF Threads
<1>2. TypeOK /\ ProducerHasValue /\ head[p] \in Nat /\ Len(sent) = prod_head
  BY ZenonT(30), <1>1, HeadType DEF BufferInv, TypeInv, Contents
<1>3. /\ cons_head' = cons_head
      /\ \A k \in Peekers : /\ pc'[k] = pc[k] /\ other'[k] = other[k]
                            /\ head'[k] = head[k] /\ val'[k] = val[k]
  BY ZenonT(30), <1>1, <1>2 DEF TypeOK, shared, Goto, Enqueue, EnqueueCall,
       EnqueueReadHead, EnqueueReserve, EnqueueStore, EnqueuePublish
<1>4. prod_tail' \in {prod_tail, prod_tail + 1}
  BY <1>2 DEF shared, Enqueue, EnqueueCall, EnqueueReadHead, EnqueueReserve,
              EnqueueStore, EnqueuePublish
<1>5. sent' = sent \/ (sent' = Append(sent, val[p]) /\ val[p] \in Values)
  BY ZenonT(30), <1>2 DEF ProducerHasValue, shared, Enqueue, EnqueueCall,
       EnqueueReadHead, EnqueueReserve, EnqueueStore, EnqueuePublish
<1>6. \A i \in 1 .. prod_head : sent'[i] = sent[i]
  BY <1>2, <1>5, AppendType DEF TypeOK
<1>7. SUFFICES ASSUME NEW k \in Peekers
               PROVE  /\ pc[k] = "peek read" =>
                           cons_head <= other[k] /\ other[k] <= prod_tail'
                      /\ pc[k] \in {"peek copy", "peek check"} =>
                           head[k] = cons_head /\ head[k] < prod_tail'
                      /\ pc[k] = "peek check" => val[k] = sent'[head[k] + 1]
  BY ZenonT(30), <1>3 DEF PeekInv
<1>8. head[k] \in Nat /\ other[k] \in Nat /\ prod_tail \in Nat /\ prod_head \in Nat
      /\ prod_tail <= prod_head
  BY <1>1, <1>2, HeadType, IndexOrder DEF TypeOK
<1>9. head[k] < prod_tail => head[k] + 1 \in 1 .. prod_head /\ head[k] < prod_tail'
  BY <1>4, <1>8
<1>10. other[k] <= prod_tail => other[k] <= prod_tail'
  BY <1>4, <1>8
<1> QED BY ZenonT(30), <1>6, <1>9, <1>10 DEF PeekInv

(* The consumer that dequeues is not in a Peek.                             *)
LEMMA DequeuePeek ==
  ASSUME PeekerConsumes, TypeOK, NEW c \in Consumers, Dequeue(c)
  PROVE  PeekInv'
<1>1. \A k \in Peekers : k = c
  BY DEF PeekerConsumes, OneConsumer
<1>2. c \in Threads
  BY DEF Threads
<1>3. pc'[c] \in {"idle", "read", "cas", "copy", "publish"}
  BY ZenonT(30), <1>2 DEF TypeOK, Goto, Dequeue, DequeueCall, DequeueReadHead,
       DequeueReserve, DequeueCopy, DequeuePublish
<1>4. pc'[c] \notin {"peek read", "peek copy", "peek check"}
  BY <1>3
<1> QED BY ZenonT(30), <1>1, <1>4 DEF PeekInv

(* The steps of Peek itself.                                                *)
LEMMA PeekPeek ==
  ASSUME PeekerConsumes, BufferInv, Contents, PeekInv, NEW k \in Peekers, Peek(k)
  PROVE  PeekInv'
<1>1. (\A j \in Peekers : j = k) /\ k \in Threads
  BY DEF PeekerConsumes, OneConsumer, Threads
<1>2. TypeOK
  BY DEF BufferInv, TypeInv
<1>3. /\ head[k] \in Nat /\ other[k] \in Nat /\ prod_tail \in Nat
      /\ cons_head \in Nat /\ cons_tail \in Nat
      /\ cons_tail <= cons_head /\ cons_head <= prod_tail
  BY <1>1, <1>2, HeadType, IndexOrder DEF TypeOK
<1>4. UNCHANGED <<prod_tail, cons_head, sent>>
  BY ZenonT(30) DEF Peek, PeekCall, PeekReadHead, PeekCopy, PeekRecheck, shared
<1>5. SUFFICES
        /\ pc'[k] = "peek read" => cons_head <= other'[k] /\ other'[k] <= prod_tail
        /\ pc'[k] \in {"peek copy", "peek check"} =>
             head'[k] = cons_head /\ head'[k] < prod_tail
        /\ pc'[k] = "peek check" => val'[k] = sent[head'[k] + 1]
  BY ZenonT(30), <1>1, <1>4 DEF PeekInv
<1>6. CASE PeekCall(k)
  <2>1. pc'[k] = "peek read" /\ other'[k] = prod_tail
    BY ZenonT(30), <1>1, <1>2, <1>6 DEF PeekCall, Goto, TypeOK
  <2>2. cons_head <= prod_tail /\ prod_tail <= prod_tail
    BY <1>3
  <2> QED BY ZenonT(30), <2>1, <2>2
<1>7. CASE PeekReadHead(k)
  <2>1. /\ pc[k] = "peek read" /\ head'[k] = cons_head
        /\ \/ pc'[k] = "idle"
           \/ pc'[k] = "peek copy" /\ Slot(other[k]) # Slot(cons_head)
    BY ZenonT(30), <1>1, <1>2, <1>7 DEF PeekReadHead, Goto, TypeOK
  <2>2. cons_head <= other[k] /\ other[k] <= prod_tail
    BY ZenonT(30), <2>1 DEF PeekInv
  <2>3. CASE pc'[k] = "idle"
    BY <2>3
  <2>4. CASE pc'[k] = "peek copy" /\ Slot(other[k]) # Slot(cons_head)
    <3>1. other[k] # cons_head
      BY ZenonT(30), <2>4
    <3>2. cons_head < prod_tail
      BY <1>3, <2>2, <3>1
    <3> QED BY ZenonT(30), <2>1, <2>4, <3>2
  <2> QED BY ZenonT(30), <2>1, <2>3, <2>4
<1>8. CASE PeekCopy(k)
  <2>1. /\ pc[k] = "peek copy" /\ pc'[k] = "peek check" /\ head'[k] = head[k]
        /\ val'[k] = d[Slot(head[k])]
    BY ZenonT(30), <1>1, <1>2, <1>8 DEF PeekCopy, Goto, TypeOK
  <2>2. head[k] = cons_head /\ head[k] < prod_tail
    BY <2>1 DEF PeekInv
  <2>3. d[Slot(head[k])] = sent[head[k] + 1]
    BY <1>3, <2>2 DEF Contents
  <2> QED BY <2>1, <2>2, <2>3
<1>9. CASE PeekRecheck(k)
  <2>1. pc[k] = "peek check" /\ head[k] = cons_head
    BY <1>9 DEF PeekRecheck, PeekInv
  <2>2. pc'[k] = "idle"
    BY ZenonT(30), <1>1, <1>2, <1>9, <2>1 DEF PeekRecheck, Goto, TypeOK
  <2> QED BY <2>2
<1> QED BY ZenonT(30), <1>6, <1>7, <1>8, <1>9 DEF Peek

(* With one producer, a Peek by the only consumer returns the value at the  *)
(* front of the queue: what a process is shown of its own mailbox by        *)
(* PeekMessage is the message its next ReadMessage takes.                   *)
THEOREM ConsumerPeeksFront ==
  ASSUME OneProducer, PeekerConsumes
  PROVE  Spec => []PeekSeesFront
<1>1. Init => PeekInv
  BY DEF Init, PeekInv, Threads
<1>2. BufferInv /\ Contents /\ PeekInv /\ [Next]_vars => PeekInv'
  <2> SUFFICES ASSUME BufferInv, Contents, PeekInv, [Next]_vars PROVE PeekInv'
    OBVIOUS
  <2>1. CASE UNCHANGED vars
    BY ZenonT(30), <2>1 DEF vars, PeekInv
  <2>2. TypeOK
    BY DEF BufferInv, TypeInv
  <2> QED BY ZenonT(30), <2>1, <2>2, EnqueuePeek, DequeuePeek, PeekPeek DEF Next
<1>3. BufferInv /\ Contents /\ PeekInv => PeekSeesFront
  <2>0. SUFFICES ASSUME BufferInv, Contents, PeekInv, NEW k \in Peekers,
                        pc[k] = "peek check"
                 PROVE  head[k] < Len(sent) /\ val[k] = sent[head[k] + 1]
    BY ZenonT(30) DEF PeekSeesFront
  <2>1. head[k] < prod_tail /\ val[k] = sent[head[k] + 1]
    BY ZenonT(30), <2>0 DEF PeekInv
  <2>2. TypeOK /\ k \in Threads /\ Len(sent) = prod_head
    BY ZenonT(30), <2>0 DEF BufferInv, TypeInv, Threads, Contents
  <2>3. head[k] \in Nat /\ prod_tail \in Nat /\ prod_head \in Nat
    BY <2>2, HeadType DEF TypeOK
  <2>4. prod_tail <= prod_head
    BY ZenonT(30), <2>0, IndexOrder
  <2>5. head[k] < prod_head
    BY <2>1, <2>3, <2>4
  <2> QED BY ZenonT(30), <2>1, <2>2, <2>5
<1>4. OneConsumer
  BY DEF PeekerConsumes
<1> QED BY <1>1, <1>2, <1>3, <1>4, BufferCorrect, PTL DEF Spec

-----------------------------------------------------------------------------
(* The refinement: publishing puts a value at the end of the queue,         *)
(* reserving for a Dequeue takes one from its front, and no other step      *)
(* changes the queue.                                                       *)

(* A part of a sequence that grows by an element at its end.                *)
LEMMA SubSeqGrow ==
  ASSUME NEW s \in Seq(Values), NEW a \in Nat, NEW b \in Nat,
         a <= b, b < Len(s)
  PROVE  /\ SubSeq(s, a + 1, b + 1) = Append(SubSeq(s, a + 1, b), s[b + 1])
         /\ Len(SubSeq(s, a + 1, b)) = b - a
<1>1. \A i \in a + 1 .. b + 1 : s[i] \in Values
  OBVIOUS
<1>2. /\ SubSeq(s, a + 1, b + 1) \in Seq(Values)
      /\ Len(SubSeq(s, a + 1, b + 1)) = b + 1 - a
      /\ \A i \in 1 .. b + 1 - a : SubSeq(s, a + 1, b + 1)[i] = s[a + i]
  BY <1>1, SubSeqProperties
<1>3. /\ SubSeq(s, a + 1, b) \in Seq(Values)
      /\ Len(SubSeq(s, a + 1, b)) = b - a
      /\ \A i \in 1 .. b - a : SubSeq(s, a + 1, b)[i] = s[a + i]
  BY <1>1, SubSeqProperties
<1> DEFINE l == SubSeq(s, a + 1, b + 1)  k == SubSeq(s, a + 1, b)
<1> HIDE DEF l, k
<1>4. /\ l \in Seq(Values) /\ Len(l) = b + 1 - a
      /\ \A i \in 1 .. b + 1 - a : l[i] = s[a + i]
  BY <1>2 DEF l
<1>5. /\ k \in Seq(Values) /\ Len(k) = b - a
      /\ \A i \in 1 .. b - a : k[i] = s[a + i]
  BY ZenonT(30), <1>3 DEF k
<1>6. s[b + 1] \in Values
  BY <1>1
<1>7. l = Append(k, s[b + 1])
  <2>1. /\ Append(k, s[b + 1]) \in Seq(Values)
        /\ Len(Append(k, s[b + 1])) = Len(l)
    BY <1>4, <1>5, <1>6, AppendType
  <2>2. ASSUME NEW i \in 1 .. Len(l) PROVE l[i] = Append(k, s[b + 1])[i]
    <3>1. CASE i = b + 1 - a
      <4>1. Len(k) = b - a
        BY <1>5
      <4>2. i = Len(k) + 1 /\ a + i = b + 1
        BY ONLY <3>1, <4>1, a \in Nat, b \in Nat
      <4>3. Append(k, s[b + 1])[Len(k) + 1] = s[b + 1]
        BY ZenonT(30), <1>5, <1>6, AppendType
      <4> QED BY ZenonT(30), <4>2, <4>3, <1>4, <2>2
    <3>2. CASE i \in 1 .. b - a
      BY <3>2, <1>4, <1>5, <1>6, AppendType
    <3>3. i = b + 1 - a \/ i \in 1 .. b - a
      <4>1. i \in 1 .. b + 1 - a
        BY <1>4
      <4> QED BY ONLY <4>1, a \in Nat, b \in Nat
    <3> QED BY ZenonT(30), <3>1, <3>2, <3>3
  <2> QED BY ZenonT(30), <2>1, <2>2, <1>4, SeqEqual
<1> QED BY <1>7, <1>3 DEF l, k

(* A part of a sequence that loses its first element.                       *)
LEMMA SubSeqShrink ==
  ASSUME NEW s \in Seq(Values), NEW a \in Nat, NEW b \in Nat,
         a < b, b <= Len(s)
  PROVE  /\ SubSeq(s, a + 2, b) = Tail(SubSeq(s, a + 1, b))
         /\ SubSeq(s, a + 1, b) # <<>>
<1>1. a + 1 \in 1 .. Len(s) /\ b \in a + 1 .. Len(s) /\ (a + 1) + 1 = a + 2
  OBVIOUS
<1>2. \A i \in a + 1 .. b : s[i] \in Values
  OBVIOUS
<1>3. Len(SubSeq(s, a + 1, b)) = b - a
  BY <1>2, SubSeqProperties
<1>4. Tail(SubSeq(s, a + 1, b)) = SubSeq(s, (a + 1) + 1, b)
  BY <1>1, HeadTailOfSubSeq
<1> QED BY <1>1, <1>3, <1>4

(* A part of a sequence is the same when more is appended to it.            *)
LEMMA SubSeqKeep ==
  ASSUME NEW s \in Seq(Values), NEW v \in Values,
         NEW a \in Nat, NEW b \in Nat, b <= Len(s)
  PROVE  SubSeq(Append(s, v), a + 1, b) = SubSeq(s, a + 1, b)
<1> DEFINE l == SubSeq(Append(s, v), a + 1, b)  k == SubSeq(s, a + 1, b)
<1>1. /\ \A i \in a + 1 .. b : s[i] \in Values /\ Append(s, v)[i] = s[i]
      /\ a + 1 \in Int /\ b \in Int
  BY AppendType
<1>2. /\ l \in Seq(Values) /\ Len(l) = IF a + 1 <= b THEN b - (a + 1) + 1 ELSE 0
      /\ \A i \in 1 .. b - (a + 1) + 1 : l[i] = Append(s, v)[(a + 1) + i - 1]
  BY <1>1, SubSeqProperties
<1>3. /\ k \in Seq(Values) /\ Len(k) = IF a + 1 <= b THEN b - (a + 1) + 1 ELSE 0
      /\ \A i \in 1 .. b - (a + 1) + 1 : k[i] = s[(a + 1) + i - 1]
  BY <1>1, SubSeqProperties
<1> HIDE DEF l, k
<1>4. ASSUME NEW i \in 1 .. Len(l) PROVE l[i] = k[i]
  BY <1>1, <1>2, <1>3
<1>5. l = k
  BY <1>2, <1>3, <1>4, SeqEqual
<1> QED BY <1>5 DEF l, k

(* Each step of Enqueue and Dequeue puts, takes, or leaves the queue alone. *)
LEMMA StepSimulation ==
  ASSUME BufferInv, Contents, [Next]_vars, BufferInv'
  PROVE  [Abstract!Next]_queue
<1>1. /\ prod_head \in Nat /\ prod_tail \in Nat /\ cons_head \in Nat
      /\ cons_tail \in Nat /\ sent \in Seq(Values) /\ Len(sent) = prod_head
      /\ ProducerHasValue /\ N \in Nat /\ TypeOK
  BY ZenonT(30), NAssumption DEF BufferInv, TypeInv, TypeOK, Contents
<1>2. CASE UNCHANGED <<sent, cons_head, prod_tail>>
  BY <1>2 DEF queue
<1>3. ASSUME NEW p \in Producers, EnqueueReserve(p) PROVE UNCHANGED queue
  <2>1. CASE sent' = Append(sent, val[p])
    <3>1. val[p] \in Values /\ UNCHANGED <<cons_head, prod_tail>>
      BY <1>1, <1>3 DEF EnqueueReserve, ProducerHasValue
    <3>2. prod_tail <= Len(sent)
      BY ZenonT(30), <1>1, IndexOrder
    <3> QED BY <1>1, <2>1, <3>1, <3>2, SubSeqKeep DEF queue
  <2>2. CASE UNCHANGED sent
    BY <1>3, <2>2 DEF EnqueueReserve, queue
  <2> QED BY <1>3, <2>1, <2>2 DEF EnqueueReserve
<1>4. ASSUME NEW p \in Producers, EnqueuePublish(p) PROVE Abstract!Next
  <2>1. /\ prod_tail' = prod_tail + 1 /\ UNCHANGED <<sent, cons_head>>
        /\ prod_tail = head[p] /\ pc[p] = "publish"
    BY ZenonT(30), <1>4 DEF EnqueuePublish
  <2>2. prod_tail < prod_head
    BY <2>1 DEF BufferInv, Reservations, Reserving
  <2>3. cons_head <= prod_tail /\ prod_tail - cons_head < N - 1
    BY <1>1, <2>2, IndexOrder
  <2>4. /\ queue' = Append(queue, sent[prod_tail + 1])
        /\ Len(queue) = prod_tail - cons_head
    BY ZenonT(30), <1>1, <2>1, <2>2, <2>3, SubSeqGrow DEF queue
  <2>5. sent[prod_tail + 1] \in Values
    BY <1>1, <2>2
  <2> QED BY ZenonT(30), <2>3, <2>4, <2>5 DEF Abstract!Next, Abstract!Put
<1>5. ASSUME NEW c \in Consumers, DequeueReserve(c), cons_head = head[c]
      PROVE  Abstract!Next
  <2>1. cons_head' = cons_head + 1 /\ UNCHANGED <<sent, prod_tail>>
    BY <1>5 DEF DequeueReserve
  <2>2. cons_head < prod_tail
    BY <1>1, <1>5, <2>1 DEF BufferInv, NoUnderrun
  <2>3. prod_tail <= Len(sent)
    BY <1>1, IndexOrder
  <2>4. SubSeq(sent, cons_head + 2, prod_tail) = Tail(queue) /\ queue # <<>>
    BY ZenonT(30), <1>1, <2>2, <2>3, SubSeqShrink DEF queue
  <2>5. queue' = SubSeq(sent, cons_head + 2, prod_tail)
    BY <1>1, <2>1 DEF queue
  <2> QED BY ZenonT(30), <2>4, <2>5 DEF Abstract!Next, Abstract!Take
<1>6. ASSUME NEW p \in Producers, Enqueue(p) PROVE [Abstract!Next]_queue
  BY <1>2, <1>3, <1>4, <1>6
     DEF Enqueue, EnqueueCall, EnqueueReadHead, EnqueueStore, shared
<1>7. ASSUME NEW c \in Consumers, Dequeue(c) PROVE [Abstract!Next]_queue
  <2>1. CASE DequeueReserve(c)
    BY <1>2, <1>5, <2>1 DEF DequeueReserve
  <2> QED BY <1>2, <1>7, <2>1
          DEF Dequeue, DequeueCall, DequeueReadHead, DequeueCopy,
              DequeuePublish, shared
<1>8. ASSUME NEW k \in Peekers, Peek(k) PROVE [Abstract!Next]_queue
  BY ZenonT(30), <1>2, <1>8
     DEF Peek, PeekCall, PeekReadHead, PeekCopy, PeekRecheck, shared
<1>9. CASE UNCHANGED vars
  BY <1>2, <1>9 DEF vars
<1> QED BY ZenonT(30), <1>6, <1>7, <1>8, <1>9 DEF Next

(* With one producer and one consumer, the buffer implements a bounded      *)
(* first-in first-out queue of N - 1 values.                                *)
THEOREM Refinement ==
  ASSUME OneProducer, OneConsumer
  PROVE  Spec => Refines
<1>1. Init => Abstract!Init
  BY SubSeqEmpty DEF Init, queue, Abstract!Init
<1>2. /\ BufferInv /\ Contents /\ [Next]_vars /\ (BufferInv /\ Contents)'
      => [Abstract!Next]_queue
  BY StepSimulation
<1> QED BY <1>1, <1>2, BufferCorrect, PTL DEF Spec, Refines, Abstract!Spec
=============================================================================
