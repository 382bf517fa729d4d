------------------------ MODULE ServerObject_proofs -------------------------
(***************************************************************************)
(* Proofs about ServerObject, for any servers, clients, calls and sizes of *)
(* mailboxes.                                                              *)
(*                                                                         *)
(* A call goes one way: it is in its caller's hand, in one place of one    *)
(* queue, handled by its server, done (Lived).  So nothing is handled      *)
(* twice, and caller and server each get to call its callback once at most *)
(* (Counted).                                                              *)
(***************************************************************************)
EXTENDS ServerObject, TLAPS

(* Time limits that leave a slow machine room.                              *)
USE SMTT(30), ZenonT(30)

Unsent == {"await", "send", "init", "new", "rb", "ready", "enqueue"}
Places == Unsent \cup {"idle", "return", "sync", "callback", "test"}
Handling == {"method", "set", "callback"}
Stages == Handling \cup {"start", "init", "exit", "read", "block"}
Types ==
  /\ pc \in [Threads -> Places] /\ call \in [Threads -> Calls \cup {None}]
  /\ loop \in [Servers -> Stages] /\ current \in [Servers -> Calls \cup {None}]
  /\ ipc \in [Servers -> Threads \cup {None}] /\ rb \in [Objects -> Threads \cup {None}]
  /\ queue \in [Objects -> Seq(Calls)] /\ done \in Seq(Calls)
  /\ called \in [Calls -> Nat]
  /\ mutex \subseteq Calls /\ Result \subseteq Calls /\ CallOnSet \subseteq Calls

(* A thread makes its own calls, and a server handles those made on it.     *)
CallersOK ==
  \A th \in Threads : /\ pc[th] # "idle" => call[th] # None
                      /\ call[th] # None => call[th] \in made /\ Caller[call[th]] = th
LoopsOK ==
  \A s \in Servers : /\ loop[s] \in Handling <=> current[s] # None
                     /\ current[s] # None => Target[current[s]] = s

(* A call is in one place of one queue.                                     *)
Lies(q, c, o, i) == o \in Objects /\ i \in 1 .. Len(q[o]) /\ q[o][i] = c
QueuesOK ==
  /\ \A c, o, i : Lies(queue, c, o, i) => Target[c] = o[1]
  /\ \A c, o, i, p, j : Lies(queue, c, o, i) /\ Lies(queue, c, p, j) => o = p /\ i = j
DoneOnce == \A i, j \in 1 .. Len(done) : done[i] = done[j] => i = j

(* How far a call has got.                                                  *)
InHand(c) == call[Caller[c]] = c /\ pc[Caller[c]] \in Unsent
Busy(c) == call[Caller[c]] = c /\ pc[Caller[c]] # "idle"
Testing(c) == call[Caller[c]] = c /\ pc[Caller[c]] = "test"
Queued(c) == \E o, i : Lies(queue, c, o, i)
Current(c) == current[Target[c]] = c
Calling(c) == Current(c) /\ loop[Target[c]] = "callback"
Handled(c) == \E i \in 1 .. Len(done) : done[i] = c

Lived(c) ==
  /\ c \notin made \/ InHand(c) =>
       ~Queued(c) /\ ~Current(c) /\ ~Handled(c) /\ c \notin CallOnSet
  /\ Queued(c) => ~Current(c) /\ ~Handled(c)
  /\ Current(c) => (loop[Target[c]] = "method" <=> ~Handled(c))

(* The value is there before the event is set.                              *)
Valued(c) ==
  /\ c \in mutex => c \in Result
  /\ Current(c) /\ loop[Target[c]] # "method" => c \in Result

(* A callback is called, or still will be; once by the caller and once by   *)
(* the server.                                                              *)
CalledBack(c) == c \in CallOnSet /\ c \in mutex => called[c] > 0 \/ Testing(c) \/ Calling(c)
ByCaller(c) == IF c \in made /\ ~Busy(c) THEN 1 ELSE 0
ByServer(c) == IF Handled(c) /\ ~Current(c) THEN 1 ELSE 0
Counted(c) == called[c] <= ByCaller(c) + ByServer(c)

CallOK(c) == Lived(c) /\ Valued(c) /\ CalledBack(c) /\ Counted(c)

IInv == /\ Types /\ CallersOK /\ LoopsOK /\ QueuesOK /\ DoneOnce
        /\ early = {} /\ \A c \in Calls : CallOK(c)

-----------------------------------------------------------------------------
(* What steps have in common *)

(* A call that a step does not take back, and whose server does not get on. *)
LEMMA CallFrame ==
  ASSUME NEW c \in Calls, CallOK(c), called[c] \in Nat, called'[c] = called[c],
         c \in made' <=> c \in made, InHand(c)' => InHand(c), Busy(c)' => Busy(c),
         Testing(c) => Testing(c)', Queued(c)' <=> Queued(c), Handled(c)' <=> Handled(c),
         Current(c)' <=> Current(c), Current(c) => loop'[Target[c]] = loop[Target[c]],
         c \in CallOnSet' <=> c \in CallOnSet, c \in mutex' <=> c \in mutex,
         c \in Result => c \in Result'
  PROVE  CallOK(c)'
<1>1. Lived(c)'
  BY ZenonT(30) DEF CallOK, Lived
<1>2. Valued(c)'
  BY ZenonT(30) DEF CallOK, Valued
<1>3. CalledBack(c)'
  BY ZenonT(30) DEF CallOK, CalledBack, Calling
<1>4. Counted(c)'
  <2>1. ByServer(c)' = ByServer(c) /\ ByServer(c) \in {0, 1}
    BY ZenonT(30) DEF ByServer
  <2>2. ByCaller(c) \in {0, 1} /\ ByCaller(c)' \in {0, 1} /\ (ByCaller(c) = 1 => ByCaller(c)' = 1)
    BY DEF ByCaller
  <2>3. called[c] <= ByCaller(c) + ByServer(c)
    BY ZenonT(30) DEF CallOK, Counted
  <2>4. called[c] <= ByCaller(c)' + ByServer(c)
    BY <2>2, <2>1, <2>3
  <2> QED BY ZenonT(30), <2>1, <2>4 DEF Counted
<1> QED BY ZenonT(30), <1>1, <1>2, <1>3, <1>4 DEF CallOK

(* A thread inside of Invoke, or of what it does with the RPCResult, makes  *)
(* a call of its own.                                                       *)
LEMMA OwnCall ==
  ASSUME IInv, NEW th \in Threads, pc[th] # "idle"
  PROVE  call[th] \in Calls /\ Caller[call[th]] = th /\ call[th] \in made
<1>1. call[th] # None
  BY ZenonT(30) DEF IInv, CallersOK
<1>2. call[th] \in Calls \cup {None}
  BY ZenonT(30) DEF IInv, Types
<1> QED BY ZenonT(30), <1>1, <1>2 DEF IInv, CallersOK

(* Where a thread is in its call changes nothing for the calls of others.   *)
LEMMA CallerMoves ==
  ASSUME Types, NEW th \in Threads, NEW c \in Calls, NEW p, pc' = [pc EXCEPT ![th] = p],
         UNCHANGED call
  PROVE  /\ call[th] # c => /\ InHand(c)' <=> InHand(c)
                            /\ Busy(c)' <=> Busy(c)
                            /\ Testing(c)' <=> Testing(c)
         /\ Caller[c] = th => pc'[Caller[c]] = p
         /\ Caller[c] # th => pc'[Caller[c]] = pc[Caller[c]]
<1>1. Caller[c] \in Threads /\ pc'[th] = p /\ \A u \in Threads : u # th => pc'[u] = pc[u]
  BY ZenonT(30), RpcAssumption DEF Types
<1>2. CASE Caller[c] = th
  BY ZenonT(30), <1>1, <1>2 DEF InHand, Busy, Testing
<1>3. CASE Caller[c] # th
  BY ZenonT(30), <1>1, <1>3 DEF InHand, Busy, Testing
<1> QED BY ZenonT(30), <1>2, <1>3

(* Queues that are left alone.                                              *)
LEMMA SameQueues ==
  ASSUME QueuesOK, UNCHANGED queue
  PROVE  QueuesOK' /\ \A c : Queued(c)' <=> Queued(c)
<1>1. \A c, o, i : Lies(queue', c, o, i) <=> Lies(queue, c, o, i)
  BY ZenonT(30) DEF Lies
<1> QED BY ZenonT(30), <1>1 DEF QueuesOK, Queued

(* Servers, and what they have done, that are left alone.                   *)
LEMMA SameServers ==
  ASSUME LoopsOK, DoneOnce, UNCHANGED <<loop, current, done>>
  PROVE  /\ LoopsOK' /\ DoneOnce'
         /\ \A c : (Current(c)' <=> Current(c)) /\ (Handled(c)' <=> Handled(c))
BY ZenonT(30) DEF LoopsOK, DoneOnce, Current, Handled

(* A caller that gets on, and whose callback is not due.                    *)
LEMMA MoveStep ==
  ASSUME IInv, NEW th \in Threads, NEW p \in Places, pc[th] # "idle", pc[th] # "test",
         p \in Unsent => pc[th] \in Unsent, pc' = [pc EXCEPT ![th] = p],
         UNCHANGED <<call, queue, loop, current, done, mutex, Result, CallOnSet, called, early,
                     made>>,
         ipc' \in [Servers -> Threads \cup {None}], rb' \in [Objects -> Threads \cup {None}]
  PROVE  IInv'
<1>1. /\ pc \in [Threads -> Places] /\ pc' \in [Threads -> Places] /\ pc'[th] = p
      /\ \A u \in Threads : u # th => pc'[u] = pc[u]
  BY ZenonT(30) DEF IInv, Types
<1>2. Types'
  BY ZenonT(30), <1>1 DEF IInv, Types
<1>3. CallersOK'
  BY ZenonT(30), <1>1 DEF IInv, CallersOK
<1>4. QueuesOK' /\ \A c : Queued(c)' <=> Queued(c)
  BY ZenonT(30), SameQueues DEF IInv
<1>5. /\ LoopsOK' /\ DoneOnce'
      /\ \A c : (Current(c)' <=> Current(c)) /\ (Handled(c)' <=> Handled(c))
  BY ZenonT(30), SameServers DEF IInv
<1>6. ASSUME NEW c \in Calls PROVE CallOK(c)'
  <2>1. /\ InHand(c)' => InHand(c)
        /\ Busy(c)' => Busy(c)
        /\ Testing(c) => Testing(c)'
    <3>1. CASE call[th] # c
      BY ZenonT(30), <3>1, CallerMoves DEF IInv
    <3>2. CASE call[th] = c
      <4>1. Caller[c] = th
        BY ZenonT(30), <3>2, RpcAssumption DEF IInv, CallersOK
      <4> QED BY ZenonT(30), <1>1, <4>1 DEF InHand, Busy, Testing
    <3> QED BY ZenonT(30), <3>1, <3>2
  <2>2. called[c] \in Nat
    BY ZenonT(30) DEF IInv, Types
  <2> QED BY ZenonT(30), <1>4, <1>5, <2>1, <2>2, CallFrame DEF IInv
<1> QED BY ZenonT(30), <1>2, <1>3, <1>4, <1>5, <1>6 DEF IInv

(* A server that gets on outside of messages.                               *)
LEMMA LoopStep ==
  ASSUME IInv, NEW s \in Servers, NEW l \in Stages, loop[s] \notin Handling, l \notin Handling,
         loop' = [loop EXCEPT ![s] = l],
         UNCHANGED <<pc, call, ipc, rb, queue, current, done, mutex, Result, CallOnSet, called,
                     early, made>>
  PROVE  IInv'
<1>1. /\ loop \in [Servers -> Stages] /\ loop' \in [Servers -> Stages] /\ loop'[s] = l
      /\ \A r \in Servers : r # s => loop'[r] = loop[r]
  BY ZenonT(30) DEF IInv, Types
<1>2. Types'
  BY ZenonT(30), <1>1 DEF IInv, Types
<1>3. CallersOK' /\ DoneOnce' /\ early' = {}
  BY ZenonT(30) DEF IInv, CallersOK, DoneOnce
<1>4. QueuesOK' /\ \A c : Queued(c)' <=> Queued(c)
  BY ZenonT(30), SameQueues DEF IInv
<1>5. LoopsOK'
  BY ZenonT(30), <1>1 DEF IInv, LoopsOK
<1>6. current[s] = None
  BY ZenonT(30) DEF IInv, LoopsOK
<1>7. ASSUME NEW c \in Calls PROVE CallOK(c)'
  <2>1. c # None /\ Target[c] \in Servers
    BY ZenonT(30), RpcAssumption
  <2>2. Current(c) => loop'[Target[c]] = loop[Target[c]]
    BY ZenonT(30), <1>1, <1>6, <2>1 DEF Current
  <2>3. /\ InHand(c)' => InHand(c)
        /\ Busy(c)' => Busy(c)
        /\ Testing(c) => Testing(c)'
        /\ Current(c)' <=> Current(c)
        /\ Handled(c)' <=> Handled(c)
    BY ZenonT(30) DEF InHand, Busy, Testing, Current, Handled
  <2>4. called[c] \in Nat
    BY ZenonT(30) DEF IInv, Types
  <2> QED BY ZenonT(30), <1>4, <2>2, <2>3, <2>4, CallFrame DEF IInv
<1> QED BY ZenonT(30), <1>2, <1>3, <1>4, <1>5, <1>7 DEF IInv

-----------------------------------------------------------------------------
(* Callers *)

(* Invoke: a new call is in its caller's hand.                              *)
LEMMA InvokeStep ==
  ASSUME IInv, NEW th \in Threads, NEW d \in Calls, Invoke(th, d)
  PROVE  IInv'
<1>1. /\ pc[th] = "idle" /\ Caller[d] = th /\ d \notin made /\ made' = made \cup {d}
      /\ call' = [call EXCEPT ![th] = d] /\ pc' = [pc EXCEPT ![th] = "await"]
      /\ UNCHANGED <<ipc, rb, queue, loop, current, done, mutex, Result, CallOnSet, called, early>>
  BY ZenonT(30) DEF Invoke, At, Goto, mail, server, rpc
<1>2. /\ pc' \in [Threads -> Places] /\ call' \in [Threads -> Calls \cup {None}]
      /\ pc'[th] = "await" /\ call'[th] = d
      /\ \A u \in Threads : u # th => pc'[u] = pc[u] /\ call'[u] = call[u]
  <2>1. pc \in [Threads -> Places] /\ call \in [Threads -> Calls \cup {None}]
    BY ZenonT(30) DEF IInv, Types
  <2>2. "await" \in Places
    BY DEF Places, Unsent
  <2> QED BY <1>1, <2>1, <2>2
<1>3. Types'
  BY ZenonT(30), <1>1, <1>2 DEF IInv, Types
<1>4. CallersOK'
  BY ZenonT(30), <1>1, <1>2, RpcAssumption DEF IInv, CallersOK
<1>5. QueuesOK' /\ \A c : Queued(c)' <=> Queued(c)
  BY ZenonT(30), <1>1, SameQueues DEF IInv
<1>6. /\ LoopsOK' /\ DoneOnce'
      /\ \A c : (Current(c)' <=> Current(c)) /\ (Handled(c)' <=> Handled(c))
  BY ZenonT(30), <1>1, SameServers DEF IInv
<1>7. ASSUME NEW c \in Calls, c # d PROVE CallOK(c)'
  <2>1. /\ InHand(c)' => InHand(c)
        /\ Busy(c)' => Busy(c)
        /\ Testing(c) => Testing(c)'
    <3>1. CASE Caller[c] = th
      BY ZenonT(30), <1>1, <1>2, <1>7, <3>1 DEF InHand, Busy, Testing
    <3>2. CASE Caller[c] # th
      <4>1. call'[Caller[c]] = call[Caller[c]] /\ pc'[Caller[c]] = pc[Caller[c]]
        BY ZenonT(30), <1>2, <3>2, RpcAssumption
      <4> QED BY ZenonT(30), <4>1 DEF InHand, Busy, Testing
    <3> QED BY ZenonT(30), <3>1, <3>2
  <2>2. called[c] \in Nat /\ (c \in made' <=> c \in made)
    BY ZenonT(30), <1>1, <1>7 DEF IInv, Types
  <2> QED BY ZenonT(30), <1>1, <1>5, <1>6, <2>1, <2>2, CallFrame DEF IInv
<1>8. CallOK(d)'
  <2>1. /\ ~Queued(d)' /\ ~Current(d)' /\ ~Handled(d)' /\ d \notin CallOnSet'
        /\ d \in mutex' => d \in Result'
    BY ZenonT(30), <1>1, <1>5, <1>6 DEF IInv, CallOK, Lived, Valued
  <2>2. Lived(d)' /\ Valued(d)' /\ CalledBack(d)'
    BY ZenonT(30), <2>1 DEF Lived, Valued, CalledBack
  <2>3. called[d] = 0
    <3>1. ByCaller(d) = 0 /\ ByServer(d) = 0
      BY ZenonT(30), <1>1, <1>6, <2>1 DEF ByCaller, ByServer
    <3>2. called[d] \in Nat /\ called[d] <= ByCaller(d) + ByServer(d)
      BY ZenonT(30) DEF IInv, Types, CallOK, Counted
    <3> QED BY <3>1, <3>2
  <2>4. ByCaller(d)' \in {0, 1} /\ ByServer(d)' \in {0, 1}
    BY ZenonT(30) DEF ByCaller, ByServer
  <2>5. called'[d] = 0
    BY ZenonT(30), <1>1, <2>3
  <2>6. Counted(d)'
    BY <2>4, <2>5 DEF Counted
  <2> QED BY ZenonT(30), <2>2, <2>6 DEF CallOK
<1> QED BY ZenonT(30), <1>1, <1>3, <1>4, <1>5, <1>6, <1>7, <1>8 DEF IInv

(* AwaitLoop on the server's own thread: the RPCResult is set at once.      *)
LEMMA DirectStep ==
  ASSUME IInv, NEW th \in Threads, pc[th] = "await", pc' = [pc EXCEPT ![th] = "return"],
         mutex' = mutex \cup {call[th]}, Result' = Result \cup {call[th]},
         UNCHANGED <<call, ipc, rb, queue, loop, current, done, CallOnSet, called, early, made>>
  PROVE  IInv'
<1>1. PICK d \in Calls : d = call[th] /\ Caller[d] = th /\ d \in made
  BY ZenonT(30), OwnCall
<1>2. /\ pc' \in [Threads -> Places] /\ pc'[th] = "return"
      /\ \A u \in Threads : u # th => pc'[u] = pc[u]
  <2>1. pc \in [Threads -> Places]
    BY ZenonT(30) DEF IInv, Types
  <2>2. "return" \in Places
    BY DEF Places
  <2> QED BY <2>1, <2>2
<1>3. mutex' \subseteq Calls /\ Result' \subseteq Calls
  BY ZenonT(30), <1>1 DEF IInv, Types
<1>4. Types'
  BY ZenonT(30), <1>2, <1>3 DEF IInv, Types
<1>5. CallersOK'
  BY ZenonT(30), <1>2 DEF IInv, CallersOK
<1>6. QueuesOK' /\ \A c : Queued(c)' <=> Queued(c)
  BY ZenonT(30), SameQueues DEF IInv
<1>7. /\ LoopsOK' /\ DoneOnce'
      /\ \A c : (Current(c)' <=> Current(c)) /\ (Handled(c)' <=> Handled(c))
  BY ZenonT(30), SameServers DEF IInv
<1>8. ASSUME NEW c \in Calls, c # d PROVE CallOK(c)'
  <2>1. /\ InHand(c)' => InHand(c)
        /\ Busy(c)' => Busy(c)
        /\ Testing(c) => Testing(c)'
    BY ZenonT(30), <1>1, <1>8, CallerMoves DEF IInv
  <2>2. called[c] \in Nat /\ (c \in mutex' <=> c \in mutex) /\ (c \in Result => c \in Result')
    BY ZenonT(30), <1>1, <1>8 DEF IInv, Types
  <2> QED BY ZenonT(30), <1>6, <1>7, <2>1, <2>2, CallFrame DEF IInv
<1>9. CallOK(d)'
  <2>1. InHand(d)
    BY ZenonT(30), <1>1 DEF InHand, Unsent
  <2>2. /\ ~Queued(d)' /\ ~Current(d)' /\ ~Handled(d)' /\ d \notin CallOnSet'
    BY ZenonT(30), <1>6, <1>7, <2>1 DEF IInv, CallOK, Lived
  <2>3. Lived(d)' /\ Valued(d)' /\ CalledBack(d)'
    BY ZenonT(30), <1>1, <2>2 DEF Lived, Valued, CalledBack
  <2>4. called[d] = 0
    <3>1. Busy(d)
      BY ZenonT(30), <1>1 DEF Busy
    <3>2. ByCaller(d) = 0 /\ ByServer(d) = 0
      BY ZenonT(30), <1>7, <2>2, <3>1 DEF ByCaller, ByServer
    <3>3. called[d] \in Nat /\ called[d] <= ByCaller(d) + ByServer(d)
      BY ZenonT(30) DEF IInv, Types, CallOK, Counted
    <3> QED BY <3>2, <3>3
  <2>5. ByCaller(d)' \in {0, 1} /\ ByServer(d)' \in {0, 1}
    BY ZenonT(30) DEF ByCaller, ByServer
  <2>6. called'[d] = 0
    BY ZenonT(30), <2>4
  <2>7. Counted(d)'
    BY <2>5, <2>6 DEF Counted
  <2> QED BY ZenonT(30), <2>3, <2>7 DEF CallOK
<1> QED BY ZenonT(30), <1>4, <1>5, <1>6, <1>7, <1>8, <1>9 DEF IInv

(* SetCallback: the caller is about to test whether the call is done.       *)
LEMMA SetCallbackStep ==
  ASSUME IInv, NEW th \in Threads, SetCallback(th)
  PROVE  IInv'
<1>1. /\ pc[th] = "callback" /\ pc' = [pc EXCEPT ![th] = "test"]
      /\ CallOnSet' = CallOnSet \cup {call[th]}
      /\ UNCHANGED <<call, ipc, rb, queue, loop, current, done, mutex, Result, called, early, made>>
  BY ZenonT(30) DEF SetCallback, At, Goto, mail, server
<1>2. PICK d \in Calls : d = call[th] /\ Caller[d] = th /\ d \in made
  BY ZenonT(30), <1>1, OwnCall
<1>3. /\ pc' \in [Threads -> Places] /\ pc'[th] = "test"
      /\ \A u \in Threads : u # th => pc'[u] = pc[u]
  <2>1. pc \in [Threads -> Places]
    BY ZenonT(30) DEF IInv, Types
  <2>2. "test" \in Places
    BY DEF Places
  <2> QED BY <1>1, <2>1, <2>2
<1>4. CallOnSet' \subseteq Calls
  BY ZenonT(30), <1>1, <1>2 DEF IInv, Types
<1>5. Types'
  BY ZenonT(30), <1>1, <1>3, <1>4 DEF IInv, Types
<1>6. CallersOK'
  BY ZenonT(30), <1>1, <1>3 DEF IInv, CallersOK
<1>7. QueuesOK' /\ \A c : Queued(c)' <=> Queued(c)
  BY ZenonT(30), <1>1, SameQueues DEF IInv
<1>8. /\ LoopsOK' /\ DoneOnce'
      /\ \A c : (Current(c)' <=> Current(c)) /\ (Handled(c)' <=> Handled(c))
  BY ZenonT(30), <1>1, SameServers DEF IInv
<1>9. ASSUME NEW c \in Calls, c # d PROVE CallOK(c)'
  <2>1. /\ InHand(c)' => InHand(c)
        /\ Busy(c)' => Busy(c)
        /\ Testing(c) => Testing(c)'
    BY ZenonT(30), <1>1, <1>2, <1>9, CallerMoves DEF IInv
  <2>2. called[c] \in Nat /\ (c \in CallOnSet' <=> c \in CallOnSet)
    BY ZenonT(30), <1>1, <1>2, <1>9 DEF IInv, Types
  <2> QED BY ZenonT(30), <1>1, <1>7, <1>8, <2>1, <2>2, CallFrame DEF IInv
<1>10. CallOK(d)'
  <2>1. ~InHand(d)' /\ Testing(d)' /\ Busy(d) /\ d \in made'
    <3>1. "test" \notin Unsent
      BY DEF Unsent
    <3> QED BY ZenonT(30), <1>1, <1>2, <1>3, <3>1 DEF InHand, Testing, Busy
  <2>2. Lived(d) /\ Valued(d) /\ Counted(d)
    BY ZenonT(30) DEF IInv, CallOK
  <2>3. Lived(d)' /\ Valued(d)' /\ CalledBack(d)'
    BY ZenonT(30), <1>1, <1>7, <1>8, <2>1, <2>2 DEF Lived, Valued, CalledBack
  <2>4. Busy(d)'
    BY ZenonT(30), <2>1 DEF Busy, Testing
  <2>5. Counted(d)'
    BY ZenonT(30), <1>1, <1>8, <2>1, <2>2, <2>4 DEF Counted, ByCaller, ByServer
  <2> QED BY ZenonT(30), <2>3, <2>5 DEF CallOK
<1> QED BY ZenonT(30), <1>1, <1>5, <1>6, <1>7, <1>8, <1>9, <1>10 DEF IInv

(* SetCallback's test: the caller calls the callback if the call is done.   *)
LEMMA CallbackIfSetStep ==
  ASSUME IInv, NEW th \in Threads, CallbackIfSet(th)
  PROVE  IInv'
<1>1. /\ pc[th] = "test" /\ pc' = [pc EXCEPT ![th] = "idle"]
      /\ \/ call[th] \in mutex /\ Callback(call[th])
         \/ call[th] \notin mutex /\ UNCHANGED <<called, early>>
      /\ UNCHANGED <<call, ipc, rb, queue, loop, current, done, mutex, Result, CallOnSet, made>>
  BY ZenonT(30) DEF CallbackIfSet, At, Goto, mail, server
<1>2. PICK d \in Calls : d = call[th] /\ Caller[d] = th /\ d \in made
  BY ZenonT(30), <1>1, OwnCall
<1>3. /\ pc' \in [Threads -> Places] /\ pc'[th] = "idle"
      /\ \A u \in Threads : u # th => pc'[u] = pc[u]
  <2>1. pc \in [Threads -> Places]
    BY ZenonT(30) DEF IInv, Types
  <2>2. "idle" \in Places
    BY DEF Places
  <2> QED BY <1>1, <2>1, <2>2
<1>4. /\ called \in [Calls -> Nat] /\ called' \in [Calls -> Nat] /\ early' = {}
      /\ \A c \in Calls : c # d => called'[c] = called[c]
      /\ \/ d \in mutex /\ called'[d] = called[d] + 1
         \/ d \notin mutex /\ called'[d] = called[d]
  <2>1. called \in [Calls -> Nat] /\ early = {} /\ (d \in mutex => d \in Result)
    BY ZenonT(30) DEF IInv, Types, CallOK, Valued
  <2>2. CASE d \in mutex
    <3>1. called' = [called EXCEPT ![d] = called[d] + 1] /\ early' = {}
      BY ZenonT(30), <1>1, <1>2, <2>1, <2>2 DEF Callback, Hand
    <3> QED BY <2>1, <2>2, <3>1
  <2>3. CASE d \notin mutex
    BY ZenonT(30), <1>1, <1>2, <2>1, <2>3
  <2> QED BY ZenonT(30), <2>2, <2>3
<1>5. Types'
  BY ZenonT(30), <1>1, <1>3, <1>4 DEF IInv, Types
<1>6. CallersOK'
  BY ZenonT(30), <1>1, <1>3 DEF IInv, CallersOK
<1>7. QueuesOK' /\ \A c : Queued(c)' <=> Queued(c)
  BY ZenonT(30), <1>1, SameQueues DEF IInv
<1>8. /\ LoopsOK' /\ DoneOnce'
      /\ \A c : (Current(c)' <=> Current(c)) /\ (Handled(c)' <=> Handled(c))
  BY ZenonT(30), <1>1, SameServers DEF IInv
<1>9. ASSUME NEW c \in Calls, c # d PROVE CallOK(c)'
  <2>1. /\ InHand(c)' => InHand(c)
        /\ Busy(c)' => Busy(c)
        /\ Testing(c) => Testing(c)'
    BY ZenonT(30), <1>1, <1>2, <1>9, CallerMoves DEF IInv
  <2>2. called[c] \in Nat /\ called'[c] = called[c]
    BY ZenonT(30), <1>4, <1>9
  <2> QED BY ZenonT(30), <1>1, <1>7, <1>8, <2>1, <2>2, CallFrame DEF IInv
<1>10. CallOK(d)'
  <2>1. ~InHand(d)' /\ ~Busy(d)' /\ Busy(d) /\ d \in made /\ d \in made'
    <3>1. "idle" \notin Unsent
      BY DEF Unsent
    <3> QED BY ZenonT(30), <1>1, <1>2, <1>3, <3>1 DEF InHand, Testing, Busy
  <2>2. Lived(d) /\ Valued(d) /\ Counted(d) /\ called[d] \in Nat
    BY ZenonT(30), <1>4 DEF IInv, CallOK
  <2>3. Lived(d)' /\ Valued(d)'
    BY ZenonT(30), <1>1, <1>7, <1>8, <2>1, <2>2 DEF Lived, Valued
  <2>4. d \in mutex => called'[d] > 0
    BY <1>4, <2>2
  <2>5. CalledBack(d)'
    BY ZenonT(30), <1>1, <2>4 DEF CalledBack
  <2>6. ByCaller(d) = 0 /\ ByCaller(d)' = 1 /\ ByServer(d)' = ByServer(d) /\ ByServer(d) \in {0, 1}
    BY ZenonT(30), <1>8, <2>1 DEF ByCaller, ByServer
  <2>7. called'[d] <= ByCaller(d)' + ByServer(d)'
    BY <1>4, <2>2, <2>6 DEF Counted
  <2>8. Counted(d)'
    BY ZenonT(30), <2>7 DEF Counted
  <2> QED BY ZenonT(30), <2>3, <2>5, <2>8 DEF CallOK
<1> QED BY ZenonT(30), <1>4, <1>5, <1>6, <1>7, <1>8, <1>9, <1>10 DEF IInv

-----------------------------------------------------------------------------
(* Messages *)

(* The ring buffer of a mailbox that can be used.                           *)
LEMMA RingIs ==
  ASSUME Types, NEW s \in Servers, Usable(s), ~Broken(s)
  PROVE  Ring(s) \in Objects /\ Ring(s)[1] = s
<1>1. ipc[s] \in Threads
  BY ZenonT(30) DEF Types, Usable
<1>2. Mailbox(s) \in Objects
  BY <1>1 DEF Mailbox, Objects
<1>3. rb[Mailbox(s)] \in Threads
  BY ZenonT(30), <1>2 DEF Types, Broken
<1> QED BY <1>3 DEF Ring, Objects

(* Places of a sequence that has got one more, and of one that has lost its *)
(* first.                                                                   *)
LEMMA AppendPlaces ==
  ASSUME NEW q \in Seq(Calls), NEW d \in Calls
  PROVE  /\ Append(q, d) \in Seq(Calls)
         /\ \A i : i \in 1 .. Len(Append(q, d)) <=> i \in 1 .. Len(q) \/ i = Len(q) + 1
         /\ \A i \in 1 .. Len(q) : Append(q, d)[i] = q[i]
         /\ Append(q, d)[Len(q) + 1] = d /\ Len(q) + 1 \notin 1 .. Len(q)
OBVIOUS

(* Places of a sequence that has lost its first.                            *)
LEMMA TailPlaces ==
  ASSUME NEW q \in Seq(Calls), q # << >>
  PROVE  /\ Tail(q) \in Seq(Calls) /\ Head(q) \in Calls /\ 1 \in 1 .. Len(q) /\ q[1] = Head(q)
         /\ \A i \in 1 .. Len(Tail(q)) : i + 1 \in 1 .. Len(q) /\ Tail(q)[i] = q[i + 1]
         /\ \A i \in 1 .. Len(q) : i # 1 => i - 1 \in 1 .. Len(Tail(q)) /\ Tail(q)[i - 1] = q[i]
OBVIOUS

(* A message is put at the end of a queue ...                               *)
LEMMA PutLies ==
  ASSUME queue \in [Objects -> Seq(Calls)], NEW r \in Objects, NEW d \in Calls,
         queue' = [queue EXCEPT ![r] = Append(@, d)]
  PROVE  /\ queue' \in [Objects -> Seq(Calls)]
         /\ \E i : Lies(queue', d, r, i)
         /\ \A c, o, i : Lies(queue, c, o, i) => Lies(queue', c, o, i)
         /\ \A c, o, i : Lies(queue', c, o, i) =>
              Lies(queue, c, o, i) \/ (c = d /\ o = r /\ i = Len(queue[r]) + 1)
<1>1. PICK q \in Seq(Calls) : q = queue[r]
  BY ZenonT(30)
<1>2. PICK a \in Seq(Calls) : a = Append(q, d)
  BY ZenonT(30), AppendPlaces
<1>3. PICK k : k = Len(queue[r]) + 1
  BY ZenonT(30)
<1>4. /\ a[k] = d
      /\ \A i : i \in 1 .. Len(a) <=> i \in 1 .. Len(q) \/ i = k
      /\ \A i \in 1 .. Len(q) : a[i] = q[i]
  BY <1>1, <1>2, <1>3
<1>5. /\ queue' \in [Objects -> Seq(Calls)] /\ queue'[r] = a
      /\ \A o \in Objects : o # r => queue'[o] = queue[o]
  BY <1>1, <1>2
<1>6. Lies(queue', d, r, k)
  BY ZenonT(30), <1>1, <1>4, <1>3, <1>5 DEF Lies
<1>7. ASSUME NEW c, NEW o, NEW i
      PROVE  /\ Lies(queue, c, o, i) => Lies(queue', c, o, i)
             /\ Lies(queue', c, o, i) =>
                  Lies(queue, c, o, i) \/ (c = d /\ o = r /\ i = Len(queue[r]) + 1)
  <2>1. CASE o = r
    BY ZenonT(30), <1>1, <1>4, <1>3, <1>5, <2>1 DEF Lies
  <2>2. CASE o # r
    BY ZenonT(30), <1>5, <2>2 DEF Lies
  <2> QED BY ZenonT(30), <2>1, <2>2
<1> QED BY ZenonT(30), <1>5, <1>6, <1>7

(* ... and taken off its front.                                             *)
LEMMA TakeLies ==
  ASSUME queue \in [Objects -> Seq(Calls)], NEW r \in Objects, queue[r] # << >>,
         queue' = [queue EXCEPT ![r] = Tail(@)]
  PROVE  /\ queue' \in [Objects -> Seq(Calls)] /\ Lies(queue, Head(queue[r]), r, 1)
         /\ Head(queue[r]) \in Calls
         /\ \A c, o, i : o # r => (Lies(queue', c, o, i) <=> Lies(queue, c, o, i))
         /\ \A c, i : Lies(queue', c, r, i) => Lies(queue, c, r, i + 1) /\ i \in Nat \ {0}
         /\ \A c, i : Lies(queue, c, r, i) /\ i # 1 => Lies(queue', c, r, i - 1)
<1>1. PICK q \in Seq(Calls) : q = queue[r] /\ q # << >>
  BY ZenonT(30)
<1>2. Tail(q) \in Seq(Calls)
  BY ZenonT(30), <1>1, TailPlaces
<1>3. /\ queue' \in [Objects -> Seq(Calls)] /\ queue'[r] = Tail(q)
      /\ \A o \in Objects : o # r => queue'[o] = queue[o]
  BY <1>1, <1>2
<1>4. Lies(queue, Head(queue[r]), r, 1) /\ Head(queue[r]) \in Calls
  BY ZenonT(30), <1>1, TailPlaces DEF Lies
<1>5. \A c, o, i : o # r => (Lies(queue', c, o, i) <=> Lies(queue, c, o, i))
  BY ZenonT(30), <1>3 DEF Lies
<1>6. ASSUME NEW c, NEW i, Lies(queue', c, r, i)
      PROVE  Lies(queue, c, r, i + 1) /\ i \in Nat \ {0}
  <2>1. i \in 1 .. Len(Tail(q)) /\ Tail(q)[i] = c
    BY ZenonT(30), <1>3, <1>6 DEF Lies
  <2>2. i + 1 \in 1 .. Len(q) /\ q[i + 1] = c
    BY ZenonT(30), <1>1, <2>1, TailPlaces
  <2>3. i \in Nat \ {0}
    BY <2>1
  <2> QED BY ZenonT(30), <1>1, <2>2, <2>3 DEF Lies
<1>7. ASSUME NEW c, NEW i, Lies(queue, c, r, i), i # 1 PROVE Lies(queue', c, r, i - 1)
  BY ZenonT(30), <1>1, <1>3, <1>7, TailPlaces DEF Lies
<1> QED BY ZenonT(30), <1>3, <1>4, <1>5, <1>6, <1>7

(* IPC.SendMessage puts the call into the mailbox.                          *)
LEMMA EnqueueStep ==
  ASSUME IInv, NEW th \in Threads, pc[th] = "enqueue", Accepts(To(th)),
         queue' = [queue EXCEPT ![Ring(To(th))] = Append(@, call[th])],
         pc' = [pc EXCEPT ![th] = "return"],
         UNCHANGED <<call, ipc, rb, loop, current, done, mutex, Result, CallOnSet, called, early,
                     made>>
  PROVE  IInv'
<1>1. PICK d \in Calls : d = call[th] /\ Caller[d] = th /\ d \in made
  BY ZenonT(30), OwnCall
<1>2. PICK s \in Servers : s = To(th) /\ s = Target[d]
  BY ZenonT(30), <1>1, RpcAssumption DEF To
<1>3. PICK r \in Objects : r = Ring(To(th)) /\ r[1] = s
  BY ZenonT(30), <1>2, RingIs DEF IInv, Accepts
<1>4. /\ pc' \in [Threads -> Places] /\ pc'[th] = "return"
      /\ \A u \in Threads : u # th => pc'[u] = pc[u]
  <2>1. pc \in [Threads -> Places]
    BY ZenonT(30) DEF IInv, Types
  <2>2. "return" \in Places
    BY DEF Places
  <2> QED BY <2>1, <2>2
<1>5. /\ queue' \in [Objects -> Seq(Calls)]
      /\ \E i : Lies(queue', d, r, i)
      /\ \A c, o, i : Lies(queue, c, o, i) => Lies(queue', c, o, i)
      /\ \A c, o, i : Lies(queue', c, o, i) =>
           Lies(queue, c, o, i) \/ (c = d /\ o = r /\ i = Len(queue[r]) + 1)
  <2>1. queue \in [Objects -> Seq(Calls)] /\ queue' = [queue EXCEPT ![r] = Append(@, d)]
    BY ZenonT(30), <1>1, <1>3 DEF IInv, Types
  <2> QED BY ZenonT(30), <2>1, PutLies
<1>6. Types'
  BY ZenonT(30), <1>4, <1>5 DEF IInv, Types
<1>7. CallersOK'
  BY ZenonT(30), <1>4 DEF IInv, CallersOK
<1>8. /\ LoopsOK' /\ DoneOnce'
      /\ \A c : (Current(c)' <=> Current(c)) /\ (Handled(c)' <=> Handled(c))
  BY ZenonT(30), SameServers DEF IInv
<1>9. InHand(d) /\ Lived(d) /\ ~Queued(d) /\ ~Current(d) /\ ~Handled(d) /\ d \notin CallOnSet
  <2>1. InHand(d)
    BY ZenonT(30), <1>1 DEF InHand, Unsent
  <2> QED BY ZenonT(30), <2>1 DEF IInv, CallOK, Lived
<1>10. QueuesOK'
  <2>1. ASSUME NEW c, NEW o, NEW i, Lies(queue', c, o, i)
        PROVE  Lies(queue, c, o, i) \/ (c = d /\ o = r /\ i = Len(queue[r]) + 1)
    BY ZenonT(30), <1>5, <2>1
  <2>2. ASSUME NEW c, NEW o, NEW i, Lies(queue', c, o, i) PROVE Target[c] = o[1]
    <3>1. CASE Lies(queue, c, o, i)
      BY ZenonT(30), <3>1 DEF IInv, QueuesOK
    <3>2. CASE c = d /\ o = r
      BY ZenonT(30), <1>2, <1>3, <3>2
    <3> QED BY <2>1, <2>2, <3>1, <3>2
  <2>3. ASSUME NEW c, NEW o, NEW i, NEW p, NEW j, Lies(queue', c, o, i), Lies(queue', c, p, j)
        PROVE  o = p /\ i = j
    <3>1. CASE c = d
      <4>1. ~Lies(queue, c, o, i) /\ ~Lies(queue, c, p, j)
        BY ZenonT(30), <1>9, <3>1 DEF Queued
      <4>2. o = r /\ i = Len(queue[r]) + 1
        BY <2>1, <2>3, <4>1
      <4>3. p = r /\ j = Len(queue[r]) + 1
        BY <2>1, <2>3, <4>1
      <4> QED BY ZenonT(30), <4>2, <4>3
    <3>2. CASE c # d
      <4>1. Lies(queue, c, o, i)
        BY ZenonT(30), <2>1, <2>3, <3>2
      <4>2. Lies(queue, c, p, j)
        BY ZenonT(30), <2>1, <2>3, <3>2
      <4> QED BY ZenonT(30), <4>1, <4>2 DEF IInv, QueuesOK
    <3> QED BY ZenonT(30), <3>1, <3>2
  <2> QED BY ZenonT(30), <2>2, <2>3 DEF QueuesOK
<1>11. ASSUME NEW c \in Calls, c # d PROVE CallOK(c)'
  <2>1. /\ InHand(c)' => InHand(c)
        /\ Busy(c)' => Busy(c)
        /\ Testing(c) => Testing(c)'
    BY ZenonT(30), <1>1, <1>11, CallerMoves DEF IInv
  <2>2. Queued(c)' <=> Queued(c)
    BY ZenonT(30), <1>5, <1>11 DEF Queued
  <2>3. called[c] \in Nat
    BY ZenonT(30) DEF IInv, Types
  <2> QED BY ZenonT(30), <1>8, <2>1, <2>2, <2>3, CallFrame DEF IInv
<1>12. CallOK(d)'
  <2>1. ~InHand(d)' /\ Busy(d) /\ Busy(d)' /\ d \in made'
    <3>1. "return" \notin Unsent
      BY DEF Unsent
    <3> QED BY ZenonT(30), <1>1, <1>4, <3>1 DEF InHand, Busy
  <2>2. Lived(d)' /\ CalledBack(d)'
    BY ZenonT(30), <1>8, <1>9, <2>1 DEF Lived, CalledBack
  <2>3. Valued(d)' /\ Counted(d)'
    BY ZenonT(30), <1>1, <1>8, <2>1 DEF IInv, CallOK, Valued, Counted, ByCaller, ByServer
  <2> QED BY ZenonT(30), <2>2, <2>3 DEF CallOK
<1> QED BY ZenonT(30), <1>6, <1>7, <1>8, <1>10, <1>11, <1>12 DEF IInv

(* A server that gets on leaves the calls of other servers where they are.  *)
LEMMA ServerMoves ==
  ASSUME NEW s \in Servers, NEW c \in Calls, c # current[s], c # current'[s],
         \A u \in Servers : u # s => loop'[u] = loop[u] /\ current'[u] = current[u]
  PROVE  /\ Current(c)' <=> Current(c)
         /\ Current(c) => loop'[Target[c]] = loop[Target[c]]
<1>1. Target[c] \in Servers
  BY ZenonT(30), RpcAssumption
<1>2. CASE Target[c] = s
  BY ZenonT(30), <1>2 DEF Current
<1>3. CASE Target[c] # s
  BY ZenonT(30), <1>1, <1>3 DEF Current
<1> QED BY ZenonT(30), <1>2, <1>3

-----------------------------------------------------------------------------
(* Servers *)

(* ReadMessage takes the first call out of the mailbox.                     *)
LEMMA ReadStep ==
  ASSUME IInv, NEW s \in Servers, loop[s] = "read", Waiting(s),
         current' = [current EXCEPT ![s] = Head(queue[Ring(s)])],
         queue' = [queue EXCEPT ![Ring(s)] = Tail(@)], loop' = [loop EXCEPT ![s] = "method"],
         UNCHANGED <<pc, call, ipc, rb, done, mutex, Result, CallOnSet, called, early, made>>
  PROVE  IInv'
<1>1. PICK r \in Objects : r = Ring(s) /\ r[1] = s
  BY ZenonT(30), RingIs DEF IInv, Waiting
<1>2. PICK d : d = Head(queue[r])
  BY ZenonT(30)
<1>3. /\ queue' \in [Objects -> Seq(Calls)] /\ Lies(queue, d, r, 1) /\ d \in Calls
      /\ \A c, o, i : o # r => (Lies(queue', c, o, i) <=> Lies(queue, c, o, i))
      /\ \A c, i : Lies(queue', c, r, i) => Lies(queue, c, r, i + 1) /\ i \in Nat \ {0}
      /\ \A c, i : Lies(queue, c, r, i) /\ i # 1 => Lies(queue', c, r, i - 1)
  <2>1. /\ queue \in [Objects -> Seq(Calls)] /\ queue[r] # << >>
        /\ queue' = [queue EXCEPT ![r] = Tail(@)]
    BY ZenonT(30), <1>1 DEF IInv, Types, Waiting
  <2> QED BY ZenonT(30), <1>2, <2>1, TakeLies
<1>4. Queued(d) /\ Target[d] = s /\ d # None /\ current[s] = None
  <2>1. loop[s] \notin Handling
    BY DEF Handling
  <2> QED BY ZenonT(30), <1>1, <1>3, <2>1, RpcAssumption DEF Queued, IInv, QueuesOK, LoopsOK
<1>5. ~Current(d) /\ ~Handled(d) /\ d \in made /\ ~InHand(d)
  BY ZenonT(30), <1>3, <1>4 DEF IInv, CallOK, Lived
<1>6. /\ loop' \in [Servers -> Stages] /\ current' \in [Servers -> Calls \cup {None}]
      /\ loop'[s] = "method" /\ current'[s] = d
      /\ \A u \in Servers : u # s => loop'[u] = loop[u] /\ current'[u] = current[u]
      /\ \A c \in Calls : c # d =>
           /\ Current(c)' <=> Current(c)
           /\ Current(c) => loop'[Target[c]] = loop[Target[c]]
  <2>1. "method" \in Stages
    BY DEF Stages, Handling
  <2>2. loop \in [Servers -> Stages] /\ current \in [Servers -> Calls \cup {None}]
    BY ZenonT(30) DEF IInv, Types
  <2>3. current' = [current EXCEPT ![s] = d] /\ d \in Calls \cup {None}
    BY ZenonT(30), <1>1, <1>2, <1>3
  <2>4. /\ loop' \in [Servers -> Stages] /\ current' \in [Servers -> Calls \cup {None}]
        /\ loop'[s] = "method" /\ current'[s] = d
        /\ \A u \in Servers : u # s => loop'[u] = loop[u] /\ current'[u] = current[u]
    BY <2>1, <2>2, <2>3
  <2>5. \A c \in Calls : c # None
    BY ZenonT(30), RpcAssumption
  <2> QED BY ZenonT(30), <1>4, <2>4, <2>5, ServerMoves
<1>7. Types'
  BY ZenonT(30), <1>3, <1>6 DEF IInv, Types
<1>8. CallersOK' /\ DoneOnce' /\ early' = {} /\ \A c : Handled(c)' <=> Handled(c)
  BY ZenonT(30) DEF IInv, CallersOK, DoneOnce, Handled
<1>9. LoopsOK'
  <2>1. "method" \in Handling
    BY DEF Handling
  <2> QED BY ZenonT(30), <1>4, <1>6, <2>1 DEF IInv, LoopsOK
<1>10. QueuesOK'
  <2>1. ASSUME NEW c, NEW o, NEW i, Lies(queue', c, o, i)
        PROVE  \/ o # r /\ Lies(queue, c, o, i)
               \/ o = r /\ Lies(queue, c, o, i + 1) /\ i \in Nat
    BY ZenonT(30), <1>3, <2>1
  <2>2. ASSUME NEW c, NEW o, NEW i, Lies(queue', c, o, i) PROVE Target[c] = o[1]
    BY ZenonT(30), <2>1, <2>2 DEF IInv, QueuesOK
  <2>3. ASSUME NEW c, NEW o, NEW i, NEW p, NEW j, Lies(queue', c, o, i), Lies(queue', c, p, j)
        PROVE  o = p /\ i = j
    <3>1. \/ o # r /\ Lies(queue, c, o, i)
          \/ o = r /\ Lies(queue, c, o, i + 1) /\ i \in Nat
      BY <2>1, <2>3
    <3>2. \/ p # r /\ Lies(queue, c, p, j)
          \/ p = r /\ Lies(queue, c, p, j + 1) /\ j \in Nat
      BY <2>1, <2>3
    <3>3. o = p
      BY ZenonT(30), <3>1, <3>2 DEF IInv, QueuesOK
    <3>4. CASE o # r
      BY ZenonT(30), <3>1, <3>2, <3>3, <3>4 DEF IInv, QueuesOK
    <3>5. CASE o = r
      <4>1. i + 1 = j + 1
        BY ZenonT(30), <3>1, <3>2, <3>3, <3>5 DEF IInv, QueuesOK
      <4> QED BY <3>1, <3>2, <3>3, <3>5, <4>1
    <3> QED BY ZenonT(30), <3>3, <3>4, <3>5
  <2> QED BY ZenonT(30), <2>2, <2>3 DEF QueuesOK
<1>11. ASSUME NEW c \in Calls, c # d PROVE CallOK(c)'
  <2>1. ASSUME Queued(c) PROVE Queued(c)'
    <3>1. PICK o, i : Lies(queue, c, o, i)
      BY ZenonT(30), <2>1 DEF Queued
    <3>2. CASE o # r
      BY ZenonT(30), <1>3, <3>1, <3>2 DEF Queued
    <3>3. CASE o = r
      <4>1. i # 1
        BY <1>3, <1>11, <3>1, <3>3 DEF Lies
      <4> QED BY ZenonT(30), <1>3, <3>1, <3>3, <4>1 DEF Queued
    <3> QED BY ZenonT(30), <3>2, <3>3
  <2>2. ASSUME Queued(c)' PROVE Queued(c)
    <3>1. PICK o, i : Lies(queue', c, o, i)
      BY ZenonT(30), <2>2 DEF Queued
    <3>2. CASE o # r
      BY ZenonT(30), <1>3, <3>1, <3>2 DEF Queued
    <3>3. CASE o = r
      BY ZenonT(30), <1>3, <3>1, <3>3 DEF Queued
    <3> QED BY ZenonT(30), <3>2, <3>3
  <2>3. /\ InHand(c)' => InHand(c)
        /\ Busy(c)' => Busy(c)
        /\ Testing(c) => Testing(c)'
    BY ZenonT(30) DEF InHand, Busy, Testing
  <2>4. called[c] \in Nat
    BY ZenonT(30) DEF IInv, Types
  <2> QED BY ZenonT(30), <1>6, <1>8, <1>11, <2>1, <2>2, <2>3, <2>4, CallFrame DEF IInv
<1>12. CallOK(d)'
  <2>1. ~Queued(d)'
    <3>1. SUFFICES ASSUME NEW o, NEW i, Lies(queue', d, o, i) PROVE FALSE
      BY ZenonT(30) DEF Queued
    <3>2. CASE o # r
      <4>1. Lies(queue, d, o, i)
        BY ZenonT(30), <1>3, <3>1, <3>2
      <4> QED BY ZenonT(30), <1>3, <3>2, <4>1 DEF IInv, QueuesOK
    <3>3. CASE o = r
      <4>1. Lies(queue, d, r, i + 1) /\ i \in Nat \ {0}
        BY ZenonT(30), <1>3, <3>1, <3>3
      <4>2. \A p, j, q, k : Lies(queue, d, p, j) /\ Lies(queue, d, q, k) => j = k
        BY ZenonT(30) DEF IInv, QueuesOK
      <4>3. i + 1 = 1
        BY ZenonT(30), <1>3, <4>1, <4>2
      <4> QED BY <4>1, <4>3
    <3> QED BY ZenonT(30), <3>2, <3>3
  <2>2. Current(d)' /\ loop'[Target[d]] = "method"
    BY ZenonT(30), <1>4, <1>6 DEF Current
  <2>3. /\ InHand(d)' <=> InHand(d)
        /\ Busy(d)' <=> Busy(d)
        /\ Testing(d)' <=> Testing(d)
    BY ZenonT(30) DEF InHand, Busy, Testing
  <2>4. CallOK(d)
    BY ZenonT(30), <1>3 DEF IInv
  <2>5. Lived(d)' /\ Valued(d)' /\ CalledBack(d)'
    BY ZenonT(30), <1>5, <1>8, <2>1, <2>2, <2>3, <2>4
    DEF CallOK, Lived, Valued, CalledBack, Calling
  <2>6. ByCaller(d)' = ByCaller(d) /\ ByServer(d)' = ByServer(d)
    BY ZenonT(30), <1>5, <1>8, <2>3 DEF ByCaller, ByServer
  <2>7. Counted(d)'
    BY ZenonT(30), <2>4, <2>6 DEF CallOK, Counted
  <2> QED BY ZenonT(30), <2>5, <2>7 DEF CallOK
<1> QED BY ZenonT(30), <1>7, <1>8, <1>9, <1>10, <1>11, <1>12 DEF IInv

(* The call a server is at.                                                 *)
LEMMA InService ==
  ASSUME IInv, NEW s \in Servers, loop[s] \in Handling
  PROVE  /\ current[s] \in Calls /\ Target[current[s]] = s
         /\ Current(current[s]) /\ ~Queued(current[s]) /\ ~InHand(current[s])
         /\ current[s] \in made /\ (Handled(current[s]) <=> loop[s] # "method")
         /\ loop[s] # "method" => current[s] \in Result
<1>1. current[s] \in Calls \cup {None} /\ current[s] # None /\ Target[current[s]] = s
  BY ZenonT(30) DEF IInv, Types, LoopsOK
<1>2. PICK d \in Calls : d = current[s] /\ Target[d] = s
  BY ZenonT(30), <1>1
<1>3. Current(d) /\ Lived(d) /\ Valued(d)
  BY ZenonT(30), <1>2 DEF Current, IInv, CallOK
<1>4. /\ ~Queued(d) /\ ~InHand(d) /\ d \in made /\ (Handled(d) <=> loop[s] # "method")
      /\ loop[s] # "method" => d \in Result
  BY ZenonT(30), <1>2, <1>3 DEF Lived, Valued
<1> QED BY ZenonT(30), <1>2, <1>3, <1>4

(* A server gets on with its call, which then is handled and has its value. *)
LEMMA ServiceStep ==
  ASSUME IInv, NEW s \in Servers, loop[s] \in Handling, NEW l \in Handling \ {"method"},
         loop' = [loop EXCEPT ![s] = l], done' \in Seq(Calls), DoneOnce', Handled(current[s])',
         \A c \in Calls : c # current[s] => (Handled(c)' <=> Handled(c)),
         Result' = Result \cup {current[s]}, mutex' \in {mutex, mutex \cup {current[s]}},
         l # "callback" => loop[s] # "callback" /\ mutex' = mutex,
         UNCHANGED <<pc, call, ipc, rb, queue, current, CallOnSet, called, early, made>>
  PROVE  IInv'
<1>1. PICK d \in Calls : /\ d = current[s] /\ Target[d] = s /\ Current(d) /\ ~Queued(d)
                         /\ ~InHand(d) /\ d \in made
  BY ZenonT(30), InService
<1>2. /\ loop' \in [Servers -> Stages] /\ loop'[s] = l
      /\ \A u \in Servers : u # s => loop'[u] = loop[u]
  <2>1. l \in Stages /\ loop \in [Servers -> Stages]
    BY ZenonT(30) DEF Stages, IInv, Types
  <2> QED BY <2>1
<1>3. Types'
  BY ZenonT(30), <1>1, <1>2 DEF IInv, Types
<1>4. CallersOK' /\ early' = {}
  BY ZenonT(30) DEF IInv, CallersOK
<1>5. LoopsOK'
  BY ZenonT(30), <1>2 DEF IInv, LoopsOK
<1>6. QueuesOK' /\ \A c : Queued(c)' <=> Queued(c)
  BY ZenonT(30), SameQueues DEF IInv
<1>7. \A c : /\ InHand(c)' <=> InHand(c)
             /\ Busy(c)' <=> Busy(c)
             /\ Testing(c)' <=> Testing(c)
  BY ZenonT(30) DEF InHand, Busy, Testing
<1>8. ASSUME NEW c \in Calls, c # d PROVE CallOK(c)'
  <2>1. /\ Current(c)' <=> Current(c)
        /\ Current(c) => loop'[Target[c]] = loop[Target[c]]
    BY ZenonT(30), <1>1, <1>2, <1>8, ServerMoves
  <2>2. called[c] \in Nat /\ CallOK(c)
    BY ZenonT(30) DEF IInv, Types
  <2>3. /\ c \in mutex' <=> c \in mutex
        /\ c \in Result => c \in Result'
        /\ Handled(c)' <=> Handled(c)
    BY ZenonT(30), <1>1, <1>8
  <2> QED BY ZenonT(30), <1>6, <1>7, <2>1, <2>2, <2>3, CallFrame
<1>9. CallOK(d)'
  <2>1. Current(d)' /\ loop'[Target[d]] = l /\ Handled(d)' /\ d \in Result'
    BY ZenonT(30), <1>1, <1>2 DEF Current
  <2>2. CallOK(d)
    BY ZenonT(30) DEF IInv
  <2>3. Lived(d)' /\ Valued(d)'
    BY ZenonT(30), <1>1, <1>6, <1>7, <2>1 DEF Lived, Valued
  <2>4. CalledBack(d)'
    BY ZenonT(30), <1>1, <1>7, <2>1, <2>2 DEF CallOK, CalledBack, Calling
  <2>5. ByCaller(d)' = ByCaller(d) /\ ByServer(d)' = ByServer(d)
    BY ZenonT(30), <1>1, <1>7, <2>1 DEF ByCaller, ByServer
  <2>6. Counted(d)'
    BY ZenonT(30), <2>2, <2>5 DEF CallOK, Counted
  <2> QED BY ZenonT(30), <2>3, <2>4, <2>6 DEF CallOK
<1> QED BY ZenonT(30), <1>3, <1>4, <1>5, <1>6, <1>8, <1>9 DEF IInv

(* HandleMessage executes the method and copies its value.                  *)
LEMMA HandleStep ==
  ASSUME IInv, NEW s \in Servers, loop[s] = "method", Result' = Result \cup {current[s]},
         done' = Append(done, current[s]), loop' = [loop EXCEPT ![s] = "set"],
         UNCHANGED <<pc, call, ipc, rb, queue, current, mutex, CallOnSet, called, early, made>>
  PROVE  IInv'
<1>1. loop[s] \in Handling /\ "set" \in Handling \ {"method"} /\ "set" # "callback"
      /\ loop[s] # "callback"
  BY DEF Handling
<1>2. PICK d \in Calls : d = current[s] /\ ~Handled(d)
  BY ZenonT(30), <1>1, InService
<1>3. done \in Seq(Calls) /\ DoneOnce
  BY ZenonT(30) DEF IInv, Types
<1>4. done' \in Seq(Calls) /\ Len(done') = Len(done) + 1 /\ done'[Len(done) + 1] = d
      /\ Len(done) \in Nat /\ \A i \in 1 .. Len(done) : done'[i] = done[i]
  BY <1>2, <1>3
<1>5. DoneOnce'
  BY <1>2, <1>3, <1>4 DEF DoneOnce, Handled
<1>6. Handled(d)' /\ \A c \in Calls : c # d => (Handled(c)' <=> Handled(c))
  BY <1>4 DEF Handled
<1> QED BY ZenonT(30), <1>1, <1>2, <1>4, <1>5, <1>6, ServiceStep

(* RPCResult.Set sets the event.                                            *)
LEMMA SetStep ==
  ASSUME IInv, NEW s \in Servers, loop[s] = "set", mutex' = mutex \cup {current[s]},
         loop' = [loop EXCEPT ![s] = "callback"],
         UNCHANGED <<pc, call, ipc, rb, queue, current, done, Result, CallOnSet, called, early,
                     made>>
  PROVE  IInv'
<1>1. loop[s] \in Handling /\ "callback" \in Handling \ {"method"} /\ loop[s] # "method"
  BY DEF Handling
<1>2. PICK d \in Calls : d = current[s] /\ Handled(d) /\ d \in Result
  BY ZenonT(30), <1>1, InService
<1>3. done' \in Seq(Calls) /\ DoneOnce' /\ \A c : Handled(c)' <=> Handled(c)
  BY ZenonT(30) DEF IInv, Types, DoneOnce, Handled
<1>4. Result' = Result \cup {current[s]}
  BY <1>2
<1> QED BY ZenonT(30), <1>1, <1>2, <1>3, <1>4, ServiceStep

(* Set calls the callback, if there is one yet, and the server is free.     *)
LEMMA CallbackOnSetStep ==
  ASSUME IInv, NEW s \in Servers, loop[s] = "callback",
         \/ current[s] \in CallOnSet /\ Callback(current[s])
         \/ current[s] \notin CallOnSet /\ UNCHANGED <<called, early>>,
         loop' = [loop EXCEPT ![s] = "read"], current' = [current EXCEPT ![s] = None],
         UNCHANGED <<pc, call, ipc, rb, queue, done, mutex, Result, CallOnSet, made>>
  PROVE  IInv'
<1>1. loop[s] \in Handling /\ loop[s] # "method" /\ "read" \in Stages /\ "read" \notin Handling
  BY DEF Handling, Stages
<1>2. PICK d \in Calls : /\ d = current[s] /\ Target[d] = s /\ Current(d) /\ ~Queued(d)
                         /\ ~InHand(d) /\ d \in made /\ Handled(d) /\ d \in Result
  BY ZenonT(30), <1>1, InService
<1>3. /\ loop' \in [Servers -> Stages] /\ current' \in [Servers -> Calls \cup {None}]
      /\ loop'[s] = "read" /\ current'[s] = None
      /\ \A u \in Servers : u # s => loop'[u] = loop[u] /\ current'[u] = current[u]
  <2>1. loop \in [Servers -> Stages] /\ current \in [Servers -> Calls \cup {None}]
    BY ZenonT(30) DEF IInv, Types
  <2> QED BY <1>1, <2>1
<1>4. called \in [Calls -> Nat] /\ early = {}
  BY ZenonT(30) DEF IInv, Types
<1>5. /\ called' \in [Calls -> Nat] /\ early' = {}
      /\ \A c \in Calls : c # d => called'[c] = called[c]
      /\ called'[d] = IF d \in CallOnSet THEN called[d] + 1 ELSE called[d]
  BY <1>2, <1>4 DEF Callback, Hand
<1>6. Types'
  BY ZenonT(30), <1>3, <1>5 DEF IInv, Types
<1>7. CallersOK' /\ DoneOnce' /\ \A c : Handled(c)' <=> Handled(c)
  BY ZenonT(30) DEF IInv, CallersOK, DoneOnce, Handled
<1>8. LoopsOK'
  BY ZenonT(30), <1>1, <1>3 DEF IInv, LoopsOK
<1>9. QueuesOK' /\ \A c : Queued(c)' <=> Queued(c)
  BY ZenonT(30), SameQueues DEF IInv
<1>10. \A c : /\ InHand(c)' <=> InHand(c)
              /\ Busy(c)' <=> Busy(c)
              /\ Testing(c)' <=> Testing(c)
  BY ZenonT(30) DEF InHand, Busy, Testing
<1>11. ASSUME NEW c \in Calls, c # d PROVE CallOK(c)'
  <2>1. /\ Current(c)' <=> Current(c)
        /\ Current(c) => loop'[Target[c]] = loop[Target[c]]
    <3>1. c # None
      BY ZenonT(30), RpcAssumption
    <3> QED BY ZenonT(30), <1>2, <1>3, <1>11, <3>1, ServerMoves
  <2>2. called[c] \in Nat /\ CallOK(c) /\ called'[c] = called[c]
    BY ZenonT(30), <1>5, <1>11 DEF IInv, Types
  <2> QED BY ZenonT(30), <1>7, <1>9, <1>10, <2>1, <2>2, CallFrame
<1>12. CallOK(d)'
  <2>1. ~Current(d)' /\ Handled(d)'
    BY ZenonT(30), <1>2, <1>3, <1>7, RpcAssumption DEF Current
  <2>2. CallOK(d)
    BY ZenonT(30) DEF IInv
  <2>3. Lived(d)' /\ Valued(d)'
    BY ZenonT(30), <1>2, <1>9, <1>10, <2>1 DEF Lived, Valued
  <2>4. CalledBack(d)'
    <3>1. called[d] \in Nat
      BY <1>4
    <3> QED BY <1>5, <3>1 DEF CalledBack
  <2>5. ByCaller(d)' = ByCaller(d) /\ ByServer(d)' = 1 /\ ByServer(d) = 0
    BY ZenonT(30), <1>2, <1>10, <2>1 DEF ByCaller, ByServer
  <2>6. Counted(d)'
    <3>1. called[d] <= ByCaller(d) + 0 /\ ByCaller(d) \in {0, 1} /\ called[d] \in Nat
      BY ZenonT(30), <1>4, <2>2, <2>5 DEF CallOK, Counted, ByCaller
    <3>2. called'[d] <= ByCaller(d) + 1
      BY <1>5, <3>1
    <3> QED BY ZenonT(30), <2>5, <3>2 DEF Counted
  <2> QED BY ZenonT(30), <2>3, <2>4, <2>6 DEF CallOK
<1> QED BY ZenonT(30), <1>5, <1>6, <1>7, <1>8, <1>9, <1>11, <1>12 DEF IInv

-----------------------------------------------------------------------------
(* All steps *)

(* A step that touches nothing of this.                                     *)
LEMMA StillStep ==
  ASSUME IInv, UNCHANGED <<pc, call, ipc, rb, queue, loop, current, done, mutex, Result,
                           CallOnSet, called, early, made>>
  PROVE  IInv'
<1>1. Types' /\ CallersOK' /\ early' = {}
  BY ZenonT(30) DEF IInv, Types, CallersOK
<1>2. QueuesOK' /\ \A c : Queued(c)' <=> Queued(c)
  BY ZenonT(30), SameQueues DEF IInv
<1>3. /\ LoopsOK' /\ DoneOnce'
      /\ \A c : (Current(c)' <=> Current(c)) /\ (Handled(c)' <=> Handled(c))
  BY ZenonT(30), SameServers DEF IInv
<1>4. ASSUME NEW c \in Calls PROVE CallOK(c)'
  <2>1. /\ InHand(c)' <=> InHand(c)
        /\ Busy(c)' <=> Busy(c)
        /\ Testing(c)' <=> Testing(c)
    BY ZenonT(30) DEF InHand, Busy, Testing
  <2>2. called[c] \in Nat /\ CallOK(c)
    BY ZenonT(30) DEF IInv, Types
  <2> QED BY ZenonT(30), <1>2, <1>3, <2>1, <2>2, CallFrame
<1> QED BY ZenonT(30), <1>1, <1>2, <1>3, <1>4 DEF IInv

(* Invoke, SendMessage, InitIPC, Sync and SetCallback keep the invariant.   *)
LEMMA CallerIInv ==
  ASSUME IInv, NEW th \in Threads, CallerStep(th)
  PROVE  IInv'
<1>0. /\ ipc \in [Servers -> Threads \cup {None}] /\ rb \in [Objects -> Threads \cup {None}]
      /\ pc \in [Threads -> Places]
  BY ZenonT(30) DEF IInv, Types
<1>a. \A p \in Unsent : p # "idle" /\ p # "test" /\ p \in Places
  BY DEF Unsent, Places
<1>b. {"await", "send", "init", "new", "rb", "ready", "enqueue"} = Unsent
  BY DEF Unsent
<1>c. /\ {"return", "idle", "sync", "callback"} \subseteq Places
      /\ {"return", "idle", "sync", "callback"} \cap Unsent = {}
  BY DEF Unsent, Places
<1>d. ASSUME NEW p \in Places, pc[th] \in Unsent, pc' = [pc EXCEPT ![th] = p],
             UNCHANGED <<call, queue, loop, current, done, mutex, Result, CallOnSet, called, early,
                         made>>,
             ipc' \in [Servers -> Threads \cup {None}], rb' \in [Objects -> Threads \cup {None}]
      PROVE  IInv'
  BY ZenonT(30), <1>a, <1>d, MoveStep
<1>1. CASE AwaitLoop(th)
  <2>1. /\ pc[th] = "await" /\ UNCHANGED <<call, ipc, rb, queue, loop, current, done, CallOnSet>>
        /\ UNCHANGED <<called, early, made>>
    BY ZenonT(30), <1>1 DEF AwaitLoop, At, mail, server
  <2>2. CASE /\ mutex' = mutex \cup {call[th]} /\ Result' = Result \cup {call[th]}
             /\ Goto(th, "return")
    BY ZenonT(30), <2>1, <2>2, DirectStep DEF Goto
  <2>3. CASE Goto(th, "send") /\ UNCHANGED <<mutex, Result>>
    BY ZenonT(30), <1>0, <1>a, <1>b, <1>d, <2>1, <2>3 DEF Goto
  <2> QED BY ZenonT(30), <1>1, <2>2, <2>3 DEF AwaitLoop
<1>2. CASE SendMessage(th)
  <2>1. PICK p \in Unsent : Goto(th, p)
    BY ZenonT(30), <1>2, <1>b DEF SendMessage
  <2>2. pc[th] \in Unsent /\ UNCHANGED <<call, mail, server, rpc, made>>
    BY ZenonT(30), <1>2, <1>b DEF SendMessage, At
  <2> QED BY ZenonT(30), <1>0, <1>a, <1>d, <2>1, <2>2 DEF Goto, mail, server, rpc
<1>3. CASE InitIPC(th)
  <2>1. PICK p \in Places : Goto(th, p)
    BY ZenonT(30), <1>3, <1>a, <1>b, <1>c DEF InitIPC
  <2>2. pc[th] \in Unsent /\ UNCHANGED <<call, mail, server, rpc, made>>
    BY ZenonT(30), <1>3, <1>b DEF InitIPC, At
  <2> QED BY ZenonT(30), <1>0, <1>d, <2>1, <2>2 DEF Goto, mail, server, rpc
<1>4. CASE NewIPC(th)
  <2>1. /\ pc[th] \in Unsent /\ UNCHANGED <<call, rb, queue, server, rpc, made>>
        /\ Goto(th, "rb") /\ "rb" \in Places /\ ipc' = [ipc EXCEPT ![To(th)] = th]
    BY ZenonT(30), <1>4, <1>a, <1>b DEF NewIPC, At
  <2>2. ipc' \in [Servers -> Threads \cup {None}]
    BY ZenonT(30), <1>0, <2>1
  <2> QED BY ZenonT(30), <1>0, <1>d, <2>1, <2>2 DEF Goto, server, rpc
<1>5. CASE NewRingBuffer(th)
  <2>1. /\ pc[th] \in Unsent /\ UNCHANGED <<call, ipc, queue, server, rpc, made>>
        /\ Goto(th, "ready") /\ "ready" \in Places
        /\ rb' = [rb EXCEPT ![<<To(th), ipc[To(th)]>>] = th]
    BY ZenonT(30), <1>5, <1>a, <1>b DEF NewRingBuffer, At
  <2>2. rb' \in [Objects -> Threads \cup {None}]
    BY ZenonT(30), <1>0, <2>1
  <2> QED BY ZenonT(30), <1>0, <1>d, <2>1, <2>2 DEF Goto, server, rpc
<1>6. CASE MailboxReady(th)
  <2>1. /\ pc[th] \in Unsent /\ UNCHANGED <<call, ipc, rb, queue, server, rpc, made>>
        /\ Goto(th, "enqueue") /\ "enqueue" \in Places
    BY ZenonT(30), <1>6, <1>a, <1>b DEF MailboxReady, At
  <2> QED BY ZenonT(30), <1>0, <1>d, <2>1 DEF Goto, server, rpc
<1>7. CASE Enqueue(th)
  <2>1. pc[th] = "enqueue" /\ UNCHANGED <<call, ipc, rb, ready, server, rpc, made>>
    BY ZenonT(30), <1>7 DEF Enqueue, At
  <2>2. CASE UNCHANGED <<queue, sent, pc>>
    BY ZenonT(30), <2>1, <2>2, StillStep DEF server, rpc
  <2>3. CASE /\ Accepts(To(th)) /\ queue' = [queue EXCEPT ![Ring(To(th))] = Append(@, call[th])]
             /\ Goto(th, "return")
    BY ZenonT(30), <2>1, <2>3, EnqueueStep DEF Goto, server, rpc
  <2>4. CASE Goto(th, "return") /\ UNCHANGED <<queue, sent, halted>>
    BY ZenonT(30), <1>0, <1>b, <1>c, <1>d, <2>1, <2>4 DEF Goto, server, rpc
  <2> QED BY ZenonT(30), <1>7, <2>2, <2>3, <2>4 DEF Enqueue
<1>8. CASE Return(th)
  <2>1. PICK p \in {"idle", "sync", "callback"} : Goto(th, p)
    BY ZenonT(30), <1>8 DEF Return
  <2>2. pc[th] = "return" /\ UNCHANGED <<call, mail, server, rpc, made>>
    BY ZenonT(30), <1>8 DEF Return, At
  <2>3. p \in Places /\ p \notin Unsent /\ pc[th] # "idle" /\ pc[th] # "test"
    BY <1>c, <2>1, <2>2
  <2> QED BY ZenonT(30), <1>0, <2>1, <2>2, <2>3, MoveStep DEF Goto, mail, server, rpc
<1>9. CASE Sync(th)
  <2>1. /\ pc[th] = "sync" /\ pc' = [pc EXCEPT ![th] = "idle"] /\ call[th] \in mutex
        /\ Hand(call[th])
        /\ UNCHANGED <<call, mail, server, mutex, Result, CallOnSet, called, made>>
    BY ZenonT(30), <1>9 DEF Sync, At, Goto
  <2>2. "idle" \in Places /\ "idle" \notin Unsent /\ pc[th] # "idle" /\ pc[th] # "test"
    BY <1>c, <2>1
  <2>3. call[th] \in Result
    BY ZenonT(30), <2>1, <2>2, OwnCall DEF IInv, CallOK, Valued
  <2>4. early' = early
    BY ZenonT(30), <2>1, <2>3 DEF Hand
  <2> QED BY ZenonT(30), <1>0, <2>1, <2>2, <2>4, MoveStep DEF mail, server
<1>10. CASE SetCallback(th)
  BY ZenonT(30), <1>10, SetCallbackStep
<1>11. CASE CallbackIfSet(th)
  BY ZenonT(30), <1>11, CallbackIfSetStep
<1> QED BY ZenonT(30), <1>1, <1>2, <1>3, <1>4, <1>5, <1>6, <1>7, <1>8, <1>9, <1>10, <1>11
        DEF CallerStep

(* MessageLoop and HandleMessage keep the invariant.                        *)
LEMMA ServerIInv ==
  ASSUME IInv, NEW s \in Servers, ServerStep(s) \/ EarlyWake(s)
  PROVE  IInv'
<1>a. /\ {"start", "init", "exit", "read", "block"} \subseteq Stages
      /\ {"start", "init", "exit", "read", "block"} \cap Handling = {}
  BY DEF Stages, Handling
<1>b. ASSUME NEW l \in {"init", "exit", "read", "block"}, NEW m \in {"start", "init", "read", "block"},
             loop[s] = m, Then(s, l), UNCHANGED <<pc, call, mail, current, done, rpc, made>>
      PROVE  IInv'
  <2>1. l \in Stages /\ loop[s] \notin Handling /\ l \notin Handling
    BY <1>a, <1>b
  <2> QED BY ZenonT(30), <1>b, <2>1, LoopStep DEF Then, mail, rpc
<1>1. CASE EnterLoop(s)
  BY ZenonT(30), <1>1, <1>b DEF EnterLoop, In
<1>2. CASE InitServer(s)
  <2>1. PICK l \in {"init", "exit", "read", "block"} : Then(s, l)
    BY ZenonT(30), <1>2 DEF InitServer
  <2> QED BY ZenonT(30), <1>2, <1>b, <2>1 DEF InitServer, In
<1>3. CASE ReadMessage(s)
  <2>1. /\ loop[s] = "read"
        /\ UNCHANGED <<pc, call, ipc, rb, ready, done, rpc, made>>
    BY ZenonT(30), <1>3 DEF ReadMessage, In
  <2>2. CASE UNCHANGED <<queue, loop, current>>
    BY ZenonT(30), <2>1, <2>2, StillStep DEF rpc
  <2>3. CASE /\ Waiting(s) /\ current' = [current EXCEPT ![s] = Head(queue[Ring(s)])]
             /\ queue' = [queue EXCEPT ![Ring(s)] = Tail(@)] /\ Then(s, "method")
    BY ZenonT(30), <2>1, <2>3, ReadStep DEF Then, rpc
  <2>4. CASE Then(s, "block") /\ UNCHANGED <<queue, current, halted>>
    BY ZenonT(30), <1>b, <2>1, <2>4 DEF mail
  <2> QED BY ZenonT(30), <1>3, <2>2, <2>3, <2>4 DEF ReadMessage
<1>4. CASE HandleMessage(s)
  <2>1. /\ loop[s] = "method"
        /\ UNCHANGED <<pc, call, mail, current, mutex, CallOnSet, called, early, made>>
    BY ZenonT(30), <1>4 DEF HandleMessage, In
  <2>2. CASE UNCHANGED <<Result, loop, done>>
    BY ZenonT(30), <2>1, <2>2, StillStep DEF mail
  <2>3. CASE /\ Result' = Result \cup {current[s]} /\ done' = Append(done, current[s])
             /\ Then(s, "set")
    BY ZenonT(30), <2>1, <2>3, HandleStep DEF Then, mail
  <2> QED BY ZenonT(30), <1>4, <2>2, <2>3 DEF HandleMessage
<1>5. CASE Set(s)
  BY ZenonT(30), <1>5, SetStep DEF Set, In, Then, mail
<1>6. CASE CallbackOnSet(s)
  BY ZenonT(30), <1>6, CallbackOnSetStep DEF CallbackOnSet, In, Then, mail
<1>7. CASE Wake(s)
  BY ZenonT(30), <1>7, <1>b DEF Wake, In
<1>8. CASE EarlyWake(s)
  BY ZenonT(30), <1>8, <1>b DEF EarlyWake, In
<1> QED BY ZenonT(30), <1>1, <1>2, <1>3, <1>4, <1>5, <1>6, <1>7, <1>8 DEF ServerStep

(* At boot no call has been made.                                           *)
LEMMA InitIInv == Init => IInv
<1>1. SUFFICES ASSUME Init PROVE IInv
  OBVIOUS
<1>2. "idle" \in Places /\ "start" \in Stages /\ "start" \notin Handling
  BY DEF Places, Stages, Handling
<1>3. Types
  BY <1>1, <1>2 DEF Init, Types
<1>4. CallersOK /\ early = {}
  BY <1>1 DEF Init, CallersOK
<1>5. LoopsOK
  BY ZenonT(30), <1>1, <1>2 DEF Init, LoopsOK
<1>6. \A c, o, i : ~Lies(queue, c, o, i)
  BY <1>1 DEF Init, Lies
<1>7. QueuesOK /\ \A c : ~Queued(c)
  BY ZenonT(30), <1>6 DEF QueuesOK, Queued
<1>8. DoneOnce /\ \A c : ~Handled(c)
  BY <1>1 DEF Init, DoneOnce, Handled
<1>9. ASSUME NEW c \in Calls PROVE CallOK(c)
  <2>1. ~Current(c)
    BY <1>1, RpcAssumption DEF Init, Current
  <2>2. /\ c \notin CallOnSet /\ c \notin mutex /\ called[c] = 0
        /\ ByCaller(c) = 0 /\ ByServer(c) = 0
    BY <1>1, <1>8 DEF Init, ByCaller, ByServer
  <2>3. Counted(c)
    BY <2>2 DEF Counted
  <2> QED BY ZenonT(30), <1>7, <1>8, <2>1, <2>2, <2>3 DEF CallOK, Lived, Valued, CalledBack
<1> QED BY ZenonT(30), <1>3, <1>4, <1>5, <1>7, <1>8, <1>9 DEF IInv

(* Every step of every thread keeps the invariant.                          *)
LEMMA NextIInv == IInv /\ [Next]_vars => IInv'
<1>1. SUFFICES ASSUME IInv, [Next]_vars PROVE IInv'
  OBVIOUS
<1>2. CASE UNCHANGED vars
  BY ZenonT(30), <1>1, <1>2, StillStep DEF vars, mail, server, rpc
<1>3. ASSUME NEW th \in Threads, ThreadStep(th) PROVE IInv'
  BY ZenonT(30), <1>1, <1>3, CallerIInv, ServerIInv DEF ThreadStep
<1>4. ASSUME NEW th \in Threads, NEW c \in Calls, Invoke(th, c) PROVE IInv'
  BY ZenonT(30), <1>1, <1>4, InvokeStep
<1>5. ASSUME NEW s \in Servers, EarlyWake(s) PROVE IInv'
  BY ZenonT(30), <1>1, <1>5, ServerIInv
<1> QED BY ZenonT(30), <1>1, <1>2, <1>3, <1>4, <1>5 DEF Next

(* The invariant holds in every state of every behaviour.                   *)
LEMMA IInvHolds == Spec => []IInv
BY InitIInv, NextIInv, PTL DEF Spec

-----------------------------------------------------------------------------
(* Whoever Sync returns to, or whose callback is called, is handed the      *)
(* value HandleMessage copied.                                              *)
THEOREM ValueIsSeen == Spec => []ValueSeen
<1>1. IInv => ValueSeen
  BY ZenonT(30) DEF IInv, ValueSeen
<1> QED BY <1>1, IInvHolds, PTL

(* HandleMessage executes a call once at most, and a callback is called     *)
(* once at most by SetCallback and once by Set.                             *)
THEOREM CallsRunOnce == Spec => []OnceEach
<1>1. IInv => OnceEach
  <2>1. SUFFICES ASSUME IInv PROVE OnceEach
    OBVIOUS
  <2>2. ASSUME NEW c \in Calls PROVE called[c] <= 2
    <3>1. called[c] \in Nat /\ called[c] <= ByCaller(c) + ByServer(c)
      BY ZenonT(30), <2>1 DEF IInv, Types, CallOK, Counted
    <3>2. ByCaller(c) \in {0, 1} /\ ByServer(c) \in {0, 1}
      BY DEF ByCaller, ByServer
    <3> QED BY <3>1, <3>2
  <2> QED BY ZenonT(30), <2>1, <2>2 DEF IInv, DoneOnce, OnceEach
<1> QED BY <1>1, IInvHolds, PTL

(* A callback given while the server signals the event is called by one of  *)
(* SetCallback and Set.                                                     *)
THEOREM CallbackIsNotLost == Spec => []CallbackNotLost
<1>1. IInv => CallbackNotLost
  <2>1. SUFFICES ASSUME IInv, NEW c \in CallOnSet \cap mutex
                 PROVE  \/ called[c] > 0
                        \/ \E th \in Threads : pc[th] = "test" /\ call[th] = c
                        \/ \E s \in Servers : loop[s] = "callback" /\ current[s] = c
    BY ZenonT(30) DEF CallbackNotLost
  <2>2. c \in Calls /\ Caller[c] \in Threads /\ Target[c] \in Servers
    BY ZenonT(30), <2>1, RpcAssumption DEF IInv, Types
  <2>3. called[c] > 0 \/ Testing(c) \/ Calling(c)
    BY ZenonT(30), <2>1, <2>2 DEF IInv, CallOK, CalledBack
  <2> QED BY ZenonT(30), <2>2, <2>3 DEF Testing, Calling, Current
<1> QED BY <1>1, IInvHolds, PTL

-----------------------------------------------------------------------------
(* Mailboxes *)

(* The calls that go through the mailbox of a server are all made by one    *)
(* thread, and no method clears EventSetsOnReturn.                          *)
OneSender ==
  /\ \A c, d \in Calls : Caller[c] # Target[c] /\ Caller[d] # Target[d] /\ Target[c] = Target[d]
                           => Caller[c] = Caller[d]
  /\ Deferred = {}

(* A mailbox that is ready has a ring buffer; whoever sets it up is alone.  *)
Sending == Unsent \ {"await"}
Created(s, u) == rb[<<s, u>>] # None
MailOK ==
  /\ \A s \in Servers, u \in Threads : <<s, u>> \in ready => Created(s, u)
  /\ \A th \in Threads :
       /\ pc[th] \in Sending => th # To(th)
       /\ pc[th] \in {"rb", "ready"} => ipc[To(th)] = th
       /\ pc[th] = "ready" => Created(To(th), th)
  /\ ~halted

(* A thread that moves on, with no mailbox made or announced.               *)
LEMMA MailMove ==
  ASSUME IInv, MailOK, NEW th \in Threads, NEW p, pc' = [pc EXCEPT ![th] = p],
         p \in Sending => th # To(th), p \notin {"rb", "ready"},
         UNCHANGED <<call, ipc, rb, ready, halted>>
  PROVE  MailOK'
<1>1. pc'[th] = p /\ \A u \in Threads : u # th => pc'[u] = pc[u]
  BY ZenonT(30) DEF IInv, Types
<1>2. \A u : To(u)' = To(u)
  BY ZenonT(30) DEF To
<1>3. \A s, u : Created(s, u)' <=> Created(s, u)
  BY ZenonT(30) DEF Created
<1>4. ASSUME NEW u \in Threads
      PROVE  /\ pc'[u] \in Sending => u # To(u)'
             /\ pc'[u] \in {"rb", "ready"} => ipc'[To(u)'] = u
             /\ pc'[u] = "ready" => Created(To(u), u)'
  <2>1. CASE u = th
    <3>1. p # "ready"
      BY ZenonT(30)
    <3> QED BY ZenonT(30), <1>1, <1>2, <2>1, <3>1
  <2>2. CASE u # th
    BY ZenonT(30), <1>1, <1>2, <1>3, <2>2 DEF MailOK
  <2> QED BY ZenonT(30), <2>1, <2>2
<1> QED BY ZenonT(30), <1>3, <1>4 DEF MailOK

(* A step that touches no mailbox.                                          *)
LEMMA MailStill ==
  ASSUME MailOK, UNCHANGED <<pc, call, ipc, rb, ready, halted>>
  PROVE  MailOK'
BY ZenonT(30) DEF MailOK, Created, To

(* SendMessage and InitIPC: a mailbox is announced once its ring buffer is  *)
(* there, and no other thread replaces it meanwhile.                        *)
LEMMA MailCaller ==
  ASSUME OneSender, IInv, MailOK, NEW th \in Threads, CallerStep(th)
  PROVE  MailOK'
<1>1. /\ {"send", "init", "new", "rb", "ready", "enqueue"} = Sending
      /\ {"idle", "return", "sync", "callback", "test"} \cap Sending = {}
      /\ {"idle", "return", "sync", "callback", "test", "send", "init", "new", "enqueue"}
           \cap {"rb", "ready"} = {}
  BY DEF Sending, Unsent
<1>2. /\ pc \in [Threads -> Places] /\ ipc \in [Servers -> Threads \cup {None}]
      /\ rb \in [Objects -> Threads \cup {None}]
  BY ZenonT(30) DEF IInv, Types
<1>3. ASSUME NEW u \in Threads, pc[u] # "idle"
      PROVE  call[u] \in Calls /\ To(u) \in Servers /\ Caller[call[u]] = u /\ To(u) = Target[call[u]]
  BY ZenonT(30), <1>3, OwnCall, RpcAssumption DEF To
<1>4. th # None
  BY ZenonT(30), RpcAssumption
<1>5. ASSUME NEW p \in {"idle", "return", "sync", "callback", "test"}, Goto(th, p),
             UNCHANGED <<call, ipc, rb, ready, halted>>
      PROVE  MailOK'
  <2>1. p \notin Sending /\ p \notin {"rb", "ready"}
    BY ZenonT(30), <1>1
  <2> QED BY ZenonT(30), <1>5, <2>1, MailMove DEF Goto
<1>6. ASSUME NEW p \in {"send", "init", "new", "enqueue"}, th # To(th), Goto(th, p),
             UNCHANGED <<call, ipc, rb, ready, halted>>
      PROVE  MailOK'
  <2>1. p \notin {"rb", "ready"}
    BY ZenonT(30), <1>1
  <2> QED BY ZenonT(30), <1>6, <2>1, MailMove DEF Goto
<1>7. ASSUME NEW s \in Servers, Usable(s) PROVE ~Broken(s)
  BY ZenonT(30), <1>2, <1>7 DEF Usable, Broken, Mailbox, MailOK, Created
<1>8. CASE AwaitLoop(th)
  <2>1. CASE Goto(th, "return")
    BY ZenonT(30), <1>5, <1>8, <2>1 DEF AwaitLoop, mail
  <2>2. CASE th # To(th) /\ Goto(th, "send")
    BY ZenonT(30), <1>6, <1>8, <2>2 DEF AwaitLoop, mail
  <2> QED BY ZenonT(30), <1>8, <2>1, <2>2 DEF AwaitLoop
<1>9. CASE SendMessage(th)
  <2>1. pc[th] \in Sending /\ UNCHANGED <<call, ipc, rb, ready, halted>>
    BY ZenonT(30), <1>1, <1>9 DEF SendMessage, At, mail
  <2>2. PICK p \in {"send", "init", "new", "enqueue"} : Goto(th, p)
    BY ZenonT(30), <1>9 DEF SendMessage
  <2> QED BY ZenonT(30), <1>6, <2>1, <2>2 DEF MailOK
<1>10. CASE InitIPC(th)
  <2>1. pc[th] \in Sending /\ UNCHANGED <<call, ipc, rb, ready, halted>>
    BY ZenonT(30), <1>1, <1>10 DEF InitIPC, At, mail
  <2>2. CASE Goto(th, "new")
    BY ZenonT(30), <1>6, <2>1, <2>2 DEF MailOK
  <2>3. CASE Goto(th, "return")
    BY ZenonT(30), <1>5, <2>1, <2>3
  <2> QED BY ZenonT(30), <1>10, <2>2, <2>3 DEF InitIPC
<1>11. CASE NewIPC(th)
  <2>1. /\ pc[th] = "new" /\ pc[th] # "idle" /\ pc[th] \in Sending /\ th # To(th)
        /\ ipc' = [ipc EXCEPT ![To(th)] = th] /\ pc' = [pc EXCEPT ![th] = "rb"]
        /\ UNCHANGED <<call, rb, ready, halted>>
    BY ZenonT(30), <1>1, <1>11 DEF NewIPC, At, Goto, MailOK
  <2>2. To(th) \in Servers
    BY ZenonT(30), <1>3, <2>1
  <2>3. /\ pc'[th] = "rb" /\ ipc'[To(th)] = th /\ \A u \in Threads : u # th => pc'[u] = pc[u]
        /\ \A s \in Servers : s # To(th) => ipc'[s] = ipc[s]
    BY ZenonT(30), <1>2, <2>1, <2>2
  <2>4. /\ \A u : To(u)' = To(u)
        /\ \A s, u : Created(s, u)' <=> Created(s, u)
    BY ZenonT(30), <2>1 DEF To, Created
  <2>5. ASSUME NEW u \in Threads
        PROVE  /\ pc'[u] \in Sending => u # To(u)'
               /\ pc'[u] \in {"rb", "ready"} => ipc'[To(u)'] = u
               /\ pc'[u] = "ready" => Created(To(u), u)'
    <3>1. CASE u = th
      BY ZenonT(30), <2>1, <2>3, <2>4, <3>1
    <3>2. CASE u # th
      <4>1. pc'[u] = pc[u] /\ To(u)' = To(u)
        BY ZenonT(30), <2>3, <2>4, <3>2
      <4>2. ASSUME pc[u] \in {"rb", "ready"} PROVE To(u) # To(th) /\ To(u) \in Servers
        <5>1. pc[u] \in Sending /\ pc[u] # "idle" /\ u # To(u)
          BY ZenonT(30), <1>1, <4>2 DEF MailOK
        <5>2. /\ call[u] \in Calls /\ To(u) \in Servers /\ Caller[call[u]] = u /\ To(u) = Target[call[u]]
              /\ call[th] \in Calls /\ Caller[call[th]] = th /\ To(th) = Target[call[th]]
          BY ZenonT(30), <1>3, <2>1, <5>1
        <5> QED BY ZenonT(30), <2>1, <3>2, <5>1, <5>2 DEF OneSender
      <4> QED BY ZenonT(30), <2>3, <2>4, <4>1, <4>2 DEF MailOK
    <3> QED BY ZenonT(30), <3>1, <3>2
  <2> QED BY ZenonT(30), <2>1, <2>4, <2>5 DEF MailOK
<1>12. CASE NewRingBuffer(th)
  <2>1. /\ pc[th] = "rb" /\ pc[th] # "idle" /\ pc[th] \in Sending /\ th # To(th) /\ ipc[To(th)] = th
        /\ rb' = [rb EXCEPT ![<<To(th), th>>] = th] /\ pc' = [pc EXCEPT ![th] = "ready"]
        /\ UNCHANGED <<call, ipc, ready, halted>>
    BY ZenonT(30), <1>1, <1>12 DEF NewRingBuffer, At, Goto, MailOK
  <2>2. To(th) \in Servers /\ <<To(th), th>> \in Objects
    BY ZenonT(30), <1>3, <2>1 DEF Objects
  <2>3. pc'[th] = "ready" /\ \A u \in Threads : u # th => pc'[u] = pc[u]
    BY ZenonT(30), <1>2, <2>1
  <2>4. /\ \A u : To(u)' = To(u)
        /\ Created(To(th), th)'
        /\ \A s \in Servers, u \in Threads : Created(s, u) => Created(s, u)'
    <3>1. \A u : To(u)' = To(u)
      BY ZenonT(30), <2>1 DEF To
    <3>2. rb'[<<To(th), th>>] = th
      BY ZenonT(30), <1>2, <2>1, <2>2
    <3>3. \A s \in Servers, u \in Threads : <<s, u>> \in Objects
      BY ZenonT(30) DEF Objects
    <3>4. \A s \in Servers, u \in Threads : rb'[<<s, u>>] = th \/ rb'[<<s, u>>] = rb[<<s, u>>]
      BY ZenonT(30), <1>2, <2>1, <3>3
    <3> QED BY ZenonT(30), <1>4, <3>1, <3>2, <3>4 DEF Created
  <2>5. ASSUME NEW u \in Threads
        PROVE  /\ pc'[u] \in Sending => u # To(u)'
               /\ pc'[u] \in {"rb", "ready"} => ipc'[To(u)'] = u
               /\ pc'[u] = "ready" => Created(To(u), u)'
    <3>1. CASE u = th
      BY ZenonT(30), <2>1, <2>3, <2>4, <3>1
    <3>2. CASE u # th
      <4>1. pc'[u] = pc[u] /\ To(u)' = To(u)
        BY ZenonT(30), <2>3, <2>4, <3>2
      <4>2. pc[u] = "ready" => To(u) \in Servers
        BY ZenonT(30), <1>3
      <4> QED BY ZenonT(30), <2>1, <2>4, <4>1, <4>2 DEF MailOK
    <3> QED BY ZenonT(30), <3>1, <3>2
  <2> QED BY ZenonT(30), <2>1, <2>4, <2>5 DEF MailOK
<1>13. CASE MailboxReady(th)
  <2>1. /\ pc[th] = "ready" /\ pc[th] \in Sending /\ th # To(th) /\ ipc[To(th)] = th
        /\ Created(To(th), th) /\ ready' = ready \cup {<<To(th), th>>}
        /\ pc' = [pc EXCEPT ![th] = "enqueue"] /\ UNCHANGED <<call, ipc, rb, halted>>
    BY ZenonT(30), <1>1, <1>13 DEF MailboxReady, At, Goto, MailOK
  <2>2. pc'[th] = "enqueue" /\ \A u \in Threads : u # th => pc'[u] = pc[u]
    BY ZenonT(30), <1>2, <2>1
  <2>3. /\ \A u : To(u)' = To(u)
        /\ \A s, u : Created(s, u)' <=> Created(s, u)
    BY ZenonT(30), <2>1 DEF To, Created
  <2>4. \A s \in Servers, u \in Threads : <<s, u>> \in ready' => Created(s, u)'
    BY <2>1, <2>3 DEF MailOK
  <2>5. ASSUME NEW u \in Threads
        PROVE  /\ pc'[u] \in Sending => u # To(u)'
               /\ pc'[u] \in {"rb", "ready"} => ipc'[To(u)'] = u
               /\ pc'[u] = "ready" => Created(To(u), u)'
    <3>1. CASE u = th
      BY ZenonT(30), <2>1, <2>2, <2>3, <3>1
    <3>2. CASE u # th
      BY ZenonT(30), <2>1, <2>2, <2>3, <3>2 DEF MailOK
    <3> QED BY ZenonT(30), <3>1, <3>2
  <2> QED BY ZenonT(30), <2>1, <2>4, <2>5 DEF MailOK
<1>14. CASE Enqueue(th)
  <2>1. To(th) \in Servers
    BY ZenonT(30), <1>3, <1>14 DEF Enqueue, At
  <2>2. ~Broken(To(th))
    BY ZenonT(30), <1>7, <2>1 DEF Broken
  <2> QED BY ZenonT(30), <1>5, <1>14, <2>2 DEF Enqueue
<1>15. CASE Return(th)
  <2>1. PICK p \in {"idle", "return", "sync", "callback", "test"} : Goto(th, p)
    BY ZenonT(30), <1>15 DEF Return
  <2> QED BY ZenonT(30), <1>5, <1>15, <2>1 DEF Return, mail
<1>16. CASE Sync(th)
  BY ZenonT(30), <1>5, <1>16 DEF Sync, mail
<1>17. CASE SetCallback(th)
  BY ZenonT(30), <1>5, <1>17 DEF SetCallback, mail
<1>18. CASE CallbackIfSet(th)
  BY ZenonT(30), <1>5, <1>18 DEF CallbackIfSet, mail
<1> QED BY ZenonT(30), <1>8, <1>9, <1>10, <1>11, <1>12, <1>13, <1>14, <1>15, <1>16, <1>17, <1>18
        DEF CallerStep

(* The message loop reads from mailboxes that have their ring buffer, and   *)
(* copies values that exist.                                                *)
LEMMA MailServer ==
  ASSUME OneSender, IInv, MailOK, NEW s \in Servers, ServerStep(s) \/ EarlyWake(s)
  PROVE  MailOK'
<1>1. ~Broken(s)
  BY ZenonT(30) DEF Usable, Broken, Mailbox, MailOK, Created, IInv, Types
<1>2. UNCHANGED <<pc, call, ipc, rb, ready>>
  BY ZenonT(30) DEF ServerStep, EnterLoop, InitServer, ReadMessage, HandleMessage, Set,
     CallbackOnSet, Wake, EarlyWake, mail
<1>3. UNCHANGED halted
  <2>1. current[s] \notin Deferred
    BY ZenonT(30) DEF OneSender
  <2> QED BY ZenonT(30), <1>1, <2>1 DEF ServerStep, EnterLoop, InitServer, ReadMessage,
          HandleMessage, Set, CallbackOnSet, Wake, EarlyWake
<1> QED BY ZenonT(30), <1>2, <1>3, MailStill

(* When the calls through a server's mailbox all come from one thread, no   *)
(* thread follows a null reference: SendMessage finds no mailbox, or one    *)
(* with its ring buffer, and so does the message loop.  A second thread     *)
(* that sends while the first sets the mailbox up, as in run rpc_race, is   *)
(* what the hypothesis excludes.                                            *)
THEOREM MailboxesAreSafe == OneSender /\ Spec => []NeverHalts
<1>1. Init => MailOK
  <2>1. "idle" \notin Sending /\ "idle" \notin {"rb", "ready"}
    BY DEF Sending, Unsent
  <2> QED BY <2>1 DEF Init, MailOK
<1>2. OneSender /\ IInv /\ MailOK /\ [Next]_vars => MailOK'
  <2>1. SUFFICES ASSUME OneSender, IInv, MailOK, [Next]_vars PROVE MailOK'
    OBVIOUS
  <2>2. CASE UNCHANGED vars
    BY ZenonT(30), <2>1, <2>2, MailStill DEF vars, mail
  <2>3. ASSUME NEW th \in Threads, ThreadStep(th) PROVE MailOK'
    BY ZenonT(30), <2>1, <2>3, MailCaller, MailServer DEF ThreadStep
  <2>4. ASSUME NEW th \in Threads, NEW c \in Calls, Invoke(th, c) PROVE MailOK'
    <3>1. /\ pc' = [pc EXCEPT ![th] = "await"] /\ call' = [call EXCEPT ![th] = c]
          /\ UNCHANGED <<ipc, rb, ready, halted>>
      BY ZenonT(30), <2>4 DEF Invoke, Goto, mail
    <3>2. /\ pc'[th] = "await" /\ \A u \in Threads : u # th => pc'[u] = pc[u] /\ call'[u] = call[u]
      BY ZenonT(30), <2>1, <3>1 DEF IInv, Types
    <3>3. "await" \notin Sending /\ "await" \notin {"rb", "ready"}
      BY DEF Sending
    <3>4. \A s, u : Created(s, u)' <=> Created(s, u)
      BY ZenonT(30), <3>1 DEF Created
    <3>5. ASSUME NEW u \in Threads
          PROVE  /\ pc'[u] \in Sending => u # To(u)'
                 /\ pc'[u] \in {"rb", "ready"} => ipc'[To(u)'] = u
                 /\ pc'[u] = "ready" => Created(To(u), u)'
      <4>1. CASE u = th
        BY ZenonT(30), <3>2, <3>3, <4>1
      <4>2. CASE u # th
        <5>1. pc'[u] = pc[u] /\ To(u)' = To(u)
          BY ZenonT(30), <3>2, <4>2 DEF To
        <5> QED BY ZenonT(30), <2>1, <3>1, <3>4, <5>1 DEF MailOK
      <4> QED BY ZenonT(30), <4>1, <4>2
    <3> QED BY ZenonT(30), <2>1, <3>1, <3>4, <3>5 DEF MailOK
  <2>5. ASSUME NEW s \in Servers, EarlyWake(s) PROVE MailOK'
    BY ZenonT(30), <2>1, <2>5, MailServer
  <2> QED BY ZenonT(30), <2>1, <2>2, <2>3, <2>4, <2>5 DEF Next
<1>3. MailOK => NeverHalts
  BY ZenonT(30) DEF MailOK, NeverHalts
<1>4. CASE OneSender
  <2>1. IInv /\ MailOK /\ [Next]_vars => MailOK'
    BY ZenonT(30), <1>2, <1>4
  <2> QED BY <1>1, <1>3, <2>1, IInvHolds, PTL DEF Spec
<1> QED BY <1>4
=============================================================================
