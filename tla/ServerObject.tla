---------------------------- MODULE ServerObject ----------------------------
(***************************************************************************)
(* Remote procedure calls (ServerObject.cs) through the mailboxes of       *)
(* IPC.cs.  A call is a message whose RPCResult the caller may Sync on,    *)
(* give a callback, or drop.  Threads interleave at the granularity at     *)
(* which they share state; SchedulerFunctions.Block is a wait that may     *)
(* also end early, as module Scheduler shows it may.  A mailbox's ring     *)
(* buffer is the bounded queue that module RingBuffer is checked to        *)
(* implement.  A dereference of null faults, and the page fault handler    *)
(* halts the machine.                                                      *)
(***************************************************************************)
EXTENDS Naturals, Sequences

CONSTANTS
  Servers,       \* server processes, each with the thread of its MessageLoop
  Clients,       \* other threads
  Calls,         \* the calls that may be made, each at most once
  Caller,        \* Caller[c] is the thread that makes call c ...
  Target,        \* ... and Target[c] the server it is made on
  Deferred,      \* calls of methods that clear EventSetsOnReturn
  Failing,       \* servers whose InitServer fails
  Capacity,      \* messages a mailbox holds
  None

Threads == Servers \cup Clients

ASSUME RpcAssumption ==
  /\ Servers \cap Clients = {} /\ None \notin Threads \cup Calls
  /\ Caller \in [Calls -> Threads] /\ Target \in [Calls -> Servers]
  /\ Capacity \in Nat \ {0}

VARIABLES
  pc,         \* each thread's place in Invoke and what it calls, or "idle"
  call,       \* the call it is making
  loop,       \* each server's place in MessageLoop
  t,          \* the servers whose field t is set
  current,    \* CurrentMessage
  ipc,        \* p.ipc: an IPC object, named by the thread that created it
  rb,         \* the rb field of each IPC object, a ring buffer named likewise
  ready,      \* the IPC objects whose ready field is set
  queue,      \* the contents of each ring buffer
  mutex,      \* the calls whose RPCResult is set
  Result,     \* the calls whose RPCResult holds the method's value
  CallOnSet,  \* the calls given a callback
  called,     \* how often the callback of a call has been called
  halted,
  made, sent, done,  \* history: calls in the order made, sent and executed
  early              \* history: calls whose caller saw no value

rpc == <<mutex, Result, CallOnSet, called, early>>
mail == <<ipc, rb, ready, queue>>
server == <<loop, t, current, done>>
vars == <<pc, call, mail, server, rpc, halted, made, sent>>

Objects == Servers \X Threads

Init ==
  /\ pc = [th \in Threads |-> "idle"]
  /\ call = [th \in Threads |-> None]
  /\ loop = [s \in Servers |-> "start"]
  /\ t = {}
  /\ current = [s \in Servers |-> None]
  /\ ipc = [s \in Servers |-> None]
  /\ rb = [o \in Objects |-> None]
  /\ ready = {}
  /\ queue = [o \in Objects |-> << >>]
  /\ mutex = {} /\ Result = {} /\ CallOnSet = {} /\ early = {}
  /\ called = [c \in Calls |-> 0]
  /\ halted = FALSE
  /\ made = {} /\ sent = << >> /\ done = << >>

-----------------------------------------------------------------------------
(* Invoke and SendMessage, by thread th *)

At(th, p) == ~ halted /\ pc[th] = p
Goto(th, p) == pc' = [pc EXCEPT ![th] = p]
To(th) == Target[call[th]]

(* A method is called by a client, or within a method, or InitServer, of a *)
(* server.                                                                *)
Invoke(th, c) ==
  /\ At(th, "idle") /\ Caller[c] = th /\ c \notin made
  /\ th \in Servers => loop[th] \in {"init", "method"}
  /\ made' = made \cup {c}
  /\ call' = [call EXCEPT ![th] = c]
  /\ Goto(th, "await")
  /\ UNCHANGED <<mail, server, rpc, halted, sent>>

(* Once the target is in its message loop, its own thread runs the method   *)
(* directly: the RPCResult returned is already set.                         *)
AwaitLoop(th) ==
  /\ At(th, "await") /\ To(th) \in t
  /\ \/ /\ th = To(th)
        /\ mutex' = mutex \cup {call[th]}
        /\ Result' = Result \cup {call[th]}
        /\ Goto(th, "return")
     \/ /\ th # To(th)
        /\ Goto(th, "send")
        /\ UNCHANGED <<mutex, Result>>
  /\ UNCHANGED <<call, mail, server, CallOnSet, called, early, halted, made, sent>>

(* SendMessage looks for the mailbox ... *)
SendMessage(th) ==
  /\ At(th, "send")
  /\ Goto(th, IF ipc[To(th)] = None THEN "init" ELSE "enqueue")
  /\ UNCHANGED <<call, mail, server, rpc, halted, made, sent>>

(* ... and InitIPC looks again, giving up, and the message with it, if      *)
(* another thread has been quicker; its assignments then go through p.ipc.  *)
InitIPC(th) ==
  /\ At(th, "init")
  /\ Goto(th, IF ipc[To(th)] = None THEN "new" ELSE "return")
  /\ UNCHANGED <<call, mail, server, rpc, halted, made, sent>>

(* NeverHalts: the mailbox is ready before it has a ring buffer. *)
NewIPC_Ready(th) ==
  /\ At(th, "new")
  /\ ipc' = [ipc EXCEPT ![To(th)] = th]
  /\ ready' = ready \cup {<<To(th), th>>}
  /\ Goto(th, "rb")
  /\ UNCHANGED <<call, rb, queue, server, rpc, halted, made, sent>>

NewIPC(th) ==
  /\ At(th, "new")
  /\ ipc' = [ipc EXCEPT ![To(th)] = th]
  /\ Goto(th, "rb")
  /\ UNCHANGED <<call, rb, ready, queue, server, rpc, halted, made, sent>>

NewRingBuffer(th) ==
  /\ At(th, "rb")
  /\ rb' = [rb EXCEPT ![<<To(th), ipc[To(th)]>>] = th]
  /\ Goto(th, "ready")
  /\ UNCHANGED <<call, ipc, ready, queue, server, rpc, halted, made, sent>>

MailboxReady(th) ==
  /\ At(th, "ready")
  /\ ready' = ready \cup {<<To(th), ipc[To(th)]>>}
  /\ Goto(th, "enqueue")
  /\ UNCHANGED <<call, ipc, rb, queue, server, rpc, halted, made, sent>>

(* The mailbox of s, and its ring buffer. *)
Mailbox(s) == <<s, ipc[s]>>
Usable(s) == ipc[s] # None /\ Mailbox(s) \in ready
Ring(s) == <<s, rb[Mailbox(s)]>>
Broken(s) == Usable(s) /\ rb[Mailbox(s)] = None
Accepts(s) == Usable(s) /\ ~ Broken(s) /\ Len(queue[Ring(s)]) < Capacity

Fault == halted' = TRUE

(* IPC.SendMessage; Invoke ignores what it returns. *)
Enqueue(th) ==
  /\ At(th, "enqueue")
  /\ LET s == To(th)  c == call[th] IN
     \/ /\ Broken(s) /\ Fault
        /\ UNCHANGED <<queue, sent, pc>>
     \/ /\ Accepts(s)
        /\ queue' = [queue EXCEPT ![Ring(s)] = Append(@, c)]
        /\ sent' = Append(sent, c)
        /\ Goto(th, "return")
        /\ UNCHANGED halted
     \/ /\ ~ Broken(s) /\ ~ Accepts(s)
        /\ Goto(th, "return")
        /\ UNCHANGED <<queue, sent, halted>>
  /\ UNCHANGED <<call, ipc, rb, ready, server, rpc, made>>

(* The caller drops the RPCResult, waits for it or gives it a callback. *)
Return(th) ==
  /\ At(th, "return")
  /\ \E p \in {"idle", "sync", "callback"} : Goto(th, p)
  /\ UNCHANGED <<call, mail, server, rpc, halted, made, sent>>

(* What the caller is handed by Sync or a callback. *)
Hand(c) == early' = IF c \in Result THEN early ELSE early \cup {c}

Sync(th) ==
  /\ At(th, "sync") /\ call[th] \in mutex
  /\ Hand(call[th])
  /\ Goto(th, "idle")
  /\ UNCHANGED <<call, mail, server, mutex, Result, CallOnSet, called, halted, made, sent>>

Callback(c) == Hand(c) /\ called' = [called EXCEPT ![c] = @ + 1]

(* CallbackNotLost: the callback is left to Set. *)
SetCallback_NoTest(th) ==
  /\ At(th, "callback")
  /\ CallOnSet' = CallOnSet \cup {call[th]}
  /\ Goto(th, "idle")
  /\ UNCHANGED <<call, mail, server, mutex, Result, called, early, halted, made, sent>>

SetCallback(th) ==
  /\ At(th, "callback")
  /\ CallOnSet' = CallOnSet \cup {call[th]}
  /\ Goto(th, "test")
  /\ UNCHANGED <<call, mail, server, mutex, Result, called, early, halted, made, sent>>

CallbackIfSet(th) ==
  /\ At(th, "test")
  /\ \/ call[th] \in mutex /\ Callback(call[th])
     \/ call[th] \notin mutex /\ UNCHANGED <<called, early>>
  /\ Goto(th, "idle")
  /\ UNCHANGED <<call, mail, server, mutex, Result, CallOnSet, halted, made, sent>>

-----------------------------------------------------------------------------
(* MessageLoop and HandleMessage, by server s *)

In(s, l) == ~ halted /\ loop[s] = l /\ pc[s] = "idle"
Then(s, l) == loop' = [loop EXCEPT ![s] = l]

EnterLoop(s) ==
  /\ In(s, "start")
  /\ t' = t \cup {s}
  /\ Then(s, "init")
  /\ UNCHANGED <<pc, call, mail, current, done, rpc, halted, made, sent>>

(* InitServer, after the calls it makes; when it fails the thread ends. *)
InitServer(s) ==
  /\ In(s, "init")
  /\ Then(s, IF s \in Failing THEN "exit" ELSE "read")
  /\ UNCHANGED <<pc, call, mail, t, current, done, rpc, halted, made, sent>>

Waiting(s) == Usable(s) /\ ~ Broken(s) /\ queue[Ring(s)] # << >>

(* ServedInOrder: the newest message first. *)
ReadMessage_Last(s) ==
  /\ In(s, "read")
  /\ Waiting(s)
  /\ LET q == queue[Ring(s)] IN
     /\ current' = [current EXCEPT ![s] = q[Len(q)]]
     /\ queue' = [queue EXCEPT ![Ring(s)] = SubSeq(q, 1, Len(q) - 1)]
  /\ Then(s, "method")
  /\ UNCHANGED <<pc, call, ipc, rb, ready, t, done, rpc, made, sent, halted>>

(* OnceEach: the message is left in the queue. *)
ReadMessage_Peek(s) ==
  /\ In(s, "read")
  /\ Waiting(s)
  /\ current' = [current EXCEPT ![s] = Head(queue[Ring(s)])]
  /\ Then(s, "method")
  /\ UNCHANGED <<pc, call, mail, t, done, rpc, made, sent, halted>>

ReadMessage(s) ==
  /\ In(s, "read")
  /\ \/ /\ Broken(s) /\ Fault
        /\ UNCHANGED <<queue, loop, current>>
     \/ /\ Waiting(s)
        /\ current' = [current EXCEPT ![s] = Head(queue[Ring(s)])]
        /\ queue' = [queue EXCEPT ![Ring(s)] = Tail(@)]
        /\ Then(s, "method")
        /\ UNCHANGED halted
     \/ /\ ~ Broken(s) /\ ~ Waiting(s)
        /\ Then(s, "block")
        /\ UNCHANGED <<queue, current, halted>>
  /\ UNCHANGED <<pc, call, ipc, rb, ready, t, done, rpc, made, sent>>

(* ValueSeen: the value is not copied to the RPCResult of the message.      *)
HandleMessage_NoCopy(s) ==
  /\ In(s, "method")
  /\ done' = Append(done, current[s])
  /\ Then(s, "set")
  /\ UNCHANGED <<pc, call, mail, t, current, rpc, made, sent, halted>>

(* The method returns, and its value is copied; the methods that clear      *)
(* EventSetsOnReturn return null, which is dereferenced for the copy.       *)
HandleMessage(s) ==
  /\ In(s, "method")
  /\ \/ /\ current[s] \in Deferred /\ Fault
        /\ UNCHANGED <<Result, loop, done>>
     \/ /\ current[s] \notin Deferred
        /\ Result' = Result \cup {current[s]}
        /\ done' = Append(done, current[s])
        /\ Then(s, "set")
        /\ UNCHANGED halted
  /\ UNCHANGED <<pc, call, mail, t, current, mutex, CallOnSet, called, early, made, sent>>

(* RPCResult.Set: Event.Set ... *)
Set(s) ==
  /\ In(s, "set")
  /\ mutex' = mutex \cup {current[s]}
  /\ Then(s, "callback")
  /\ UNCHANGED <<pc, call, mail, t, current, done, Result, CallOnSet, called, early,
                 halted, made, sent>>

(* ... then the callback. *)
CallbackOnSet(s) ==
  /\ In(s, "callback")
  /\ \/ current[s] \in CallOnSet /\ Callback(current[s])
     \/ current[s] \notin CallOnSet /\ UNCHANGED <<called, early>>
  /\ Then(s, "read")
  /\ current' = [current EXCEPT ![s] = None]
  /\ UNCHANGED <<pc, call, mail, t, done, mutex, Result, CallOnSet, halted, made, sent>>

(* CallExecuted: only the first message into an empty mailbox wakes.        *)
Wake_Edge(s) ==
  /\ In(s, "block") /\ Waiting(s) /\ Len(queue[Ring(s)]) = 1
  /\ Then(s, "read")
  /\ UNCHANGED <<pc, call, mail, t, current, done, rpc, halted, made, sent>>

(* Block ends when PeekMessage finds a message, which faults as ReadMessage *)
(* does; or early.                                                          *)
Wake(s) ==
  /\ In(s, "block") /\ Waiting(s)
  /\ Then(s, "read")
  /\ UNCHANGED <<pc, call, mail, t, current, done, rpc, halted, made, sent>>

EarlyWake(s) ==
  /\ In(s, "block") /\ ~ Waiting(s)
  /\ Then(s, "read")
  /\ UNCHANGED <<pc, call, mail, t, current, done, rpc, halted, made, sent>>

-----------------------------------------------------------------------------
CallerStep(th) ==
  \/ AwaitLoop(th) \/ SendMessage(th) \/ InitIPC(th) \/ NewIPC(th)
  \/ NewRingBuffer(th) \/ MailboxReady(th) \/ Enqueue(th) \/ Return(th)
  \/ Sync(th) \/ SetCallback(th) \/ CallbackIfSet(th)

ServerStep(s) ==
  \/ EnterLoop(s) \/ InitServer(s) \/ ReadMessage(s) \/ HandleMessage(s)
  \/ Set(s) \/ CallbackOnSet(s) \/ Wake(s)

ThreadStep(th) == CallerStep(th) \/ (th \in Servers /\ ServerStep(th))

Next ==
  \/ \E th \in Threads : ThreadStep(th) \/ \E c \in Calls : Invoke(th, c)
  \/ \E s \in Servers : EarlyWake(s)

Spec == Init /\ [][Next]_vars

(* Every thread gets on with its code, as the round robin of the scheduler  *)
(* gives threads of the default priority; nobody has to make a call, and    *)
(* Block need not end early.                                                *)
Fairness == \A th \in Threads : WF_vars(ThreadStep(th))

FairSpec == Spec /\ Fairness

-----------------------------------------------------------------------------
(* A caller that Sync returns to, and a callback, are handed the value the  *)
(* method returned: HandleMessage copies it before it signals the event.    *)
ValueSeen == early = {}

(* No message is handled twice, whatever becomes of the mailbox it is in; a *)
(* callback is called twice at most, when SetCallback and Set meet.         *)
OnceEach == /\ \A i, j \in 1 .. Len(done) : done[i] = done[j] => i = j
            /\ \A c \in Calls : called[c] <= 2

Of(s, seq) == SelectSeq(seq, LAMBDA c : Target[c] = s)

(* A server executes the calls SendMessage accepted for it in the order     *)
(* they were sent, skipping none.                                           *)
ServedInOrder ==
  \A s \in Servers : /\ Len(Of(s, done)) <= Len(Of(s, sent))
                     /\ Of(s, done) = SubSeq(Of(s, sent), 1, Len(Of(s, done)))

(* No thread follows a null reference: none uses a mailbox that another is  *)
(* still setting up, and the value HandleMessage copies exists.             *)
NeverHalts == ~ halted

(* Invoke "will execute them via a remote procedure call": the RPCResult of *)
(* a call that was made is set in the end.                                  *)
CallExecuted == \A c \in Calls : c \in made ~> c \in mutex

(* A callback is not lost between SetCallback's test and Set: once a call   *)
(* has a callback and its event is set, the callback has been called, or    *)
(* one of the two threads is about to look at what the other has done.      *)
CallbackNotLost ==
  \A c \in CallOnSet \cap mutex :
    \/ called[c] > 0
    \/ \E th \in Threads : pc[th] = "test" /\ call[th] = c
    \/ \E s \in Servers : loop[s] = "callback" /\ current[s] = c
=============================================================================
