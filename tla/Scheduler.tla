------------------------------ MODULE Scheduler ------------------------------
(***************************************************************************)
(* Scheduler.cs with the system calls that drive it (Syscalls.cs) and the  *)
(* events threads wait for (Event.cs).  There is one processor.  A thread  *)
(* stays in the run queue of its priority while it runs.  Nothing wakes a  *)
(* blocked thread when its event is set: every scheduling decision, in a   *)
(* system call or in the timer interrupt, first polls the events of all    *)
(* blocked threads.                                                        *)
(*                                                                         *)
(* System calls and the timer run in uninterruptible sections: while a     *)
(* decision is being made (poll > 0) nothing else happens.  Between        *)
(* decisions the timer or a device may interrupt after any step of the     *)
(* running thread.                                                         *)
(*                                                                         *)
(* Scheduler.Sleep has no caller, so sleeping_tasks is always empty and is *)
(* left out.  Time is counted in timer intervals.                          *)
(***************************************************************************)
EXTENDS Integers, Sequences, Lists

CONSTANTS
  Threads,      \* the threads of all processes
  NoThread,     \* null; as cur, the boot code of KMain
  Events,       \* the events threads wait for
  NoEvent,
  Resettable,   \* those that can be unset while threads wait for them
  priorities,   \* the number of priority levels
  Slice         \* default_slice, in timer intervals

ASSUME SliceAssumption == Slice \in Nat \ {0}
ASSUME PrioritiesAssumption == priorities \in Nat \ {0}
ASSUME NoThreadAssumption == NoThread \notin Threads
ASSUME EventsAssumption == NoEvent \notin Events /\ Resettable \subseteq Events

Levels == 0 .. priorities - 1

LOC_BLOCKING == -3
LOC_RELEASED == -4

VARIABLES
  location,       \* where each thread is queued: a level, or a LOC_ value
  priority,
  time_to_run,    \* what is left of each thread's slice
  BlockingOn,     \* the event a blocked thread waits for
  running_tasks,  \* the run queues, one per level
  blocking_tasks, \* the blocked threads
  cur,            \* CurrentCpu.CurrentThread
  poll,           \* 0, or the position in blocking_tasks of a poll under way
  charge,         \* is the decision under way the timer's?
  set,            \* IsSet of each event
  step,           \* where each thread is in its own code
  awaited,        \* the event of the wait loop a thread is in
  kept            \* history: decisions of the timer that have kept cur
                  \* although another thread of its level was ready
                  \* (counted up to Slice + 1)

queues == <<location, time_to_run, BlockingOn, running_tasks, blocking_tasks>>
vars == <<location, priority, time_to_run, BlockingOn, running_tasks,
          blocking_tasks, cur, poll, charge, set, step, awaited, kept>>

Steps == {"new", "run", "test", "block", "dead"}

Init ==
  /\ location = [t \in Threads |-> LOC_RELEASED]
  /\ priority \in [Threads -> Levels]
  /\ time_to_run = [t \in Threads |-> 0]
  /\ BlockingOn = [t \in Threads |-> NoEvent]
  /\ running_tasks = [l \in Levels |-> <<>>]
  /\ blocking_tasks = <<>>
  /\ cur = NoThread
  /\ poll = 0
  /\ charge = FALSE
  /\ set = [e \in Events |-> FALSE]
  /\ step = [t \in Threads |-> "new"]
  /\ awaited = [t \in Threads |-> NoEvent]
  /\ kept = 0

-----------------------------------------------------------------------------
(* The queues.  A faulty variant precedes the definition it spoils, and     *)
(* names the property that catches it.                                      *)

(* _Release: the run queues and the blocking list without thread t.         *)
RunningWithout(t) ==
  [l \in Levels |-> IF location[t] = l THEN Remove(running_tasks[l], t)
                                       ELSE running_tasks[l]]
BlockingWithout(t) ==
  IF location[t] = LOC_BLOCKING THEN Remove(blocking_tasks, t)
                                ELSE blocking_tasks

(* _Release *)
Release(t) ==
  /\ running_tasks' = RunningWithout(t)
  /\ blocking_tasks' = BlockingWithout(t)
  /\ location' = [location EXCEPT ![t] = LOC_RELEASED]
  /\ UNCHANGED <<time_to_run, BlockingOn>>

(* _Reschedule: to the end of the queue of the thread's priority.           *)
Reschedule(t) ==
  /\ running_tasks' =
       [RunningWithout(t) EXCEPT ![priority[t]] = Append(@, t)]
  /\ blocking_tasks' = BlockingWithout(t)
  /\ location' = [location EXCEPT ![t] = priority[t]]
  /\ time_to_run' = [time_to_run EXCEPT ![t] = Slice]
  /\ BlockingOn' = [BlockingOn EXCEPT ![t] = NoEvent]

(* Scheduler.Block(thread, ev) *)
BlockThread(t, e) ==
  /\ running_tasks' = RunningWithout(t)
  /\ blocking_tasks' = Append(BlockingWithout(t), t)
  /\ location' = [location EXCEPT ![t] = LOC_BLOCKING]
  /\ BlockingOn' = [BlockingOn EXCEPT ![t] = e]
  /\ UNCHANGED time_to_run

(* The levels at which some thread is ready. *)
ReadyLevels == {l \in Levels : running_tasks[l] # <<>>}

(* HighestFirst: the levels searched from the lowest.                       *)
NextThread_Lowest ==
  IF ReadyLevels = {} THEN NoThread
  ELSE Head(running_tasks[CHOOSE l \in ReadyLevels : \A m \in ReadyLevels : l <= m])

(* GetNextThread, after the poll: the first thread of the highest level.    *)
Highest == CHOOSE l \in ReadyLevels : \A m \in ReadyLevels : m <= l
NextThread ==
  IF ReadyLevels = {} THEN NoThread ELSE Head(running_tasks[Highest])

OthersReady(t) == \E l \in Levels : location[t] = l /\ Len(running_tasks[l]) > 1

-----------------------------------------------------------------------------
(* A scheduling decision *)

(* WokenWhenSet: the poll starts at the second blocked thread.              *)
Decide_Second(timer) == poll' = 2 /\ charge' = timer

(* Every decision starts with _WakeUpBlockingTasks. *)
Decide(timer) == poll' = 1 /\ charge' = timer

(* BlockedInLoop: the counter moves on although the list has become shorter. *)
PollOne_Skip ==
  /\ poll > 0 /\ poll <= Len(blocking_tasks)
  /\ LET t == blocking_tasks[poll] IN
     IF set[BlockingOn[t]] THEN Reschedule(t) ELSE UNCHANGED queues
  /\ poll' = poll + 1
  /\ UNCHANGED <<priority, cur, charge, set, step, awaited, kept>>

(* One turn of its loop.  A woken thread leaves the list, so that the next  *)
(* one moves into its place.                                                *)
PollOne ==
  /\ poll > 0 /\ poll <= Len(blocking_tasks)
  /\ LET t == blocking_tasks[poll] IN
     \/ /\ set[BlockingOn[t]]
        /\ Reschedule(t)
        /\ UNCHANGED poll
     \/ /\ ~ set[BlockingOn[t]]
        /\ poll' = poll + 1
        /\ UNCHANGED queues
  /\ UNCHANGED <<priority, cur, charge, set, step, awaited, kept>>

(* RoundRobin: the running thread is never charged for its time.            *)
Charge_Never(t) == UNCHANGED queues

(* SliceBound: a thread is moved back only when its time was used up before *)
(* this interval.                                                           *)
Charge_Late(t) ==
  \/ time_to_run[t] < 1 /\ Reschedule(t)
  \/ /\ time_to_run[t] >= 1
     /\ time_to_run' = [time_to_run EXCEPT ![t] = @ - 1]
     /\ UNCHANGED <<location, BlockingOn, running_tasks, blocking_tasks>>

(* _GetNextThread(ns): the thread that is to run is charged one interval.   *)
Charge(t) ==
  \/ time_to_run[t] <= 1 /\ Reschedule(t)
  \/ /\ time_to_run[t] > 1
     /\ time_to_run' = [time_to_run EXCEPT ![t] = @ - 1]
     /\ UNCHANGED <<location, BlockingOn, running_tasks, blocking_tasks>>

(* The end of the decision: switcher.Switch(next), or, if no thread is      *)
(* ready, a return to the current one, blocked though it may be.            *)
Pick ==
  /\ poll > Len(blocking_tasks)
  /\ LET next == NextThread IN
     /\ cur' = IF next = NoThread THEN cur ELSE next
     /\ IF charge /\ next # NoThread THEN Charge(next) ELSE UNCHANGED queues
     /\ kept' = IF charge /\ next = cur /\ OthersReady(cur)
                THEN (IF kept > Slice THEN kept ELSE kept + 1) ELSE 0
  /\ poll' = 0
  /\ UNCHANGED <<priority, charge, set, step, awaited>>

-----------------------------------------------------------------------------
(* The running thread, between decisions *)

Running(t, s) == poll = 0 /\ cur = t /\ step[t] = s

(* Process.Start, by the boot code or by a thread. *)
Start(u) ==
  /\ poll = 0
  /\ cur # NoThread => step[cur] = "run"
  /\ step[u] = "new"
  /\ Reschedule(u)
  /\ step' = [step EXCEPT ![u] = "run"]
  /\ UNCHANGED <<priority, cur, poll, charge, set, awaited, kept>>

(* The Yield that ends KMain, when it has started the first threads. *)
Boot ==
  /\ poll = 0 /\ cur = NoThread /\ ReadyLevels # {}
  /\ Decide(FALSE)
  /\ UNCHANGED <<queues, priority, cur, set, step, awaited, kept>>

Yield(t) ==
  /\ Running(t, "run")
  /\ Reschedule(t)
  /\ Decide(FALSE)
  /\ UNCHANGED <<priority, cur, set, step, awaited, kept>>

(* A loop `while (!e.IsSet) Block(e)', as in RPCResult.Sync: it is entered, *)
(* it tests, and it blocks.  An interrupt may come between any two.         *)
Wait(t, e) ==
  /\ Running(t, "run")
  /\ step' = [step EXCEPT ![t] = "test"]
  /\ awaited' = [awaited EXCEPT ![t] = e]
  /\ UNCHANGED <<queues, priority, cur, poll, charge, set, kept>>

Test(t) ==
  /\ Running(t, "test")
  /\ \/ /\ set[awaited[t]]
        /\ step' = [step EXCEPT ![t] = "run"]
        /\ awaited' = [awaited EXCEPT ![t] = NoEvent]
     \/ /\ ~ set[awaited[t]]
        /\ step' = [step EXCEPT ![t] = "block"]
        /\ UNCHANGED awaited
  /\ UNCHANGED <<queues, priority, cur, poll, charge, set, kept>>

Block(t) ==
  /\ Running(t, "block")
  /\ BlockThread(t, awaited[t])
  /\ Decide(FALSE)
  /\ step' = [step EXCEPT ![t] = "test"]
  /\ UNCHANGED <<priority, cur, set, awaited, kept>>

(* Event.Set by a thread; the constructor Event(), of an event no thread    *)
(* knows yet; and what unsets an event in use, for a message event the      *)
(* reading of the last message.                                             *)
InUse(e) == \E t \in Threads : e \in {awaited[t], BlockingOn[t]}

SetEvent(t, e) ==
  /\ Running(t, "run")
  /\ \/ set' = [set EXCEPT ![e] = TRUE]
     \/ /\ e \in Resettable \/ ~ InUse(e)
        /\ set' = [set EXCEPT ![e] = FALSE]
  /\ UNCHANGED <<queues, priority, cur, poll, charge, step, awaited, kept>>

(* Program.Exit, the return address of every thread. *)
Exit(t) ==
  /\ Running(t, "run")
  /\ Release(t)
  /\ step' = [step EXCEPT ![t] = "dead"]
  /\ UNCHANGED <<priority, cur, poll, charge, set, awaited, kept>>

-----------------------------------------------------------------------------
(* Interrupts *)

(* Scheduler.TimerTick *)
TimerTick ==
  /\ poll = 0 /\ cur # NoThread
  /\ Decide(TRUE)
  /\ UNCHANGED <<queues, priority, cur, set, step, awaited, kept>>

(* A device's handler sets an event. *)
Interrupt(e) ==
  /\ poll = 0 /\ cur # NoThread
  /\ ~ set[e]
  /\ set' = [set EXCEPT ![e] = TRUE]
  /\ UNCHANGED <<queues, priority, cur, poll, charge, step, awaited, kept>>

Thread(t) ==
  \/ Yield(t) \/ Test(t) \/ Block(t) \/ Exit(t)
  \/ \E e \in Events : Wait(t, e) \/ SetEvent(t, e)

Next ==
  \/ PollOne \/ Pick \/ Boot \/ TimerTick
  \/ \E t \in Threads : Start(t) \/ Thread(t)
  \/ \E e \in Events : Interrupt(e)

Spec == Init /\ [][Next]_vars

(* The timer keeps ticking, and the processor gets on with the uninterrup-  *)
(* tible sections.  A thread that is in a wait loop and keeps getting the   *)
(* processor gets on with the loop: an interval is long enough for it.      *)
Fairness ==
  /\ WF_vars(TimerTick) /\ WF_vars(PollOne \/ Pick)
  /\ WF_vars(Boot)
  /\ \A t \in Threads : SF_vars(Test(t)) /\ SF_vars(Block(t))

FairSpec == Spec /\ Fairness

-----------------------------------------------------------------------------
(* Threads are only ever at a level, blocked or released (the location      *)
(* LOC_CURRENT of Thread is not used), and no charge takes a thread's time  *)
(* below zero.                                                              *)
TypeOK ==
  /\ location \in [Threads -> Levels \cup {LOC_BLOCKING, LOC_RELEASED}]
  /\ priority \in [Threads -> Levels]
  /\ time_to_run \in [Threads -> 0 .. Slice]
  /\ BlockingOn \in [Threads -> Events \cup {NoEvent}]
  /\ running_tasks \in [Levels -> Seq(Threads)]
  /\ blocking_tasks \in Seq(Threads)
  /\ cur \in Threads \cup {NoThread}
  /\ poll \in Nat
  /\ charge \in BOOLEAN
  /\ set \in [Events -> BOOLEAN]
  /\ step \in [Threads -> Steps]
  /\ awaited \in [Threads -> Events \cup {NoEvent}]
  /\ kept \in 0 .. Slice + 1

(* A thread is in the queue its location names, once, and in no other:      *)
(* _Release relies on location to take it out again, and a thread left      *)
(* behind in a queue would be run, or woken, behind the scheduler's back.   *)
Placement ==
  /\ \A l \in Levels : NoDuplicates(running_tasks[l])
  /\ NoDuplicates(blocking_tasks)
  /\ \A t \in Threads :
       /\ \A l \in Levels : Contains(running_tasks[l], t) <=> location[t] = l
       /\ Contains(blocking_tasks, t) <=> location[t] = LOC_BLOCKING

(* A thread that has lost the processor and is on the blocking list is in   *)
(* its wait loop, and is polled for the very event it waits for there.      *)
(* When no thread is ready Block returns, and a thread then runs on while   *)
(* it is on the list: it may leave the loop and wait for something else.    *)
(* The poll must take it off the list before it can lose the processor,     *)
(* and does so if its event stays set.                                      *)
BlockedInLoop ==
  \A t \in Threads :
    location[t] = LOC_BLOCKING /\ t # cur /\ BlockingOn[t] \notin Resettable
      => step[t] \in {"test", "block"} /\ awaited[t] = BlockingOn[t]

(* A decision runs the best thread: none that is ready afterwards, those    *)
(* this very decision has woken included, is of a higher level.             *)
HighestFirst ==
  [][Pick => \A t \in Threads : location'[t] >= 0 => location'[t] <= location'[cur']]_vars

(* A thread does not keep the processor from the others of its level for    *)
(* more than its slice.                                                     *)
SliceBound == kept <= Slice

Top(t) == \A u \in Threads : priority[u] <= priority[t]

(* Among the threads of the highest priority the processor goes round: a    *)
(* ready one gets it.                                                       *)
RoundRobin ==
  \A t \in Threads : Top(t) /\ location[t] >= 0 ~> cur = t

(* No wakeup is lost, wherever in the wait loop or in the scheduler the     *)
(* event is set: a thread of the highest priority leaves the loop, unless   *)
(* the event is unset again.                                                *)
WokenWhenSet ==
  \A t \in Threads, e \in Events :
    Top(t) /\ awaited[t] = e /\ set[e] ~> awaited[t] # e \/ ~ set[e]
=============================================================================
