------------------------------ MODULE GcThreads ------------------------------
(***************************************************************************)
(* The garbage collector's three threads (gc/gengc_collectthread.cs) as    *)
(* KMain starts them, beside mutators, on the scheduler of module          *)
(* Scheduler.  Each waits with a DelegateEvent whose IsSet is a condition  *)
(* on the heap's counters, and waits only once: it does not test the       *)
(* condition again when Block returns.  A collection (an uninterruptible   *)
(* section) is abstracted to what it does to the counters.                 *)
(***************************************************************************)
EXTENDS Scheduler

CONSTANTS
  t_max, t_min, t_request,   \* the collector's threads
  e_max, e_min, e_request,   \* the events they wait for
  min_allocs,
  first_max_allocs,          \* the initial max_allocs
  limit_max_allocs,          \* and its limit
  DEF_PRIORITY,
  AllocBound                 \* allocations are counted up to this bound

GcThread == {t_max, t_min, t_request}
Mutators == Threads \ GcThread
GcEvents == {e_max, e_min, e_request}

(* The priorities are 0, 5 and 10 of 11.                                    *)
ASSUME GcAssumption ==
  /\ GcThread \subseteq Threads /\ t_max \notin {t_min, t_request}
  /\ t_min # t_request
  /\ GcEvents \subseteq Events /\ e_max \notin {e_min, e_request}
  /\ DEF_PRIORITY \in 0 .. priorities - 2
  /\ first_max_allocs \in Nat \ {0} /\ limit_max_allocs \in Nat

Waited ==
  [t \in GcThread |-> CASE t = t_max -> e_max
                        [] t = t_min -> e_min
                        [] t = t_request -> e_request]

VARIABLES
  boot,               \* the position of KMain in BootCode
  allocs,             \* allocations since the last collection
  max_allocs

gcvars == <<boot, allocs, max_allocs>>
allvars == <<vars, gcvars>>

GcInit ==
  /\ Init
  /\ priority = [t \in Threads |-> DEF_PRIORITY]
  /\ boot = 1
  /\ allocs = 0
  /\ max_allocs = first_max_allocs

(* The IsSet delegates, after a step.  Nothing sets ScheduleCollection: the *)
(* body of GC.InternalCollect is not compiled.                              *)
Delegates ==
  set' = [set EXCEPT ![e_max] = allocs' >= max_allocs',
                     ![e_min] = allocs' >= min_allocs,
                     ![e_request] = FALSE]

-----------------------------------------------------------------------------
(* KMain: what is done to which thread.  Its assignments to a thread's      *)
(* priority field, and its calls of Reschedule.                             *)

HIGH == priorities - 1
LOW == 0
START == -1

(* MaxAllocFirst: the thread keeps the default priority.                    *)
BootCode_NoPriority ==
  << <<t_max, START>>,
     <<t_min, LOW>>,  <<t_min, START>>,
     <<t_min, HIGH>>, <<t_request, START>> >>

BootCode ==
  << <<t_max, HIGH>>, <<t_max, START>>,
     <<t_min, LOW>>,  <<t_min, START>>,
     <<t_min, HIGH>>, <<t_request, START>> >>

KMain ==
  /\ boot <= Len(BootCode)
  /\ LET t == BootCode[boot][1]  what == BootCode[boot][2] IN
     \/ /\ what = START
        /\ Reschedule(t)
        /\ step' = [step EXCEPT ![t] = "run"]
        /\ UNCHANGED priority
     \/ /\ what # START
        /\ priority' = [priority EXCEPT ![t] = what]
        /\ UNCHANGED <<queues, step>>
  /\ boot' = boot + 1
  /\ UNCHANGED <<cur, poll, charge, set, awaited, kept, allocs, max_allocs>>

Booted == boot > Len(BootCode)

-----------------------------------------------------------------------------
(* The collector's threads *)

GcBlock(t) ==
  /\ Running(t, "run")
  /\ BlockThread(t, Waited[t])
  /\ Decide(FALSE)
  /\ step' = [step EXCEPT ![t] = "test"]
  /\ UNCHANGED <<priority, cur, set, awaited, kept, gcvars>>

(* CollectedAtMax: the allocations are not counted from zero again.         *)
Collect_NoReset(t) ==
  /\ Running(t, "test")
  /\ step' = [step EXCEPT ![t] = "run"]
  /\ UNCHANGED <<queues, priority, cur, poll, charge, awaited, kept, boot,
                 allocs, max_allocs>>
  /\ Delegates

(* Block has returned: DoCollection, and what each thread does after it.    *)
Collect(t) ==
  /\ Running(t, "test")
  /\ allocs' = 0
  /\ max_allocs' =
       IF t # t_max THEN max_allocs
       ELSE LET m == max_allocs + max_allocs \div 2
            IN IF m >= limit_max_allocs THEN limit_max_allocs ELSE m
  /\ step' = [step EXCEPT ![t] = "run"]
  /\ UNCHANGED <<queues, priority, cur, poll, charge, awaited, kept, boot>>
  /\ Delegates

-----------------------------------------------------------------------------
(* The mutators *)

(* gengc.Alloc *)
Alloc(t) ==
  /\ Running(t, "run")
  /\ allocs < AllocBound
  /\ allocs' = allocs + 1
  /\ UNCHANGED <<queues, priority, cur, poll, charge, step, awaited, kept, boot,
                 max_allocs>>
  /\ Delegates

(* The rest of a mutator's life is as in Scheduler. *)
Mutate(t) ==
  /\ \/ Yield(t) \/ Test(t) \/ Block(t) \/ Exit(t)
     \/ \E e \in Events \ GcEvents : Wait(t, e) \/ SetEvent(t, e)
  /\ UNCHANGED gcvars

Kernel ==
  /\ \/ PollOne \/ Pick \/ TimerTick
     \/ \E e \in Events \ GcEvents : Interrupt(e)
     \/ Booted /\ (Boot \/ \E t \in Mutators : Start(t))
  /\ UNCHANGED gcvars

GcNext ==
  \/ KMain \/ Kernel
  \/ \E t \in GcThread : GcBlock(t) \/ Collect(t)
  \/ \E t \in Mutators : Alloc(t) \/ Mutate(t)

GcSpec == GcInit /\ [][GcNext]_allvars

(* As in Scheduler: the timer ticks, and a thread that keeps getting the    *)
(* processor gets on with its code.                                         *)
GcFairness ==
  /\ WF_allvars(KMain) /\ WF_allvars(Boot /\ UNCHANGED gcvars)
  /\ WF_allvars(TimerTick /\ UNCHANGED gcvars)
  /\ WF_allvars((PollOne \/ Pick) /\ UNCHANGED gcvars)
  /\ \A t \in GcThread : SF_allvars(GcBlock(t)) /\ SF_allvars(Collect(t))

GcFairSpec == GcSpec /\ GcFairness

-----------------------------------------------------------------------------
(* Properties *)

(* The maximum is a bound: once it is reached, no scheduling decision gives *)
(* the processor to a mutator before a collection.                          *)
MaxAllocFirst ==
  [][Pick /\ allocs >= max_allocs => cur' \notin Mutators]_allvars

(* "ensures a collection occurs when allocs >= max_allocs".                 *)
CollectedAtMax == allocs >= max_allocs ~> allocs < max_allocs
=============================================================================
