----------------------------- MODULE BlockQueue -----------------------------
(***************************************************************************)
(* What a block device (vfs/BlockDevice.cs) promises its callers: requests *)
(* are answered in the order they were made, each with exactly the sectors *)
(* it asked for.  After a fault the device answers nothing any more.       *)
(***************************************************************************)
EXTENDS Integers, Sequences

CONSTANTS Clients, Sectors, Lengths

VARIABLES
  queue,   \* clients whose requests are not answered, oldest first
  want,    \* of each client: the first sector and the number it asked for
  answer   \* of each client: what its buffer holds when its event is set

qvars == <<queue, want, answer>>

(* A sector's number stands for what is in it. *)
Wanted(c) == [i \in 1..want[c][2] |-> want[c][1] + i - 1]

QueueInit ==
  /\ queue = << >>
  /\ want = [c \in Clients |-> <<0, 0>>] /\ answer = [c \in Clients |-> << >>]

Ask(c, i, n) ==
  /\ \A j \in 1..Len(queue) : queue[j] # c
  /\ queue' = Append(queue, c)
  /\ want' = [want EXCEPT ![c] = <<i, n>>]
  /\ answer' = [answer EXCEPT ![c] = << >>]

Answer ==
  /\ queue # << >>
  /\ queue' = Tail(queue)
  /\ answer' = [answer EXCEPT ![Head(queue)] = Wanted(Head(queue))]
  /\ UNCHANGED want

QueueNext == Answer \/ \E c \in Clients, i \in Sectors, n \in Lengths : Ask(c, i, n)

QueueSpec == QueueInit /\ [][QueueNext]_qvars
=============================================================================
