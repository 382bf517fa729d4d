---------------------------- MODULE Disk_proofs -----------------------------
(***************************************************************************)
(* Proofs about Disk, for any clients, drive, tables and requests.         *)
(*                                                                         *)
(* Control is what server thread, interrupt handler and device know of one *)
(* another: who has the command in hand, that the device is silent unless  *)
(* the driver waits for it, and that what is left for the device, what is  *)
(* left to be asked for and what is in the buffer make up the request.     *)
(* Made is what the volumes are while the table is gone through.  Data,    *)
(* which is an invariant together with Control, says which sectors are     *)
(* where: reads stay inside their volumes, and drive and drivers implement *)
(* BlockQueue.                                                             *)
(***************************************************************************)
EXTENDS Disk, TLAPS

(* Time limits that leave a slow machine room.                              *)
USE SMTT(30), ZenonT(30)

Cmds == [sector_idx : Nat, cur_sector : Nat, length : Nat, sector_count : Nat,
         cur_cmd_sector_count : Nat, cur_cmd_sector_idx : Nat, buf : Seq(Nat),
         error : BOOLEAN]
Devices == [op : {"none", "identify", "read"}, lba : Nat, left : Nat,
            ready : BOOLEAN, err : BOOLEAN, intr : BOOLEAN]
Volumes == [n : Nat, lba : Nat, len : Nat, driver : {"none"} \cup STRING]

(* Of what type the variables are, ...                                      *)
Types ==
  /\ drive \in {0, 1} /\ selected \in {0, 1} /\ children \in SUBSET {0}
  /\ cmds \in Seq(Clients)
  /\ cur_cmd \in Clients \cup {NoCmd} /\ next_cmd \in Clients \cup {NoCmd}
  /\ cmd \in [Clients -> Cmds] /\ done \in [Clients -> BOOLEAN]
  /\ device \in [{0, 1} -> Devices]
  /\ attached \in Attached /\ table \in Tables
  /\ entry \in Nat \ {0} /\ volumes \in SUBSET Volumes

(* ... what a Cmd looks like before it is started and while it is, ...      *)
Fresh(r) == /\ r.length > 0 /\ r.buf = << >>
            /\ r.sector_count = r.length /\ r.cur_sector = r.sector_idx
Left(r) == r.cur_cmd_sector_count - r.cur_cmd_sector_idx
Going(r) == /\ Left(r) > 0 /\ Len(r.buf) + Left(r) + r.sector_count = r.length
            /\ r.cur_sector + r.sector_count = r.sector_idx + r.length
Silent(d) == device[d].op = "none" /\ ~device[d].intr

(* ... how the drives are found, ...                                        *)
Startup ==
  /\ pc = "init" <=> s = "Init"
  /\ pc = "spin" => s \in {"StartupIdentifySent", "Idle"}
  /\ s = "Init" => Silent(0) /\ Silent(1) /\ device[0].left <= 1
  /\ s = "StartupIdentifySent" =>
       /\ pc = "spin" /\ drive = 0 /\ selected = 0 /\ Silent(1)
       /\ device[0].op # "read" /\ device[0].left <= 1
       /\ device[0].intr /\ ~device[0].err => attached[0] = "ATA"
  /\ s \in {"Init", "StartupIdentifySent"} => children = {}
  /\ children = {} => dpc = "start" /\ \A c \in Clients : done[c]
  /\ children # {} => attached[0] # "absent" /\ attached[1] = "absent" /\ Silent(1)

(* ... that a client waits in one place, ...                                *)
InHandNow == pc \in {"state", "cur", "send"}
Queued ==
  /\ \A i \in 1..Len(cmds) :
       /\ ~done[cmds[i]] /\ Fresh(cmd[cmds[i]]) /\ cmds[i] # cur_cmd
       /\ InHandNow => cmds[i] # next_cmd
  /\ \A i, j \in 1..Len(cmds) : cmds[i] = cmds[j] => i = j
  /\ cur_cmd # NoCmd => ~done[cur_cmd]
  /\ InHandNow => next_cmd # NoCmd /\ ~done[next_cmd] /\ Fresh(cmd[next_cmd])
  /\ dpc \in {"start", "entry"} => done[DiskThread]
  /\ dpc = "probe" => entry <= Len(table.parts)

(* ... and where server thread, handler and device are with a command.      *)
Sent == s = "ReadSent" /\ pc = "loop"
Progress ==
  /\ s \in {"Init", "StartupIdentifySent", "Idle", "ReadSent"}
  /\ pc \in {"init", "spin", "loop", "state", "cur", "send"}
  /\ pc = "state" => s = "Idle"
  /\ pc \in {"cur", "send"} => s = "ReadSent"
  /\ pc \in {"state", "cur"} => cur_cmd = NoCmd
  /\ pc = "send" => cur_cmd = next_cmd /\ drive = 0
  /\ children # {} /\ ~Sent => Silent(0)
  /\ Sent => /\ drive = 0 /\ selected = 0
             /\ cur_cmd # NoCmd /\ Going(cmd[cur_cmd])
             /\ \/ device[0].op = "none" /\ device[0].err
                \/ /\ device[0].op = "read" /\ ~device[0].err
                   /\ device[0].ready = device[0].intr
                   /\ device[0].left = Left(cmd[cur_cmd])

Control == Types /\ Startup /\ Queued /\ Progress /\ NeverHalts

-----------------------------------------------------------------------------
(* The operators *)

(* A remainder is no more than the number, and less only from the divisor. *)
LEMMA ModFacts ==
  ASSUME NEW n \in Nat, NEW k \in Nat \ {0}
  PROVE  n % k \in Nat /\ n % k < k /\ n % k <= n /\ (n < k => n % k = n)
<1>1. n % k \in 0..(k - 1)  OBVIOUS
<1>2. n < k => n % k = n  OBVIOUS
<1>3. QED  BY <1>1, <1>2

(* A command asks for at least one sector and none too many.                *)
LEMMA CountFacts == ASSUME NEW n \in Nat \ {0} PROVE Count(n) \in 1..n
<1>1. CountRange \in Nat \ {0}  BY ZenonT(30), AtaAssumption
<1>2. n % CountRange \in Nat /\ n % CountRange <= n /\ (n < CountRange => n % CountRange = n)
  BY ZenonT(30), <1>1, ModFacts
<1>3. QED  BY <1>1, <1>2 DEF Count

(* A Cmd after SendDeviceCommand.                                           *)
LEMMA IssuedFacts ==
  ASSUME NEW r \in Cmds, r.sector_count > 0
  PROVE  LET q == Issued(r) IN
         /\ q \in Cmds /\ q.sector_idx = r.sector_idx /\ q.length = r.length /\ q.buf = r.buf
         /\ q.cur_sector = r.cur_sector + Count(r.sector_count)
         /\ q.sector_count = r.sector_count - Count(r.sector_count)
         /\ q.cur_cmd_sector_count = Count(r.sector_count) /\ q.cur_cmd_sector_idx = 0
<1>1. r.sector_count \in Nat /\ r.cur_sector \in Nat  BY ZenonT(30) DEF Cmds
<1>2. Count(r.sector_count) \in 1..r.sector_count  BY <1>1, CountFacts
<1>3. /\ r.cur_sector + Count(r.sector_count) \in Nat /\ 0 \in Nat
      /\ r.sector_count - Count(r.sector_count) \in Nat /\ Count(r.sector_count) \in Nat
  BY <1>1, <1>2
<1>4. Issued(r) \in Cmds  BY ZenonT(30), <1>3 DEF Cmds, Issued
<1>5. QED  BY ZenonT(30), <1>4 DEF Cmds, Issued

(* A Cmd after a sector was moved.                                          *)
LEMMA MovedFacts ==
  ASSUME NEW r \in Cmds, device[selected].lba \in Nat
  PROVE  LET q == Moved(r) IN
         /\ q \in Cmds /\ q.sector_idx = r.sector_idx /\ q.length = r.length
         /\ q.buf = Append(r.buf, device[selected].lba) /\ Len(q.buf) = Len(r.buf) + 1
         /\ q.cur_sector = r.cur_sector /\ q.sector_count = r.sector_count
         /\ q.cur_cmd_sector_count = r.cur_cmd_sector_count
         /\ q.cur_cmd_sector_idx = r.cur_cmd_sector_idx + 1
<1>1. r.buf \in Seq(Nat) /\ r.cur_cmd_sector_idx \in Nat  BY DEF Cmds
<1>2. PICK b : b = Append(r.buf, device[selected].lba)  BY ZenonT(30)
<1>3. b \in Seq(Nat) /\ Len(b) = Len(r.buf) + 1  BY <1>1, <1>2
<1>4. r.cur_cmd_sector_idx + 1 \in Nat  BY <1>1
<1>5. Moved(r) = [r EXCEPT !.cur_cmd_sector_idx = @ + 1, !.buf = b]  BY ZenonT(30), <1>2 DEF Moved
<1>6. Moved(r) \in Cmds  BY ZenonT(30), <1>3, <1>4, <1>5 DEF Cmds
<1>7. QED  BY ZenonT(30), <1>2, <1>3, <1>5, <1>6 DEF Cmds

(* What a device that is there is told by a command.                        *)
Told(op, lba, n) == [op |-> op, lba |-> lba, left |-> n,
                     ready |-> FALSE, err |-> FALSE, intr |-> FALSE]

(* It is asked for just that, and has not answered.                         *)
LEMMA ToldFacts ==
  ASSUME NEW op \in {"identify", "read"}, NEW lba \in Nat, NEW n \in Nat
  PROVE  /\ Told(op, lba, n) \in Devices
         /\ Told(op, lba, n).op = op /\ Told(op, lba, n).lba = lba /\ Told(op, lba, n).left = n
         /\ ~Told(op, lba, n).ready /\ ~Told(op, lba, n).err /\ ~Told(op, lba, n).intr
         /\ Told(op, lba, n).ready = Told(op, lba, n).intr
BY ZenonT(30) DEF Told, Devices

(* A device that is asked for nothing.                                      *)
LEMMA NoOpFacts == NoOp \in Devices /\ NoOp.op = "none" /\ NoOp.left = 0 /\ ~NoOp.intr
<1>1. NoOp.op = "none" /\ NoOp.left = 0 /\ ~NoOp.intr  BY SMTT(30) DEF NoOp
<1>2. 0 \in Nat  OBVIOUS
<1>3. NoOp \in Devices  BY ZenonT(30), <1>2 DEF NoOp, Devices
<1>4. QED  BY ZenonT(30), <1>1, <1>3

(* A device goes on with the next sector, if it has one to read.            *)
LEMMA DataReadFacts ==
  ASSUME NEW r \in Devices
  PROVE  /\ DataRead(r) \in Devices /\ ~DataRead(r).intr
         /\ r.left <= 1 => DataRead(r) = NoOp
         /\ r.left > 1 => /\ DataRead(r).op = r.op /\ DataRead(r).lba = r.lba + 1
                          /\ DataRead(r).left = r.left - 1 /\ DataRead(r).err = r.err
                          /\ ~DataRead(r).ready
<1>1. r.lba + 1 \in Nat /\ r.left \in Nat /\ (r.left > 1 => r.left - 1 \in Nat) /\ 0 \in Nat
  BY DEF Devices
<1>2. DataRead(r) \in Devices  BY ZenonT(30), <1>1 DEF Devices, DataRead, NoOp
<1>3. CASE r.left > 1
  <2>1. DataRead(r) = [r EXCEPT !.lba = @ + 1, !.left = @ - 1, !.ready = FALSE, !.intr = FALSE]
    BY ZenonT(30), <1>3 DEF DataRead
  <2>2. QED  BY <1>1, <1>2, <1>3, <2>1 DEF Devices
<1>4. CASE ~(r.left > 1)  BY ZenonT(30), <1>1, <1>2, <1>4 DEF DataRead, NoOp
<1>5. QED  BY ZenonT(30), <1>3, <1>4

-----------------------------------------------------------------------------
(* Steps of clients keep Control *)

(* A client whose event is set is in no queue.                              *)
LEMMA Elsewhere ==
  ASSUME Control, NEW c \in Clients, done[c]
  PROVE  /\ \A i \in 1..Len(cmds) : cmds[i] # c
         /\ cur_cmd # c /\ (InHandNow => next_cmd # c)
BY ZenonT(30), AtaAssumption DEF Control, Queued

(* ReadAsync puts a fresh Cmd at the end of the queue.                      *)
LEMMA AskControl ==
  ASSUME Control, NEW c \in Clients, NEW i \in Nat, NEW n \in Nat \ {0}, done[c],
         children # {}, ReadAsync(c, i, n), table' = table, entry' \in Nat \ {0},
         volumes' \in SUBSET Volumes, dpc' \notin {"start", "entry"},
         dpc' = "probe" => entry' <= Len(table'.parts)
  PROVE  Control'
<1> DEFINE r == [sector_idx |-> i, cur_sector |-> i, length |-> n, sector_count |-> n,
                 cur_cmd_sector_count |-> 0, cur_cmd_sector_idx |-> 0, buf |-> << >>,
                 error |-> FALSE]
<1>0. Types /\ Startup /\ Queued /\ Progress /\ NeverHalts  BY ZenonT(30) DEF Control
<1>1. r \in Cmds /\ Fresh(r)
  <2>1. r \in Cmds
    <3>1. n \in Nat /\ 0 \in Nat /\ << >> \in Seq(Nat)  OBVIOUS
    <3>2. QED  BY ZenonT(30), <3>1 DEF Cmds
  <2>2. QED  BY <2>1 DEF Fresh
<1>2. /\ cmd' = [cmd EXCEPT ![c] = r] /\ done' = [done EXCEPT ![c] = FALSE]
      /\ cmds' = Append(cmds, c)
      /\ UNCHANGED <<s, drive, children, cur_cmd, pc, next_cmd, attached, selected, device, halted>>
  BY ZenonT(30) DEF ReadAsync, hwvars
<1> HIDE DEF r
<1>3. /\ cmd' \in [Clients -> Cmds] /\ done' \in [Clients -> BOOLEAN]
      /\ cmd'[c] = r /\ ~done'[c]
      /\ \A d \in Clients \ {c} : cmd'[d] = cmd[d] /\ done'[d] = done[d]
  BY ZenonT(30), <1>0, <1>1, <1>2 DEF Types
<1>4. /\ cmds \in Seq(Clients) /\ Len(cmds) \in Nat /\ cmds' \in Seq(Clients)
      /\ Len(cmds') = Len(cmds) + 1
      /\ \A j \in 1..Len(cmds) : cmds'[j] = cmds[j] /\ cmds[j] \in Clients
      /\ cmds'[Len(cmds) + 1] = c
  BY <1>0, <1>2 DEF Types
<1>5. /\ \A j \in 1..Len(cmds) : cmds[j] # c
      /\ cur_cmd # c /\ (InHandNow => next_cmd # c)
  BY ZenonT(30), Elsewhere
<1>6. Types'  BY ZenonT(30), <1>0, <1>2, <1>3, <1>4 DEF Types
<1>7. Startup'  BY ZenonT(30), <1>0, <1>2 DEF Startup, Silent
<1>8. Progress'
  <2>1. Sent => cur_cmd \in Clients \ {c}  BY ZenonT(30), <1>0, <1>5 DEF Progress, Types
  <2>2. Sent => cmd'[cur_cmd] = cmd[cur_cmd]  BY ZenonT(30), <1>3, <2>1
  <2>3. QED  BY ZenonT(30), <1>0, <1>2, <2>2 DEF Progress, Sent, Silent
<1>9. Queued'
  <2>1. ASSUME NEW j \in 1..Len(cmds')
        PROVE  /\ ~done'[cmds'[j]] /\ Fresh(cmd'[cmds'[j]]) /\ cmds'[j] # cur_cmd'
               /\ InHandNow' => cmds'[j] # next_cmd'
    <3>1. CASE j \in 1..Len(cmds)
      <4>1. cmds'[j] = cmds[j] /\ cmds[j] \in Clients \ {c}  BY ZenonT(30), <1>4, <1>5, <3>1
      <4>2. cmd'[cmds'[j]] = cmd[cmds[j]] /\ done'[cmds'[j]] = done[cmds[j]]
        BY ZenonT(30), <1>3, <4>1
      <4>3. QED  BY ZenonT(30), <1>0, <1>2, <3>1, <4>1, <4>2 DEF Queued, InHandNow
    <3>2. CASE j = Len(cmds) + 1
      <4>1. cmds'[j] = c  BY ZenonT(30), <1>4, <3>2
      <4>2. QED  BY ZenonT(30), <1>1, <1>2, <1>3, <1>5, <4>1 DEF InHandNow
    <3>3. QED  BY <1>4, <3>1, <3>2
  <2>2. ASSUME NEW j \in 1..Len(cmds'), NEW k \in 1..Len(cmds'), cmds'[j] = cmds'[k]
        PROVE  j = k
    BY <1>0, <1>4, <1>5, <2>2 DEF Queued
  <2>3. cur_cmd' # NoCmd => ~done'[cur_cmd']
    BY ZenonT(30), <1>0, <1>2, <1>3, <1>5 DEF Queued, Types
  <2>4. InHandNow' => next_cmd' # NoCmd /\ ~done'[next_cmd'] /\ Fresh(cmd'[next_cmd'])
    <3>1. InHandNow => next_cmd \in Clients \ {c}  BY ZenonT(30), <1>0, <1>5 DEF Queued, Types
    <3>2. QED  BY ZenonT(30), <1>0, <1>2, <1>3, <3>1 DEF Queued, InHandNow
  <2>5. QED  BY ZenonT(30), <2>1, <2>2, <2>3, <2>4 DEF Queued
<1>10. QED  BY ZenonT(30), <1>0, <1>2, <1>6, <1>7, <1>8, <1>9 DEF Control, NeverHalts

(* A step of the disk driver that asks for nothing.                         *)
LEMMA DiskOnlyControl ==
  ASSUME Control, UNCHANGED vars, table' = table, entry' \in Nat \ {0},
         volumes' \in SUBSET Volumes, dpc' = "start" => dpc = "start",
         dpc' = "entry" => done[DiskThread],
         children = {} => dpc' = "start", dpc' = "probe" => entry' <= Len(table'.parts)
  PROVE  Control'
<1>1. UNCHANGED <<s, drive, children, cur_cmd, cmd, done, cmds, pc, next_cmd, attached,
                  selected, device, halted>>
  BY ZenonT(30) DEF vars, drvvars, hwvars
<1>2. Types /\ Startup /\ Queued /\ Progress /\ NeverHalts  BY ZenonT(30) DEF Control
<1>3. Types'  BY ZenonT(30), <1>1, <1>2 DEF Types
<1>4. Startup'  BY ZenonT(30), <1>1, <1>2 DEF Startup, Silent
<1>5. Queued'  BY ZenonT(30), <1>1, <1>2 DEF Queued, InHandNow
<1>6. Progress'  BY ZenonT(30), <1>1, <1>2 DEF Progress, Sent, Silent
<1>7. QED  BY ZenonT(30), <1>1, <1>2, <1>3, <1>4, <1>5, <1>6 DEF Control, NeverHalts

-----------------------------------------------------------------------------
(* Steps of the server thread keep Control *)

(* BackgroundProc takes the first of the queue, ...                         *)
LEMMA TakeControl == ASSUME Control, Take, UNCHANGED diskvars PROVE Control'
<1>0. Types /\ Startup /\ Queued /\ Progress /\ NeverHalts  BY ZenonT(30) DEF Control
<1>1. /\ pc = "loop" /\ pc' = "state" /\ cur_cmd = NoCmd /\ s = "Idle" /\ cmds # << >>
      /\ next_cmd' = Head(cmds) /\ cmds' = Tail(cmds)
      /\ UNCHANGED <<s, drive, children, cur_cmd, cmd, done, attached, selected, device, halted>>
      /\ UNCHANGED <<table, dpc, entry, volumes>>
  BY ZenonT(30) DEF Take, drvvars, hwvars, diskvars
<1>2. /\ cmds \in Seq(Clients) /\ Len(cmds) \in Nat \ {0} /\ cmds' \in Seq(Clients)
      /\ Len(cmds') = Len(cmds) - 1
      /\ \A j \in 1..Len(cmds') : cmds'[j] = cmds[j + 1]
      /\ next_cmd' = cmds[1] /\ cmds[1] \in Clients
  BY <1>0, <1>1 DEF Types
<1>3. next_cmd' \in Clients /\ ~done[next_cmd'] /\ Fresh(cmd[next_cmd'])
  BY <1>0, <1>2 DEF Queued
<1>4. children # {}  BY ZenonT(30), <1>0, <1>3 DEF Startup
<1>5. Types'  BY ZenonT(30), <1>0, <1>1, <1>2, <1>3 DEF Types
<1>6. Startup'  BY ZenonT(30), <1>0, <1>1 DEF Startup, Silent
<1>7. Progress'  BY ZenonT(30), <1>0, <1>1, <1>4 DEF Progress, Sent, Silent
<1>8. Queued'
  <2>1. ASSUME NEW j \in 1..Len(cmds')
        PROVE  /\ ~done[cmds'[j]] /\ Fresh(cmd[cmds'[j]]) /\ cmds'[j] # cur_cmd
               /\ cmds'[j] # next_cmd'
    <3>1. j + 1 \in 1..Len(cmds) /\ 1 \in 1..Len(cmds) /\ j + 1 # 1 /\ cmds'[j] = cmds[j + 1]
      BY <1>2, <2>1
    <3>2. QED  BY ZenonT(30), <1>0, <1>2, <3>1 DEF Queued
  <2>2. ASSUME NEW j \in 1..Len(cmds'), NEW k \in 1..Len(cmds'), cmds'[j] = cmds'[k]
        PROVE  j = k
    <3>0. ASSUME NEW i \in 1..Len(cmds')
          PROVE  i + 1 \in 1..Len(cmds) /\ cmds'[i] = cmds[i + 1]
      BY <1>2, <3>0
    <3>1. /\ j + 1 \in 1..Len(cmds) /\ cmds'[j] = cmds[j + 1]
          /\ k + 1 \in 1..Len(cmds) /\ cmds'[k] = cmds[k + 1]
      BY ZenonT(30), <3>0
    <3>2. j + 1 = k + 1  BY ZenonT(30), <1>0, <2>2, <3>1 DEF Queued
    <3>3. QED  BY <3>2
  <2>3. next_cmd' # NoCmd  BY ZenonT(30), <1>3, AtaAssumption
  <2>4. QED  BY ZenonT(30), <1>0, <1>1, <1>3, <2>1, <2>2, <2>3 DEF Queued, InHandNow
<1>9. QED  BY ZenonT(30), <1>0, <1>1, <1>5, <1>6, <1>7, <1>8 DEF Control, NeverHalts

(* ... sets the state, ...                                                  *)
LEMMA SetStateControl == ASSUME Control, SetState, UNCHANGED diskvars PROVE Control'
<1>0. Types /\ Startup /\ Queued /\ Progress /\ NeverHalts  BY ZenonT(30) DEF Control
<1>1. /\ pc = "state" /\ pc' = "cur" /\ s' = "ReadSent"
      /\ UNCHANGED <<drive, children, cur_cmd, cmd, done, cmds, next_cmd, attached,
                     selected, device, halted>>
      /\ UNCHANGED <<table, dpc, entry, volumes>>
  BY ZenonT(30) DEF SetState, hwvars, diskvars
<1>2. next_cmd \in Clients /\ children # {}
  BY ZenonT(30), <1>0, <1>1 DEF Queued, InHandNow, Types, Startup
<1>3. Types'  BY ZenonT(30), <1>0, <1>1 DEF Types
<1>4. Startup'  BY ZenonT(30), <1>0, <1>1, <1>2 DEF Startup, Silent
<1>5. Progress'  BY ZenonT(30), <1>0, <1>1, <1>2 DEF Progress, Sent, Silent
<1>6. Queued'  BY ZenonT(30), <1>0, <1>1 DEF Queued, InHandNow
<1>7. QED  BY ZenonT(30), <1>0, <1>1, <1>3, <1>4, <1>5, <1>6 DEF Control, NeverHalts

(* ... then the command, ...                                                *)
LEMMA SetCommandControl == ASSUME Control, SetCommand, UNCHANGED diskvars PROVE Control'
<1>0. Types /\ Startup /\ Queued /\ Progress /\ NeverHalts  BY ZenonT(30) DEF Control
<1>1. /\ pc = "cur" /\ pc' = "send" /\ cur_cmd' = next_cmd /\ drive' = 0
      /\ UNCHANGED <<s, children, cmd, done, cmds, next_cmd, attached, selected, device, halted>>
      /\ UNCHANGED <<table, dpc, entry, volumes>>
  BY ZenonT(30) DEF SetCommand, hwvars, diskvars
<1>2. next_cmd \in Clients /\ children # {} /\ s = "ReadSent"
  BY ZenonT(30), <1>0, <1>1 DEF Queued, InHandNow, Types, Startup, Progress
<1>3. Types'  BY ZenonT(30), <1>0, <1>1 DEF Types
<1>4. Startup'  BY ZenonT(30), <1>0, <1>1, <1>2 DEF Startup, Silent
<1>5. Progress'  BY ZenonT(30), <1>0, <1>1, <1>2 DEF Progress, Sent, Silent
<1>6. Queued'  BY ZenonT(30), <1>0, <1>1 DEF Queued, InHandNow
<1>7. QED  BY ZenonT(30), <1>0, <1>1, <1>3, <1>4, <1>5, <1>6 DEF Control, NeverHalts

(* A Cmd that is started, with the whole of it or what is left to ask for.  *)
LEMMA Started ==
  ASSUME NEW r \in Cmds, r.sector_count > 0,
         Len(r.buf) + r.sector_count = r.length,
         r.cur_sector + r.sector_count = r.sector_idx + r.length
  PROVE  Going(Issued(r)) /\ Left(Issued(r)) = Count(r.sector_count)
<1>1. /\ Len(r.buf) \in Nat /\ r.sector_count \in Nat \ {0} /\ r.cur_sector \in Nat
      /\ r.sector_idx \in Nat /\ r.length \in Nat
  BY DEF Cmds
<1>2. Count(r.sector_count) \in 1..r.sector_count  BY ZenonT(30), <1>1, CountFacts
<1>3. PICK q \in Cmds : /\ q = Issued(r) /\ Len(q.buf) = Len(r.buf) /\ q.length = r.length
                        /\ q.sector_idx = r.sector_idx
                        /\ q.cur_sector = r.cur_sector + Count(r.sector_count)
                        /\ q.sector_count = r.sector_count - Count(r.sector_count)
                        /\ q.cur_cmd_sector_count = Count(r.sector_count) /\ q.cur_cmd_sector_idx = 0
  BY ZenonT(30), IssuedFacts
<1>4. Left(q) = Count(r.sector_count)  BY <1>1, <1>2, <1>3 DEF Left
<1>5. QED  BY <1>1, <1>2, <1>3, <1>4 DEF Going

(* ... and starts it.                                                       *)
LEMMA SendControl == ASSUME Control, Send, UNCHANGED diskvars PROVE Control'
<1> DEFINE c == next_cmd
           r == cmd[c]
<1>0. Types /\ Startup /\ Queued /\ Progress /\ NeverHalts  BY ZenonT(30) DEF Control
<1>1. /\ pc = "send" /\ pc' = "loop" /\ cmd' = [cmd EXCEPT ![c] = Issued(r)]
      /\ selected' = drive /\ device' = SendDeviceCommand(device, r)
      /\ UNCHANGED <<s, drive, children, cur_cmd, done, cmds, next_cmd, attached, halted>>
      /\ UNCHANGED <<table, dpc, entry, volumes>>
  BY ZenonT(30) DEF Send, diskvars
<1>2. /\ c \in Clients /\ children # {} /\ s = "ReadSent" /\ cur_cmd = c /\ drive = 0
      /\ r \in Cmds /\ Fresh(r) /\ attached[0] # "absent" /\ device \in [{0, 1} -> Devices]
  BY ZenonT(30), <1>0, <1>1 DEF Queued, InHandNow, Types, Startup, Progress
<1> HIDE DEF r, c
<1>3. r.sector_count > 0 /\ r.sector_count \in Nat \ {0} /\ Len(r.buf) + r.sector_count = r.length
      /\ r.cur_sector + r.sector_count = r.sector_idx + r.length /\ r.cur_sector \in Nat
  BY <1>2 DEF Fresh, Cmds
<1>4. Issued(r) \in Cmds /\ Going(Issued(r)) /\ Left(Issued(r)) = Count(r.sector_count)
  BY ZenonT(30), <1>2, <1>3, IssuedFacts, Started
<1>5. Count(r.sector_count) \in Nat /\ r.cur_sector % LbaRange \in Nat
  <2>1. Count(r.sector_count) \in Nat  BY <1>3, CountFacts
  <2>2. r.cur_sector % LbaRange \in Nat  BY ZenonT(30), <1>3, ModFacts, AtaAssumption
  <2>3. QED  BY ZenonT(30), <2>1, <2>2
<1>6. /\ device' \in [{0, 1} -> Devices] /\ device'[1] = device[1]
      /\ device'[0].op = "read" /\ ~device'[0].err
      /\ ~device'[0].ready /\ device'[0].ready = device'[0].intr
      /\ device'[0].left = Count(r.sector_count)
  <2>1. PICK e : e = Told("read", r.cur_sector % LbaRange, Count(r.sector_count))
    BY ZenonT(30)
  <2>2. device' = [device EXCEPT ![0] = e]
    BY ZenonT(30), <1>1, <1>2, <2>1 DEF SendDeviceCommand, Command, Told
  <2>3. /\ e \in Devices /\ e.op = "read" /\ e.left = Count(r.sector_count)
        /\ ~e.err /\ ~e.ready /\ ~e.intr /\ e.ready = e.intr
    BY <1>5, <2>1, ToldFacts
  <2>4. device' \in [{0, 1} -> Devices] /\ device'[1] = device[1] /\ device'[0] = e
    BY <1>2, <2>2, <2>3
  <2>5. QED  BY ZenonT(30), <2>3, <2>4
<1>7. /\ cmd' \in [Clients -> Cmds] /\ cmd'[c] = Issued(r)
      /\ \A d \in Clients \ {c} : cmd'[d] = cmd[d]
  BY ZenonT(30), <1>0, <1>1, <1>2, <1>4 DEF Types
<1>8. Types'  BY ZenonT(30), <1>0, <1>1, <1>6, <1>7 DEF Types
<1>9. Startup'
  <2>1. Silent(1)'  BY ZenonT(30), <1>0, <1>2, <1>6 DEF Startup, Silent
  <2>2. QED  BY ZenonT(30), <1>0, <1>1, <1>2, <2>1 DEF Startup
<1>10. Progress'
  <2>1. cur_cmd' # NoCmd  BY ZenonT(30), <1>1, <1>2, AtaAssumption
  <2>2. Going(cmd'[cur_cmd']) /\ Left(cmd'[cur_cmd']) = Count(r.sector_count)
    BY ZenonT(30), <1>1, <1>2, <1>4, <1>7
  <2>3. QED  BY ZenonT(30), <1>0, <1>1, <1>2, <1>6, <2>1, <2>2 DEF Progress, Sent
<1>11. Queued'
  <2>1. ASSUME NEW j \in 1..Len(cmds)
        PROVE  ~done[cmds[j]] /\ Fresh(cmd'[cmds[j]]) /\ cmds[j] # cur_cmd
    <3>1. /\ ~done[cmds[j]] /\ Fresh(cmd[cmds[j]]) /\ cmds[j] # cur_cmd
      BY ZenonT(30), <1>0 DEF Queued
    <3>2. cmds[j] \in Clients  BY <1>0 DEF Types
    <3>3. QED  BY ZenonT(30), <1>2, <1>7, <3>1, <3>2
  <2>2. ~InHandNow'  BY ZenonT(30), <1>1 DEF InHandNow
  <2>3. QED  BY ZenonT(30), <1>0, <1>1, <2>1, <2>2 DEF Queued
<1>12. QED  BY ZenonT(30), <1>0, <1>1, <1>8, <1>9, <1>10, <1>11 DEF Control, NeverHalts

(* InitServer asks the master who it is, and waits for an answer.           *)
LEMMA InitServerControl == ASSUME Control, InitServer, UNCHANGED diskvars PROVE Control'
<1>0. Types /\ Startup /\ Queued /\ Progress /\ NeverHalts  BY ZenonT(30) DEF Control
<1>1. /\ pc = "init" /\ pc' = "spin" /\ s' = "StartupIdentifySent" /\ drive' = 0 /\ selected' = 0
      /\ device' = Command(device, 0, "identify", 0, 1)
      /\ UNCHANGED <<children, cur_cmd, cmd, done, cmds, next_cmd, attached, halted>>
      /\ UNCHANGED <<table, dpc, entry, volumes>>
  BY ZenonT(30) DEF InitServer, SendIdentify, diskvars
<1>2. /\ device \in [{0, 1} -> Devices] /\ s = "Init" /\ children = {}
      /\ Silent(0) /\ Silent(1) /\ device[0].left <= 1
  BY ZenonT(30), <1>0, <1>1 DEF Types, Startup
<1>3. /\ device' \in [{0, 1} -> Devices] /\ device'[1] = device[1]
      /\ device'[0] = device[0] \/ (/\ device'[0].op = "identify" /\ device'[0].left = 1
                                    /\ ~device'[0].intr)
  <2>1. CASE attached[0] = "absent"
    <3>1. device' = device  BY ZenonT(30), <1>1, <2>1 DEF Command
    <3>2. QED  BY ZenonT(30), <1>2, <3>1
  <2>2. CASE attached[0] # "absent"
    <3>1. PICK e : e = Told("identify", 0, 1)  BY ZenonT(30)
    <3>2. device' = [device EXCEPT ![0] = e]  BY ZenonT(30), <1>1, <2>2, <3>1 DEF Command, Told
    <3>3. e \in Devices /\ e.op = "identify" /\ e.left = 1 /\ ~e.intr  BY <3>1, ToldFacts
    <3>4. device' \in [{0, 1} -> Devices] /\ device'[1] = device[1] /\ device'[0] = e
      BY <1>2, <3>2, <3>3
    <3>5. QED  BY ZenonT(30), <3>3, <3>4
  <2>3. QED  BY ZenonT(30), <2>1, <2>2
<1>4. Types'  BY ZenonT(30), <1>0, <1>1, <1>3 DEF Types
<1>5. Startup'
  <2>1. Silent(1)' /\ ~device'[0].intr  BY ZenonT(30), <1>2, <1>3 DEF Silent
  <2>2. device'[0].op # "read" /\ device'[0].left <= 1
    BY <1>2, <1>3 DEF Silent
  <2>3. QED  BY ZenonT(30), <1>0, <1>1, <1>2, <2>1, <2>2 DEF Startup
<1>6. Progress'  BY ZenonT(30), <1>0, <1>1, <1>2 DEF Progress, Sent, Silent
<1>7. Queued'  BY ZenonT(30), <1>0, <1>1 DEF Queued, InHandNow
<1>8. QED  BY ZenonT(30), <1>0, <1>1, <1>4, <1>5, <1>6, <1>7 DEF Control, NeverHalts

(* MessageLoop is entered when the drives are known.                        *)
LEMMA EnterLoopControl == ASSUME Control, EnterLoop, UNCHANGED diskvars PROVE Control'
<1>0. Types /\ Startup /\ Queued /\ Progress /\ NeverHalts  BY ZenonT(30) DEF Control
<1>1. /\ pc = "spin" /\ pc' = "loop" /\ s = "Idle"
      /\ UNCHANGED <<s, drive, children, cur_cmd, cmd, done, cmds, next_cmd, attached,
                     selected, device, halted>>
      /\ UNCHANGED <<table, dpc, entry, volumes>>
  BY ZenonT(30) DEF EnterLoop, drvvars, hwvars, diskvars
<1>2. Types'  BY ZenonT(30), <1>0, <1>1 DEF Types
<1>3. Startup'  BY ZenonT(30), <1>0, <1>1 DEF Startup, Silent
<1>4. Progress'  BY ZenonT(30), <1>0, <1>1 DEF Progress, Sent, Silent
<1>5. Queued'  BY ZenonT(30), <1>0, <1>1 DEF Queued, InHandNow
<1>6. QED  BY ZenonT(30), <1>0, <1>1, <1>2, <1>3, <1>4, <1>5 DEF Control, NeverHalts

-----------------------------------------------------------------------------
(* The device and the interrupt handler keep Control *)

(* A device that failed.                                                    *)
LEMMA FailedIs ==
  ASSUME NEW e, e = [NoOp EXCEPT !.err = TRUE, !.intr = TRUE]
  PROVE  e = [op |-> "none", lba |-> 0, left |-> 0, ready |-> FALSE, err |-> TRUE, intr |-> TRUE]
BY ZenonT(30) DEF NoOp

(* It has nothing more to do.                                               *)
LEMMA FailedFacts ==
  ASSUME NEW e, e = [op |-> "none", lba |-> 0, left |-> 0, ready |-> FALSE, err |-> TRUE, intr |-> TRUE]
  PROVE  e \in Devices /\ e.op = "none" /\ e.err /\ e.intr /\ e.left <= 1
<1>1. e \in Devices  BY ZenonT(30) DEF Devices
<1>2. QED  BY <1>1

(* A device makes a sector ready, or fails.                                 *)
LEMMA DeviceReadyControl ==
  ASSUME Control, NEW d \in {0, 1}, DeviceReady(d), UNCHANGED diskvars PROVE Control'
<1>0. Types /\ Startup /\ Queued /\ Progress /\ NeverHalts  BY ZenonT(30) DEF Control
<1>1. /\ device[d].op # "none" /\ ~device[d].ready
      /\ device' = [device EXCEPT ![d] =
                      IF Fails(d) THEN [NoOp EXCEPT !.err = TRUE, !.intr = TRUE]
                      ELSE [@ EXCEPT !.ready = TRUE, !.intr = TRUE]]
      /\ UNCHANGED <<s, drive, children, cur_cmd, cmd, done, cmds, pc, next_cmd, attached,
                     selected, halted>>
      /\ UNCHANGED <<table, dpc, entry, volumes>>
  BY ZenonT(30) DEF DeviceReady, drvvars, diskvars
<1>2. device \in [{0, 1} -> Devices] /\ device[d] \in Devices  BY ZenonT(30), <1>0 DEF Types
<1>3. CASE Fails(d)
  <2>1. PICK e : e = [NoOp EXCEPT !.err = TRUE, !.intr = TRUE]  BY ZenonT(30)
  <2>2. e \in Devices /\ e.op = "none" /\ e.err /\ e.intr /\ e.left <= 1
    BY ZenonT(30), <2>1, FailedIs, FailedFacts
  <2>3. device' = [device EXCEPT ![d] = e]  BY ZenonT(30), <1>1, <1>3, <2>1
  <2>4. /\ device' \in [{0, 1} -> Devices] /\ device'[d] = e
        /\ \A b \in {0, 1} : b # d => device'[b] = device[b]
    BY ZenonT(30), <1>2, <2>2, <2>3
  <2>5. Types'  BY ZenonT(30), <1>0, <1>1, <2>4 DEF Types
  <2>6. Startup'  BY ZenonT(30), <1>0, <1>1, <2>2, <2>4 DEF Startup, Silent
  <2>7. Progress'  BY ZenonT(30), <1>0, <1>1, <2>2, <2>4 DEF Startup, Progress, Sent, Silent
  <2>8. Queued'  BY ZenonT(30), <1>0, <1>1 DEF Queued, InHandNow
  <2>9. QED  BY ZenonT(30), <1>0, <1>1, <2>5, <2>6, <2>7, <2>8 DEF Control, NeverHalts
<1>4. CASE ~Fails(d)
  <2>1. PICK e : e = [device[d] EXCEPT !.ready = TRUE, !.intr = TRUE]  BY ZenonT(30)
  <2>2. e \in Devices  BY ZenonT(30), <1>2, <2>1 DEF Devices
  <2>3. /\ e.op = device[d].op /\ e.err = device[d].err /\ e.intr = TRUE /\ e.ready = TRUE
        /\ e.left = device[d].left
    BY ZenonT(30), <1>2, <2>1 DEF Devices
  <2>4. device' = [device EXCEPT ![d] = e]  BY ZenonT(30), <1>1, <1>4, <2>1
  <2>5. /\ device' \in [{0, 1} -> Devices] /\ device'[d] = e
        /\ \A b \in {0, 1} : b # d => device'[b] = device[b]
    BY ZenonT(30), <1>2, <2>2, <2>4
  <2>6. Types'  BY ZenonT(30), <1>0, <1>1, <2>5 DEF Types
  <2>7. s = "StartupIdentifySent" => attached[0] = "ATA"
    BY ZenonT(30), <1>0, <1>1, <1>2, <1>4 DEF Startup, Silent, Fails, Devices
  <2>8. Startup'  BY ZenonT(30), <1>0, <1>1, <2>3, <2>5, <2>7 DEF Startup, Silent
  <2>9. Progress'
    <3>1. CASE d = 0
      <4>1. children = {} \/ Sent  BY ZenonT(30), <1>0, <1>1, <3>1 DEF Progress, Silent
      <4>2. Sent' = Sent  BY ZenonT(30), <1>1 DEF Sent
      <4>3. /\ device'[0].op = device[0].op /\ device'[0].err = device[0].err
            /\ device'[0].ready = device'[0].intr /\ device'[0].left = device[0].left
        BY ZenonT(30), <2>3, <2>5, <3>1
      <4>4. QED  BY ZenonT(30), <1>0, <1>1, <3>1, <4>1, <4>2, <4>3 DEF Progress
    <3>2. CASE d = 1
      <4>1. device'[0] = device[0]  BY <2>5, <3>2
      <4>2. QED  BY ZenonT(30), <1>0, <1>1, <4>1 DEF Progress, Sent, Silent
    <3>3. QED  BY <3>1, <3>2
  <2>10. Queued'  BY ZenonT(30), <1>0, <1>1 DEF Queued, InHandNow
  <2>11. QED  BY ZenonT(30), <1>0, <1>1, <2>6, <2>8, <2>9, <2>10 DEF Control, NeverHalts
<1>5. QED  BY ZenonT(30), <1>3, <1>4

(* The master is known when it answers; without a slave the bus is then     *)
(* silent.                                                                  *)
LEMMA IdentifiedControl ==
  ASSUME MasterAlone, Control, s = "StartupIdentifySent", device[selected].intr, Identified,
         UNCHANGED <<cmds, pc, next_cmd, attached>>, UNCHANGED diskvars
  PROVE  Control'
<1>0. Types /\ Startup /\ Queued /\ Progress /\ NeverHalts  BY ZenonT(30) DEF Control
<1>1. /\ children' = IF device[selected].err THEN children ELSE children \cup {drive}
      /\ s' = "Idle" /\ drive' = 1 /\ selected' = 1
      /\ device' = Command([device EXCEPT ![selected] = DataRead(@)], 1, "identify", 0, 1)
      /\ UNCHANGED <<cur_cmd, cmd, done, halted, cmds, pc, next_cmd, attached>>
      /\ UNCHANGED <<table, dpc, entry, volumes>>
  BY ZenonT(30) DEF Identified, diskvars
<1>2. /\ pc = "spin" /\ drive = 0 /\ selected = 0 /\ Silent(1) /\ device[0].left <= 1
      /\ (~device[0].err => attached[0] = "ATA") /\ children = {}
      /\ device \in [{0, 1} -> Devices] /\ attached \in Attached /\ device[0] \in Devices
  BY ZenonT(30), <1>0 DEF Startup, Types
<1>3. PICK dev : dev = [device EXCEPT ![0] = NoOp]  BY ZenonT(30)
<1>4. device' = Command(dev, 1, "identify", 0, 1)
  <2>1. DataRead(device[0]) = NoOp  BY ZenonT(30), <1>2, DataReadFacts
  <2>2. [device EXCEPT ![0] = DataRead(@)] = dev  BY ZenonT(30), <1>3, <2>1
  <2>3. QED  BY ZenonT(30), <1>1, <1>2, <2>2
<1>5. NoOp \in Devices /\ NoOp.op = "none" /\ ~NoOp.intr  BY ZenonT(30) DEF NoOp, Devices
<1>6. dev \in [{0, 1} -> Devices] /\ dev[0] = NoOp /\ dev[1] = device[1]  BY <1>2, <1>3, <1>5
<1>7. device' \in [{0, 1} -> Devices] /\ device'[0] = NoOp /\ (attached[1] = "absent" => device'[1] = device[1])
  <2>1. CASE attached[1] = "absent"
    <3>1. device' = dev  BY ZenonT(30), <1>4, <2>1 DEF Command
    <3>2. QED  BY ZenonT(30), <1>6, <3>1
  <2>2. CASE attached[1] # "absent"
    <3>1. PICK e : e = Told("identify", 0, 1)  BY ZenonT(30)
    <3>2. device' = [dev EXCEPT ![1] = e]  BY ZenonT(30), <1>4, <2>2, <3>1 DEF Command, Told
    <3>3. e \in Devices  BY ZenonT(30), <3>1, ToldFacts
    <3>4. device' \in [{0, 1} -> Devices] /\ device'[0] = dev[0]  BY <1>6, <3>2, <3>3
    <3>5. QED  BY ZenonT(30), <1>6, <2>2, <3>4
  <2>3. QED  BY ZenonT(30), <2>1, <2>2
<1>8. children' \in SUBSET {0} /\ (children' # {} => attached[0] = "ATA" /\ attached[1] = "absent")
  BY ZenonT(30), <1>1, <1>2 DEF MasterAlone
<1>9. Types'
  <2>1. drive' \in {0, 1} /\ selected' \in {0, 1}  BY ZenonT(30), <1>1
  <2>2. QED  BY ZenonT(30), <1>0, <1>1, <1>7, <1>8, <2>1 DEF Types
<1>10. Silent(0)' /\ (attached[1] = "absent" => Silent(1)')
  BY ZenonT(30), <1>2, <1>5, <1>7 DEF Silent
<1>11. Startup'
  <2>1. children' # {} => attached'[0] # "absent" /\ attached'[1] = "absent" /\ Silent(1)'
    BY ZenonT(30), <1>1, <1>8, <1>10
  <2>2. children' = {} => dpc' = "start" /\ \A c \in Clients : done'[c]
    BY ZenonT(30), <1>0, <1>1, <1>2 DEF Startup
  <2>3. QED  BY ZenonT(30), <1>1, <1>2, <2>1, <2>2 DEF Startup
<1>12. Progress'  BY ZenonT(30), <1>0, <1>1, <1>2, <1>10 DEF Progress, Sent
<1>13. Queued'  BY ZenonT(30), <1>0, <1>1 DEF Queued, InHandNow
<1>14. QED  BY ZenonT(30), <1>0, <1>1, <1>9, <1>11, <1>12, <1>13 DEF Control, NeverHalts

(* An interrupt that nothing waits for changes nothing but its status.      *)
LEMMA UnhandledControl ==
  ASSUME Control, s = "Idle", device[selected].intr, Unhandled,
         UNCHANGED <<cmds, pc, next_cmd, attached>>, UNCHANGED diskvars
  PROVE  Control'
<1>0. Types /\ Startup /\ Queued /\ Progress /\ NeverHalts  BY ZenonT(30) DEF Control
<1>1. /\ device' = [device EXCEPT ![selected] = StatusRead(@)]
      /\ UNCHANGED <<s, drive, children, cur_cmd, cmd, done, cmds, pc, next_cmd, attached,
                     selected, halted>>
      /\ UNCHANGED <<table, dpc, entry, volumes>>
  BY ZenonT(30) DEF Unhandled, drvvars, diskvars
<1>2. device \in [{0, 1} -> Devices] /\ selected \in {0, 1} /\ device[selected] \in Devices
  BY ZenonT(30), <1>0 DEF Types
<1>3. StatusRead(device[selected]) \in Devices  BY ZenonT(30), <1>2 DEF StatusRead, Devices
<1>4. device' \in [{0, 1} -> Devices]  BY ZenonT(30), <1>1, <1>2, <1>3
<1>5. children = {}  BY ZenonT(30), <1>0, <1>2 DEF Startup, Progress, Sent, Silent
<1>6. Types'  BY ZenonT(30), <1>0, <1>1, <1>4 DEF Types
<1>7. Startup'  BY ZenonT(30), <1>0, <1>1, <1>5 DEF Startup
<1>8. Progress'  BY ZenonT(30), <1>0, <1>1, <1>5 DEF Progress, Sent
<1>9. Queued'  BY ZenonT(30), <1>0, <1>1 DEF Queued, InHandNow
<1>10. QED  BY ZenonT(30), <1>0, <1>1, <1>6, <1>7, <1>8, <1>9 DEF Control, NeverHalts

(* The device interrupts only when the driver has a command under way.      *)
LEMMA Awaited ==
  ASSUME Control, s = "ReadSent", device[selected].intr
  PROVE  /\ pc = "loop" /\ drive = 0 /\ selected = 0 /\ children # {}
         /\ attached[0] # "absent" /\ Silent(1)
         /\ cur_cmd \in Clients /\ cur_cmd # NoCmd /\ cmd[cur_cmd] \in Cmds /\ Going(cmd[cur_cmd])
         /\ device \in [{0, 1} -> Devices] /\ device[0] \in Devices /\ device[1] \in Devices
         /\ \/ device[0].op = "none" /\ device[0].err
            \/ /\ device[0].op = "read" /\ ~device[0].err /\ device[0].ready
               /\ device[0].left = Left(cmd[cur_cmd])
<1>0. Types /\ Startup /\ Queued /\ Progress  BY ZenonT(30) DEF Control
<1>1. device \in [{0, 1} -> Devices] /\ selected \in {0, 1}  BY ZenonT(30), <1>0 DEF Types
<1>2. Sent
  <2>1. CASE pc = "loop"  BY ZenonT(30), <2>1 DEF Sent
  <2>2. CASE pc # "loop"
    <3>1. pc \in {"cur", "send"}  BY ZenonT(30), <1>0, <2>2 DEF Startup, Progress
    <3>2. next_cmd \in Clients /\ ~done[next_cmd]
      BY ZenonT(30), <1>0, <3>1 DEF Queued, InHandNow, Types
    <3>3. children # {}  BY ZenonT(30), <1>0, <3>2 DEF Startup
    <3>4. Silent(0) /\ Silent(1)  BY ZenonT(30), <1>0, <2>2, <3>3 DEF Startup, Progress, Sent
    <3>5. QED  BY ZenonT(30), <1>1, <3>4 DEF Silent
  <2>3. QED  BY ZenonT(30), <2>1, <2>2
<1>3. cur_cmd \in Clients  BY ZenonT(30), <1>0, <1>2 DEF Progress, Types
<1>4. children # {}  BY ZenonT(30), <1>0, <1>2, <1>3 DEF Startup, Progress, Queued
<1>5. device[0].intr  BY ZenonT(30), <1>0, <1>2 DEF Progress
<1>6. device[0].op = "read" /\ device[0].ready = device[0].intr => device[0].ready
  BY ZenonT(30), <1>5
<1>7. device[0] \in Devices /\ device[1] \in Devices /\ cmd[cur_cmd] \in Cmds
  BY ZenonT(30), <1>0, <1>1, <1>3 DEF Types
<1>8. QED
  BY ZenonT(30), <1>0, <1>1, <1>2, <1>3, <1>4, <1>5, <1>6, <1>7 DEF Startup, Progress, Sent

(* After an error the driver is idle, with its command still in hand.       *)
LEMMA ReadFailedControl ==
  ASSUME Control, s = "ReadSent", device[selected].intr, device[selected].err, ReadFailed,
         UNCHANGED <<cmds, pc, next_cmd, attached>>, UNCHANGED diskvars
  PROVE  Control'
<1> DEFINE c == cur_cmd
<1>0. Types /\ Startup /\ Queued /\ Progress /\ NeverHalts  BY ZenonT(30) DEF Control
<1>1. /\ cmd' = [cmd EXCEPT ![c].error = TRUE] /\ s' = "Idle"
      /\ device' = [device EXCEPT ![selected] = StatusRead(@)]
      /\ UNCHANGED <<drive, children, cur_cmd, done, cmds, pc, next_cmd, attached, selected, halted>>
      /\ UNCHANGED <<table, dpc, entry, volumes>>
  BY ZenonT(30) DEF ReadFailed, diskvars
<1>2. /\ pc = "loop" /\ selected = 0 /\ children # {} /\ Silent(1)
      /\ c \in Clients /\ c # NoCmd /\ cmd[c] \in Cmds
      /\ device \in [{0, 1} -> Devices] /\ device[0] \in Devices /\ device[0].op = "none"
  BY ZenonT(30), Awaited
<1>3. PICK q : q = [cmd[c] EXCEPT !.error = TRUE]  BY ZenonT(30)
<1>4. q \in Cmds  BY ZenonT(30), <1>2, <1>3 DEF Cmds
<1>5. cmd' = [cmd EXCEPT ![c] = q]  BY ZenonT(30), <1>1, <1>3
<1>6. /\ cmd' \in [Clients -> Cmds]
      /\ \A d \in Clients \ {c} : cmd'[d] = cmd[d]
  BY ZenonT(30), <1>0, <1>2, <1>4, <1>5 DEF Types
<1>7. PICK e : e = StatusRead(device[0])  BY ZenonT(30)
<1>8. e \in Devices  BY ZenonT(30), <1>2, <1>7 DEF StatusRead, Devices
<1>9. e.op = "none" /\ ~e.intr  BY ZenonT(30), <1>2, <1>7 DEF StatusRead, Devices
<1>10. device' = [device EXCEPT ![0] = e]  BY ZenonT(30), <1>1, <1>2, <1>7
<1>11. device' \in [{0, 1} -> Devices] /\ device'[0] = e /\ device'[1] = device[1]
  BY <1>2, <1>8, <1>10
<1>12. Silent(0)' /\ Silent(1)'  BY ZenonT(30), <1>2, <1>9, <1>11 DEF Silent
<1>13. Types'  BY ZenonT(30), <1>0, <1>1, <1>6, <1>11 DEF Types
<1>14. Startup'  BY ZenonT(30), <1>0, <1>1, <1>2, <1>12 DEF Startup
<1>15. Progress'  BY ZenonT(30), <1>0, <1>1, <1>2, <1>12 DEF Progress, Sent
<1>16. Queued'
  <2>1. ASSUME NEW j \in 1..Len(cmds)
        PROVE  ~done[cmds[j]] /\ Fresh(cmd'[cmds[j]]) /\ cmds[j] # cur_cmd
    <3>1. /\ ~done[cmds[j]] /\ Fresh(cmd[cmds[j]]) /\ cmds[j] # cur_cmd
      BY ZenonT(30), <1>0 DEF Queued
    <3>2. cmds[j] \in Clients  BY <1>0 DEF Types
    <3>3. QED  BY ZenonT(30), <1>6, <3>1, <3>2
  <2>2. ~InHandNow'  BY ZenonT(30), <1>1, <1>2 DEF InHandNow
  <2>3. QED  BY ZenonT(30), <1>0, <1>1, <2>1, <2>2 DEF Queued
<1>17. QED  BY ZenonT(30), <1>0, <1>1, <1>13, <1>14, <1>15, <1>16 DEF Control, NeverHalts

(* A sector goes from the device to the buffer.  The device has more for    *)
(* this command, or it is asked for more, or the request is done.           *)
More(c, r) ==
  /\ cmd'[c] = r /\ UNCHANGED <<done, cur_cmd, s>>
  /\ Going(r) /\ device'[0].left = Left(r) /\ device'[0].lba = device[0].lba + 1
Again(c, r) ==
  /\ cmd'[c] = Issued(r) /\ UNCHANGED <<done, cur_cmd, s>>
  /\ Going(Issued(r)) /\ device'[0].left = Left(Issued(r))
  /\ device'[0].lba = r.cur_sector % LbaRange /\ r.cur_sector = r.sector_idx + Len(r.buf)
  /\ r.sector_count > 0
Finished(c, r) ==
  /\ cmd'[c] = r /\ done' = [done EXCEPT ![c] = TRUE] /\ cur_cmd' = NoCmd /\ s' = "Idle"
  /\ Len(r.buf) = r.length /\ device'[0] = NoOp

(* A handler that finds a sector ready copies it, and goes on or finishes.  *)
LEMMA TransferIs ==
  ASSUME Control, s = "ReadSent", device[selected].intr, ~device[selected].err, Transfer
  PROVE  LET c == cur_cmd
             r == Moved(cmd[c]) IN
         /\ r \in Cmds /\ cmd' \in [Clients -> Cmds]
         /\ \A d \in Clients \ {c} : cmd'[d] = cmd[d]
         /\ device' \in [{0, 1} -> Devices] /\ device'[1] = device[1]
         /\ selected' = 0 /\ UNCHANGED <<drive, children, halted>>
         /\ \/ /\ More(c, r) \/ Again(c, r)
               /\ device'[0].op = "read" /\ ~device'[0].err /\ ~device'[0].ready
               /\ device'[0].ready = device'[0].intr
            \/ Finished(c, r)
<1> DEFINE c == cur_cmd
           r0 == cmd[c]
           r == Moved(r0)
           e == DataRead(device[0])
<1>1. /\ drive = 0 /\ selected = 0 /\ attached[0] # "absent"
      /\ c \in Clients /\ r0 \in Cmds /\ Going(r0)
      /\ device \in [{0, 1} -> Devices] /\ device[0] \in Devices
      /\ device[0].op = "read" /\ ~device[0].err /\ device[0].left = Left(r0)
  BY ZenonT(30), Awaited
<1>2. Types  BY ZenonT(30) DEF Control
<1>3. device[0].lba \in Nat /\ device[selected].lba \in Nat  BY ZenonT(30), <1>1 DEF Devices
<1> HIDE DEF r0, c
<1>4. /\ r \in Cmds /\ r.sector_idx = r0.sector_idx /\ r.length = r0.length
      /\ Len(r.buf) = Len(r0.buf) + 1
      /\ r.cur_sector = r0.cur_sector /\ r.sector_count = r0.sector_count
      /\ r.cur_cmd_sector_count = r0.cur_cmd_sector_count
      /\ r.cur_cmd_sector_idx = r0.cur_cmd_sector_idx + 1
  BY ZenonT(30), <1>1, <1>3, MovedFacts
<1>5. /\ e \in Devices /\ ~e.intr
      /\ device[0].left <= 1 => e = NoOp
      /\ device[0].left > 1 => /\ e.op = device[0].op /\ e.lba = device[0].lba + 1
                               /\ e.left = device[0].left - 1 /\ e.err = device[0].err /\ ~e.ready
  BY ZenonT(30), <1>1, DataReadFacts
<1>6. PICK over \in BOOLEAN : over <=> r.cur_cmd_sector_idx = r.cur_cmd_sector_count
  BY ZenonT(30)
<1>7. PICK dev : dev = [device EXCEPT ![0] = e]  BY ZenonT(30)
<1>8. /\ cmd' = [cmd EXCEPT ![c] = IF over /\ r.sector_count # 0 THEN Issued(r) ELSE r]
      /\ IF over /\ r.sector_count = 0
         THEN done' = [done EXCEPT ![c] = TRUE] /\ cur_cmd' = NoCmd /\ s' = "Idle"
         ELSE UNCHANGED <<done, cur_cmd, s>>
      /\ device' = IF over /\ r.sector_count # 0 THEN SendDeviceCommand(dev, r) ELSE dev
      /\ selected' = IF over /\ r.sector_count # 0 THEN drive ELSE selected
      /\ UNCHANGED <<drive, children, halted>>
  BY ZenonT(30), <1>1, <1>6, <1>7 DEF Transfer, r0, c
<1> HIDE DEF r, e
<1>9. selected' = 0 /\ dev \in [{0, 1} -> Devices] /\ dev[0] = e /\ dev[1] = device[1]
  BY <1>1, <1>5, <1>7, <1>8
<1>10. /\ Left(r0) \in Nat \ {0} /\ Left(r) = Left(r0) - 1 /\ (over <=> Left(r0) = 1)
       /\ Len(r.buf) + Left(r) + r.sector_count = r.length
       /\ r.cur_sector + r.sector_count = r.sector_idx + r.length
       /\ r.sector_count \in Nat /\ Len(r.buf) \in Nat /\ r.cur_sector \in Nat
  <2>1. /\ r0.sector_count \in Nat /\ Len(r0.buf) \in Nat /\ r0.cur_sector \in Nat
        /\ r0.sector_idx \in Nat /\ r0.length \in Nat
        /\ r0.cur_cmd_sector_count \in Nat /\ r0.cur_cmd_sector_idx \in Nat
    BY <1>1 DEF Cmds
  <2>2. /\ Left(r0) = r0.cur_cmd_sector_count - r0.cur_cmd_sector_idx
        /\ Left(r) = r0.cur_cmd_sector_count - (r0.cur_cmd_sector_idx + 1)
        /\ Left(r0) > 0 /\ Len(r0.buf) + Left(r0) + r0.sector_count = r0.length
        /\ r0.cur_sector + r0.sector_count = r0.sector_idx + r0.length
    BY ZenonT(30), <1>1, <1>4 DEF Going, Left
  <2>3. /\ Left(r0) \in Nat \ {0} /\ Left(r) = Left(r0) - 1
        /\ r0.cur_cmd_sector_idx + 1 = r0.cur_cmd_sector_count <=> Left(r0) = 1
        /\ (Len(r0.buf) + 1) + Left(r) + r0.sector_count = r0.length
    <3>1. PICK count \in Nat, idx \in Nat, len \in Nat, rest \in Nat, all \in Nat :
               /\ count = r0.cur_cmd_sector_count /\ idx = r0.cur_cmd_sector_idx
               /\ len = Len(r0.buf) /\ rest = r0.sector_count /\ all = r0.length
      BY ZenonT(30), <2>1
    <3>2. count - idx > 0 /\ len + (count - idx) + rest = all  BY ZenonT(30), <2>2, <3>1
    <3>3. /\ count - idx \in Nat \ {0} /\ count - (idx + 1) = (count - idx) - 1
          /\ idx + 1 = count <=> count - idx = 1
          /\ (len + 1) + (count - (idx + 1)) + rest = all
      BY <3>2
    <3>4. QED  BY ZenonT(30), <2>2, <3>1, <3>3
  <2>4. over <=> Left(r0) = 1  BY ZenonT(30), <1>4, <1>6, <2>3
  <2>5. Len(r.buf) + Left(r) + r.sector_count = r.length  BY ZenonT(30), <1>4, <2>3
  <2>6. r.cur_sector + r.sector_count = r.sector_idx + r.length  BY ZenonT(30), <1>4, <2>2
  <2>7. Len(r0.buf) + 1 \in Nat  BY <2>1
  <2>8. r.sector_count \in Nat /\ Len(r.buf) \in Nat /\ r.cur_sector \in Nat
    BY ZenonT(30), <1>4, <2>1, <2>7
  <2>9. QED  BY ZenonT(30), <2>3, <2>4, <2>5, <2>6, <2>8
<1> DEFINE Common(q) ==
             /\ r \in Cmds /\ cmd' \in [Clients -> Cmds]
             /\ cmd'[c] = q /\ \A d \in Clients \ {c} : cmd'[d] = cmd[d]
<1>11. ASSUME NEW q \in Cmds, cmd' = [cmd EXCEPT ![c] = q] PROVE Common(q)
  <2>1. cmd \in [Clients -> Cmds] /\ c \in Clients /\ r \in Cmds
    BY ZenonT(30), <1>1, <1>2, <1>4 DEF Types
  <2>2. QED  BY ZenonT(30), <1>11, <2>1
<1>12. CASE ~over
  <2>1. cmd' = [cmd EXCEPT ![c] = r] /\ device' = dev /\ UNCHANGED <<done, cur_cmd, s>>
    BY ZenonT(30), <1>8, <1>12
  <2>2. Common(r)  BY ZenonT(30), <1>4, <1>11, <2>1
  <2>3. Going(r) /\ Left(r0) > 1 /\ device[0].left > 1  BY <1>1, <1>10, <1>12 DEF Going
  <2>4. /\ e.op = "read" /\ ~e.err /\ ~e.ready /\ e.left = Left(r) /\ e.lba = device[0].lba + 1
        /\ e.ready = e.intr
    BY ZenonT(30), <1>1, <1>5, <1>10, <2>3 DEF Devices
  <2>5. More(c, r)  BY ZenonT(30), <1>9, <2>1, <2>2, <2>3, <2>4 DEF More
  <2>6. QED  BY ZenonT(30), <1>8, <1>9, <2>1, <2>2, <2>4, <2>5 DEF r, r0, c
<1>13. CASE over /\ r.sector_count # 0
  <2>1. /\ cmd' = [cmd EXCEPT ![c] = Issued(r)] /\ device' = SendDeviceCommand(dev, r)
        /\ UNCHANGED <<done, cur_cmd, s>>
    BY ZenonT(30), <1>8, <1>13
  <2>2. /\ r.sector_count > 0 /\ r.sector_count \in Nat \ {0}
        /\ Len(r.buf) + r.sector_count = r.length
    BY <1>10, <1>13
  <2>3. Issued(r) \in Cmds /\ Going(Issued(r)) /\ Left(Issued(r)) = Count(r.sector_count)
    BY ZenonT(30), <1>4, <1>10, <2>2, IssuedFacts, Started
  <2>4. Common(Issued(r))  BY ZenonT(30), <1>11, <2>1, <2>3
  <2>5. Count(r.sector_count) \in Nat  BY <2>2, CountFacts
  <2>6. r.cur_sector % LbaRange \in Nat  BY ZenonT(30), <1>10, ModFacts, AtaAssumption
  <2>7. PICK f : f = Told("read", r.cur_sector % LbaRange, Count(r.sector_count))
    BY ZenonT(30)
  <2>8. device' = [dev EXCEPT ![0] = f]
    BY ZenonT(30), <1>1, <2>1, <2>7 DEF SendDeviceCommand, Command, Told
  <2>9. /\ f \in Devices /\ f.op = "read" /\ f.left = Count(r.sector_count)
        /\ f.lba = r.cur_sector % LbaRange
        /\ ~f.err /\ ~f.ready /\ ~f.intr /\ f.ready = f.intr
    BY <2>5, <2>6, <2>7, ToldFacts
  <2>10. device' \in [{0, 1} -> Devices] /\ device'[1] = device[1] /\ device'[0] = f
    BY <1>9, <2>8, <2>9
  <2>11. r.sector_idx \in Nat /\ r.length \in Nat  BY ZenonT(30), <1>4 DEF Cmds
  <2>12. r.cur_sector = r.sector_idx + Len(r.buf)
    <3>1. /\ r.cur_sector + r.sector_count = r.sector_idx + r.length
          /\ r.cur_sector \in Nat /\ r.sector_count \in Nat /\ Len(r.buf) \in Nat
      BY ZenonT(30), <1>10
    <3>2. PICK cur \in Nat, rest \in Nat, idx \in Nat, all \in Nat, len \in Nat :
               /\ cur = r.cur_sector /\ rest = r.sector_count /\ idx = r.sector_idx
               /\ all = r.length /\ len = Len(r.buf)
      BY ZenonT(30), <2>11, <3>1
    <3>3. cur + rest = idx + all /\ len + rest = all  BY ZenonT(30), <2>2, <3>1, <3>2
    <3>4. cur = idx + len  BY <3>3
    <3>5. QED  BY ZenonT(30), <3>2, <3>4
  <2>13. Again(c, r)  BY ZenonT(30), <2>1, <2>2, <2>3, <2>4, <2>9, <2>10, <2>12 DEF Again
  <2>14. QED  BY ZenonT(30), <1>8, <1>9, <2>4, <2>9, <2>10, <2>13 DEF r, r0, c
<1>14. CASE over /\ r.sector_count = 0
  <2>1. /\ cmd' = [cmd EXCEPT ![c] = r] /\ device' = dev
        /\ done' = [done EXCEPT ![c] = TRUE] /\ cur_cmd' = NoCmd /\ s' = "Idle"
    BY ZenonT(30), <1>8, <1>14
  <2>2. Common(r)  BY ZenonT(30), <1>4, <1>11, <2>1
  <2>3. Len(r.buf) = r.length /\ e = NoOp  BY <1>1, <1>5, <1>10, <1>14
  <2>4. Finished(c, r)  BY ZenonT(30), <1>9, <2>1, <2>2, <2>3 DEF Finished
  <2>5. QED  BY ZenonT(30), <1>8, <1>9, <2>1, <2>2, <2>4 DEF r, r0, c
<1>15. QED  BY ZenonT(30), <1>12, <1>13, <1>14

(* The interrupt handler's part for a sector that is there keeps Control.   *)
LEMMA TransferControl ==
  ASSUME Control, s = "ReadSent", device[selected].intr, ~device[selected].err, Transfer,
         UNCHANGED <<cmds, pc, next_cmd, attached>>, UNCHANGED diskvars
  PROVE  Control'
<1> DEFINE c == cur_cmd
           r == Moved(cmd[c])
<1>0. Types /\ Startup /\ Queued /\ Progress /\ NeverHalts  BY ZenonT(30) DEF Control
<1>1. /\ pc = "loop" /\ drive = 0 /\ selected = 0 /\ children # {} /\ Silent(1)
      /\ c \in Clients /\ c # NoCmd
  BY ZenonT(30), Awaited
<1>2. /\ cmd' \in [Clients -> Cmds] /\ \A d \in Clients \ {c} : cmd'[d] = cmd[d]
      /\ device' \in [{0, 1} -> Devices] /\ device'[1] = device[1]
      /\ selected' = 0 /\ UNCHANGED <<drive, children, halted>>
      /\ \/ /\ More(c, r) \/ Again(c, r)
            /\ device'[0].op = "read" /\ ~device'[0].err /\ device'[0].ready = device'[0].intr
         \/ Finished(c, r)
  BY ZenonT(30), TransferIs
<1>3. UNCHANGED <<table, dpc, entry, volumes, cmds, pc, next_cmd, attached>>
  BY ZenonT(30) DEF diskvars
<1> HIDE DEF c, r
<1>4. Silent(1)'  BY ZenonT(30), <1>1, <1>2 DEF Silent
<1>5. \A j \in 1..Len(cmds) : cmds[j] \in Clients \ {c} /\ ~done[cmds[j]] /\ Fresh(cmd'[cmds[j]])
  <2>1. SUFFICES ASSUME NEW j \in 1..Len(cmds)
                 PROVE  cmds[j] \in Clients \ {c} /\ ~done[cmds[j]] /\ Fresh(cmd'[cmds[j]])
    BY ZenonT(30)
  <2>2. ~done[cmds[j]] /\ Fresh(cmd[cmds[j]]) /\ cmds[j] # c  BY ZenonT(30), <1>0 DEF Queued, c
  <2>3. cmds[j] \in Clients  BY <1>0 DEF Types
  <2>4. QED  BY ZenonT(30), <1>2, <2>2, <2>3
<1>6. ~InHandNow'  BY ZenonT(30), <1>1, <1>3 DEF InHandNow
<1>7. CASE More(c, r) \/ Again(c, r)
  <2>1. /\ UNCHANGED <<done, cur_cmd, s>>
        /\ Going(cmd'[c]) /\ device'[0].left = Left(cmd'[c])
    BY ZenonT(30), <1>7 DEF More, Again
  <2>2. ~Finished(c, r)  BY ZenonT(30), <1>1, <2>1 DEF Finished, c
  <2>3. Types'  BY ZenonT(30), <1>0, <1>2, <1>3, <2>1 DEF Types
  <2>4. Startup'  BY ZenonT(30), <1>0, <1>1, <1>2, <1>3, <1>4, <2>1 DEF Startup
  <2>5. Progress'
    BY ZenonT(30), <1>0, <1>1, <1>2, <1>3, <2>1, <2>2 DEF Progress, Sent, c
  <2>6. Queued'
    BY ZenonT(30), <1>0, <1>3, <1>5, <1>6, <2>1 DEF Queued, c
  <2>7. QED  BY ZenonT(30), <1>0, <1>2, <2>3, <2>4, <2>5, <2>6 DEF Control, NeverHalts
<1>8. CASE Finished(c, r)
  <2>1. /\ done' = [done EXCEPT ![c] = TRUE] /\ cur_cmd' = NoCmd /\ s' = "Idle"
        /\ device'[0] = NoOp
    BY ZenonT(30), <1>8 DEF Finished
  <2>2. /\ done' \in [Clients -> BOOLEAN] /\ done'[c]
        /\ \A d \in Clients \ {c} : done'[d] = done[d]
    BY ZenonT(30), <1>0, <1>1, <2>1 DEF Types
  <2>3. Silent(0)'  BY ZenonT(30), <2>1, NoOpFacts DEF Silent
  <2>4. Types'  BY ZenonT(30), <1>0, <1>2, <1>3, <2>1, <2>2 DEF Types
  <2>5. Startup'  BY ZenonT(30), <1>0, <1>1, <1>2, <1>3, <1>4, <2>1, <2>3 DEF Startup
  <2>6. Progress'
    BY ZenonT(30), <1>0, <1>1, <1>2, <1>3, <2>1, <2>3 DEF Progress, Sent
  <2>7. Queued'
    <3>1. \A j \in 1..Len(cmds) : ~done'[cmds[j]] /\ cmds[j] # NoCmd
      BY ZenonT(30), <1>5, <2>2, AtaAssumption
    <3>2. dpc \in {"start", "entry"} => done'[DiskThread]
      <4>1. SUFFICES done[DiskThread] => done'[DiskThread]
        BY ZenonT(30), <1>0 DEF Queued
      <4>2. DiskThread \in Clients  BY ZenonT(30), DiskAssumption
      <4>3. QED  BY ZenonT(30), <2>2, <4>1, <4>2
    <3>3. QED  BY ZenonT(30), <1>0, <1>3, <1>5, <1>6, <2>1, <3>1, <3>2 DEF Queued
  <2>8. QED  BY ZenonT(30), <1>0, <1>2, <2>4, <2>5, <2>6, <2>7 DEF Control, NeverHalts
<1>9. QED  BY ZenonT(30), <1>2, <1>7, <1>8

-----------------------------------------------------------------------------
(* Control is an invariant *)

(* StateMachine finds a command, and room in its buffer.                    *)
LEMMA IrqIs ==
  ASSUME Control, IrqHandler
  PROVE  /\ device[selected].intr /\ UNCHANGED <<cmds, pc, next_cmd, attached>>
         /\ \/ s = "StartupIdentifySent" /\ Identified
            \/ s = "Idle" /\ Unhandled
            \/ s = "ReadSent" /\ device[selected].err /\ ReadFailed
            \/ s = "ReadSent" /\ ~device[selected].err /\ Transfer
<1>0. Types /\ Startup /\ Progress  BY ZenonT(30) DEF Control
<1>1. device[selected].intr /\ UNCHANGED <<cmds, pc, next_cmd, attached>>
  BY ZenonT(30) DEF IrqHandler
<1>2. s \in {"Init", "StartupIdentifySent", "Idle", "ReadSent"}  BY ZenonT(30), <1>0 DEF Progress
<1>3. s # "Init"
  <2>1. selected \in {0, 1}  BY ZenonT(30), <1>0 DEF Types
  <2>2. QED  BY ZenonT(30), <1>0, <1>1, <2>1 DEF Startup, Silent
<1>4. CASE s = "StartupIdentifySent"
  <2>1. Identified  BY ZenonT(30), <1>4 DEF IrqHandler
  <2>2. QED  BY ZenonT(30), <1>1, <1>4, <2>1
<1>5. CASE s = "Idle"
  <2>1. Unhandled  BY ZenonT(30), <1>5 DEF IrqHandler
  <2>2. QED  BY ZenonT(30), <1>1, <1>5, <2>1
<1>6. CASE s = "ReadSent"
  <2>1. cur_cmd # NoCmd /\ cmd[cur_cmd] \in Cmds /\ Going(cmd[cur_cmd])
    BY ZenonT(30), <1>1, <1>6, Awaited
  <2>2. Len(cmd[cur_cmd].buf) # cmd[cur_cmd].length
    <3>1. PICK r \in Cmds : r = cmd[cur_cmd]  BY ZenonT(30), <2>1
    <3>2. Len(r.buf) \in Nat /\ r.sector_count \in Nat /\ r.length \in Nat
          /\ r.cur_cmd_sector_count \in Nat /\ r.cur_cmd_sector_idx \in Nat
      BY DEF Cmds
    <3>3. Left(r) > 0 /\ Len(r.buf) + Left(r) + r.sector_count = r.length
          /\ Left(r) = r.cur_cmd_sector_count - r.cur_cmd_sector_idx
      BY ZenonT(30), <2>1, <3>1 DEF Going, Left
    <3>4. Len(r.buf) # r.length  BY <3>2, <3>3
    <3>5. QED  BY ZenonT(30), <3>1, <3>4
  <2>3. IF device[selected].err THEN ReadFailed ELSE Transfer
    BY ZenonT(30), <1>6, <2>1, <2>2 DEF IrqHandler
  <2>4. QED  BY ZenonT(30), <1>1, <1>6, <2>3
<1>7. QED  BY ZenonT(30), <1>2, <1>3, <1>4, <1>5, <1>6

(* So does the whole of the interrupt handler, with no slave attached.      *)
LEMMA IrqControl ==
  ASSUME MasterAlone, Control, IrqHandler, UNCHANGED diskvars
  PROVE  Control'
BY ZenonT(30), IrqIs, IdentifiedControl, UnhandledControl, ReadFailedControl, TransferControl

(* What an entry of the table says is of the right type.                    *)
LEMMA EntryFacts ==
  ASSUME table \in Tables, NEW i \in 1..Len(table.parts)
  PROVE  /\ table.parts[i].lba \in Nat /\ table.parts[i].count \in Nat
         /\ table.parts[i].ptype \in STRING /\ Volume(i) \in Volumes
<1>1. table.parts \in Seq([ptype : STRING, lba : Nat, count : Nat])
  BY ZenonT(30), DiskAssumption
<1>2. Len(table.parts) \in Nat /\ table.parts[i] \in [ptype : STRING, lba : Nat, count : Nat]
  <2>1. PICK R, p : R = [ptype : STRING, lba : Nat, count : Nat] /\ p = table.parts
    BY ZenonT(30)
  <2>2. p \in Seq(R) /\ i \in 1..Len(p)  BY ZenonT(30), <1>1, <2>1
  <2>3. Len(p) \in Nat /\ p[i] \in R  BY <2>2
  <2>4. QED  BY ZenonT(30), <2>1, <2>3
<1>3. /\ table.parts[i].lba \in Nat /\ table.parts[i].count \in Nat
      /\ table.parts[i].ptype \in STRING
  BY ZenonT(30), <1>2
<1>4. i \in Nat  BY <1>2
<1>5. QED  BY ZenonT(30), <1>3, <1>4 DEF Volume, Volumes

(* The volume for a drive without a partition table.                        *)
LEMMA WholeFacts == Whole \in Volumes /\ Whole.n = 0 /\ Whole.lba = 0 /\ Whole.len = SectorCount
<1>1. SectorCount \in Nat /\ 0 \in Nat  BY AtaAssumption
<1>2. Whole \in Volumes  BY ZenonT(30), <1>1 DEF Whole, Volumes
<1>3. Whole.n = 0 /\ Whole.lba = 0 /\ Whole.len = SectorCount  BY SMTT(30) DEF Whole
<1>4. QED  BY ZenonT(30), <1>2, <1>3

(* The steps of disk.InitServer.                                            *)
LEMMA DiskServerControl == ASSUME Control, DiskServer PROVE Control'
<1>0. Types /\ Startup /\ Queued  BY ZenonT(30) DEF Control
<1>1. /\ DiskThread \in Clients /\ entry \in Nat \ {0} /\ entry + 1 \in Nat \ {0}
      /\ volumes \in SUBSET Volumes /\ table \in Tables /\ Len(table.parts) \in Nat
      /\ 0 \in Nat /\ 1 \in Nat \ {0}
  BY <1>0, DiskAssumption DEF Types
<1>2. CASE ReadFirst
  <2>1. /\ dpc = "start" /\ children # {} /\ ReadAsync(DiskThread, 0, 1) /\ dpc' = "first"
        /\ UNCHANGED <<table, entry, volumes>>
    BY ZenonT(30), <1>2 DEF ReadFirst
  <2>2. done[DiskThread]  BY ZenonT(30), <1>0, <2>1 DEF Queued
  <2>3. dpc' \notin {"start", "entry"} /\ dpc' # "probe"  BY ZenonT(30), <2>1
  <2>4. QED  BY ZenonT(30), <1>1, <2>1, <2>2, <2>3, AskControl
<1>3. CASE Identify
  <2>1. /\ dpc = "first" /\ done[DiskThread] /\ UNCHANGED vars /\ UNCHANGED <<table, entry>>
        /\ dpc' \in {"entry", "serving"} /\ volumes' \in {volumes, {Whole}}
    BY ZenonT(30), <1>3 DEF Identify
  <2>2. volumes' \in SUBSET Volumes  BY ZenonT(30), <1>1, <2>1, WholeFacts
  <2>3. dpc' # "start" /\ dpc' # "probe" /\ children # {}
    BY ZenonT(30), <1>0, <2>1 DEF Startup
  <2>4. QED  BY ZenonT(30), <1>1, <2>1, <2>2, <2>3, DiskOnlyControl
<1>4. CASE Entry
  <2>1. dpc = "entry" /\ entry <= Len(table.parts) /\ UNCHANGED table
    BY ZenonT(30), <1>4 DEF Entry
  <2>2. done[DiskThread] /\ children # {}
    <3>1. dpc # "start"  BY ZenonT(30), <2>1
    <3>2. QED  BY ZenonT(30), <1>0, <2>1, <3>1 DEF Queued, Startup
  <2>3. \/ UNCHANGED vars /\ entry' \in {entry, entry + 1}
           /\ dpc' \in {"entry", "failed", "serving"} /\ volumes' \in {volumes, {}, {Whole}}
        \/ /\ ReadAsync(DiskThread, table.parts[entry].lba, 1)
           /\ dpc' = "probe" /\ UNCHANGED <<entry, volumes>>
    BY ZenonT(30), <1>4, <2>1 DEF Entry
  <2>4. CASE /\ UNCHANGED vars /\ entry' \in {entry, entry + 1}
             /\ dpc' \in {"entry", "failed", "serving"} /\ volumes' \in {volumes, {}, {Whole}}
    <3>1. volumes' \in SUBSET Volumes /\ entry' \in Nat \ {0}  BY ZenonT(30), <1>1, <2>4, WholeFacts
    <3>2. dpc' # "start" /\ dpc' # "probe"  BY ZenonT(30), <2>4
    <3>3. QED  BY ZenonT(30), <2>1, <2>2, <2>4, <3>1, <3>2, DiskOnlyControl
  <2>5. CASE /\ ReadAsync(DiskThread, table.parts[entry].lba, 1)
             /\ dpc' = "probe" /\ UNCHANGED <<entry, volumes>>
    <3>1. entry \in 1..Len(table.parts)  BY <1>1, <2>1
    <3>2. table.parts[entry].lba \in Nat  BY ZenonT(30), <1>1, <3>1, EntryFacts
    <3>3. dpc' \notin {"start", "entry"}  BY ZenonT(30), <2>5
    <3>4. entry' <= Len(table'.parts)  BY ZenonT(30), <2>1, <2>5
    <3>5. QED  BY ZenonT(30), <1>1, <2>1, <2>2, <2>5, <3>2, <3>3, <3>4, AskControl
  <2>6. QED  BY ZenonT(30), <2>3, <2>4, <2>5
<1>5. CASE AddVolume
  <2>1. /\ dpc = "probe" /\ done[DiskThread] /\ volumes' = volumes \cup {Volume(entry)}
        /\ entry' = entry + 1 /\ dpc' = "entry" /\ UNCHANGED vars /\ UNCHANGED table
    BY ZenonT(30), <1>5 DEF AddVolume
  <2>2. entry \in 1..Len(table.parts)  BY <1>0, <1>1, <2>1 DEF Queued
  <2>3. Volume(entry) \in Volumes  BY ZenonT(30), <1>1, <2>2, EntryFacts
  <2>4. volumes' \in SUBSET Volumes  BY ZenonT(30), <1>1, <2>1, <2>3
  <2>5. dpc' # "start" /\ dpc' # "probe" /\ children # {}  BY ZenonT(30), <1>0, <2>1 DEF Startup
  <2>6. QED  BY ZenonT(30), <1>1, <2>1, <2>4, <2>5, DiskOnlyControl
<1>6. CASE Serve
  <2>1. dpc = "entry" /\ dpc' = "serving" /\ UNCHANGED vars /\ UNCHANGED <<table, entry, volumes>>
    BY ZenonT(30), <1>6 DEF Serve
  <2>2. dpc' \notin {"start", "entry", "probe"} /\ children # {}  BY ZenonT(30), <1>0, <2>1 DEF Startup
  <2>3. QED  BY ZenonT(30), <1>1, <2>1, <2>2, DiskOnlyControl
<1>7. QED  BY ZenonT(30), <1>2, <1>3, <1>4, <1>5, <1>6 DEF DiskServer

(* A client that reads has chosen a sector of the volume.                   *)
LEMMA ClampedFacts ==
  ASSUME NEW v \in Volumes, NEW n \in Nat \ {0}, NEW i \in 0..(v.len - 1)
  PROVE  /\ Clamped(v, i, n) \in Nat \ {0} /\ Clamped(v, i, n) <= n /\ v.lba + i \in Nat
         /\ v.n # 0 => v.lba + i + Clamped(v, i, n) <= v.lba + v.len
<1>1. v.n \in Nat /\ v.lba \in Nat /\ v.len \in Nat  BY ZenonT(30) DEF Volumes
<1>2. QED  BY <1>1 DEF Clamped

(* A request of a client to a volume keeps Control.                         *)
LEMMA ReadControl ==
  ASSUME Control, NEW c \in Clients, NEW v \in volumes, NEW n \in 1..MaxRead,
         NEW i \in 0..(v.len - 1), Read(c, v, i, n)
  PROVE  Control'
<1>0. Types /\ Startup  BY ZenonT(30) DEF Control
<1>1. v \in Volumes /\ n \in Nat \ {0} /\ entry \in Nat \ {0} /\ volumes \in SUBSET Volumes
  BY <1>0, DiskAssumption DEF Types
<1>2. Clamped(v, i, n) \in Nat \ {0} /\ v.lba + i \in Nat  BY ZenonT(30), <1>1, ClampedFacts
<1>3. /\ dpc = "serving" /\ done[c] /\ ReadAsync(c, v.lba + i, Clamped(v, i, n))
      /\ UNCHANGED <<table, dpc, entry, volumes>>
  BY ZenonT(30) DEF Read
<1>4. dpc' \notin {"start", "entry"} /\ dpc' # "probe" /\ children # {}
  BY ZenonT(30), <1>0, <1>3 DEF Startup
<1>5. QED  BY ZenonT(30), <1>1, <1>2, <1>3, <1>4, AskControl

(* The driver starts with nobody in a queue and no command sent.            *)
LEMMA InitControl == Init => Control
<1> DEFINE r0 == [sector_idx |-> 0, cur_sector |-> 0, length |-> 0, sector_count |-> 0,
                  cur_cmd_sector_count |-> 0, cur_cmd_sector_idx |-> 0, buf |-> << >>,
                  error |-> FALSE]
<1>0. HAVE Init
<1>1. r0 \in Cmds
  <2>1. 0 \in Nat /\ << >> \in Seq(Nat)  OBVIOUS
  <2>2. QED  BY ZenonT(30), <2>1 DEF Cmds
<1>2. /\ s = "Init" /\ drive = 0 /\ children = {} /\ cmds = << >> /\ cur_cmd = NoCmd
      /\ cmd = [c \in Clients |-> r0] /\ done = [c \in Clients |-> TRUE]
      /\ pc = "init" /\ next_cmd = NoCmd /\ attached \in Attached /\ selected = 0
      /\ device = [d \in {0, 1} |-> NoOp] /\ halted = FALSE
      /\ table \in Tables /\ dpc = "start" /\ entry = 1 /\ volumes = {}
  BY ZenonT(30), <1>0 DEF Init, AtaInit
<1> HIDE DEF r0
<1>3. /\ device \in [{0, 1} -> Devices] /\ device[0] = NoOp /\ device[1] = NoOp
      /\ cmd \in [Clients -> Cmds] /\ done \in [Clients -> BOOLEAN]
      /\ \A c \in Clients : done[c]
  BY ZenonT(30), <1>1, <1>2, NoOpFacts
<1>4. cmds \in Seq(Clients) /\ Len(cmds) = 0 /\ entry \in Nat \ {0}  BY <1>2
<1>5. Types  BY ZenonT(30), <1>2, <1>3, <1>4 DEF Types
<1>6. Startup
  <2>1. Silent(0) /\ Silent(1)  BY ZenonT(30), <1>3, NoOpFacts DEF Silent
  <2>2. device[0].left <= 1  BY <1>3, NoOpFacts
  <2>3. QED  BY ZenonT(30), <1>2, <1>3, <2>1, <2>2 DEF Startup
<1>7. Queued  BY <1>2, <1>3, <1>4, DiskAssumption DEF Queued, InHandNow
<1>8. Progress  BY ZenonT(30), <1>2 DEF Progress, Sent
<1>9. QED  BY ZenonT(30), <1>2, <1>5, <1>6, <1>7, <1>8 DEF Control, NeverHalts

(* No step of driver, drive, disk server or client breaks Control.          *)
LEMMA NextControl ==
  ASSUME MasterAlone, Control, [Next]_<<vars, diskvars>>
  PROVE  Control'
<1>1. CASE Driver /\ UNCHANGED diskvars
  BY ZenonT(30), <1>1, InitServerControl, EnterLoopControl, TakeControl, SetStateControl,
     SetCommandControl, SendControl DEF Driver
<1>2. CASE Hardware /\ UNCHANGED diskvars
  BY ZenonT(30), <1>2, IrqControl, DeviceReadyControl DEF Hardware
<1>3. CASE DiskServer  BY ZenonT(30), <1>3, DiskServerControl
<1>4. ASSUME NEW c \in Clients \ {DiskThread}, NEW v \in volumes, NEW n \in 1..MaxRead,
             NEW i \in 0..(v.len - 1), Read(c, v, i, n)
      PROVE  Control'
  <2>1. c \in Clients  BY ZenonT(30), <1>4
  <2>2. QED  BY ZenonT(30), <1>4, <2>1, ReadControl
<1>5. CASE UNCHANGED <<vars, diskvars>>
  <2>1. Types /\ Startup /\ Queued /\ Progress /\ NeverHalts  BY ZenonT(30) DEF Control
  <2>2. /\ UNCHANGED <<s, drive, children, cur_cmd, cmd, done, cmds, pc, next_cmd, attached>>
        /\ UNCHANGED <<selected, device, halted, table, dpc, entry, volumes>>
    BY ZenonT(30), <1>5 DEF vars, drvvars, hwvars, diskvars
  <2>3. Types'  BY ZenonT(30), <2>1, <2>2 DEF Types
  <2>4. Startup'  BY ZenonT(30), <2>1, <2>2 DEF Startup, Silent
  <2>5. Queued'  BY ZenonT(30), <2>1, <2>2 DEF Queued, InHandNow
  <2>6. Progress'  BY ZenonT(30), <2>1, <2>2 DEF Progress, Sent, Silent
  <2>7. QED  BY ZenonT(30), <2>1, <2>2, <2>3, <2>4, <2>5, <2>6 DEF Control, NeverHalts
<1>6. CASE Next
  BY ZenonT(30), <1>1, <1>2, <1>3, <1>4, <1>6 DEF Next
<1>7. QED  BY ZenonT(30), <1>5, <1>6

(* With a master that is alone the handler never follows a null pointer nor *)
(* overruns a buffer: whenever the device interrupts in ReadSent, the       *)
(* server's thread has set the command and started it (StateMachine,        *)
(* BackgroundProc).                                                         *)
THEOREM HandlerSafe == MasterAlone /\ Spec => []NeverHalts
<1>1. Init => Control  BY ZenonT(30), InitControl
<1>2. MasterAlone /\ Control /\ [Next]_<<vars, diskvars>> => Control'  BY ZenonT(30), NextControl
<1>3. Control => NeverHalts  BY ZenonT(30) DEF Control
<1>4. CASE MasterAlone
  <2>1. Control /\ [Next]_<<vars, diskvars>> => Control'  BY ZenonT(30), <1>2, <1>4
  <2>2. QED  BY <1>1, <1>3, <2>1, PTL DEF Spec
<1>5. QED  BY ZenonT(30), <1>4

-----------------------------------------------------------------------------
(* The volumes *)

(* While the loop is at an entry, those before it that are used were valid, *)
(* and each of them has its volume.                                         *)
Used == {i \in 1..Len(table.parts) : table.parts[i].ptype # "empty"}
Bad == {i \in Used : table.parts[i].lba + table.parts[i].count > SectorCount}
Gpt == {i \in Used : table.parts[i].ptype = "gpt"}
Before == {i \in Used : i < entry}
Made ==
  /\ table \in Tables /\ entry \in Nat \ {0}
  /\ dpc \in {"start", "first"} => entry = 1 /\ volumes = {}
  /\ dpc \in {"entry", "probe"} =>
       /\ table.kind = "mbr" /\ volumes = {Volume(i) : i \in Before}
       /\ \A i \in Before : i \notin Bad /\ i \notin Gpt
  /\ dpc = "probe" => entry \in Used /\ entry \notin Bad /\ entry \notin Gpt
  /\ dpc = "serving" => volumes = IF table.kind # "mbr" \/ Bad \ Gpt # {} THEN {Whole}
                                  ELSE {Volume(i) : i \in Used}
  /\ dpc = "failed" => /\ \E i \in Gpt : \A j \in Bad \cup Gpt : i <= j
                       /\ volumes = {}

(* A table that fits is valid where its sums, as uints, say so.             *)
LEMMA ValidIs ==
  ASSUME TablesFit, table \in Tables, NEW i \in Used
  PROVE  (table.parts[i].lba + table.parts[i].count) % UintRange <= SectorCount <=> i \notin Bad
<1>1. i \in 1..Len(table.parts) /\ table.parts[i].ptype # "empty"  BY ZenonT(30) DEF Used
<1>2. /\ table.parts[i].lba \in Nat /\ table.parts[i].count \in Nat
  BY ZenonT(30), <1>1, EntryFacts
<1>3. table.parts[i].lba + table.parts[i].count < UintRange  BY ZenonT(30), <1>1 DEF TablesFit
<1>4. PICK k \in Nat : k = table.parts[i].lba + table.parts[i].count  BY <1>2
<1>5. k % UintRange = k
  <2>1. UintRange \in Nat \ {0}  BY ZenonT(30), DiskAssumption
  <2>2. k < UintRange  BY ZenonT(30), <1>3, <1>4
  <2>3. QED  BY ZenonT(30), <2>1, <2>2, ModFacts
<1>6. SectorCount \in Nat  BY AtaAssumption
<1>7. i \notin Bad <=> k <= SectorCount
  <2>1. i \in Bad <=> k > SectorCount  BY ZenonT(30), <1>4 DEF Bad
  <2>2. QED  BY <1>4, <1>6, <2>1
<1>8. QED  BY ZenonT(30), <1>4, <1>5, <1>7

(* Passing over an entry.                                                   *)
LEMMA BeforeNext ==
  ASSUME table' = table, entry \in Nat \ {0}, entry' = entry + 1, table \in Tables
  PROVE  /\ Used' = Used /\ Bad' = Bad /\ Gpt' = Gpt
         /\ Before' = Before \cup (Used \cap {entry})
         /\ \A i : Volume(i)' = Volume(i)
<1>1. Used' = Used /\ \A i : Volume(i)' = Volume(i)  BY ZenonT(30) DEF Used, Volume
<1>2. Bad' = Bad /\ Gpt' = Gpt  BY ZenonT(30), <1>1 DEF Bad, Gpt
<1>3. Used \subseteq Nat
  <2>1. Used \subseteq 1..Len(table.parts)  BY ZenonT(30) DEF Used
  <2>2. QED  BY <2>1
<1>4. Before' = {i \in Used : i < entry + 1}  BY ZenonT(30), <1>1 DEF Before
<1>5. \A i \in Nat : i < entry + 1 <=> i < entry \/ i = entry  OBVIOUS
<1>6. \A i \in Used : i < entry + 1 <=> i < entry \/ i = entry  BY ZenonT(30), <1>3, <1>5
<1>7. Before' = Before \cup (Used \cap {entry})  BY ZenonT(30), <1>4, <1>6 DEF Before
<1>8. QED  BY ZenonT(30), <1>1, <1>2, <1>7

(* The volumes stay right while neither they nor the table change.          *)
LEMMA MadeFrame ==
  ASSUME Made, UNCHANGED <<table, dpc, entry, volumes>>
  PROVE  Made'
<1>1. Used' = Used /\ \A i : Volume(i)' = Volume(i)  BY ZenonT(30) DEF Used, Volume
<1>2. Bad' = Bad /\ Gpt' = Gpt /\ Before' = Before  BY ZenonT(30), <1>1 DEF Bad, Gpt, Before
<1>3. {Volume(i) : i \in Used}' = {Volume(i) : i \in Used}
      /\ {Volume(i) : i \in Before}' = {Volume(i) : i \in Before}
  BY ZenonT(30), <1>1, <1>2
<1>4. QED  BY ZenonT(30), <1>1, <1>2, <1>3 DEF Made, Whole

(* The steps of disk.InitServer make the volumes of the table.              *)
LEMMA DiskServerMade == ASSUME TablesFit, Made, DiskServer PROVE Made'
<1> DEFINE Vols(X) == {Volume(i) : i \in X}
<1>0. /\ table \in Tables /\ entry \in Nat \ {0} /\ Len(table.parts) \in Nat
      /\ entry + 1 \in Nat \ {0}
  BY DiskAssumption DEF Made
<1>1. Used \subseteq 1..Len(table.parts)  BY ZenonT(30) DEF Used
<1>2. table' = table  BY ZenonT(30) DEF DiskServer, ReadFirst, Identify, Entry, AddVolume, Serve
<1>3. Used' = Used /\ Bad' = Bad /\ Gpt' = Gpt /\ \A i : Volume(i)' = Volume(i)
  <2>1. Used' = Used /\ \A i : Volume(i)' = Volume(i)  BY ZenonT(30), <1>2 DEF Used, Volume
  <2>2. Bad' = Bad /\ Gpt' = Gpt  BY ZenonT(30), <1>2, <2>1 DEF Bad, Gpt
  <2>3. QED  BY ZenonT(30), <2>1, <2>2
<1>4. ASSUME NEW X PROVE {Volume(i)' : i \in X} = Vols(X)
  BY ZenonT(30), <1>3
<1>5. CASE ReadFirst
  <2>1. dpc = "start" /\ dpc' = "first" /\ UNCHANGED <<entry, volumes>>
    BY ZenonT(30), <1>5 DEF ReadFirst
  <2>2. entry = 1 /\ volumes = {}  BY ZenonT(30), <2>1 DEF Made
  <2>3. QED  BY ZenonT(30), <1>0, <1>2, <2>1, <2>2 DEF Made
<1>6. CASE Identify
  <2>1. /\ dpc = "first" /\ UNCHANGED entry
        /\ IF table.kind = "mbr" THEN dpc' = "entry" /\ UNCHANGED volumes
           ELSE dpc' = "serving" /\ volumes' = {Whole}
    BY ZenonT(30), <1>6 DEF Identify
  <2>2. entry = 1 /\ volumes = {}  BY ZenonT(30), <2>1 DEF Made
  <2>3. Before' = {}
    <3>1. \A i \in 1..Len(table.parts) : ~(i < 1)  BY <1>0
    <3>2. QED  BY ZenonT(30), <1>1, <1>3, <2>1, <2>2, <3>1 DEF Before
  <2>4. CASE table.kind = "mbr"
    <3>1. dpc' = "entry" /\ volumes' = {}  BY ZenonT(30), <2>1, <2>2, <2>4
    <3>2. volumes' = {Volume(i)' : i \in Before'}  BY ZenonT(30), <2>3, <3>1
    <3>3. dpc' \notin {"start", "first", "probe", "serving", "failed"}  BY ZenonT(30), <3>1
    <3>4. QED  BY ZenonT(30), <1>0, <1>2, <2>1, <2>3, <2>4, <3>2, <3>3 DEF Made
  <2>5. CASE table.kind # "mbr"
    <3>1. dpc' = "serving" /\ volumes' = {Whole}  BY ZenonT(30), <2>1, <2>5
    <3>2. dpc' \notin {"start", "first", "entry", "probe", "failed"}  BY ZenonT(30), <3>1
    <3>3. QED  BY ZenonT(30), <1>0, <1>2, <2>1, <2>5, <3>1, <3>2 DEF Made, Whole
  <2>6. QED  BY ZenonT(30), <2>4, <2>5
<1>7. CASE Entry
  <2> DEFINE e == table.parts[entry]
  <2>1. /\ dpc = "entry" /\ entry <= Len(table.parts)
        /\ IF e.ptype = "empty" THEN entry' = entry + 1 /\ UNCHANGED <<dpc, volumes>>
           ELSE IF e.ptype = "gpt" THEN dpc' = "failed" /\ volumes' = {} /\ UNCHANGED entry
           ELSE IF ~((e.lba + e.count) % UintRange <= SectorCount)
           THEN dpc' = "serving" /\ volumes' = {Whole} /\ UNCHANGED entry
           ELSE dpc' = "probe" /\ UNCHANGED <<entry, volumes>>
    BY ZenonT(30), <1>7 DEF Entry
  <2>2. entry \in 1..Len(table.parts)  BY <1>0, <2>1
  <2>3. /\ table.kind = "mbr" /\ volumes = Vols(Before)
        /\ \A i \in Before : i \notin Bad /\ i \notin Gpt
    BY ZenonT(30), <2>1 DEF Made
  <2>4. CASE e.ptype = "empty"
    <3>1. entry' = entry + 1 /\ UNCHANGED <<dpc, volumes>>  BY ZenonT(30), <2>1, <2>4
    <3>2. entry \notin Used  BY ZenonT(30), <2>4 DEF Used
    <3>3. Before' = Before \cup (Used \cap {entry})  BY ZenonT(30), <1>0, <1>2, <3>1, BeforeNext
    <3>4. Before' = Before  BY ZenonT(30), <3>2, <3>3
    <3>5. volumes' = {Volume(i)' : i \in Before'}  BY ZenonT(30), <1>4, <2>3, <3>1, <3>4
    <3>6. dpc' \notin {"start", "first", "probe", "serving", "failed"}  BY ZenonT(30), <2>1, <3>1
    <3>7. QED  BY ZenonT(30), <1>0, <1>2, <1>3, <2>3, <3>1, <3>4, <3>5, <3>6 DEF Made
  <2>5. CASE e.ptype = "gpt"
    <3>1. e.ptype # "empty"  BY ZenonT(30), <2>5
    <3>2. dpc' = "failed" /\ volumes' = {} /\ UNCHANGED entry  BY ZenonT(30), <2>1, <2>5, <3>1
    <3>3. entry \in Gpt  BY ZenonT(30), <2>2, <2>5, <3>1 DEF Used, Gpt
    <3>4. ASSUME NEW j \in Bad \cup Gpt PROVE entry <= j
      <4>1. j \in Used /\ j \notin Before  BY ZenonT(30), <2>3, <3>4 DEF Bad, Gpt
      <4>2. ~(j < entry)  BY ZenonT(30), <4>1 DEF Before
      <4>3. j \in 1..Len(table.parts)  BY ZenonT(30), <1>1, <4>1
      <4>4. QED  BY <1>0, <4>2, <4>3
    <3>5. dpc' \notin {"start", "first", "entry", "probe", "serving"}  BY ZenonT(30), <3>2
    <3>6. QED  BY ZenonT(30), <1>0, <1>2, <1>3, <3>2, <3>3, <3>4, <3>5 DEF Made
  <2>6. CASE e.ptype # "empty" /\ e.ptype # "gpt"
    <3>1. entry \in Used /\ entry \notin Gpt  BY ZenonT(30), <2>2, <2>6 DEF Used, Gpt
    <3>2. (e.lba + e.count) % UintRange <= SectorCount <=> entry \notin Bad
      BY ZenonT(30), <1>0, <3>1, ValidIs
    <3>3. CASE entry \in Bad
      <4>1. dpc' = "serving" /\ volumes' = {Whole} /\ UNCHANGED entry
        BY ZenonT(30), <2>1, <2>6, <3>2, <3>3
      <4>2. Bad \ Gpt # {}  BY ZenonT(30), <3>1, <3>3
      <4>3. dpc' \notin {"start", "first", "entry", "probe", "failed"}  BY ZenonT(30), <4>1
      <4>4. QED  BY ZenonT(30), <1>0, <1>2, <1>3, <4>1, <4>2, <4>3 DEF Made, Whole
    <3>4. CASE entry \notin Bad
      <4>1. dpc' = "probe" /\ UNCHANGED <<entry, volumes>>
        BY ZenonT(30), <2>1, <2>6, <3>2, <3>4
      <4>2. Before' = Before  BY ZenonT(30), <1>3, <4>1 DEF Before
      <4>3. volumes' = {Volume(i)' : i \in Before'}  BY ZenonT(30), <1>4, <2>3, <4>1, <4>2
      <4>4. dpc' \notin {"start", "first", "serving", "failed"}  BY ZenonT(30), <4>1
      <4>5. QED
        BY ZenonT(30), <1>0, <1>2, <1>3, <2>3, <3>1, <3>4, <4>1, <4>2, <4>3, <4>4 DEF Made
    <3>5. QED  BY ZenonT(30), <3>3, <3>4
  <2>7. QED  BY ZenonT(30), <2>4, <2>5, <2>6
<1>8. CASE AddVolume
  <2>1. /\ dpc = "probe" /\ volumes' = volumes \cup {Volume(entry)}
        /\ entry' = entry + 1 /\ dpc' = "entry"
    BY ZenonT(30), <1>8 DEF AddVolume
  <2>2. /\ table.kind = "mbr" /\ volumes = Vols(Before)
        /\ \A i \in Before : i \notin Bad /\ i \notin Gpt
        /\ entry \in Used /\ entry \notin Bad /\ entry \notin Gpt
    BY ZenonT(30), <2>1 DEF Made
  <2>3. Before' = Before \cup (Used \cap {entry})  BY ZenonT(30), <1>0, <1>2, <2>1, BeforeNext
  <2>4. Before' = Before \cup {entry}  BY ZenonT(30), <2>2, <2>3
  <2>5. volumes' = Vols(Before')  BY ZenonT(30), <2>1, <2>2, <2>4
  <2>6. volumes' = {Volume(i)' : i \in Before'}  BY ZenonT(30), <1>4, <2>5
  <2>7. \A i \in Before' : i \notin Bad /\ i \notin Gpt  BY ZenonT(30), <2>2, <2>4
  <2>8. dpc' \notin {"start", "first", "probe", "serving", "failed"}  BY ZenonT(30), <2>1
  <2>9. QED  BY ZenonT(30), <1>0, <1>2, <1>3, <2>1, <2>2, <2>6, <2>7, <2>8 DEF Made
<1>9. CASE Serve
  <2>1. /\ dpc = "entry" /\ entry > Len(table.parts) /\ dpc' = "serving"
        /\ UNCHANGED <<entry, volumes>>
    BY ZenonT(30), <1>9 DEF Serve
  <2>2. /\ table.kind = "mbr" /\ volumes = Vols(Before)
        /\ \A i \in Before : i \notin Bad /\ i \notin Gpt
    BY ZenonT(30), <2>1 DEF Made
  <2>3. \A i \in 1..Len(table.parts) : i < entry  BY <1>0, <2>1
  <2>4. Before = Used  BY ZenonT(30), <1>1, <2>3 DEF Before
  <2>5. Bad = {}  BY ZenonT(30), <2>2, <2>4 DEF Bad
  <2>6. volumes' = {Volume(i)' : i \in Used'}  BY ZenonT(30), <1>3, <1>4, <2>1, <2>2, <2>4
  <2>7. dpc' \notin {"start", "first", "entry", "probe", "failed"}  BY ZenonT(30), <2>1
  <2>8. QED  BY ZenonT(30), <1>0, <1>2, <1>3, <2>1, <2>2, <2>5, <2>6, <2>7 DEF Made
<1>10. QED  BY ZenonT(30), <1>5, <1>6, <1>7, <1>8, <1>9 DEF DiskServer

(* Only disk.InitServer makes volumes.                                      *)
LEMMA NextMade == ASSUME TablesFit, Made, [Next]_<<vars, diskvars>> PROVE Made'
<1>1. CASE DiskServer  BY ZenonT(30), <1>1, DiskServerMade
<1>2. CASE UNCHANGED <<table, dpc, entry, volumes>>  BY ZenonT(30), <1>2, MadeFrame
<1>3. QED  BY ZenonT(30), <1>1, <1>2 DEF Next, Read, diskvars

(* The volumes that disk.InitServer ends up with are those of the table,    *)
(* the whole drive or none, for any table whose entries end where a uint    *)
(* can tell, and whatever the drive answers and the clients do meanwhile.   *)
THEOREM VolumesAreRight == TablesFit /\ Spec => []VolumesRight
<1>1. Init => Made
  <2>1. Init => table \in Tables /\ entry = 1 /\ dpc = "start" /\ volumes = {}
    BY ZenonT(30) DEF Init
  <2>2. QED  BY <2>1 DEF Made
<1>2. TablesFit /\ Made /\ [Next]_<<vars, diskvars>> => Made'  BY ZenonT(30), NextMade
<1>3. Made => VolumesRight  BY ZenonT(30) DEF Made, VolumesRight, Used, Bad, Gpt
<1>4. CASE TablesFit
  <2>1. Made /\ [Next]_<<vars, diskvars>> => Made'  BY <1>2, <1>4
  <2>2. QED  BY <1>1, <1>3, <2>1, PTL DEF Spec
<1>5. QED  BY <1>4

-----------------------------------------------------------------------------
(* What is read *)

(* Which sectors a request is about and which are in its buffer: it is in   *)
(* its volume, what has come are the sectors from the first on, and what    *)
(* the device has next is the one that follows.                             *)
Fits(v) == v.lba + v.len <= SectorCount /\ (v.n = 0 => v = Whole)
Aimed(v, r) == /\ Fits(v) /\ v.lba <= r.sector_idx
               /\ v.n # 0 => r.sector_idx + r.length <= v.lba + v.len
Filled(r) == /\ r.sector_idx < SectorCount /\ Len(r.buf) <= r.length
             /\ \A i \in 1..Len(r.buf) : /\ r.buf[i] = r.sector_idx + i - 1
                                         /\ r.buf[i] < SectorCount
Coming == Sent /\ device[0].op = "read" =>
            /\ device[0].lba = cmd[cur_cmd].sector_idx + Len(cmd[cur_cmd].buf)
            /\ device[0].ready => Readable(device[0].lba)
Data ==
  /\ \A v \in volumes : Fits(v)
  /\ using \in [Clients -> Volumes]
  /\ \A c \in Clients \ {DiskThread} : Aimed(using[c], cmd[c])
  /\ \A c \in Clients : Filled(cmd[c])
  /\ Coming
  /\ dpc = "probe" => table.parts[entry].lba + table.parts[entry].count <= SectorCount

-----------------------------------------------------------------------------
(* Data is an invariant *)

(* Steps that leave the requests and what has come of them alone.           *)
LEMMA DataFrame ==
  ASSUME Control, Data, UNCHANGED <<table, dpc, entry, volumes, using>>, Coming',
         \A c \in Clients : /\ cmd'[c].sector_idx = cmd[c].sector_idx
                            /\ cmd'[c].length = cmd[c].length /\ cmd'[c].buf = cmd[c].buf
  PROVE  Data'
<1>1. \A v : Fits(v)' = Fits(v)  BY ZenonT(30) DEF Fits, Whole
<1>2. \A c \in Clients : Filled(cmd'[c]) = Filled(cmd[c])  BY ZenonT(30) DEF Filled
<1>3. \A c \in Clients : Aimed(using'[c], cmd'[c]) = Aimed(using[c], cmd[c])
  BY ZenonT(30), <1>1 DEF Aimed
<1>4. \A c \in Clients \ {DiskThread} : c \in Clients  BY ZenonT(30)
<1>5. QED  BY ZenonT(30), <1>1, <1>2, <1>3, <1>4 DEF Data

(* Steps with which no command is with the device.                          *)
LEMMA DataUnsent ==
  ASSUME Control, Data, UNCHANGED <<table, dpc, entry, volumes, using>>, ~Sent', cmd' = cmd
  PROVE  Data'
<1>1. Coming'  BY ZenonT(30) DEF Coming
<1>2. QED  BY ZenonT(30), <1>1, DataFrame

(* The steps of the driver's thread keep what its commands have read.       *)
LEMMA DriverData ==
  ASSUME Control, Data, Driver, UNCHANGED diskvars
  PROVE  Data'
<1>0. Types /\ Startup /\ Queued /\ Progress /\ UNCHANGED <<table, dpc, entry, volumes, using>>
  BY ZenonT(30) DEF Control, diskvars
<1>1. CASE InitServer
  <2>1. s' = "StartupIdentifySent" /\ cmd' = cmd  BY ZenonT(30), <1>1 DEF InitServer, SendIdentify
  <2>2. ~Sent'  BY ZenonT(30), <2>1 DEF Sent
  <2>3. QED  BY ZenonT(30), <1>0, <2>1, <2>2, DataUnsent
<1>2. CASE EnterLoop
  <2>1. s' = "Idle" /\ cmd' = cmd  BY ZenonT(30), <1>2 DEF EnterLoop, drvvars
  <2>2. ~Sent'  BY ZenonT(30), <2>1 DEF Sent
  <2>3. QED  BY ZenonT(30), <1>0, <2>1, <2>2, DataUnsent
<1>3. CASE Take \/ SetState \/ SetCommand
  <2>1. pc' \in {"state", "cur", "send"} /\ cmd' = cmd
    BY ZenonT(30), <1>3 DEF Take, SetState, SetCommand, drvvars
  <2>2. ~Sent'  BY ZenonT(30), <2>1 DEF Sent
  <2>3. QED  BY ZenonT(30), <1>0, <2>1, <2>2, DataUnsent
<1>4. CASE Send
  <2> DEFINE c == next_cmd
             r == cmd[c]
  <2>1. /\ pc = "send" /\ cmd' = [cmd EXCEPT ![c] = Issued(r)]
        /\ device' = SendDeviceCommand(device, r)
        /\ UNCHANGED <<drive, cur_cmd, attached>>
    BY ZenonT(30), <1>4 DEF Send
  <2>2. /\ c \in Clients /\ cur_cmd = c /\ drive = 0 /\ r \in Cmds /\ Fresh(r)
        /\ children # {} /\ attached[0] # "absent" /\ device \in [{0, 1} -> Devices]
        /\ cmd \in [Clients -> Cmds]
    BY ZenonT(30), <1>0, <2>1 DEF Queued, InHandNow, Types, Startup, Progress
  <2>3. Filled(r)  BY ZenonT(30), <2>2 DEF Data
  <2> HIDE DEF r, c
  <2>4. /\ r.sector_count > 0 /\ r.sector_count \in Nat \ {0} /\ r.cur_sector = r.sector_idx
        /\ Len(r.buf) = 0 /\ r.sector_idx \in Nat
    BY <2>2 DEF Fresh, Cmds
  <2>5. /\ Issued(r) \in Cmds /\ Issued(r).sector_idx = r.sector_idx
        /\ Issued(r).length = r.length /\ Issued(r).buf = r.buf
    BY ZenonT(30), <2>2, <2>4, IssuedFacts
  <2>6. r.sector_idx % LbaRange = r.sector_idx
    <3>1. r.sector_idx < SectorCount  BY ZenonT(30), <2>3 DEF Filled
    <3>2. r.sector_idx < LbaRange /\ LbaRange \in Nat \ {0}  BY <2>4, <3>1, AtaAssumption
    <3>3. QED  BY ZenonT(30), <2>4, <3>2, ModFacts
  <2>7. Count(r.sector_count) \in Nat  BY <2>4, CountFacts
  <2>8. PICK e : e = Told("read", r.sector_idx, Count(r.sector_count))  BY ZenonT(30)
  <2>9. device' = [device EXCEPT ![0] = e]
    BY ZenonT(30), <2>1, <2>2, <2>4, <2>6, <2>8 DEF SendDeviceCommand, Command, Told
  <2>10. e \in Devices /\ e.lba = r.sector_idx /\ ~e.ready  BY <2>4, <2>7, <2>8, ToldFacts
  <2>11. device'[0] = e  BY ZenonT(30), <2>2, <2>9, <2>10
  <2>12. cmd'[c] = Issued(r) /\ \A d \in Clients \ {c} : cmd'[d] = cmd[d]
    BY ZenonT(30), <2>1, <2>2, <2>5
  <2>13. r.sector_idx = r.sector_idx + Len(r.buf)  BY <2>4
  <2>14. Coming'
    BY ZenonT(30), <2>1, <2>2, <2>5, <2>10, <2>11, <2>12, <2>13 DEF Coming
  <2>15. \A d \in Clients : /\ cmd'[d].sector_idx = cmd[d].sector_idx
                            /\ cmd'[d].length = cmd[d].length /\ cmd'[d].buf = cmd[d].buf
    BY ZenonT(30), <2>5, <2>12 DEF r
  <2>16. QED  BY ZenonT(30), <1>0, <2>14, <2>15, DataFrame
<1>5. QED  BY ZenonT(30), <1>1, <1>2, <1>3, <1>4 DEF Driver

(* A sector that is ready is one that can be read.                          *)
LEMMA DeviceReadyData ==
  ASSUME Control, Data, NEW d \in {0, 1}, DeviceReady(d), UNCHANGED diskvars
  PROVE  Data'
<1>0. Types /\ Startup /\ Queued /\ Progress /\ UNCHANGED <<table, dpc, entry, volumes, using>>
  BY ZenonT(30) DEF Control, diskvars
<1>1. /\ device[d].op # "none"
      /\ device' = [device EXCEPT ![d] =
                      IF Fails(d) THEN [NoOp EXCEPT !.err = TRUE, !.intr = TRUE]
                      ELSE [@ EXCEPT !.ready = TRUE, !.intr = TRUE]]
      /\ UNCHANGED <<s, cur_cmd, cmd, pc>>
  BY ZenonT(30) DEF DeviceReady, drvvars
<1>2. device \in [{0, 1} -> Devices] /\ device[d] \in Devices  BY ZenonT(30), <1>0 DEF Types
<1>3. PICK e : e = IF Fails(d) THEN [NoOp EXCEPT !.err = TRUE, !.intr = TRUE]
                   ELSE [device[d] EXCEPT !.ready = TRUE, !.intr = TRUE]
  BY ZenonT(30)
<1>4. device' = [device EXCEPT ![d] = e]  BY ZenonT(30), <1>1, <1>3
<1>5. device'[d] = e /\ \A b \in {0, 1} \ {d} : device'[b] = device[b]  BY ZenonT(30), <1>2, <1>4
<1>6. e.op = "read" => e.op = device[d].op /\ e.lba = device[d].lba /\ ~Fails(d)
  <2>1. CASE Fails(d)
    <3>1. e.op = "none"  BY ZenonT(30), <1>3, <2>1, FailedIs, FailedFacts
    <3>2. QED  BY ZenonT(30), <3>1
  <2>2. CASE ~Fails(d)
    <3>1. e = [device[d] EXCEPT !.ready = TRUE, !.intr = TRUE]  BY ZenonT(30), <1>3, <2>2
    <3>2. e.op = device[d].op /\ e.lba = device[d].lba  BY ZenonT(30), <1>2, <3>1 DEF Devices
    <3>3. QED  BY ZenonT(30), <2>2, <3>2
  <2>3. QED  BY ZenonT(30), <2>1, <2>2
<1>7. Coming'
  <2>1. SUFFICES ASSUME Sent, device'[0].op = "read"
                 PROVE  /\ device'[0].lba = cmd[cur_cmd].sector_idx + Len(cmd[cur_cmd].buf)
                        /\ device'[0].ready => Readable(device'[0].lba)
    BY ZenonT(30), <1>1 DEF Coming, Sent, Readable
  <2>2. CASE d = 0
    <3>1. device[0].op = "read" /\ device'[0].lba = device[0].lba /\ ~Fails(0)
      BY ZenonT(30), <1>5, <1>6, <2>1, <2>2
    <3>2. QED  BY ZenonT(30), <2>1, <3>1 DEF Data, Coming, Fails
  <2>3. CASE d # 0
    <3>1. device'[0] = device[0]  BY ZenonT(30), <1>5, <2>3
    <3>2. QED  BY ZenonT(30), <2>1, <3>1 DEF Data, Coming
  <2>4. QED  BY ZenonT(30), <2>2, <2>3
<1>8. QED  BY ZenonT(30), <1>0, <1>1, <1>7, DataFrame

(* The sector that is moved is the one that follows those in the buffer.    *)
LEMMA MovedFilled ==
  ASSUME NEW r \in Cmds, Filled(r), Going(r), device[selected].lba \in Nat,
         device[selected].lba = r.sector_idx + Len(r.buf), Readable(device[selected].lba)
  PROVE  /\ Filled(Moved(r)) /\ Moved(r).sector_idx + Len(Moved(r).buf) <= SectorCount
         /\ device[selected].lba + 1 = Moved(r).sector_idx + Len(Moved(r).buf)
<1>1. PICK lba \in Nat : lba = device[selected].lba  BY ZenonT(30)
<1>2. PICK q \in Cmds : /\ q = Moved(r) /\ q.sector_idx = r.sector_idx /\ q.length = r.length
                        /\ q.buf = Append(r.buf, lba) /\ Len(q.buf) = Len(r.buf) + 1
  BY ZenonT(30), <1>1, MovedFacts
<1>3. /\ r.buf \in Seq(Nat) /\ Len(r.buf) \in Nat /\ r.length \in Nat /\ r.sector_idx \in Nat
      /\ r.sector_count \in Nat /\ r.cur_cmd_sector_count \in Nat /\ r.cur_cmd_sector_idx \in Nat
      /\ SectorCount \in Nat
  BY AtaAssumption DEF Cmds
<1>4. lba < SectorCount /\ lba = r.sector_idx + Len(r.buf)  BY ZenonT(30), <1>1 DEF Readable
<1>5. Len(r.buf) < r.length
  <2>1. /\ Left(r) > 0 /\ Len(r.buf) + Left(r) + r.sector_count = r.length
        /\ Left(r) = r.cur_cmd_sector_count - r.cur_cmd_sector_idx
    BY ZenonT(30) DEF Going, Left
  <2>2. QED  BY <1>3, <2>1
<1>6. ASSUME NEW i \in 1..Len(q.buf)
      PROVE  q.buf[i] = q.sector_idx + i - 1 /\ q.buf[i] < SectorCount
  <2>1. CASE i \in 1..Len(r.buf)
    <3>1. r.buf[i] = r.sector_idx + i - 1 /\ r.buf[i] < SectorCount  BY ZenonT(30), <2>1 DEF Filled
    <3>2. q.buf[i] = r.buf[i]  BY <1>2, <1>3, <2>1
    <3>3. QED  BY ZenonT(30), <1>2, <3>1, <3>2
  <2>2. CASE i = Len(r.buf) + 1
    <3>1. q.buf[i] = lba  BY <1>2, <1>3, <2>2
    <3>2. lba = r.sector_idx + i - 1  BY <1>3, <1>4, <2>2
    <3>3. QED  BY ZenonT(30), <1>2, <1>4, <3>1, <3>2
  <2>3. QED  BY <1>2, <1>3, <2>1, <2>2
<1>7. q.sector_idx < SectorCount  BY ZenonT(30), <1>2 DEF Filled
<1>8. Len(q.buf) <= q.length /\ q.sector_idx + Len(q.buf) <= SectorCount
      /\ lba + 1 = q.sector_idx + Len(q.buf)
  <2>1. /\ Len(r.buf) + 1 <= r.length /\ r.sector_idx + (Len(r.buf) + 1) <= SectorCount
        /\ lba + 1 = r.sector_idx + (Len(r.buf) + 1)
    BY <1>3, <1>4, <1>5
  <2>2. QED  BY ZenonT(30), <1>2, <2>1
<1>9. Filled(q)  BY ZenonT(30), <1>6, <1>7, <1>8 DEF Filled
<1>10. QED  BY ZenonT(30), <1>1, <1>2, <1>8, <1>9

(* The sector a handler copies is the next one of the command in hand.      *)
LEMMA TransferData ==
  ASSUME Control, Data, s = "ReadSent", device[selected].intr, ~device[selected].err, Transfer,
         UNCHANGED pc, UNCHANGED <<table, dpc, entry, volumes, using>>
  PROVE  Data'
<1> DEFINE c == cur_cmd
           r == Moved(cmd[c])
<1>1. /\ pc = "loop" /\ selected = 0 /\ c \in Clients /\ c # NoCmd
      /\ cmd[c] \in Cmds /\ Going(cmd[c]) /\ device[0] \in Devices
      /\ device[0].op = "read" /\ device[0].ready
  BY ZenonT(30), Awaited
<1>2. /\ r \in Cmds /\ cmd' \in [Clients -> Cmds] /\ \A d \in Clients \ {c} : cmd'[d] = cmd[d]
      /\ \/ More(c, r) /\ ~device'[0].ready
         \/ Again(c, r) /\ ~device'[0].ready
         \/ Finished(c, r)
  BY ZenonT(30), TransferIs
<1>3. /\ Filled(r) /\ r.sector_idx + Len(r.buf) <= SectorCount
      /\ device[0].lba + 1 = r.sector_idx + Len(r.buf)
  <2>1. device[selected].lba \in Nat  BY ZenonT(30), <1>1 DEF Devices
  <2>2. Sent  BY ZenonT(30), <1>1 DEF Sent
  <2>3. /\ Filled(cmd[c]) /\ Readable(device[selected].lba)
        /\ device[selected].lba = cmd[c].sector_idx + Len(cmd[c].buf)
    BY ZenonT(30), <1>1, <2>2 DEF Data, Coming
  <2>4. PICK q \in Cmds : q = cmd[c]  BY ZenonT(30), <1>1
  <2>5. /\ Filled(Moved(q)) /\ Moved(q).sector_idx + Len(Moved(q).buf) <= SectorCount
        /\ device[selected].lba + 1 = Moved(q).sector_idx + Len(Moved(q).buf)
    BY ZenonT(30), <1>1, <2>1, <2>3, <2>4, MovedFilled
  <2>6. QED  BY ZenonT(30), <1>1, <2>4, <2>5
<1>4. r.sector_idx = cmd[c].sector_idx /\ r.length = cmd[c].length
  <2>1. device[selected].lba \in Nat  BY <1>1 DEF Devices
  <2>2. QED  BY ZenonT(30), <1>1, <2>1, MovedFacts
<1> HIDE DEF c, r
<1>5. /\ cmd'[c].sector_idx = r.sector_idx /\ cmd'[c].length = r.length /\ cmd'[c].buf = r.buf
      /\ Coming'
  <2>1. CASE More(c, r) /\ ~device'[0].ready
    <3>1. /\ cmd'[c] = r /\ cur_cmd' = c /\ device'[0].lba = device[0].lba + 1
      BY ZenonT(30), <2>1 DEF More, c
    <3>2. QED  BY ZenonT(30), <1>3, <2>1, <3>1 DEF Coming
  <2>2. CASE Again(c, r) /\ ~device'[0].ready
    <3>1. /\ cmd'[c] = Issued(r) /\ cur_cmd' = c /\ r.sector_count > 0
          /\ device'[0].lba = r.cur_sector % LbaRange /\ r.cur_sector = r.sector_idx + Len(r.buf)
      BY ZenonT(30), <2>2 DEF Again, c
    <3>2. /\ Issued(r).sector_idx = r.sector_idx /\ Issued(r).length = r.length
          /\ Issued(r).buf = r.buf
      BY ZenonT(30), <1>2, <3>1, IssuedFacts
    <3>3. r.cur_sector % LbaRange = r.cur_sector
      <4>1. r.cur_sector \in Nat  BY ZenonT(30), <1>2 DEF Cmds
      <4>2. r.cur_sector <= SectorCount  BY ZenonT(30), <1>3, <3>1
      <4>3. LbaRange \in Nat \ {0} /\ r.cur_sector < LbaRange  BY <4>1, <4>2, AtaAssumption
      <4>4. QED  BY ZenonT(30), <4>1, <4>3, ModFacts
    <3>4. QED  BY ZenonT(30), <2>2, <3>1, <3>2, <3>3 DEF Coming
  <2>3. CASE Finished(c, r)
    <3>1. cmd'[c] = r /\ s' = "Idle"  BY ZenonT(30), <2>3 DEF Finished
    <3>2. ~Sent'  BY ZenonT(30), <3>1 DEF Sent
    <3>3. QED  BY ZenonT(30), <3>1, <3>2 DEF Coming
  <2>4. QED  BY ZenonT(30), <1>2, <2>1, <2>2, <2>3
<1>6. Filled(cmd'[c])  BY ZenonT(30), <1>3, <1>5 DEF Filled
<1>7. c # DiskThread => Aimed(using[c], cmd'[c])
  <2>1. c # DiskThread => Aimed(using[c], cmd[c])  BY ZenonT(30), <1>1 DEF Data
  <2>2. QED  BY ZenonT(30), <1>4, <1>5, <2>1 DEF Aimed
<1>8. \A d \in Clients : Filled(cmd'[d])
  BY ZenonT(30), <1>2, <1>6 DEF Data
<1>9. \A d \in Clients \ {DiskThread} : Aimed(using[d], cmd'[d])
  BY ZenonT(30), <1>2, <1>7 DEF Data
<1>10. QED  BY ZenonT(30), <1>5, <1>8, <1>9 DEF Data, Aimed, Fits, Whole

(* Each part of the interrupt handler keeps Data.                           *)
LEMMA IrqData ==
  ASSUME Control, Data, IrqHandler, UNCHANGED diskvars
  PROVE  Data'
<1>0. Types /\ UNCHANGED <<table, dpc, entry, volumes, using>>
  BY ZenonT(30) DEF Control, diskvars
<1>1. /\ device[selected].intr /\ UNCHANGED <<cmds, pc, next_cmd, attached>>
      /\ \/ s = "StartupIdentifySent" /\ Identified
         \/ s = "Idle" /\ Unhandled
         \/ s = "ReadSent" /\ device[selected].err /\ ReadFailed
         \/ s = "ReadSent" /\ ~device[selected].err /\ Transfer
  BY ZenonT(30), IrqIs
<1>2. CASE Identified \/ (s = "Idle" /\ Unhandled)
  <2>1. s' = "Idle" /\ cmd' = cmd  BY ZenonT(30), <1>2 DEF Identified, Unhandled, drvvars
  <2>2. ~Sent'  BY <2>1 DEF Sent
  <2>3. QED  BY ZenonT(30), <1>0, <2>1, <2>2, DataUnsent
<1>3. CASE s = "ReadSent" /\ ReadFailed
  <2>1. s' = "Idle" /\ cmd' = [cmd EXCEPT ![cur_cmd].error = TRUE]
    BY ZenonT(30), <1>3 DEF ReadFailed
  <2>2. Coming'
    <3>1. ~Sent'  BY ZenonT(30), <2>1 DEF Sent
    <3>2. QED  BY ZenonT(30), <3>1 DEF Coming
  <2>3. cur_cmd \in Clients /\ cmd[cur_cmd] \in Cmds  BY ZenonT(30), <1>1, <1>3, Awaited
  <2>4. PICK q : q = [cmd[cur_cmd] EXCEPT !.error = TRUE]  BY ZenonT(30)
  <2>5. q \in Cmds /\ q.sector_idx = cmd[cur_cmd].sector_idx
        /\ q.length = cmd[cur_cmd].length /\ q.buf = cmd[cur_cmd].buf
    <3>1. q \in Cmds  BY ZenonT(30), <2>3, <2>4 DEF Cmds
    <3>2. QED  BY ZenonT(30), <2>3, <2>4, <3>1 DEF Cmds
  <2>6. cmd' = [cmd EXCEPT ![cur_cmd] = q]  BY ZenonT(30), <2>1, <2>4
  <2>7. cmd'[cur_cmd] = q /\ \A d \in Clients \ {cur_cmd} : cmd'[d] = cmd[d]
    BY ZenonT(30), <1>0, <2>3, <2>5, <2>6 DEF Types
  <2>8. \A d \in Clients : /\ cmd'[d].sector_idx = cmd[d].sector_idx
                           /\ cmd'[d].length = cmd[d].length /\ cmd'[d].buf = cmd[d].buf
    BY ZenonT(30), <2>5, <2>7
  <2>9. QED  BY ZenonT(30), <1>0, <2>2, <2>8, DataFrame
<1>4. CASE s = "ReadSent" /\ ~device[selected].err /\ Transfer
  BY ZenonT(30), <1>0, <1>1, <1>4, TransferData
<1>5. QED  BY ZenonT(30), <1>1, <1>2, <1>3, <1>4

(* A request that is made has nothing in its buffer yet.                    *)
LEMMA AskData ==
  ASSUME Control, Data, NEW c \in Clients, NEW i \in Nat, NEW n \in Nat \ {0}, done[c],
         ReadAsync(c, i, n), i < SectorCount, UNCHANGED volumes,
         using' \in [Clients -> Volumes],
         \A d \in Clients \ {c} : using'[d] = using[d],
         c # DiskThread => /\ Fits(using'[c]) /\ using'[c].lba <= i
                           /\ using'[c].n # 0 => i + n <= using'[c].lba + using'[c].len,
         dpc' = "probe" => table'.parts[entry'].lba + table'.parts[entry'].count <= SectorCount
  PROVE  Data'
<1> DEFINE r == [sector_idx |-> i, cur_sector |-> i, length |-> n, sector_count |-> n,
                 cur_cmd_sector_count |-> 0, cur_cmd_sector_idx |-> 0, buf |-> << >>,
                 error |-> FALSE]
<1>0. Types /\ Queued /\ Progress  BY ZenonT(30) DEF Control
<1>1. r.sector_idx = i /\ r.length = n /\ r.buf = << >> /\ Len(r.buf) = 0  OBVIOUS
<1>2. /\ cmd' = [cmd EXCEPT ![c] = r]
      /\ UNCHANGED <<s, cur_cmd, pc, selected, device>>
  BY ZenonT(30) DEF ReadAsync, hwvars
<1> HIDE DEF r
<1>3. cmd'[c] = r /\ \A d \in Clients \ {c} : cmd'[d] = cmd[d]
  BY ZenonT(30), <1>0, <1>2 DEF Types
<1>4. Filled(r)
  <2>1. 0 <= n /\ 1..0 = {}  OBVIOUS
  <2>2. QED  BY ZenonT(30), <1>1, <2>1 DEF Filled
<1>5. c # DiskThread => Aimed(using'[c], r)  BY ZenonT(30), <1>1 DEF Aimed
<1>6. \A d \in Clients : Filled(cmd'[d])  BY ZenonT(30), <1>3, <1>4 DEF Data
<1>7. \A d \in Clients \ {DiskThread} : Aimed(using'[d], cmd'[d])
  BY ZenonT(30), <1>3, <1>5 DEF Data
<1>8. Coming'
  <2>1. SUFFICES ASSUME Sent PROVE Coming'  BY ZenonT(30), <1>2 DEF Coming, Sent
  <2>2. cur_cmd \in Clients \ {c}
    <3>1. cur_cmd # c  BY ZenonT(30), Elsewhere
    <3>2. QED  BY ZenonT(30), <1>0, <2>1, <3>1 DEF Progress, Types
  <2>3. cmd'[cur_cmd] = cmd[cur_cmd]  BY ZenonT(30), <1>3, <2>2
  <2>4. QED  BY ZenonT(30), <1>2, <2>3 DEF Data, Coming, Sent, Readable
<1>9. QED  BY ZenonT(30), <1>6, <1>7, <1>8 DEF Data, Aimed, Fits, Whole

(* A step of the disk driver that asks for nothing.                         *)
LEMMA DiskOnlyData ==
  ASSUME Data, UNCHANGED vars, UNCHANGED using, \A v \in volumes' : Fits(v), dpc' # "probe"
  PROVE  Data'
<1>1. UNCHANGED <<s, cur_cmd, cmd, pc, device>>  BY ZenonT(30) DEF vars, drvvars, hwvars
<1>2. Coming'  BY ZenonT(30), <1>1 DEF Data, Coming, Sent, Readable
<1>3. QED  BY ZenonT(30), <1>1, <1>2 DEF Data, Aimed, Filled, Fits, Whole

(* The volume of the whole drive ends where the drive does.                 *)
LEMMA WholeFits == Fits(Whole)
<1>1. SectorCount \in Nat  BY AtaAssumption
<1>2. 0 + SectorCount <= SectorCount  BY <1>1
<1>3. QED  BY ZenonT(30), <1>2, WholeFacts DEF Fits

(* The first sector of a partition that is valid is one of the drive's.     *)
LEMMA EntryAsks ==
  ASSUME TablesFit, table \in Tables, NEW i \in 1..Len(table.parts),
         table.parts[i].ptype # "empty",
         (table.parts[i].lba + table.parts[i].count) % UintRange <= SectorCount
  PROVE  /\ table.parts[i].lba \in Nat /\ table.parts[i].lba < SectorCount
         /\ table.parts[i].lba + table.parts[i].count <= SectorCount
<1> DEFINE e == table.parts[i]
<1>1. e.lba \in Nat /\ e.count \in Nat  BY ZenonT(30), EntryFacts
<1>2. i \in Used  BY ZenonT(30) DEF Used
<1>3. i \notin Bad  BY ZenonT(30), <1>2, ValidIs
<1>4. PICK a \in Nat, b \in Nat : a = e.lba /\ b = e.count  BY ZenonT(30), <1>1
<1>5. ~(a + b > SectorCount)  BY ZenonT(30), <1>2, <1>3, <1>4 DEF Bad
<1>6. b > 0  BY ZenonT(30), <1>4 DEF TablesFit
<1>7. SectorCount \in Nat  BY AtaAssumption
<1>8. a + b <= SectorCount /\ a < SectorCount  BY <1>5, <1>6, <1>7
<1>9. QED  BY ZenonT(30), <1>4, <1>8

(* What disk.InitServer reads and makes lies on the drive.                  *)
LEMMA DiskServerData ==
  ASSUME TablesFit, Control, Data, DiskServer
  PROVE  Data'
<1>0. Types /\ Startup /\ Queued /\ \A v \in volumes : Fits(v)
  BY ZenonT(30) DEF Control, Data
<1>1. /\ DiskThread \in Clients /\ entry \in Nat \ {0} /\ table \in Tables
      /\ Len(table.parts) \in Nat /\ 0 \in Nat /\ 1 \in Nat \ {0} /\ SectorCount > 0
      /\ using \in [Clients -> Volumes]
  <2>1. SectorCount > 0  BY AtaAssumption
  <2>2. QED  BY <1>0, <2>1, DiskAssumption DEF Types, Data
<1>2. CASE ReadFirst
  <2>1. /\ dpc = "start" /\ ReadAsync(DiskThread, 0, 1) /\ dpc' = "first"
        /\ UNCHANGED <<volumes, using>>
    BY ZenonT(30), <1>2 DEF ReadFirst
  <2>2. done[DiskThread]  BY ZenonT(30), <1>0, <2>1 DEF Queued
  <2>3. dpc' # "probe"  BY ZenonT(30), <2>1
  <2>4. 0 < SectorCount  BY AtaAssumption
  <2>5. QED  BY ZenonT(30), <1>1, <2>1, <2>2, <2>3, <2>4, AskData
<1>3. CASE Identify
  <2>1. /\ UNCHANGED vars /\ UNCHANGED using /\ dpc' \in {"entry", "serving"}
        /\ volumes' \in {volumes, {Whole}}
    BY ZenonT(30), <1>3 DEF Identify
  <2>2. dpc' # "probe"  BY ZenonT(30), <2>1
  <2>3. \A v \in volumes' : Fits(v)  BY ZenonT(30), <1>0, <2>1, WholeFits
  <2>4. QED  BY ZenonT(30), <2>1, <2>2, <2>3, DiskOnlyData
<1>4. CASE Entry
  <2> DEFINE e == table.parts[entry]
  <2>1. dpc = "entry" /\ entry <= Len(table.parts) /\ UNCHANGED <<table, using>>
    BY ZenonT(30), <1>4 DEF Entry
  <2>2. \/ /\ UNCHANGED vars
           /\ dpc' \in {"entry", "failed", "serving"} /\ volumes' \in {volumes, {}, {Whole}}
        \/ /\ e.ptype # "empty" /\ (e.lba + e.count) % UintRange <= SectorCount
           /\ ReadAsync(DiskThread, e.lba, 1) /\ UNCHANGED <<entry, volumes>>
    BY ZenonT(30), <1>4, <2>1 DEF Entry
  <2>3. CASE /\ UNCHANGED vars
             /\ dpc' \in {"entry", "failed", "serving"} /\ volumes' \in {volumes, {}, {Whole}}
    <3>1. dpc' # "probe"  BY ZenonT(30), <2>3
    <3>2. \A v \in volumes' : Fits(v)  BY ZenonT(30), <1>0, <2>3, WholeFits
    <3>3. QED  BY ZenonT(30), <2>1, <2>3, <3>1, <3>2, DiskOnlyData
  <2>4. CASE /\ e.ptype # "empty" /\ (e.lba + e.count) % UintRange <= SectorCount
             /\ ReadAsync(DiskThread, e.lba, 1) /\ UNCHANGED <<entry, volumes>>
    <3>1. done[DiskThread]  BY ZenonT(30), <1>0, <2>1 DEF Queued
    <3>2. entry \in 1..Len(table.parts)  BY <1>1, <2>1
    <3>3. e.lba \in Nat /\ e.lba + e.count <= SectorCount /\ e.lba < SectorCount
      BY ZenonT(30), <1>1, <2>4, <3>2, EntryAsks
    <3>4. table'.parts[entry'].lba + table'.parts[entry'].count <= SectorCount
      BY ZenonT(30), <2>1, <2>4, <3>3
    <3>5. QED  BY ZenonT(30), <1>1, <2>1, <2>4, <3>1, <3>3, <3>4, AskData
  <2>5. QED  BY ZenonT(30), <2>2, <2>3, <2>4
<1>5. CASE AddVolume
  <2>1. /\ dpc = "probe" /\ volumes' = volumes \cup {Volume(entry)} /\ dpc' = "entry"
        /\ UNCHANGED vars /\ UNCHANGED using
    BY ZenonT(30), <1>5 DEF AddVolume
  <2>2. Fits(Volume(entry))
    <3>1. table.parts[entry].lba + table.parts[entry].count <= SectorCount
      BY ZenonT(30), <2>1 DEF Data
    <3>2. /\ Volume(entry).lba = table.parts[entry].lba /\ Volume(entry).n = entry
          /\ Volume(entry).len = table.parts[entry].count
      BY SMTT(30) DEF Volume
    <3>3. entry # 0  BY ZenonT(30), <1>1
    <3>4. QED  BY ZenonT(30), <3>1, <3>2, <3>3 DEF Fits
  <2>3. \A v \in volumes' : Fits(v)  BY ZenonT(30), <1>0, <2>1, <2>2
  <2>4. dpc' # "probe"  BY ZenonT(30), <2>1
  <2>5. QED  BY ZenonT(30), <2>1, <2>3, <2>4, DiskOnlyData
<1>6. CASE Serve
  <2>1. dpc' = "serving" /\ UNCHANGED vars /\ UNCHANGED <<volumes, using>>
    BY ZenonT(30), <1>6 DEF Serve
  <2>2. dpc' # "probe"  BY ZenonT(30), <2>1
  <2>3. QED  BY ZenonT(30), <1>0, <2>1, <2>2, DiskOnlyData
<1>7. QED  BY ZenonT(30), <1>2, <1>3, <1>4, <1>5, <1>6 DEF DiskServer

(* A client's request, cut to its volume, lies on the drive.                *)
LEMMA ReadData ==
  ASSUME Control, Data, NEW c \in Clients \ {DiskThread}, NEW v \in volumes, NEW n \in 1..MaxRead,
         NEW i \in 0..(v.len - 1), Read(c, v, i, n)
  PROVE  Data' /\ v.lba + i < SectorCount
<1>0. Types  BY ZenonT(30) DEF Control
<1>1. v \in Volumes /\ n \in Nat \ {0} /\ c \in Clients /\ c # DiskThread
  BY <1>0, DiskAssumption DEF Types
<1>2. /\ Clamped(v, i, n) \in Nat \ {0} /\ v.lba + i \in Nat
      /\ v.n # 0 => v.lba + i + Clamped(v, i, n) <= v.lba + v.len
  BY ZenonT(30), <1>1, ClampedFacts
<1>3. /\ dpc = "serving" /\ done[c] /\ ReadAsync(c, v.lba + i, Clamped(v, i, n))
      /\ using' = [using EXCEPT ![c] = v] /\ UNCHANGED <<dpc, volumes>>
  BY ZenonT(30) DEF Read
<1>4. /\ using' \in [Clients -> Volumes] /\ using'[c] = v
      /\ \A d \in Clients \ {c} : using'[d] = using[d]
  BY ZenonT(30), <1>1, <1>3 DEF Data
<1>5. Fits(v)  BY ZenonT(30) DEF Data
<1>6. v.lba <= v.lba + i /\ v.lba + i < SectorCount
  <2>1. v.lba \in Nat /\ v.len \in Nat /\ SectorCount \in Nat  BY <1>1, AtaAssumption DEF Volumes
  <2>2. v.lba + v.len <= SectorCount  BY ZenonT(30), <1>5 DEF Fits
  <2>3. QED  BY <2>1, <2>2
<1>7. dpc' # "probe"  BY ZenonT(30), <1>3
<1>8. QED  BY ZenonT(30), <1>1, <1>2, <1>3, <1>4, <1>5, <1>6, <1>7, AskData

(* At the start no command has read anything.                               *)
LEMMA InitData == Init => Data
<1> DEFINE r0 == [sector_idx |-> 0, cur_sector |-> 0, length |-> 0, sector_count |-> 0,
                  cur_cmd_sector_count |-> 0, cur_cmd_sector_idx |-> 0, buf |-> << >>,
                  error |-> FALSE]
<1>0. HAVE Init
<1>1. /\ s = "Init" /\ cmd = [c \in Clients |-> r0] /\ dpc = "start" /\ volumes = {}
      /\ using = [c \in Clients |-> Whole]
  BY ZenonT(30), <1>0 DEF Init, AtaInit
<1>2. r0.sector_idx = 0 /\ r0.length = 0 /\ Len(r0.buf) = 0  OBVIOUS
<1> HIDE DEF r0
<1>3. 0 < SectorCount /\ 0 <= 0 /\ 1..0 = {}  BY AtaAssumption
<1>4. \A c \in Clients : Filled(cmd[c])  BY ZenonT(30), <1>1, <1>2, <1>3 DEF Filled
<1>5. \A c \in Clients \ {DiskThread} : Aimed(using[c], cmd[c])
  BY ZenonT(30), <1>1, <1>2, <1>3, WholeFacts, WholeFits DEF Aimed
<1>6. using \in [Clients -> Volumes]  BY ZenonT(30), <1>1, WholeFacts
<1>7. ~Sent /\ dpc # "probe"  BY ZenonT(30), <1>1 DEF Sent
<1>8. QED  BY ZenonT(30), <1>1, <1>4, <1>5, <1>6, <1>7 DEF Data, Coming

(* No step loses, repeats or misplaces a sector of a command.               *)
LEMMA NextData ==
  ASSUME TablesFit, Control, Data, [Next]_<<vars, diskvars>>
  PROVE  Data'
<1>1. CASE Driver /\ UNCHANGED diskvars  BY ZenonT(30), <1>1, DriverData
<1>2. CASE Hardware /\ UNCHANGED diskvars
  BY ZenonT(30), <1>2, IrqData, DeviceReadyData DEF Hardware
<1>3. CASE DiskServer  BY ZenonT(30), <1>3, DiskServerData
<1>4. ASSUME NEW c \in Clients \ {DiskThread}, NEW v \in volumes, NEW n \in 1..MaxRead,
             NEW i \in 0..(v.len - 1), Read(c, v, i, n)
      PROVE  Data'
  BY ZenonT(30), <1>4, ReadData
<1>5. CASE UNCHANGED <<vars, diskvars>>
  <2>1. /\ UNCHANGED <<s, cur_cmd, cmd, pc, device>>
        /\ UNCHANGED <<table, dpc, entry, volumes, using>>
    BY ZenonT(30), <1>5 DEF vars, drvvars, hwvars, diskvars
  <2>2. Coming'  BY ZenonT(30), <2>1 DEF Data, Coming, Sent, Readable
  <2>3. QED  BY ZenonT(30), <2>1, <2>2, DataFrame
<1>6. CASE Next  BY ZenonT(30), <1>1, <1>2, <1>3, <1>4, <1>6 DEF Next
<1>7. QED  BY ZenonT(30), <1>5, <1>6

(* Both hold of every reachable state.                                      *)
LEMMA Invariant == MasterAlone /\ TablesFit /\ Spec => [](Control /\ Data)
<1>1. Init => Control /\ Data  BY ZenonT(30), InitControl, InitData
<1>2. ASSUME MasterAlone, TablesFit PROVE Spec => [](Control /\ Data)
  <2>1. Control /\ Data /\ [Next]_<<vars, diskvars>> => (Control /\ Data)'
    BY ZenonT(30), <1>2, NextControl, NextData
  <2>2. QED  BY <1>1, <2>1, PTL DEF Spec
<1>3. QED  BY ZenonT(30), <1>2

(* Whatever is read through a volume, also past its end, split over several *)
(* commands and between other requests, comes from inside it (ReadAsync of  *)
(* the volume's BlockDevice).                                               *)
THEOREM ReadsStayInside == MasterAlone /\ TablesFit /\ Spec => []ReadsInside
<1>1. Control /\ Data => ReadsInside
  <2>1. SUFFICES ASSUME Control, Data, NEW c \in Clients \ {DiskThread},
                        NEW i \in 1..Len(cmd[c].buf)
                 PROVE  /\ using[c].lba <= cmd[c].buf[i]
                        /\ cmd[c].buf[i] < using[c].lba + using[c].len
    BY ZenonT(30) DEF ReadsInside
  <2>2. PICK r \in Cmds, v \in Volumes : r = cmd[c] /\ v = using[c]
    <3>1. cmd \in [Clients -> Cmds] /\ using \in [Clients -> Volumes] /\ c \in Clients
      BY ZenonT(30), <2>1 DEF Control, Types, Data
    <3>2. cmd[c] \in Cmds /\ using[c] \in Volumes  BY ZenonT(30), <3>1
    <3>3. QED  BY ZenonT(30), <3>2
  <2>3. Aimed(v, r) /\ Filled(r) /\ i \in 1..Len(r.buf)
    <3>1. c \in Clients /\ Aimed(using[c], cmd[c]) /\ Filled(cmd[c])  BY ZenonT(30), <2>1 DEF Data
    <3>2. QED  BY ZenonT(30), <2>1, <2>2, <3>1
  <2>4. /\ r.buf[i] = r.sector_idx + i - 1 /\ r.buf[i] < SectorCount /\ Len(r.buf) <= r.length
        /\ v.lba <= r.sector_idx /\ (v.n = 0 => v = Whole)
        /\ v.n # 0 => r.sector_idx + r.length <= v.lba + v.len
    BY ZenonT(30), <2>3 DEF Aimed, Filled, Fits
  <2>5. /\ r.sector_idx \in Nat /\ r.length \in Nat /\ Len(r.buf) \in Nat
        /\ v.n \in Nat /\ v.lba \in Nat /\ v.len \in Nat
    BY DEF Cmds, Volumes
  <2>6. v.lba <= r.buf[i]  BY <2>3, <2>4, <2>5
  <2>7. r.buf[i] < v.lba + v.len
    <3>1. CASE v.n = 0
      <4>1. v.lba = 0 /\ v.len = SectorCount  BY ZenonT(30), <2>4, <3>1, WholeFacts
      <4>2. 0 + SectorCount = SectorCount  BY AtaAssumption
      <4>3. QED  BY ZenonT(30), <2>4, <4>1, <4>2
    <3>2. CASE v.n # 0
      <4>1. r.sector_idx + r.length <= v.lba + v.len  BY ZenonT(30), <2>4, <3>2
      <4>2. r.buf[i] = r.sector_idx + i - 1 /\ Len(r.buf) <= r.length  BY ZenonT(30), <2>4
      <4>3. QED  BY <2>3, <2>5, <4>1, <4>2
    <3>3. QED  BY ZenonT(30), <3>1, <3>2
  <2>8. QED  BY ZenonT(30), <2>2, <2>6, <2>7
<1>2. QED  BY <1>1, Invariant, PTL

-----------------------------------------------------------------------------
(* The driver implements BlockQueue *)

(* Facts about a queue with its first element in hand.                      *)
LEMMA OneInHand ==
  ASSUME NEW S, NEW a \in S, NEW q \in Seq(S)
  PROVE  /\ <<a>> \o q \in Seq(S) /\ <<a>> \o q # << >>
         /\ Head(<<a>> \o q) = a /\ Tail(<<a>> \o q) = q
OBVIOUS

(* With no command in hand, those that wait are those in the queue.         *)
LEMMA NoneInHand == ASSUME NEW S, NEW q \in Seq(S) PROVE << >> \o q = q
OBVIOUS

(* A queue is its first command and the others.                             *)
LEMMA HeadAndTail ==
  ASSUME NEW S, NEW q \in Seq(S), q # << >>
  PROVE  Head(q) \in S /\ Tail(q) \in Seq(S) /\ <<Head(q)>> \o Tail(q) = q
OBVIOUS

(* A command enters the queue behind the one in hand.                       *)
LEMMA AppendBehind ==
  ASSUME NEW S, NEW h \in Seq(S), NEW q \in Seq(S), NEW a \in S
  PROVE  h \o Append(q, a) = Append(h \o q, a)
OBVIOUS

(* Whoever waits is in hand or in the queue.                                *)
LEMMA Elements ==
  ASSUME NEW S, NEW h \in Seq(S), NEW q \in Seq(S), NEW j \in 1..Len(h \o q)
  PROVE  \/ \E k \in 1..Len(h) : (h \o q)[j] = h[k]
         \/ \E k \in 1..Len(q) : (h \o q)[j] = q[k]
OBVIOUS

(* A buffer is given by its sectors.                                        *)
LEMMA Spelled ==
  ASSUME NEW q \in Seq(Nat), NEW n \in Nat, NEW a \in Nat, Len(q) = n,
         \A i \in 1..n : q[i] = a + i - 1
  PROVE  q = [i \in 1..n |-> a + i - 1]
OBVIOUS

(* Who is in hand.                                                          *)
LEMMA InHandIs ==
  ASSUME Control
  PROVE  /\ InHand \in Seq(Clients) /\ cmds \in Seq(Clients)
         /\ \A k \in 1..Len(InHand) : InHand[k] = cur_cmd \/ (InHandNow /\ InHand[k] = next_cmd)
<1>0. Types /\ Queued  BY ZenonT(30) DEF Control
<1>1. cmds \in Seq(Clients)  BY ZenonT(30), <1>0 DEF Types
<1>2. CASE cur_cmd # NoCmd
  <2>1. InHand = <<cur_cmd>> /\ cur_cmd \in Clients  BY ZenonT(30), <1>0, <1>2 DEF InHand, Types
  <2>2. QED  BY <1>1, <2>1
<1>3. CASE cur_cmd = NoCmd /\ pc \in {"state", "cur"}
  <2>1. InHandNow  BY ZenonT(30), <1>3 DEF InHandNow
  <2>2. InHand = <<next_cmd>> /\ next_cmd \in Clients
    BY ZenonT(30), <1>0, <1>3, <2>1 DEF InHand, Types, Queued
  <2>3. QED  BY <1>1, <2>1, <2>2
<1>4. CASE cur_cmd = NoCmd /\ pc \notin {"state", "cur"}
  <2>1. InHand = << >>  BY ZenonT(30), <1>4 DEF InHand
  <2>2. QED  BY <1>1, <2>1
<1>5. QED  BY ZenonT(30), <1>2, <1>3, <1>4

(* A step that no caller sees.                                              *)
LEMMA Unseen ==
  ASSUME Control, InHand' \o cmds' = InHand \o cmds, done' = done,
         \A c \in Clients : /\ cmd'[c].sector_idx = cmd[c].sector_idx
                            /\ cmd'[c].length = cmd[c].length
                            /\ done[c] => cmd'[c].buf = cmd[c].buf
  PROVE  UNCHANGED Device!qvars
<1>1. [c \in Clients |-> <<cmd'[c].sector_idx, cmd'[c].length>>]
      = [c \in Clients |-> <<cmd[c].sector_idx, cmd[c].length>>]
  BY ZenonT(30)
<1>2. [c \in Clients |-> IF done'[c] THEN cmd'[c].buf ELSE << >>]
      = [c \in Clients |-> IF done[c] THEN cmd[c].buf ELSE << >>]
  BY ZenonT(30)
<1>3. QED  BY ZenonT(30), <1>1, <1>2 DEF Device!qvars

(* ReadAsync is Ask.                                                        *)
LEMMA AskSeen ==
  ASSUME Control, NEW c \in Clients, NEW i \in 0..(SectorCount - 1), NEW n \in 1..MaxRead,
         done[c], ReadAsync(c, i, n)
  PROVE  Device!QueueNext
<1> DEFINE r == [sector_idx |-> i, cur_sector |-> i, length |-> n, sector_count |-> n,
                 cur_cmd_sector_count |-> 0, cur_cmd_sector_idx |-> 0, buf |-> << >>,
                 error |-> FALSE]
           want == [d \in Clients |-> <<cmd[d].sector_idx, cmd[d].length>>]
           answer == [d \in Clients |-> IF done[d] THEN cmd[d].buf ELSE << >>]
<1>0. Types  BY ZenonT(30) DEF Control
<1>1. /\ cmd' = [cmd EXCEPT ![c] = r] /\ done' = [done EXCEPT ![c] = FALSE]
      /\ cmds' = Append(cmds, c) /\ UNCHANGED <<cur_cmd, pc, next_cmd>>
  BY ZenonT(30) DEF ReadAsync
<1>2. r.sector_idx = i /\ r.length = n  OBVIOUS
<1> HIDE DEF r
<1>3. /\ cmd'[c] = r /\ \A d \in Clients \ {c} : cmd'[d] = cmd[d]
      /\ ~done'[c] /\ \A d \in Clients \ {c} : done'[d] = done[d]
  BY ZenonT(30), <1>0, <1>1 DEF Types
<1>4. InHand' = InHand  BY ZenonT(30), <1>1 DEF InHand
<1>5. InHand' \o cmds' = Append(InHand \o cmds, c)
  <2>1. InHand \in Seq(Clients) /\ cmds \in Seq(Clients)  BY ZenonT(30), InHandIs
  <2>2. InHand \o Append(cmds, c) = Append(InHand \o cmds, c)  BY <2>1, AppendBehind
  <2>3. QED  BY ZenonT(30), <1>1, <1>4, <2>2
<1>6. \A j \in 1..Len(InHand \o cmds) : (InHand \o cmds)[j] # c
  <2>1. SUFFICES ASSUME NEW j \in 1..Len(InHand \o cmds) PROVE (InHand \o cmds)[j] # c
    BY ZenonT(30)
  <2>2. /\ InHand \in Seq(Clients) /\ cmds \in Seq(Clients)
        /\ \A k \in 1..Len(InHand) : InHand[k] = cur_cmd \/ (InHandNow /\ InHand[k] = next_cmd)
    BY ZenonT(30), InHandIs
  <2>3. /\ \A k \in 1..Len(cmds) : cmds[k] # c
        /\ cur_cmd # c /\ (InHandNow => next_cmd # c)
    BY ZenonT(30), Elsewhere
  <2>4. \/ \E k \in 1..Len(InHand) : (InHand \o cmds)[j] = InHand[k]
        \/ \E k \in 1..Len(cmds) : (InHand \o cmds)[j] = cmds[k]
    BY ZenonT(30), <2>1, <2>2, Elements
  <2>5. QED  BY ZenonT(30), <2>2, <2>3, <2>4
<1>7. want' = [want EXCEPT ![c] = <<i, n>>]
  <2>1. \A d \in Clients : <<cmd'[d].sector_idx, cmd'[d].length>>
                           = IF d = c THEN <<i, n>> ELSE <<cmd[d].sector_idx, cmd[d].length>>
    BY ZenonT(30), <1>2, <1>3
  <2>2. want' = [d \in Clients |-> IF d = c THEN <<i, n>>
                                   ELSE <<cmd[d].sector_idx, cmd[d].length>>]
    BY ZenonT(30), <2>1
  <2>3. QED  BY ZenonT(30), <2>2
<1>8. answer' = [answer EXCEPT ![c] = << >>]
  <2>1. answer' = [d \in Clients |-> IF d = c THEN << >>
                                     ELSE IF done[d] THEN cmd[d].buf ELSE << >>]
    BY ZenonT(30), <1>3
  <2>2. QED  BY ZenonT(30), <2>1
<1>9. Device!Ask(c, i, n)  BY ZenonT(30), <1>5, <1>6, <1>7, <1>8 DEF Device!Ask
<1>10. QED  BY ZenonT(30), <1>9 DEF Device!QueueNext

(* The last sector of a request is Answer.                                  *)
LEMMA AnswerSeen ==
  ASSUME Control, NEW c \in Clients, c = cur_cmd, c # NoCmd, pc = "loop",
         NEW r \in Cmds, Filled(r), Finished(c, r), cmd' \in [Clients -> Cmds],
         \A d \in Clients \ {c} : cmd'[d] = cmd[d],
         r.sector_idx = cmd[c].sector_idx, r.length = cmd[c].length, UNCHANGED <<cmds, pc>>
  PROVE  Device!QueueNext
<1> DEFINE want == [d \in Clients |-> <<cmd[d].sector_idx, cmd[d].length>>]
           answer == [d \in Clients |-> IF done[d] THEN cmd[d].buf ELSE << >>]
<1>0. Types  BY ZenonT(30) DEF Control
<1>1. /\ cmd'[c] = r /\ done' = [done EXCEPT ![c] = TRUE] /\ cur_cmd' = NoCmd
      /\ Len(r.buf) = r.length
  BY ZenonT(30) DEF Finished
<1>2. done'[c] /\ \A d \in Clients \ {c} : done'[d] = done[d]  BY ZenonT(30), <1>0, <1>1 DEF Types
<1>3. InHand = <<c>> /\ cmds \in Seq(Clients)  BY ZenonT(30), <1>0 DEF InHand, Types
<1>4. InHand' = << >>
  <2>1. pc \notin {"state", "cur"}  OBVIOUS
  <2>2. QED  BY ZenonT(30), <1>1, <2>1 DEF InHand
<1>5. /\ InHand \o cmds # << >> /\ Head(InHand \o cmds) = c
      /\ InHand' \o cmds' = Tail(InHand \o cmds)
  <2>1. InHand \o cmds # << >> /\ Head(InHand \o cmds) = c /\ Tail(InHand \o cmds) = cmds
    BY ZenonT(30), <1>3, OneInHand
  <2>2. << >> \o cmds = cmds  BY ZenonT(30), <1>3, NoneInHand
  <2>3. QED  BY ZenonT(30), <1>4, <2>1, <2>2
<1>6. want' = want  BY ZenonT(30), <1>1
<1>7. r.buf = [i \in 1..want[c][2] |-> want[c][1] + i - 1]
  <2>1. want[c][1] = r.sector_idx /\ want[c][2] = r.length  OBVIOUS
  <2>2. r.buf \in Seq(Nat) /\ r.length \in Nat /\ r.sector_idx \in Nat  BY ZenonT(30) DEF Cmds
  <2>3. \A i \in 1..r.length : r.buf[i] = r.sector_idx + i - 1
    BY ZenonT(30), <1>1 DEF Filled
  <2>4. PICK b \in Seq(Nat), n \in Nat, a \in Nat :
             b = r.buf /\ n = r.length /\ a = r.sector_idx
    BY ZenonT(30), <2>2
  <2>5. b = [i \in 1..n |-> a + i - 1]
    <3>1. Len(b) = n /\ \A i \in 1..n : b[i] = a + i - 1  BY ZenonT(30), <1>1, <2>3, <2>4
    <3>2. QED  BY ZenonT(30), <3>1, Spelled
  <2>6. QED  BY ZenonT(30), <2>1, <2>4, <2>5
<1>8. answer' = [answer EXCEPT ![c] = [i \in 1..want[c][2] |-> want[c][1] + i - 1]]
  <2>1. PICK b : b = [i \in 1..want[c][2] |-> want[c][1] + i - 1] /\ b = r.buf
    BY ZenonT(30), <1>7
  <2>2. answer' = [d \in Clients |-> IF d = c THEN b
                                     ELSE IF done[d] THEN cmd[d].buf ELSE << >>]
    BY ZenonT(30), <1>1, <1>2, <2>1
  <2>3. answer' = [answer EXCEPT ![c] = b]  BY ZenonT(30), <2>2
  <2>4. QED  BY ZenonT(30), <2>1, <2>3
<1>9. Device!Answer
  <2> HIDE DEF want, answer
  <2>1. answer' = [answer EXCEPT ![Head(InHand \o cmds)] =
                     [i \in 1..want[Head(InHand \o cmds)][2] |->
                        want[Head(InHand \o cmds)][1] + i - 1]]
    BY ZenonT(30), <1>5, <1>8
  <2>2. QED  BY ZenonT(30), <1>5, <1>6, <2>1 DEF Device!Answer, Device!Wanted, want, answer
<1>10. QED  BY ZenonT(30), <1>9 DEF Device!QueueNext

(* Between the two the request is taken from the queue, unseen.             *)
LEMMA DriverUnseen == ASSUME Control, Driver PROVE UNCHANGED Device!qvars
<1>0. Types /\ Queued /\ Progress /\ Startup  BY ZenonT(30) DEF Control
<1>1. cmds \in Seq(Clients) /\ done \in [Clients -> BOOLEAN]  BY ZenonT(30), <1>0 DEF Types
<1>2. CASE InitServer \/ EnterLoop
  <2>1. /\ pc \in {"init", "spin"} /\ pc' \in {"spin", "loop"}
        /\ UNCHANGED <<cur_cmd, cmd, done, cmds, next_cmd>>
    BY ZenonT(30), <1>2 DEF InitServer, SendIdentify, EnterLoop, drvvars
  <2>2. pc \notin {"state", "cur"} /\ pc' \notin {"state", "cur"}  BY ZenonT(30), <2>1
  <2>3. InHand' = InHand  BY ZenonT(30), <2>1, <2>2 DEF InHand
  <2>4. QED  BY ZenonT(30), <2>1, <2>3, Unseen
<1>3. CASE Take
  <2>1. /\ pc = "loop" /\ cur_cmd = NoCmd /\ cmds # << >> /\ next_cmd' = Head(cmds)
        /\ cmds' = Tail(cmds) /\ pc' = "state" /\ UNCHANGED <<cur_cmd, cmd, done>>
    BY ZenonT(30), <1>3 DEF Take, drvvars
  <2>2. InHand = << >> /\ InHand' = <<Head(cmds)>>  BY ZenonT(30), <2>1 DEF InHand
  <2>3. InHand' \o cmds' = cmds /\ InHand \o cmds = cmds
    BY ZenonT(30), <1>1, <2>1, <2>2, HeadAndTail, NoneInHand
  <2>4. QED  BY ZenonT(30), <2>1, <2>3, Unseen
<1>4. CASE SetState
  <2>1. pc = "state" /\ pc' = "cur" /\ UNCHANGED <<cur_cmd, cmd, done, cmds, next_cmd>>
    BY ZenonT(30), <1>4 DEF SetState
  <2>2. InHand' = InHand  BY ZenonT(30), <2>1 DEF InHand
  <2>3. QED  BY ZenonT(30), <2>1, <2>2, Unseen
<1>5. CASE SetCommand
  <2>1. /\ pc = "cur" /\ cur_cmd' = next_cmd /\ pc' = "send"
        /\ UNCHANGED <<cmd, done, cmds, next_cmd>>
    BY ZenonT(30), <1>5 DEF SetCommand
  <2>2. cur_cmd = NoCmd /\ next_cmd # NoCmd
    BY ZenonT(30), <1>0, <2>1 DEF Progress, Queued, InHandNow
  <2>3. InHand' = InHand  BY ZenonT(30), <2>1, <2>2 DEF InHand
  <2>4. QED  BY ZenonT(30), <2>1, <2>3, Unseen
<1>6. CASE Send
  <2>1. /\ pc = "send" /\ cmd' = [cmd EXCEPT ![next_cmd] = Issued(@)]
        /\ pc' = "loop" /\ UNCHANGED <<cur_cmd, done, cmds, next_cmd>>
    BY ZenonT(30), <1>6 DEF Send
  <2>2. /\ next_cmd \in Clients /\ cur_cmd = next_cmd /\ cur_cmd # NoCmd
        /\ cmd \in [Clients -> Cmds] /\ cmd[next_cmd] \in Cmds /\ Fresh(cmd[next_cmd])
    BY ZenonT(30), <1>0, <2>1 DEF Queued, InHandNow, Types, Progress
  <2>3. InHand' = InHand  BY ZenonT(30), <2>1, <2>2 DEF InHand
  <2>4. PICK r \in Cmds : r = cmd[next_cmd]  BY ZenonT(30), <2>2
  <2>5. r.sector_count > 0
    <3>1. r.sector_count = r.length /\ r.length > 0  BY ZenonT(30), <2>2, <2>4 DEF Fresh
    <3>2. QED  BY ZenonT(30), <3>1
  <2>6. /\ Issued(r) \in Cmds /\ Issued(r).sector_idx = r.sector_idx
        /\ Issued(r).length = r.length /\ Issued(r).buf = r.buf
    BY ZenonT(30), <2>5, IssuedFacts
  <2>7. cmd' = [cmd EXCEPT ![next_cmd] = Issued(r)]  BY ZenonT(30), <2>1, <2>4
  <2>8. cmd'[next_cmd] = Issued(r) /\ \A d \in Clients \ {next_cmd} : cmd'[d] = cmd[d]
    BY ZenonT(30), <2>2, <2>6, <2>7
  <2>9. QED  BY ZenonT(30), <2>1, <2>3, <2>4, <2>6, <2>8, Unseen
<1>7. QED  BY ZenonT(30), <1>2, <1>3, <1>4, <1>5, <1>6 DEF Driver

(* The interrupt handler answers with the last sector, and is unseen        *)
(* before.                                                                  *)
LEMMA HardwareSeen ==
  ASSUME Control, Data, Hardware, UNCHANGED diskvars
  PROVE  [Device!QueueNext]_(Device!qvars)
<1>0. Types /\ Queued  BY ZenonT(30) DEF Control
<1>1. CASE \E d \in {0, 1} : DeviceReady(d)
  <2>1. UNCHANGED <<cur_cmd, cmd, done, cmds, pc, next_cmd>>
    BY ZenonT(30), <1>1 DEF DeviceReady, drvvars
  <2>2. InHand' = InHand  BY ZenonT(30), <2>1 DEF InHand
  <2>3. UNCHANGED Device!qvars  BY ZenonT(30), <2>1, <2>2, Unseen
  <2>4. QED  BY ZenonT(30), <2>3
<1>2. CASE IrqHandler
  <2>1. /\ device[selected].intr /\ UNCHANGED <<cmds, pc, next_cmd, attached>>
        /\ \/ s = "StartupIdentifySent" /\ Identified
           \/ s = "Idle" /\ Unhandled
           \/ s = "ReadSent" /\ device[selected].err /\ ReadFailed
           \/ s = "ReadSent" /\ ~device[selected].err /\ Transfer
    BY ZenonT(30), <1>2, IrqIs
  <2>2. CASE Identified \/ Unhandled
    <3>1. UNCHANGED <<cur_cmd, cmd, done>>  BY ZenonT(30), <2>2 DEF Identified, Unhandled, drvvars
    <3>2. InHand' = InHand  BY ZenonT(30), <2>1, <3>1 DEF InHand
    <3>3. UNCHANGED Device!qvars  BY ZenonT(30), <2>1, <3>1, <3>2, Unseen
    <3>4. QED  BY ZenonT(30), <3>3
  <2>3. CASE s = "ReadSent" /\ ReadFailed
    <3>1. cmd' = [cmd EXCEPT ![cur_cmd].error = TRUE] /\ UNCHANGED <<cur_cmd, done>>
      BY ZenonT(30), <2>3 DEF ReadFailed
    <3>2. InHand' = InHand  BY ZenonT(30), <2>1, <3>1 DEF InHand
    <3>3. cur_cmd \in Clients /\ cmd[cur_cmd] \in Cmds  BY ZenonT(30), <2>1, <2>3, Awaited
    <3>4. PICK q : q = [cmd[cur_cmd] EXCEPT !.error = TRUE]  BY ZenonT(30)
    <3>5. q \in Cmds /\ q.sector_idx = cmd[cur_cmd].sector_idx
          /\ q.length = cmd[cur_cmd].length /\ q.buf = cmd[cur_cmd].buf
      <4>1. q \in Cmds  BY ZenonT(30), <3>3, <3>4 DEF Cmds
      <4>2. QED  BY <3>3, <3>4, <4>1 DEF Cmds
    <3>6. cmd' = [cmd EXCEPT ![cur_cmd] = q]  BY ZenonT(30), <3>1, <3>4
    <3>7. cmd'[cur_cmd] = q /\ \A d \in Clients \ {cur_cmd} : cmd'[d] = cmd[d]
      BY ZenonT(30), <1>0, <3>3, <3>5, <3>6 DEF Types
    <3>8. UNCHANGED Device!qvars
      BY ZenonT(30), <2>1, <3>1, <3>2, <3>5, <3>7, Unseen
    <3>9. QED  BY ZenonT(30), <3>8
  <2>4. CASE s = "ReadSent" /\ ~device[selected].err /\ Transfer
    <3> DEFINE c == cur_cmd
               r == Moved(cmd[c])
    <3>1. /\ pc = "loop" /\ selected = 0 /\ c \in Clients /\ c # NoCmd /\ cmd[c] \in Cmds
          /\ device[0] \in Devices
      BY ZenonT(30), <2>1, <2>4, Awaited
    <3>2. ~done[c]  BY ZenonT(30), <1>0, <3>1 DEF Queued
    <3>3. device[selected].lba \in Nat  BY ZenonT(30), <3>1 DEF Devices
    <3>4. r.sector_idx = cmd[c].sector_idx /\ r.length = cmd[c].length
      BY ZenonT(30), <3>1, <3>3, MovedFacts
    <3>5. /\ r \in Cmds /\ cmd' \in [Clients -> Cmds] /\ \A d \in Clients \ {c} : cmd'[d] = cmd[d]
          /\ More(c, r) \/ Again(c, r) \/ Finished(c, r)
      BY ZenonT(30), <2>1, <2>4, TransferIs
    <3>6. UNCHANGED <<table, dpc, entry, volumes, using>>  BY ZenonT(30) DEF diskvars
    <3>7. Data'  BY ZenonT(30), <2>1, <2>4, <3>6, TransferData
    <3> HIDE DEF r, c
    <3>8. CASE More(c, r) \/ Again(c, r)
      <4>1. /\ UNCHANGED <<done, cur_cmd>> /\ cmd'[c].sector_idx = r.sector_idx
            /\ cmd'[c].length = r.length
        <5>1. CASE More(c, r)  BY ZenonT(30), <5>1 DEF More
        <5>2. CASE Again(c, r)
          <6>1. UNCHANGED <<done, cur_cmd>> /\ cmd'[c] = Issued(r) /\ r.sector_count > 0
            BY ZenonT(30), <5>2 DEF Again
          <6>2. Issued(r).sector_idx = r.sector_idx /\ Issued(r).length = r.length
            BY ZenonT(30), <3>5, <6>1, IssuedFacts
          <6>3. QED  BY ZenonT(30), <6>1, <6>2
        <5>3. QED  BY ZenonT(30), <3>8, <5>1, <5>2
      <4>2. InHand' = InHand  BY ZenonT(30), <2>1, <4>1 DEF InHand
      <4>3. \A d \in Clients : /\ cmd'[d].sector_idx = cmd[d].sector_idx
                               /\ cmd'[d].length = cmd[d].length
                               /\ done[d] => cmd'[d].buf = cmd[d].buf
        BY ZenonT(30), <3>2, <3>4, <3>5, <4>1
      <4>4. UNCHANGED Device!qvars  BY ZenonT(30), <2>1, <4>1, <4>2, <4>3, Unseen
      <4>5. QED  BY ZenonT(30), <4>4
    <3>9. CASE Finished(c, r)
      <4>1. cmd'[c] = r  BY ZenonT(30), <3>9 DEF Finished
      <4>2. Filled(r)  BY ZenonT(30), <3>1, <3>7, <4>1 DEF Data, c, Filled
      <4>3. Device!QueueNext
        BY ZenonT(30), <2>1, <3>1, <3>4, <3>5, <3>9, <4>2, AnswerSeen DEF c
      <4>4. QED  BY ZenonT(30), <4>3
    <3>10. QED  BY ZenonT(30), <3>5, <3>8, <3>9
  <2>5. QED  BY ZenonT(30), <2>1, <2>2, <2>3, <2>4
<1>3. QED  BY ZenonT(30), <1>1, <1>2 DEF Hardware

(* The disk driver asks for sectors of the drive, one at a time, ...        *)
LEMMA DiskServerSeen ==
  ASSUME TablesFit, Control, DiskServer
  PROVE  [Device!QueueNext]_(Device!qvars)
<1>0. Types /\ Queued  BY ZenonT(30) DEF Control
<1>1. /\ DiskThread \in Clients /\ 1 \in 1..MaxRead /\ 0 \in 0..(SectorCount - 1)
      /\ table \in Tables /\ entry \in Nat \ {0} /\ Len(table.parts) \in Nat
  BY <1>0, DiskAssumption, AtaAssumption DEF Types
<1>2. CASE UNCHANGED vars
  <2>1. UNCHANGED <<cur_cmd, cmd, done, cmds, pc, next_cmd>>
    BY ZenonT(30), <1>2 DEF vars, drvvars
  <2>2. InHand' = InHand  BY ZenonT(30), <2>1 DEF InHand
  <2>3. UNCHANGED Device!qvars  BY ZenonT(30), <2>1, <2>2, Unseen
  <2>4. QED  BY ZenonT(30), <2>3
<1>3. CASE ReadFirst
  <2>1. dpc = "start" /\ ReadAsync(DiskThread, 0, 1)  BY ZenonT(30), <1>3 DEF ReadFirst
  <2>2. done[DiskThread]  BY ZenonT(30), <1>0, <2>1 DEF Queued
  <2>3. Device!QueueNext  BY ZenonT(30), <1>1, <2>1, <2>2, AskSeen
  <2>4. QED  BY ZenonT(30), <2>3
<1>4. CASE Entry /\ ~UNCHANGED vars
  <2> DEFINE e == table.parts[entry]
  <2>1. /\ dpc = "entry" /\ entry <= Len(table.parts)
        /\ e.ptype # "empty" /\ (e.lba + e.count) % UintRange <= SectorCount
        /\ ReadAsync(DiskThread, e.lba, 1)
    BY ZenonT(30), <1>4 DEF Entry
  <2>2. done[DiskThread]  BY ZenonT(30), <1>0, <2>1 DEF Queued
  <2>3. entry \in 1..Len(table.parts)  BY <1>1, <2>1
  <2>4. e.lba \in Nat /\ e.lba < SectorCount  BY ZenonT(30), <1>1, <2>1, <2>3, EntryAsks
  <2>5. PICK a \in Nat : a = e.lba  BY ZenonT(30), <2>4
  <2>6. a \in 0..(SectorCount - 1)
    <3>1. a < SectorCount  BY ZenonT(30), <2>4, <2>5
    <3>2. QED  BY <3>1, AtaAssumption
  <2>7. Device!QueueNext  BY ZenonT(30), <1>1, <2>1, <2>2, <2>5, <2>6, AskSeen
  <2>8. QED  BY ZenonT(30), <2>7
<1>5. QED
  BY ZenonT(30), <1>2, <1>3, <1>4 DEF DiskServer, Identify, AddVolume, Serve

(* ... and the clients for no more than they may.                           *)
LEMMA ReadSeen ==
  ASSUME Control, Data, NEW c \in Clients \ {DiskThread}, NEW v \in volumes, NEW n \in 1..MaxRead,
         NEW i \in 0..(v.len - 1), Read(c, v, i, n)
  PROVE  Device!QueueNext
<1>1. v \in Volumes /\ n \in Nat \ {0} /\ MaxRead \in Nat /\ c \in Clients
  BY DiskAssumption DEF Control, Types
<1>2. Clamped(v, i, n) \in Nat \ {0} /\ Clamped(v, i, n) <= n /\ v.lba + i \in Nat
  BY ZenonT(30), <1>1, ClampedFacts
<1>3. v.lba + i < SectorCount  BY ZenonT(30), ReadData
<1>4. PICK a \in Nat, k \in Nat \ {0} : a = v.lba + i /\ k = Clamped(v, i, n)
  BY ZenonT(30), <1>2
<1>5. a < SectorCount /\ k <= n  BY ZenonT(30), <1>2, <1>3, <1>4
<1>6. a \in 0..(SectorCount - 1) /\ k \in 1..MaxRead  BY <1>1, <1>5, AtaAssumption
<1>7. done[c] /\ ReadAsync(c, a, k)  BY ZenonT(30), <1>4 DEF Read
<1>8. QED  BY ZenonT(30), <1>1, <1>6, <1>7, AskSeen

(* Seen from outside, the driver starts as an idle device.                  *)
LEMMA InitSeen == Init => Device!QueueInit
<1> DEFINE r0 == [sector_idx |-> 0, cur_sector |-> 0, length |-> 0, sector_count |-> 0,
                  cur_cmd_sector_count |-> 0, cur_cmd_sector_idx |-> 0, buf |-> << >>,
                  error |-> FALSE]
<1>0. HAVE Init
<1>1. /\ cmd = [c \in Clients |-> r0] /\ done = [c \in Clients |-> TRUE]
      /\ cmds = << >> /\ cur_cmd = NoCmd /\ pc = "init"
  BY ZenonT(30), <1>0 DEF Init, AtaInit
<1>2. r0.sector_idx = 0 /\ r0.length = 0 /\ r0.buf = << >>  OBVIOUS
<1> HIDE DEF r0
<1>3. InHand = << >>  BY ZenonT(30), <1>1 DEF InHand
<1>4. InHand \o cmds = << >>  BY <1>1, <1>3
<1>5. [c \in Clients |-> <<cmd[c].sector_idx, cmd[c].length>>] = [c \in Clients |-> <<0, 0>>]
  BY ZenonT(30), <1>1, <1>2
<1>6. [c \in Clients |-> IF done[c] THEN cmd[c].buf ELSE << >>] = [c \in Clients |-> << >>]
  BY ZenonT(30), <1>1, <1>2
<1>7. QED  BY ZenonT(30), <1>4, <1>5, <1>6 DEF Device!QueueInit

(* The drive, its driver and the disk driver implement BlockQueue: requests *)
(* are answered in the order they were made, each with the sectors it asked *)
(* for, whatever the interleaving of clients, server's thread, interrupt    *)
(* handler and device, however often a command is split, and with any       *)
(* faulty sectors (Drive.ReadAsync, BackgroundProc, StateMachine).          *)
THEOREM DriveAnswersInOrder == MasterAlone /\ TablesFit /\ Spec => AnsweredInOrder
<1>1. ASSUME TablesFit, Control, Data, [Next]_<<vars, diskvars>>
      PROVE  [Device!QueueNext]_(Device!qvars)
  <2>1. CASE Driver  BY ZenonT(30), <1>1, <2>1, DriverUnseen
  <2>2. CASE Hardware /\ UNCHANGED diskvars  BY ZenonT(30), <1>1, <2>2, HardwareSeen
  <2>3. CASE DiskServer  BY ZenonT(30), <1>1, <2>3, DiskServerSeen
  <2>4. ASSUME NEW c \in Clients \ {DiskThread}, NEW v \in volumes, NEW n \in 1..MaxRead,
               NEW i \in 0..(v.len - 1), Read(c, v, i, n)
        PROVE  Device!QueueNext
    BY ZenonT(30), <1>1, <2>4, ReadSeen
  <2>5. CASE UNCHANGED <<vars, diskvars>>
    <3>1. UNCHANGED <<cur_cmd, cmd, done, cmds, pc, next_cmd>>
      BY ZenonT(30), <2>5 DEF vars, drvvars
    <3>2. InHand' = InHand  BY ZenonT(30), <3>1 DEF InHand
    <3>3. UNCHANGED Device!qvars  BY ZenonT(30), <1>1, <3>1, <3>2, Unseen
    <3>4. QED  BY ZenonT(30), <3>3
  <2>6. CASE Next  BY ZenonT(30), <2>1, <2>2, <2>3, <2>4, <2>6 DEF Next
  <2>7. QED  BY ZenonT(30), <1>1, <2>5, <2>6
<1>2. ASSUME MasterAlone, TablesFit PROVE Spec => Device!QueueSpec
  <2>1. Control /\ Data /\ [Next]_<<vars, diskvars>> => [Device!QueueNext]_(Device!qvars)
    BY ZenonT(30), <1>1, <1>2
  <2>2. Spec => [](Control /\ Data)  BY ZenonT(30), <1>2, Invariant
  <2>3. QED  BY <2>1, <2>2, InitSeen, PTL DEF Spec, Device!QueueSpec
<1>3. QED  BY ZenonT(30), <1>2 DEF AnsweredInOrder
=============================================================================
