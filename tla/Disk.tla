-------------------------------- MODULE Disk --------------------------------
(***************************************************************************)
(* The disk driver (drivers/disk/InitDevice.cs) on a drive of module Ata:  *)
(* its server reads the first sector, and of each partition in it the      *)
(* first one, to make the volumes, through which clients read the drive.   *)
(***************************************************************************)
EXTENDS Ata

CONSTANTS
  DiskThread,   \* the client that is the disk driver's server
  Tables,       \* what the first sector may hold
  UintRange,    \* 2^32, range of the sum of two uints
  MaxRead       \* bound: of the sectors asked for at once

ASSUME DiskAssumption ==
  /\ DiskThread \in Clients
  /\ UintRange \in Nat \ {0} /\ MaxRead \in Nat \ {0}
  /\ \A t \in Tables : t.parts \in Seq([ptype : STRING, lba : Nat, count : Nat])

(* Two conditions that properties below depend on: a master that is a disk  *)
(* has no slave, whose late answer would be taken for the master's; and a   *)
(* partition has sectors and ends where a uint can tell.                    *)
MasterAlone == \A a \in Attached : a[0] = "ATA" => a[1] = "absent"
TablesFit == \A t \in Tables : \A i \in 1..Len(t.parts) :
               t.parts[i].ptype # "empty" =>
                 t.parts[i].count > 0 /\ t.parts[i].lba + t.parts[i].count < UintRange

VARIABLES
  table,   \* what the first sector holds: its kind and the entries
  dpc,     \* where the disk driver's server is
  entry,   \* the entry of the table it has come to
  volumes, \* children: number, first sector, length, and the entry's type
  using    \* of each client: the volume it read through last

diskvars == <<table, dpc, entry, volumes, using>>

(* Without partitions the drive itself is the one volume. *)
Whole == [n |-> 0, lba |-> 0, len |-> SectorCount, driver |-> "none"]
Volume(i) == [n |-> i, lba |-> table.parts[i].lba, len |-> table.parts[i].count,
              driver |-> table.parts[i].ptype]

(* disk.InitServer *)
ReadFirst ==
  /\ dpc = "start" /\ 0 \in children
  /\ ReadAsync(DiskThread, 0, 1)
  /\ dpc' = "first"
  /\ UNCHANGED <<table, entry, volumes, using>>

Identify ==
  /\ dpc = "first" /\ done[DiskThread]
  /\ IF table.kind = "mbr"
     THEN dpc' = "entry" /\ UNCHANGED volumes
     ELSE dpc' = "serving" /\ volumes' = {Whole}
  /\ UNCHANGED <<vars, table, entry, using>>

(* VolumesRight: an invalid entry only is left out. *)
Entry_Skip ==
  LET e == table.parts[entry]
      valid == (e.lba + e.count) % UintRange <= SectorCount IN
  /\ dpc = "entry" /\ entry <= Len(table.parts)
  /\ IF e.ptype = "empty" \/ (e.ptype # "gpt" /\ ~valid)
     THEN entry' = entry + 1 /\ UNCHANGED <<vars, dpc, volumes>>
     ELSE IF e.ptype = "gpt"
     THEN dpc' = "failed" /\ volumes' = {} /\ UNCHANGED <<vars, entry>>
     ELSE ReadAsync(DiskThread, e.lba, 1) /\ dpc' = "probe" /\ UNCHANGED <<entry, volumes>>
  /\ UNCHANGED <<table, using>>

(* One turn of the loop over the entries, up to the read of the partition's *)
(* first sector.                                                            *)
Entry ==
  LET e == table.parts[entry]
      valid == (e.lba + e.count) % UintRange <= SectorCount IN
  /\ dpc = "entry" /\ entry <= Len(table.parts)
  /\ IF e.ptype = "empty"
     THEN entry' = entry + 1 /\ UNCHANGED <<vars, dpc, volumes>>
     ELSE IF e.ptype = "gpt"
     THEN dpc' = "failed" /\ volumes' = {} /\ UNCHANGED <<vars, entry>>
     ELSE IF ~valid
     THEN dpc' = "serving" /\ volumes' = {Whole} /\ UNCHANGED <<vars, entry>>
     ELSE ReadAsync(DiskThread, e.lba, 1) /\ dpc' = "probe" /\ UNCHANGED <<entry, volumes>>
  /\ UNCHANGED <<table, using>>

(* Whatever is read, the type of the volume is that of its entry. *)
AddVolume ==
  /\ dpc = "probe" /\ done[DiskThread]
  /\ volumes' = volumes \cup {Volume(entry)}
  /\ entry' = entry + 1 /\ dpc' = "entry"
  /\ UNCHANGED <<vars, table, using>>

Serve ==
  /\ dpc = "entry" /\ entry > Len(table.parts) /\ dpc' = "serving"
  /\ UNCHANGED <<vars, table, entry, volumes, using>>

-----------------------------------------------------------------------------
(* ReadsInside: a read is not cut off at the end of the volume. *)
Clamped_None(v, i, n) == n

(* ReadAsync of a volume; the one volume that is the drive has the drive's. *)
Clamped(v, i, n) == IF v.n = 0 \/ i + n <= v.len THEN n
                    ELSE IF v.len < i THEN 0 ELSE v.len - i

(* A client reads, or writes, at least one sector that the volume has. *)
Read(c, v, i, n) ==
  /\ dpc = "serving" /\ done[c] /\ i < v.len
  /\ ReadAsync(c, v.lba + i, Clamped(v, i, n))
  /\ using' = [using EXCEPT ![c] = v]
  /\ UNCHANGED <<table, dpc, entry, volumes>>

DiskServer == ReadFirst \/ Identify \/ Entry \/ AddVolume \/ Serve

Init ==
  /\ AtaInit
  /\ table \in Tables /\ dpc = "start" /\ entry = 1 /\ volumes = {}
  /\ using = [c \in Clients |-> Whole]

Next ==
  /\ ~halted
  /\ \/ (Driver \/ Hardware) /\ UNCHANGED diskvars
     \/ DiskServer
     \/ \E c \in Clients \ {DiskThread}, v \in volumes, n \in 1..MaxRead :
          \E i \in 0..(v.len - 1) : Read(c, v, i, n)

(* Threads that are ready are run; the device answers, and its interrupts   *)
(* are delivered.                                                           *)
Fairness == /\ WF_<<vars, diskvars>>(Driver /\ UNCHANGED diskvars)
            /\ WF_<<vars, diskvars>>(Hardware /\ UNCHANGED diskvars)
            /\ WF_<<vars, diskvars>>(DiskServer)

Spec == Init /\ [][Next]_<<vars, diskvars>> /\ Fairness

-----------------------------------------------------------------------------
(* A request is answered with the sectors it asked for, in order, and       *)
(* requests are answered in the order they were queued, though a command    *)
(* that asks for more than the register's range is split, and the rest is   *)
(* started by the interrupt handler (Drive.ReadAsync, StateMachine,         *)
(* BackgroundProc).                                                         *)
InHand == IF cur_cmd # NoCmd THEN <<cur_cmd>>
          ELSE IF pc \in {"state", "cur"} THEN <<next_cmd>> ELSE << >>
Device == INSTANCE BlockQueue WITH
  Sectors <- 0..(SectorCount - 1), Lengths <- 1..MaxRead,
  queue <- InHand \o cmds,
  want <- [c \in Clients |-> <<cmd[c].sector_idx, cmd[c].length>>],
  answer <- [c \in Clients |-> IF done[c] THEN cmd[c].buf ELSE << >>]
AnsweredInOrder == Device!QueueSpec

(* The interrupt handler finds a command to go on with and room in its      *)
(* buffer whenever the device interrupts (StateMachine).                    *)
NeverHalts == ~halted

(* The volumes that disk.InitServer ends up with are those of the table if  *)
(* all its entries are valid, the whole drive if one is not, and none if a  *)
(* protective entry comes first.                                            *)
VolumesRight ==
  LET parts == table.parts
      used == {i \in 1..Len(parts) : parts[i].ptype # "empty"}
      bad == {i \in used : parts[i].lba + parts[i].count > SectorCount}
      gpt == {i \in used : parts[i].ptype = "gpt"}
      first(X, Y) == \E i \in X : \A j \in Y : i <= j IN
  /\ dpc = "serving" => volumes = IF table.kind # "mbr" \/ bad \ gpt # {} THEN {Whole}
                                  ELSE {Volume(i) : i \in used}
  /\ dpc = "failed" => first(gpt, bad \cup gpt) /\ volumes = {}

(* What is read through a volume lies inside it, when the read goes past    *)
(* its end as well (ReadAsync of the volume's BlockDevice).                 *)
ReadsInside ==
  \A c \in Clients \ {DiskThread} : \A i \in 1..Len(cmd[c].buf) :
    using[c].lba <= cmd[c].buf[i] /\ cmd[c].buf[i] < using[c].lba + using[c].len

Stalled == \E c \in Clients : cmd[c].error

(* Every request is answered, by interrupts and the server's thread         *)
(* together, as long as the drive reports no error.  With a master that     *)
(* answers IDENTIFY the driver comes to its message loop and, if it is a    *)
(* disk, the disk driver to an end of its InitServer.                       *)
Served == /\ \A c \in Clients : ~done[c] ~> done[c] \/ Stalled
          /\ attached[0] # "absent" ~> pc # "spin"
          /\ attached[0] = "ATA" ~> dpc \in {"serving", "failed"} \/ Stalled
=============================================================================
