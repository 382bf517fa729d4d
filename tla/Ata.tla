-------------------------------- MODULE Ata --------------------------------
(***************************************************************************)
(* The ATA driver (drivers/ata/InitDevice.cs and Drive.cs): a server       *)
(* thread that starts commands, an interrupt handler that moves the data   *)
(* and starts what is left of a command, and clients that queue requests   *)
(* and wait for their event.  The handler runs with interrupts disabled;   *)
(* the thread can be interrupted between any two of its steps.             *)
(*                                                                         *)
(* WriteAsync queues the same command as ReadAsync, is_write = false       *)
(* included, so the driver is never in state WriteSent.                    *)
(***************************************************************************)
EXTENDS Integers, Sequences

CONSTANTS
  Clients, NoCmd,  \* threads that use the drive; the null pointer
  Attached,        \* pairs of what may be attached as master and slave:
                   \* "ATA", "ATAPI", "unknown" or "absent"
  SectorCount,     \* sectors of the master
  Faulty,          \* sectors that can not be read
  CountRange,      \* 0x100, range of the sector count register
  LbaRange         \* 2^28, range of the sector address

ASSUME AtaAssumption ==
  /\ NoCmd \notin Clients
  /\ CountRange \in Nat \ {0} /\ LbaRange \in Nat \ {0}
  /\ SectorCount \in 1..(LbaRange - 1)

VARIABLES
  s, drive,        \* state of the driver, drive it is working with
  children,        \* drives a Drive object was made for
  cmds, cur_cmd,   \* queue of commands, command in progress
  cmd,             \* of each client: its Cmd
  done,            \* of each client: whether the event of its Cmd is set
  pc, next_cmd,    \* of the server thread: where it is, its local variable
  attached, selected, device,   \* the hardware: see below
  halted           \* a null pointer was followed or an array overrun

drvvars == <<s, drive, children, cur_cmd, cmd, done>>
hwvars == <<selected, device>>
vars == <<drvvars, cmds, pc, next_cmd, attached, hwvars, halted>>

-----------------------------------------------------------------------------
(* The hardware.  Two devices share registers; the selected one takes       *)
(* commands and shows its interrupt.  For a command to read, a device makes *)
(* one sector after the other ready, each with an interrupt.                *)
NoOp == [op |-> "none", lba |-> 0, left |-> 0, ready |-> FALSE, err |-> FALSE, intr |-> FALSE]

Command(dev, d, op, lba, n) ==
  IF attached[d] = "absent" THEN dev
  ELSE [dev EXCEPT ![d] = [op |-> op, lba |-> lba, left |-> n,
                           ready |-> FALSE, err |-> FALSE, intr |-> FALSE]]

Readable(lba) == lba < SectorCount /\ lba \notin Faulty

Fails(d) == \/ device[d].op = "identify" /\ attached[d] # "ATA"
            \/ device[d].op = "read" /\ ~Readable(device[d].lba)

DeviceReady(d) ==
  /\ device[d].op # "none" /\ ~device[d].ready
  /\ device' = [device EXCEPT ![d] =
                  IF Fails(d) THEN [NoOp EXCEPT !.err = TRUE, !.intr = TRUE]
                  ELSE [@ EXCEPT !.ready = TRUE, !.intr = TRUE]]
  /\ UNCHANGED <<drvvars, cmds, pc, next_cmd, attached, selected, halted>>

(* A device after its status was read, or its data. *)
StatusRead(r) == [r EXCEPT !.intr = FALSE]
DataRead(r) == IF r.left > 1
               THEN [r EXCEPT !.lba = @ + 1, !.left = @ - 1, !.ready = FALSE, !.intr = FALSE]
               ELSE NoOp

-----------------------------------------------------------------------------
(* Drive.ReadAsync and WriteAsync: the command is queued.  The length is    *)
(* that of the buffer in sectors, and what is in it tells how many sectors  *)
(* were transferred.                                                        *)
ReadAsync(c, i, n) ==
  /\ cmd' = [cmd EXCEPT ![c] =
               [sector_idx |-> i, cur_sector |-> i, length |-> n, sector_count |-> n,
                cur_cmd_sector_count |-> 0, cur_cmd_sector_idx |-> 0, buf |-> << >>,
                error |-> FALSE]]
  /\ done' = [done EXCEPT ![c] = FALSE]
  /\ cmds' = Append(cmds, c)
  /\ UNCHANGED <<s, drive, children, cur_cmd, pc, next_cmd, attached, hwvars, halted>>

(* What one command asks the device for: the register takes a byte, 0 for   *)
(* its whole range.                                                         *)
Count(n) == IF n % CountRange = 0 THEN CountRange ELSE n % CountRange

(* AnsweredInOrder: the next command starts where the first one did. *)
Issued_NoAdvance(r) ==
  [r EXCEPT !.sector_count = @ - Count(r.sector_count),
            !.cur_cmd_sector_count = Count(r.sector_count), !.cur_cmd_sector_idx = 0]

(* A Cmd after SendDeviceCommand, and the device.                           *)
Issued(r) ==
  [r EXCEPT !.cur_sector = @ + Count(r.sector_count),
            !.sector_count = @ - Count(r.sector_count),
            !.cur_cmd_sector_count = Count(r.sector_count), !.cur_cmd_sector_idx = 0]

(* NeverHalts: the device is asked for one sector too many. *)
SendDeviceCommand_Extra(dev, r) ==
  Command(dev, drive, "read", r.cur_sector % LbaRange, Count(r.sector_count) + 1)

SendDeviceCommand(dev, r) ==
  Command(dev, drive, "read", r.cur_sector % LbaRange, Count(r.sector_count))

(* BackgroundProc: nothing is done while a command is in progress. *)
Take ==
  /\ pc = "loop" /\ cur_cmd = NoCmd /\ s = "Idle" /\ cmds # << >>
  /\ next_cmd' = Head(cmds) /\ cmds' = Tail(cmds)
  /\ pc' = "state"
  /\ UNCHANGED <<drvvars, attached, hwvars, halted>>

SetState ==
  /\ pc = "state" /\ s' = "ReadSent" /\ pc' = "cur"
  /\ UNCHANGED <<drive, children, cur_cmd, cmd, done, cmds, next_cmd, attached, hwvars, halted>>

SetCommand ==
  /\ pc = "cur" /\ cur_cmd' = next_cmd /\ pc' = "send"
  /\ drive' = 0   \* no other has a Drive object
  /\ UNCHANGED <<s, children, cmd, done, cmds, next_cmd, attached, hwvars, halted>>

Send ==
  /\ pc = "send"
  /\ cmd' = [cmd EXCEPT ![next_cmd] = Issued(@)]
  /\ selected' = drive /\ device' = SendDeviceCommand(device, cmd[next_cmd])
  /\ pc' = "loop"
  /\ UNCHANGED <<s, drive, children, cur_cmd, done, cmds, next_cmd, attached, halted>>

-----------------------------------------------------------------------------
(* The states of StateMachine.  SendIdentifyDevice leaves Init at once, so  *)
(* that no failure of the master is seen.                                   *)
SendIdentify ==
  /\ drive' = 0 /\ s' = "StartupIdentifySent"
  /\ selected' = 0 /\ device' = Command(device, 0, "identify", 0, 1)
  /\ UNCHANGED <<children, cur_cmd, cmd, done, halted>>

(* The answer of a slave can not come before the test for it, with          *)
(* interrupts disabled.                                                     *)
Identified ==
  /\ children' = IF device[selected].err THEN children ELSE children \cup {drive}
  /\ s' = "Idle" /\ drive' = 1 /\ selected' = 1
  /\ device' = Command([device EXCEPT ![selected] = DataRead(@)], 1, "identify", 0, 1)
  /\ UNCHANGED <<cur_cmd, cmd, done, halted>>

Halt == halted' = TRUE /\ UNCHANGED <<drvvars, hwvars>>

ReadFailed ==
  /\ cmd' = [cmd EXCEPT ![cur_cmd].error = TRUE]
  /\ s' = "Idle"
  /\ device' = [device EXCEPT ![selected] = StatusRead(@)]
  /\ UNCHANGED <<drive, children, cur_cmd, done, selected, halted>>

(* The Cmd once a sector has been moved into its buffer. *)
Moved(r) == [r EXCEPT !.cur_cmd_sector_idx = @ + 1, !.buf = Append(@, device[selected].lba)]

(* Served: the driver does not become idle. *)
Transfer_KeepState ==
  LET r == Moved(cmd[cur_cmd])
      dev == [device EXCEPT ![selected] = DataRead(@)]
      over == r.cur_cmd_sector_idx = r.cur_cmd_sector_count IN
  /\ cmd' = [cmd EXCEPT ![cur_cmd] = IF over /\ r.sector_count # 0 THEN Issued(r) ELSE r]
  /\ IF over /\ r.sector_count = 0
     THEN done' = [done EXCEPT ![cur_cmd] = TRUE] /\ cur_cmd' = NoCmd
     ELSE UNCHANGED <<done, cur_cmd>>
  /\ device' = IF over /\ r.sector_count # 0 THEN SendDeviceCommand(dev, r) ELSE dev
  /\ selected' = IF over /\ r.sector_count # 0 THEN drive ELSE selected
  /\ UNCHANGED <<s, drive, children, halted>>

Transfer ==
  LET r == Moved(cmd[cur_cmd])
      dev == [device EXCEPT ![selected] = DataRead(@)]
      over == r.cur_cmd_sector_idx = r.cur_cmd_sector_count IN
  /\ cmd' = [cmd EXCEPT ![cur_cmd] = IF over /\ r.sector_count # 0 THEN Issued(r) ELSE r]
  /\ IF over /\ r.sector_count = 0
     THEN done' = [done EXCEPT ![cur_cmd] = TRUE] /\ cur_cmd' = NoCmd /\ s' = "Idle"
     ELSE UNCHANGED <<done, cur_cmd, s>>
  /\ device' = IF over /\ r.sector_count # 0 THEN SendDeviceCommand(dev, r) ELSE dev
  /\ selected' = IF over /\ r.sector_count # 0 THEN drive ELSE selected
  /\ UNCHANGED <<drive, children, halted>>

Unhandled == /\ device' = [device EXCEPT ![selected] = StatusRead(@)]
             /\ UNCHANGED <<drvvars, selected, halted>>

IrqHandler ==
  /\ device[selected].intr
  /\ IF s = "Init" THEN SendIdentify
     ELSE IF s = "StartupIdentifySent" THEN Identified
     ELSE IF s = "Idle" THEN Unhandled
     ELSE IF cur_cmd = NoCmd THEN Halt
     ELSE IF device[selected].err THEN ReadFailed
     ELSE IF Len(cmd[cur_cmd].buf) = cmd[cur_cmd].length THEN Halt
     ELSE Transfer
  /\ UNCHANGED <<cmds, pc, next_cmd, attached>>

(* InitServer, then MessageLoop's wait for the drives to be identified. *)
InitServer ==
  /\ pc = "init" /\ SendIdentify /\ pc' = "spin"
  /\ UNCHANGED <<cmds, next_cmd, attached>>

EnterLoop ==
  /\ pc = "spin" /\ s = "Idle" /\ pc' = "loop"
  /\ UNCHANGED <<drvvars, cmds, next_cmd, attached, hwvars, halted>>

AtaInit ==
  /\ s = "Init" /\ drive = 0 /\ children = {}
  /\ cmds = << >> /\ cur_cmd = NoCmd
  /\ cmd = [c \in Clients |->
              [sector_idx |-> 0, cur_sector |-> 0, length |-> 0, sector_count |-> 0,
               cur_cmd_sector_count |-> 0, cur_cmd_sector_idx |-> 0, buf |-> << >>,
               error |-> FALSE]]
  /\ done = [c \in Clients |-> TRUE]
  /\ pc = "init" /\ next_cmd = NoCmd
  /\ attached \in Attached /\ selected = 0 /\ device = [d \in {0, 1} |-> NoOp]
  /\ halted = FALSE

Driver == InitServer \/ EnterLoop \/ Take \/ SetState \/ SetCommand \/ Send
Hardware == IrqHandler \/ \E d \in {0, 1} : DeviceReady(d)
=============================================================================
