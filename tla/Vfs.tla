-------------------------------- MODULE Vfs --------------------------------
(***************************************************************************)
(* The virtual file system (services/vfs): a server that keeps the mount   *)
(* points, the open handles and the files that carry a tag, with the       *)
(* processes that want to be told of them.  While it executes a call it    *)
(* calls the servers of the devices and of the drivers, and waits for      *)
(* them; they run meanwhile, but no other call on the VFS is executed.     *)
(*                                                                         *)
(* The other parties are KMain, which mounts what the system is started    *)
(* from and then loads a driver (Program.cs), the drivers' processes,      *)
(* which make a device for each mount, the devices, which register their   *)
(* tag on entering their message loop (ServerObject.cs), and clients.      *)
(* The one tag in use is "class"; a path is a sequence of names.           *)
(***************************************************************************)
EXTENDS Integers, Sequences, FiniteSets, TLC

CONSTANTS
  None, KMain, Clients,
  Files,        \* of each driver, by path: the driver and class properties of
                \* the files its devices have, None for a missing property
  Tagged,       \* drivers whose devices have the tag "class" in Tags
  BootMounts,   \* paths KMain mounts, after "/", in this order
  BootDriver,   \* the driver it then loads
  Paths, Classes,  \* paths that are used, and classes of files
  Uses,         \* of each client: the methods it calls, with the paths
  Asks,         \* and the classes it asks for
  MaxCalls      \* bound on the calls of all clients

VARIABLES
  mounts,        \* mounted paths, with their device
  open_handles,  \* the list of handles and the processes that opened them
  err,           \* handles whose Error is ERROR_INVALID_HANDLE
  entries,       \* of each tag value: the paths that carry it
  add_dels,      \* of each tag value: the processes to be told
  msgs, cur,     \* the server's mailbox, the call it is executing
  procs,         \* of each driver: state of its process
  devs,          \* of each device: state of its server, MountPath, mailbox
  boot, made,    \* progress of KMain, number of calls that clients made
  busy, asked,   \* clients that wait for an answer; what they asked for
  held, shut,    \* the handles clients were given, those they closed
  told, times,   \* messages sent to each client; how often a path was tagged
  halted         \* the server ended with an exception

fsvars == <<mounts, open_handles, err>>
tagvars == <<entries, add_dels, told, times>>
clivars == <<made, busy, asked, held, shut>>
vars == <<fsvars, tagvars, clivars, msgs, cur, procs, devs, boot, halted>>

Rootfs == [driver |-> "rootfs", at |-> << >>]

-----------------------------------------------------------------------------
(* Path names *)

(* The names left when "." and ".." are resolved; Above when they lead out  *)
(* of the root.                                                             *)
Above == <<"..">>
RECURSIVE Normal(_, _)
Normal(done, todo) ==
  IF todo = << >> THEN done
  ELSE LET n == Len(done)  rest == Tail(todo) IN
       CASE Head(todo) = "."  -> Normal(done, rest)
         [] Head(todo) = ".." -> IF n = 0 THEN Above ELSE Normal(SubSeq(done, 1, n - 1), rest)
         [] OTHER -> Normal(Append(done, Head(todo)), rest)

(* Resolved: the first mount point on the way down is taken. *)
RECURSIVE Locate_Shortest(_, _)
Locate_Shortest(mount, additional) ==
  IF additional \in DOMAIN mounts
  THEN [device |-> mounts[additional], mount_point |-> additional, path |-> mount]
  ELSE IF mount = << >> THEN [device |-> None, mount_point |-> None, path |-> << >>]
  ELSE Locate_Shortest(Tail(mount), Append(additional, Head(mount)))

(* The loop of GetPath: names are moved from the end of one list to the     *)
(* front of the other until the first is a mount point.                     *)
RECURSIVE Locate(_, _)
Locate(mount, additional) ==
  IF mount \in DOMAIN mounts
  THEN [device |-> mounts[mount], mount_point |-> mount, path |-> additional]
  ELSE IF mount = << >> THEN [device |-> None, mount_point |-> None, path |-> additional]
  ELSE LET n == Len(mount) IN
       Locate(SubSeq(mount, 1, n - 1), <<mount[n]>> \o additional)

(* GetPath: None when the path leads out of the root, or to nothing.        *)
GetPath(p) ==
  LET n == Normal(<< >>, p)
      l == Locate(n, << >>) IN
  IF n = Above \/ (l.device = None /\ n # << >>) THEN None ELSE l

(* The explicit conversion from Path to PathPart. *)
PathPart(l) == IF l.mount_point = None THEN l.path ELSE l.mount_point \o l.path

-----------------------------------------------------------------------------
(* Files.  A device answers once its server is in its message loop and has  *)
(* executed the calls made before.                                          *)
Answers(d) == devs[d].state = "loop" /\ devs[d].mail = << >>

Exists(l) == l.path \in DOMAIN Files[l.device.driver]
File(l) == Files[l.device.driver][l.path]

(* OpenFile(p), up to the answer of the device: whether it succeeds.        *)
Openable(p) == LET l == GetPath(p) IN
  /\ l # None /\ l.device # None
  /\ Exists(l)
Waits(p) == LET l == GetPath(p) IN l # None /\ l.device # None => Answers(l.device)

Ids == {open_handles[i].handle.id : i \in 1..Len(open_handles)} \cup {h[2].id : h \in held}
NewHandle(p) ==
  LET n == CHOOSE k \in 1..(Cardinality(Ids) + 1) : k \notin Ids /\ \A j \in 1..(k - 1) : j \in Ids
  IN [id |-> n, device |-> GetPath(p).device]
Opened(h, process) == Append(open_handles, [handle |-> h, process |-> process])

(* CloseFile: the first entry of the handle that the caller has opened.     *)
EntriesOf(h, process) ==
  {i \in 1..Len(open_handles) : open_handles[i] = [handle |-> h, process |-> process]}

(* HandlesKept: the first entry of the process, of whichever handle.        *)
Without_Process(h, process) ==
  LET own == {i \in 1..Len(open_handles) : open_handles[i].process = process}
      i == CHOOSE k \in own : \A j \in own : k <= j
  IN SubSeq(open_handles, 1, i - 1) \o SubSeq(open_handles, i + 1, Len(open_handles))

Without(h, process) ==
  LET i == CHOOSE k \in EntriesOf(h, process) : \A j \in EntriesOf(h, process) : k <= j
  IN SubSeq(open_handles, 1, i - 1) \o SubSeq(open_handles, i + 1, Len(open_handles))

-----------------------------------------------------------------------------
(* The server: it takes a call from its mailbox and executes it in one step *)
(* or, for Mount, several.                                                  *)
Call(op, from, path, class, handle) ==
  [op |-> op, from |-> from, path |-> path, class |-> class, handle |-> handle]

(* The services that ask to be told of devices do not wait for the answer.  *)
Awaited(op) == op # "RegisterAddHandler"

HandleMessage ==
  /\ ~halted /\ cur = None /\ msgs # << >>
  /\ cur' = Head(msgs) @@ [at |-> "begin", protocol |-> None]
  /\ msgs' = Tail(msgs)
  /\ UNCHANGED <<fsvars, tagvars, clivars, procs, devs, boot, halted>>

In(op, stage) == ~halted /\ cur # None /\ cur.op = op /\ cur.at = stage
Goto(stage) == cur' = [cur EXCEPT !.at = stage]

(* The call returns; a client that waits for it goes on. *)
Return == cur' = None /\ busy' = IF Awaited(cur.op) THEN busy \ {cur.from} ELSE busy

OpenFile ==
  /\ In("OpenFile", "begin") /\ Waits(cur.path)
  /\ LET h == NewHandle(cur.path) IN
     IF Openable(cur.path)
     THEN /\ open_handles' = Opened(h, cur.from)
          /\ held' = held \cup {<<cur.from, h>>}
     ELSE UNCHANGED <<open_handles, held>>
  /\ Return
  /\ UNCHANGED <<mounts, err, tagvars, made, asked, shut, msgs, procs, devs, boot, halted>>

CloseFile ==
  /\ In("CloseFile", "begin")
  /\ IF EntriesOf(cur.handle, cur.from) # {}
     THEN /\ Answers(cur.handle.device)
          /\ open_handles' = Without(cur.handle, cur.from) /\ err' = err \ {cur.handle}
     ELSE /\ err' = err \cup {cur.handle}
          /\ UNCHANGED open_handles
  /\ Return
  /\ UNCHANGED <<mounts, tagvars, made, asked, held, shut, msgs, procs, devs, boot, halted>>

-----------------------------------------------------------------------------
(* Mount(path): the file there tells the driver.  Without one the handle is *)
(* left open.                                                               *)
MountSource ==
  /\ In("Mount", "begin") /\ Waits(cur.path)
  /\ LET h == NewHandle(cur.path)
         driver == File(GetPath(cur.path)).driver
         mounted == PathPart(GetPath(cur.path)) \in DOMAIN mounts IN
     IF Openable(cur.path)
     THEN /\ open_handles' = IF driver # None /\ mounted THEN open_handles
                             ELSE Opened(h, cur.from)
          /\ IF driver = None \/ mounted THEN Return
             ELSE /\ cur' = [cur EXCEPT !.at = "driver", !.protocol = driver]
                  /\ UNCHANGED busy
     ELSE Return /\ UNCHANGED open_handles
  /\ UNCHANGED <<mounts, err, tagvars, made, asked, held, shut, msgs, procs, devs, boot, halted>>

Module(protocol) == <<"modules", protocol>>

(* The driver's process is looked up, and started from its module if there  *)
(* is none; a module that can not be opened is an exception.                *)
MountDriver ==
  /\ In("Mount", "driver")
  /\ IF procs[cur.protocol] # "none"
     THEN Goto("server") /\ UNCHANGED <<open_handles, procs, halted>>
     ELSE /\ Waits(Module(cur.protocol))
          /\ IF Openable(Module(cur.protocol))
             THEN /\ open_handles' = Opened(NewHandle(Module(cur.protocol)), cur.from)
                  /\ procs' = [procs EXCEPT ![cur.protocol] = "started"]
                  /\ Goto("server") /\ UNCHANGED halted
             ELSE halted' = TRUE /\ UNCHANGED <<cur, open_handles, procs>>
  /\ UNCHANGED <<mounts, err, tagvars, clivars, msgs, devs, boot>>

Device == [driver |-> cur.protocol, at |-> PathPart(GetPath(cur.path))]

(* It waits for the process to have a message server and calls its          *)
(* CreateFSHandler, which starts a process for the new device.              *)
CreateFSHandler ==
  /\ In("Mount", "server") /\ procs[cur.protocol] = "server"
  /\ devs' = Device :> [state |-> "started", MountPath |-> None, mail |-> << >>] @@ devs
  /\ Goto("mount")
  /\ UNCHANGED <<fsvars, tagvars, clivars, msgs, procs, boot, halted>>

(* Answered: what is sent to a device that is still registering its tags is *)
(* lost.                                                                    *)
SetMountPath_Lost(d, p) ==
  /\ devs[d].state # "started"
  /\ devs' = [devs EXCEPT ![d].mail = IF devs[d].state = "loop" THEN Append(@, p) ELSE @]
  /\ mounts' = p :> d @@ mounts

(* SetMountPath is sent when the device has entered its message loop, and   *)
(* not waited for.                                                          *)
SetMountPath(d, p) ==
  /\ devs[d].state # "started"
  /\ devs' = [devs EXCEPT ![d].mail = Append(@, p)]
  /\ mounts' = p :> d @@ mounts

MountDevice ==
  /\ In("Mount", "mount")
  /\ SetMountPath(Device, Device.at)
  /\ Return
  /\ UNCHANGED <<open_handles, err, tagvars, made, asked, held, shut, msgs, procs, boot, halted>>

(* Mount("/", rootfs), as KMain calls it. *)
MountRoot ==
  /\ In("MountRoot", "begin")
  /\ IF PathPart(GetPath(<< >>)) \in DOMAIN mounts THEN UNCHANGED <<devs, mounts>>
     ELSE SetMountPath(Rootfs, << >>)
  /\ Return
  /\ UNCHANGED <<open_handles, err, tagvars, made, asked, held, shut, msgs, procs, boot, halted>>

-----------------------------------------------------------------------------
(* Tags.  Every process that asked for a class is told of every path that   *)
(* gets it, whether the path had it before or not.                          *)
AddEntry(class, p) ==
  /\ entries' = [entries EXCEPT ![class] = @ \cup {p}]
  /\ times' = [times EXCEPT ![class, p] = @ + 1]
  /\ told' = [told EXCEPT ![class, p] = [c \in Clients |-> @[c] +
                Cardinality({i \in 1..Len(add_dels[class]) : add_dels[class][i] = c})]]
  /\ UNCHANGED add_dels

RegisterTag ==
  /\ In("RegisterTag", "begin")
  /\ IF cur.path = None THEN UNCHANGED tagvars
     ELSE /\ Waits(cur.path)
          /\ IF Openable(cur.path) /\ File(GetPath(cur.path)).class # None
             THEN AddEntry(File(GetPath(cur.path)).class, PathPart(GetPath(cur.path)))
             ELSE UNCHANGED tagvars
  /\ Return
  /\ UNCHANGED <<fsvars, made, asked, held, shut, msgs, procs, devs, boot, halted>>

(* Told: the caller is only told of paths that are registered later.        *)
RegisterAddHandler_Later ==
  /\ In("RegisterAddHandler", "begin")
  /\ add_dels' = [add_dels EXCEPT ![cur.class] = Append(@, cur.from)]
  /\ Return
  /\ UNCHANGED <<fsvars, entries, told, times, made, asked, held, shut, msgs, procs, devs, boot, halted>>

(* The caller, which runs a message loop, is told of the paths there are.   *)
RegisterAddHandler ==
  /\ In("RegisterAddHandler", "begin")
  /\ add_dels' = [add_dels EXCEPT ![cur.class] = Append(@, cur.from)]
  /\ told' = [x \in DOMAIN told |-> IF x[1] = cur.class /\ x[2] \in entries[cur.class]
                                    THEN [told[x] EXCEPT ![cur.from] = @ + 1] ELSE told[x]]
  /\ Return
  /\ UNCHANGED <<fsvars, entries, times, made, asked, held, shut, msgs, procs, devs, boot, halted>>

Vfs == HandleMessage \/ OpenFile \/ CloseFile \/ MountSource \/ MountDriver \/ CreateFSHandler
       \/ MountDevice \/ MountRoot \/ RegisterTag \/ RegisterAddHandler

-----------------------------------------------------------------------------
(* The other processes *)
Send(call) == msgs' = Append(msgs, call)

(* KMain does not wait for the mounts before it loads the driver. *)
Boot ==
  /\ boot <= Len(BootMounts) + 1
  /\ boot' = boot + 1
  /\ IF boot = 0 THEN Send(Call("MountRoot", KMain, << >>, None, None)) /\ UNCHANGED procs
     ELSE IF boot <= Len(BootMounts)
     THEN Send(Call("Mount", KMain, BootMounts[boot], None, None)) /\ UNCHANGED procs
     ELSE procs' = [procs EXCEPT ![BootDriver] = "started"] /\ UNCHANGED msgs
  /\ UNCHANGED <<fsvars, tagvars, clivars, cur, devs, halted>>

(* The process of a driver enters its message loop. *)
DriverLoop(p) ==
  /\ procs[p] = "started"
  /\ procs' = [procs EXCEPT ![p] = "server"]
  /\ UNCHANGED <<fsvars, tagvars, clivars, msgs, cur, devs, boot, halted>>

(* ServerObject.MessageLoop of a device: t is set; InitServer is called and *)
(* the tags registered; the calls made meanwhile are executed.              *)
EnterLoop(d) ==
  /\ devs[d].state = "started"
  /\ devs' = [devs EXCEPT ![d].state = "init"]
  /\ UNCHANGED <<fsvars, tagvars, clivars, msgs, cur, procs, boot, halted>>

RegisterTags(d) ==
  /\ devs[d].state = "init"
  /\ devs' = [devs EXCEPT ![d].state = "loop"]
  /\ IF d.driver \in Tagged
     THEN Send(Call("RegisterTag", d, devs[d].MountPath, None, None)) ELSE UNCHANGED msgs
  /\ UNCHANGED <<fsvars, tagvars, clivars, cur, procs, boot, halted>>

PathSet(d) ==
  /\ devs[d].state = "loop" /\ devs[d].mail # << >>
  /\ devs' = [devs EXCEPT ![d].MountPath = Head(devs[d].mail), ![d].mail = Tail(@)]
  /\ UNCHANGED <<fsvars, tagvars, clivars, msgs, cur, procs, boot, halted>>

(* A client makes a call, and most often waits for the answer.  It asks for *)
(* a class once, as the services do when they start.                        *)
Request(c, call) ==
  /\ ~halted /\ c \notin busy /\ made < MaxCalls
  /\ made' = made + 1 /\ busy' = IF Awaited(call.op) THEN busy \cup {c} ELSE busy
  /\ Send(call)
  /\ asked' = IF Awaited(call.op) THEN asked ELSE asked \cup {<<c, call.class>>}
  /\ shut' = IF call.op = "CloseFile" THEN shut \cup {<<c, call.handle>>} ELSE shut
  /\ UNCHANGED <<fsvars, tagvars, held, cur, procs, devs, boot, halted>>

Client(c) ==
  \/ \E u \in Uses[c] : Request(c, Call(u[1], c, u[2], None, None))
  \/ \E class \in {k \in Asks[c] : <<c, k>> \notin asked} :
       Request(c, Call("RegisterAddHandler", c, None, class, None))
  \/ \E h \in {x \in held : x[1] = c} : Request(c, Call("CloseFile", c, None, None, h[2]))

DeviceServer(d) == EnterLoop(d) \/ RegisterTags(d) \/ PathSet(d)

NormalPaths == {Normal(<< >>, p) : p \in Paths \cup {BootMounts[i] : i \in 1..Len(BootMounts)}}

Init ==
  /\ mounts = << >> /\ open_handles = << >> /\ err = {}
  /\ entries = [class \in Classes |-> {}] /\ add_dels = [class \in Classes |-> << >>]
  /\ msgs = << >> /\ cur = None
  /\ procs = [p \in DOMAIN Files |-> "none"]
  /\ devs = Rootfs :> [state |-> "started", MountPath |-> None, mail |-> << >>]
  /\ boot = 0 /\ made = 0 /\ busy = {} /\ asked = {} /\ held = {} /\ shut = {}
  /\ told = [x \in Classes \X NormalPaths |-> [c \in Clients |-> 0]]
  /\ times = [x \in Classes \X NormalPaths |-> 0]
  /\ halted = FALSE

Next ==
  \/ Vfs \/ Boot
  \/ \E p \in DOMAIN Files : DriverLoop(p)
  \/ \E d \in DOMAIN devs : DeviceServer(d)
  \/ \E c \in Clients : Client(c)

(* The threads are of one priority and get on; clients need not call.       *)
Fairness == /\ WF_vars(Vfs) /\ WF_vars(Boot)
            /\ WF_vars(\E p \in DOMAIN Files : DriverLoop(p))
            /\ WF_vars(\E d \in DOMAIN devs : DeviceServer(d))

Spec == Init /\ [][Next]_vars /\ Fairness

-----------------------------------------------------------------------------
IsPrefix(s, u) == Len(s) <= Len(u) /\ SubSeq(u, 1, Len(s)) = s

(* GetPath finds the device of the longest mounted part of a path, however  *)
(* the path is spelt, and the rest of the path; a mount point has the       *)
(* device that was made for it, though Mount tests for it long before it    *)
(* enters it.                                                               *)
Resolved ==
  /\ \A p \in Paths : LET l == GetPath(p)
                          n == Normal(<< >>, p)
                          on == {m \in DOMAIN mounts : IsPrefix(m, n)} IN
       n # Above /\ on # {} => /\ PathPart(l) = n
                              /\ l.mount_point \in on /\ l.device = mounts[l.mount_point]
                              /\ \A m \in on : Len(m) <= Len(l.mount_point)
  /\ \A p \in DOMAIN mounts : mounts[p].at = p /\ mounts[p] \in DOMAIN devs

(* A handle that a client opened and did not close is on the list, for that *)
(* client, once, and can be used (OpenFile, CloseFile), and no handle is on *)
(* it twice.                                                                *)
HandlesKept ==
  /\ \A x \in held \ shut : EntriesOf(x[2], x[1]) # {} /\ x[2] \notin err
  /\ \A i, j \in 1..Len(open_handles) :
       open_handles[i].handle = open_handles[j].handle => i = j

(* Whether it asks before or after, a process that asked for a class is     *)
(* told of every path that has it, and no more often than the path was      *)
(* registered (RegisterAddHandler, AddEntry).                               *)
Told ==
  \A class \in Classes, p \in NormalPaths, c \in Clients :
    LET k == Cardinality({i \in 1..Len(add_dels[class]) : add_dels[class][i] = c})
        n == told[class, p][c] IN
    /\ p \in entries[class] => k <= n
    /\ n <= k * times[class, p]

(* Every call is answered, though the server waits for others while they    *)
(* call it, unless Mount ends with the exception that a driver's module can *)
(* not be opened; and the devices that are mounted learn their paths, again *)
(* and again until no more are mounted.                                     *)
Answered ==
  /\ \A c \in Clients : c \in busy ~> c \notin busy \/ halted
  /\ []<>(\A p \in DOMAIN mounts : devs[mounts[p]].MountPath = p)
=============================================================================
