------------------------------- MODULE MCDisk -------------------------------
(* The disk for TLC: a drive of six sectors whose last one can not be read, *)
(* commands of at most two sectors, and tables of each kind.  A master that *)
(* is a disk has no slave.                                                  *)
EXTENDS Disk

ASSUME MasterAlone /\ TablesFit

Buses == {[d \in {0, 1} |-> IF d = 0 THEN m ELSE "ATA"] : m \in {"ATAPI", "unknown", "absent"}}
           \cup {[d \in {0, 1} |-> IF d = 0 THEN "ATA" ELSE "absent"]}

Part(t, l, n) == [ptype |-> t, lba |-> l, count |-> n]
Mbr(parts) == [kind |-> "mbr", parts |-> parts]
FirstSectors ==
  {[kind |-> "none", parts |-> << >>],
   Mbr(<<Part("fat", 1, 5), Part("empty", 0, 0), Part("ext2", 1, 3)>>),
   Mbr(<<Part("other", 1, 1), Part("fat", 4, 3), Part("gpt", 1, 5)>>),
   Mbr(<<Part("fat", 1, 1), Part("gpt", 1, 5), Part("fat", 4, 3)>>)}
=============================================================================
