---------------------------- MODULE NonDestructive ----------------------------
(***************************************************************************)
(* non_destructive_install (src/src/installer.rs): the partition the user  *)
(* already has is shrunk, or the free space behind it is used, to make     *)
(* room for the EFI partition.  The program is run several times and may   *)
(* be killed between any two steps or fail in any of them.                 *)
(*                                                                         *)
(* The table has four slots (a GPT has 128: only "is there a free slot,    *)
(* and which" matters).  Writing a GPT is one step here; module GptUpdate  *)
(* takes it apart.                                                         *)
(***************************************************************************)
EXTENDS DiskLayout, FiniteSets

CONSTANTS
  U32,            \* the modulus of an MBR entry's sector numbers
  Disks,          \* the disks the program may meet: records as in DiskType
  MaxRuns,        \* bound: the program is started at most MaxRuns times
  MaxKills        \* bound: it is killed at most MaxKills times

Slots == 1..4
ExtentType == [start : Nat, count : Nat]

\* total: sectors; style: "mbr" or "gpt"; table: the user's partitions;
\* kind: filesystem on partition 1; fs: its size in sectors.
DiskType == [total : Nat, style : {"mbr", "gpt"}, table : [Slots -> ExtentType],
             kind : {"ntfs", "ext", "other"}, fs : Nat]

Empty(e) == e.count = 0

\* Mutant: the end of partition 1 is taken for its last sector.
IsChoosableOffByOne(t) ==
  /\ t[1].start = CHOOSABLE_PART1_START_SECTOR
  /\ t[2].start = EndOf(t[1]) + 1
  /\ t[2].count = EFI_PART_SECTORS

\* detect_choosable; the GPT name it compares is the one that is always written.
IsChoosable(t) ==
  /\ t[1].start = CHOOSABLE_PART1_START_SECTOR
  /\ t[2].start = EndOf(t[1])
  /\ t[2].count = EFI_PART_SECTORS

\* What can be handed over: partition 1, if there is one, holds a filesystem
\* and comes first, no two partitions overlap, all lie on the disk and in
\* reach of the table's numbers, and it is not a Choosable disk already.
SoundDisk(d) ==
  /\ d.fs <= d.table[1].count /\ (d.fs = 0 <=> Empty(d.table[1]))
  /\ \A i \in 2..4 : ~Empty(d.table[i]) => d.table[i].start >= EndOf(d.table[1])
  /\ \A i, j \in Slots : i # j => ~Overlap(d.table[i], d.table[j])
  /\ \A i \in Slots : EndOf(d.table[i]) <= UsableEnd(d.style, d.total)
  /\ d.style = "mbr" => d.total < U32
  /\ ~IsChoosable(d.table)

ASSUME NonDestructiveAssumption ==
  /\ U32 \in Nat /\ U32 > 0
  /\ Disks \subseteq DiskType
  /\ \A d \in Disks : SoundDisk(d)
  /\ MaxRuns \in Nat /\ MaxKills \in Nat

VARIABLES
  d,              \* the disk as the user handed it over
  table,          \* the partition table now
  fs,             \* sectors of partition 1's filesystem, 0 once overwritten
  lost,           \* the user's other partitions whose contents are overwritten
  boot,           \* boot code, stage 2 and GUID are on the disk
  esp,            \* where the FAT16 filesystem is and whether it has the loader
  nodes,          \* the kernel's partition nodes
  udev, pc, plan, \* the process: plan is part2_start_sector
  result, runs, kills

vars == <<d, table, fs, lost, boot, esp, nodes, udev, pc, plan, result, runs, kills>>

NoExtent == Extent(0, 0)
NoEsp == [at |-> NoExtent, loaded |-> FALSE]

-----------------------------------------------------------------------------
\* Mutant: only the end of the disk counts.
LimitsOfDisk == {UsableEnd(d.style, d.total)}

\* find_next_partition_start: the space behind partition 1 ends where the
\* first of partitions 2.. starts, or with the usable area.
Limits == {table[i].start : i \in {j \in 2..4 : ~Empty(table[j])}}
            \cup {UsableEnd(d.style, d.total)}

\* Partition 1 is measured by the kernel's node, its neighbours by the table.
EnoughFree == \A limit \in Limits : EndOf(nodes[1]) + EFI_PART_SECTORS <= limit

Part1Mb == nodes[1].count \div SECTORS_PER_MIB
EfiMb == EFI_PART_SECTORS \div SECTORS_PER_MIB

\* Mutant: the filesystem is told the size of the old partition.
NewPart1MbUnshrunk == Part1Mb

NewPart1Mb == Part1Mb - EfiMb

\* The size of a filesystem resized to "<mb>M": 10^6 bytes each for
\* ntfsresize, 2^20 for resize2fs.
FsSectors(kind, mb) == IF kind = "ntfs" THEN (mb * 15625) \div 8 ELSE mb * SECTORS_PER_MIB

\* Mutant: the free space is taken for granted.
Part2StartBehind == align_to_4k(EndOf(nodes[1]))

Part2Start == IF EnoughFree THEN align_to_4k(EndOf(nodes[1]))
                            ELSE align_to_4k(EndOf(nodes[1]) - EFI_PART_SECTORS)

FreeSlots == {i \in 2..4 : Empty(table[i])}

FirstFree == CHOOSE i \in FreeSlots : \A j \in FreeSlots : i <= j

\* A sector number as the table stores it.
Stored(s) == IF d.style = "mbr" THEN s % U32 ELSE s

\* partx -d and partx -a with nothing mounted: the partitions are added in
\* order, and one that overlaps an earlier one is refused.
Nodes(t) == [i \in Slots |->
               IF \E j \in 1..(i - 1) : Overlap(t[j], t[i]) THEN NoExtent ELSE t[i]]

Window == {"table", "boot", "reload", "wait", "format", "efi", "resume"}

-----------------------------------------------------------------------------
Init ==
  /\ d \in Disks
  /\ table = d.table
  /\ fs = d.fs
  /\ lost = {}
  /\ boot = FALSE
  /\ esp = NoEsp
  /\ nodes = d.table
  /\ udev = "running"
  /\ pc = "idle" /\ plan = 0
  /\ result = "none" /\ runs = 0 /\ kills = 0

Return(r) == pc' = "idle" /\ result' = r

\* The checks up to the answer to the prompt.
Start ==
  /\ pc = "idle" /\ runs < MaxRuns
  /\ runs' = runs + 1
  /\ \/ IsChoosable(table) /\ Return("notneeded")
     \/ ~IsChoosable(table) /\ Empty(nodes[1]) /\ Return("error")
     \/ ~IsChoosable(table) /\ ~Empty(nodes[1]) /\ Return("aborted")
     \/ /\ ~IsChoosable(table) /\ ~Empty(nodes[1])
        /\ pc' = "measure" /\ result' = "none"
  /\ UNCHANGED <<d, table, fs, lost, boot, esp, nodes, udev, plan, kills>>

CanShrink == Part1Mb > EfiMb

\* Where the EFI partition goes.
Measure ==
  /\ pc = "measure"
  /\ IF \/ d.total <= CHOOSABLE_PART1_START_SECTOR + EFI_PART_SECTORS
        \/ nodes[1].start # CHOOSABLE_PART1_START_SECTOR
        \/ ~EnoughFree /\ ~CanShrink
       THEN Return("error") /\ UNCHANGED plan
       ELSE /\ plan' = Part2Start
            /\ pc' = IF EnoughFree THEN "stop" ELSE "shrink"
            /\ UNCHANGED result
  /\ UNCHANGED <<d, table, fs, lost, boot, esp, nodes, udev, runs, kills>>

\* ntfsfix and ntfsresize, e2fsck and resize2fs; each may fail, and a
\* filesystem of another kind is refused.
Shrink ==
  /\ pc = "shrink"
  /\ \/ /\ d.kind # "other" /\ fs > 0
        /\ fs' = FsSectors(d.kind, NewPart1Mb)
        /\ pc' = "stop" /\ UNCHANGED result
     \/ Return("error") /\ UNCHANGED fs
  /\ UNCHANGED <<d, table, lost, boot, esp, nodes, udev, plan, runs, kills>>

StopUdev ==
  /\ pc = "stop"
  /\ udev' = "stopped"
  /\ pc' = "table"
  /\ UNCHANGED <<d, table, fs, lost, boot, esp, nodes, plan, result, runs, kills>>

\* update_mbr_partition_table_f, update_gpt_partition_table_f: only now is a
\* slot looked for.
UpdatePartitionTable ==
  /\ pc = "table"
  /\ FreeSlots # {}
  /\ table' = [table EXCEPT ![1] = Extent(@.start, Stored(Stored(plan) - CHOOSABLE_PART1_START_SECTOR)),
                            ![FirstFree] = Extent(Stored(plan), EFI_PART_SECTORS)]
  /\ pc' = "boot"
  /\ UNCHANGED <<d, fs, lost, boot, esp, nodes, udev, plan, result, runs, kills>>

\* write_boot_images and the GUID, all below sector 2048.
WriteBootImages ==
  /\ pc = "boot" /\ pc' = "reload"
  /\ boot' = TRUE
  /\ UNCHANGED <<d, table, fs, lost, esp, nodes, udev, plan, result, runs, kills>>

ReloadNodes ==
  /\ pc = "reload" /\ pc' = "wait"
  /\ nodes' = Nodes(table)
  /\ UNCHANGED <<d, table, fs, lost, boot, esp, udev, plan, result, runs, kills>>

\* wait_for_partitions looks for partitions 1 and 2, whichever slot was taken.
WaitForPartitions ==
  /\ pc = "wait"
  /\ ~Empty(nodes[1]) /\ ~Empty(nodes[2])
  /\ pc' = "format"
  /\ UNCHANGED <<d, table, fs, lost, boot, esp, nodes, udev, plan, result, runs, kills>>

\* format_efi_partition(disk_path, 2).
FormatEfiPartition ==
  /\ pc = "format" /\ pc' = "efi"
  /\ esp' = [at |-> nodes[2], loaded |-> FALSE]
  /\ lost' = lost \cup {i \in 2..4 : Overlap(d.table[i], nodes[2])}
  /\ fs' = IF Overlap(Extent(d.table[1].start, fs), nodes[2]) THEN 0 ELSE fs
  /\ UNCHANGED <<d, table, boot, nodes, udev, plan, result, runs, kills>>

WriteEfiBootloader ==
  /\ pc = "efi" /\ pc' = "resume"
  /\ esp' = [esp EXCEPT !.loaded = TRUE]
  /\ UNCHANGED <<d, table, fs, lost, boot, nodes, udev, plan, result, runs, kills>>

ResumeAndNotify ==
  /\ pc = "resume"
  /\ Return("ok")
  /\ udev' = "running"
  /\ nodes' = Nodes(table)
  /\ UNCHANGED <<d, table, fs, lost, boot, esp, plan, runs, kills>>

\* Any call of the window may fail; no slot and no node are failures too.
FailInWindow ==
  /\ pc \in Window
  /\ Return("error")
  /\ udev' = "running"
  /\ UNCHANGED <<d, table, fs, lost, boot, esp, nodes, plan, runs, kills>>

\* External: the process is killed.
Kill ==
  /\ pc # "idle" /\ kills < MaxKills
  /\ kills' = kills + 1
  /\ Return("killed")
  /\ UNCHANGED <<d, table, fs, lost, boot, esp, nodes, udev, plan, runs>>

\* External: the disk is unplugged and plugged in again, or the machine
\* restarted, between two runs.
Replug ==
  /\ pc = "idle" /\ runs < MaxRuns
  /\ nodes' = Nodes(table)
  /\ udev' = "running"
  /\ UNCHANGED <<d, table, fs, lost, boot, esp, pc, plan, result, runs, kills>>

Next ==
  \/ Start \/ Measure \/ Shrink \/ StopUdev \/ UpdatePartitionTable \/ WriteBootImages
  \/ ReloadNodes \/ WaitForPartitions \/ FormatEfiPartition \/ WriteEfiBootloader
  \/ ResumeAndNotify \/ FailInWindow \/ Kill \/ Replug

Spec == Init /\ [][Next]_vars

-----------------------------------------------------------------------------
(* Properties.                                                             *)

\* Every variable has the type the comments above give it; in particular no
\* length ever becomes negative.
TypeOK ==
  /\ d \in Disks
  /\ table \in [Slots -> ExtentType] /\ nodes \in [Slots -> ExtentType]
  /\ fs \in Nat /\ plan \in Nat
  /\ lost \in SUBSET (2..4)
  /\ boot \in BOOLEAN
  /\ esp \in [at : ExtentType, loaded : BOOLEAN]
  /\ udev \in {"running", "stopped"}
  /\ pc \in {"idle", "measure", "shrink", "stop"} \cup Window
  /\ result \in {"none", "notneeded", "aborted", "error", "killed", "ok"}
  /\ runs \in 0..MaxRuns /\ kills \in 0..MaxKills

\* Whatever fails and however often the program is killed and run again, the
\* user's filesystem on partition 1 is never overwritten and lies inside the
\* partition the table gives it: it can be mounted at any moment.
DataKept ==
  d.fs > 0 =>
    /\ fs > 0
    /\ table[1].start = d.table[1].start
    /\ fs <= table[1].count

\* The user's other partitions keep their entry and their contents.
OthersKept ==
  /\ lost = {}
  /\ \A i \in 2..4 : ~Empty(d.table[i]) => table[i] = d.table[i]

\* On a disk whose partitions begin and end on 4 KiB boundaries the new table
\* has no overlaps and stays inside the disk.
AlignedDisk == /\ \A i \in Slots : d.table[i].start % 8 = 0 /\ d.table[i].count % 8 = 0
               /\ d.style = "mbr" => d.total % 8 = 0

TableDisjoint ==
  AlignedDisk =>
    /\ \A i, j \in Slots : i # j => ~Overlap(table[i], table[j])
    /\ \A i \in Slots : EndOf(table[i]) <= UsableEnd(d.style, d.total)

\* Success means that the disk is a Choosable disk that boots, by the test the
\* other commands use.
SuccessMeansBootable ==
  result = "ok" => /\ IsChoosable(table) /\ boot
                   /\ esp = [at |-> table[2], loaded |-> TRUE]

\* Runs repeated after failures and kills shrink the filesystem at most once.
ShrunkAtMostOnce ==
  fs \in {0, d.fs, FsSectors(d.kind, d.table[1].count \div SECTORS_PER_MIB - EfiMb)}
=============================================================================
