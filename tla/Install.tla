-------------------------------- MODULE Install --------------------------------
(***************************************************************************)
(* install_choosable (src/src/installer.rs) on one disk, run again and     *)
(* again with different options, with the system around it: the kernel's   *)
(* partition nodes, the desktop's automounter, udev's event queue, a       *)
(* process that is killed and a machine that loses power.                  *)
(*                                                                         *)
(* The disk is divided into the regions the installer writes with one      *)
(* call each.  `disk' is what a reader sees (the page cache), `stable' is  *)
(* what has certainly reached the medium; sync copies one to the other and *)
(* a power loss keeps an arbitrary part of what was not yet written back.  *)
(***************************************************************************)
EXTENDS DiskLayout, FiniteSets

CONSTANTS
  Sizes,          \* disk sizes, in sectors
  Styles,         \* subset of {"mbr", "gpt"}: the -g flag
  Reserves,       \* values of the -r flag, in MiB
  Foreign,        \* what the disk holds before the first run
  MaxRuns,        \* bound: install is started at most MaxRuns times
  MaxCrashes,     \* bound: kills and power losses together
  Automounter     \* TRUE: the desktop mounts partitions while udev is running

ASSUME InstallAssumption ==
  /\ Sizes \subseteq Nat
  /\ Styles \subseteq {"mbr", "gpt"}
  /\ Reserves \subseteq Nat
  /\ Foreign \subseteq {"foreign", "blank", "prot"}
  /\ MaxRuns \in Nat /\ MaxCrashes \in Nat
  /\ Automounter \in BOOLEAN

VARIABLES
  total,          \* size of the disk
  disk, stable,   \* region -> contents, seen and durable
  nodes,          \* 1..2 -> extent of the kernel's partition node
  mounted,        \* partitions that are mounted
  udev,           \* "running" or "stopped": the udev event queue
  pc, run,        \* the installer process and its options
  result,         \* how the last run ended
  runs, crashes   \* bounded counters

vars == <<total, disk, stable, nodes, mounted, udev, pc, run, result, runs, crashes>>

-----------------------------------------------------------------------------
NoExtent == Extent(0, 0)
NoLayout == [style |-> "none", p1 |-> NoExtent, p2 |-> NoExtent]

Regions == {"boot", "hdr", "tab", "core", "data", "esp"}

(***************************************************************************)
(* boot : sector 0.  "foreign" another partition table, "blank" zeros,     *)
(*        "mbr" our MBR with its table, "prot" a protective MBR without    *)
(*        our boot code, "protboot" with it.                               *)
(* hdr  : sector 1.  "gpt" holds the EFI PART signature.                   *)
(* tab  : sectors 2-33, the GPT entries, as the layout they describe.      *)
(* core : the stage-2 image, "mbr" at sector 1 or "gpt" at sector 34.      *)
(* data : the extent on which the data filesystem was made, and whether    *)
(*        the user has copied images to it.                                *)
(* esp  : the extent on which the FAT16 filesystem was made, and whether   *)
(*        BOOTX64.EFI is on it.                                            *)
(***************************************************************************)
BootSector(kind, lay) == [kind |-> kind, lay |-> lay]
NoData == [at |-> NoExtent, images |-> FALSE]
NoEsp == [at |-> NoExtent, loaded |-> FALSE]

ForeignDisk(kind) ==
  [boot |-> BootSector(kind, NoLayout),
   hdr  |-> IF kind = "prot" THEN "gpt" ELSE "blank",
   tab  |-> NoLayout, core |-> "none", data |-> NoData, esp |-> NoEsp]

\* detect_choosable: an invalid MBR signature means "no", but a protective
\* MBR without a GPT header behind it is an error of read_from_disk.  The GPT name
\* it compares is the one that is always written.
IsChoosable(lay) ==
  /\ lay # NoLayout
  /\ lay.p1.start = CHOOSABLE_PART1_START_SECTOR
  /\ lay.p2.start = EndOf(lay.p1)
  /\ lay.p2.count = EFI_PART_SECTORS

DetectChoosable(d) ==
  CASE d.boot.kind = "mbr" -> IF IsChoosable(d.boot.lay) THEN "yes" ELSE "no"
    [] d.boot.kind \in {"prot", "protboot"} ->
         IF d.hdr # "gpt" THEN "error" ELSE IF IsChoosable(d.tab) THEN "yes" ELSE "no"
    [] OTHER -> "no"

-----------------------------------------------------------------------------
(* External: the kernel's view of the partition table.                     *)
TableOf(d) ==
  CASE d.boot.kind = "mbr" -> d.boot.lay
    [] d.boot.kind \in {"prot", "protboot"} /\ d.hdr = "gpt" -> d.tab
    [] OTHER -> NoLayout

NodeOf(lay, i) == LET e == IF i = 1 THEN lay.p1 ELSE lay.p2
                  IN  IF e.count > 0 THEN e ELSE NoExtent

Nodes(lay) == [i \in 1..2 |-> NodeOf(lay, i)]

HasNode(i) == nodes[i] # NoExtent

\* partx -d: every node whose partition is not in use goes away.
AfterDelete == [i \in 1..2 |-> IF i \in mounted THEN nodes[i] ELSE NoExtent]

\* partx -a: a partition of the table is added unless its number is taken or
\* it overlaps a node that is still there.
AfterAdd(lay) ==
  [i \in 1..2 |->
     IF nodes[i] # NoExtent THEN nodes[i]
     ELSE IF \E j \in 1..2 : Overlap(nodes[j], NodeOf(lay, i)) THEN NoExtent
     ELSE NodeOf(lay, i)]

\* partx -u: as a deletion of what may be deleted, then an addition.
AfterUpdate(lay) ==
  [i \in 1..2 |->
     IF i \in mounted THEN nodes[i]
     ELSE IF \E j \in mounted : Overlap(nodes[j], NodeOf(lay, i)) THEN NoExtent
     ELSE NodeOf(lay, i)]

-----------------------------------------------------------------------------
Options == [style : Styles, mib : Reserves, force : BOOLEAN]

Lay == Layout(run.style, total, run.mib)

\* Between udev_stop and the drop of the guard.
Window == {"zero", "core", "pmbr", "hdr", "tab", "boot", "sync", "del", "add",
           "wait", "fmt1", "fmtefi", "writeefi", "resume"}

Before == {"guards", "umount", "detect", "ask"}

Init ==
  /\ total \in Sizes
  /\ disk \in {ForeignDisk(k) : k \in Foreign}
  /\ stable = disk
  /\ nodes = [i \in 1..2 |-> NoExtent]
  /\ mounted = {}
  /\ udev = "running"
  /\ pc = "idle"
  /\ run \in Options
  /\ result = "none"
  /\ runs = 0 /\ crashes = 0

Return(r) == /\ pc' = "idle"
             /\ result' = r

Start == \E o \in Options :
  /\ pc = "idle" /\ runs < MaxRuns
  /\ run' = o
  /\ runs' = runs + 1
  /\ result' = "none"
  /\ pc' = "guards"
  /\ UNCHANGED <<total, disk, stable, nodes, mounted, udev, crashes>>

\* A disk is whole and has sectors of 512 bytes: others are refused here too.  An
\* MBR on more than 2 TiB, which is also refused, is let pass.
SizeGuards ==
  /\ pc = "guards"
  /\ IF LargeEnough(total) /\ ReserveFits(total, run.mib)
       THEN pc' = "umount" /\ UNCHANGED result
       ELSE Return("toosmall")
  /\ UNCHANGED <<total, disk, stable, nodes, mounted, udev, run, runs, crashes>>

\* check_umount_disk, check_swap, check_tool_work_ok: what cannot be
\* unmounted makes the run fail, and so do swap on the disk or a missing tool.
CheckUmount == \E busy \in SUBSET mounted :
  /\ pc = "umount"
  /\ mounted' = busy
  /\ \/ busy # {} /\ Return("mounted")
     \/ busy = {} /\ Return("error")
     \/ busy = {} /\ pc' = "detect" /\ UNCHANGED result
  /\ UNCHANGED <<total, disk, stable, nodes, udev, run, runs, crashes>>

\* Mutant: -I is not looked at.
DetectIgnoringForce ==
  /\ pc = "detect"
  /\ IF DetectChoosable(disk) = "error" THEN Return("error")
                                        ELSE pc' = "ask" /\ UNCHANGED result
  /\ UNCHANGED <<total, disk, stable, nodes, mounted, udev, run, runs, crashes>>

Detect ==
  /\ pc = "detect"
  /\ CASE DetectChoosable(disk) = "error" -> Return("error")
       [] DetectChoosable(disk) = "yes" /\ ~run.force -> Return("already")
       [] OTHER -> pc' = "ask" /\ UNCHANGED result
  /\ UNCHANGED <<total, disk, stable, nodes, mounted, udev, run, runs, crashes>>

\* The two prompts, then udev_stop.
Answer == \E yes \in BOOLEAN :
  /\ pc = "ask"
  /\ IF yes THEN pc' = "zero" /\ udev' = "stopped" /\ UNCHANGED result
            ELSE Return("aborted") /\ UNCHANGED udev
  /\ UNCHANGED <<total, disk, stable, nodes, mounted, run, runs, crashes>>

-----------------------------------------------------------------------------
(* The writes, in program order.  Step moves the process on and changes    *)
(* only what a reader of the disk sees.                                    *)
Step(from, to) == /\ pc = from
                  /\ pc' = to
                  /\ UNCHANGED <<total, stable, udev, run, result, runs, crashes>>

ZeroSectors ==
  /\ Step("zero", IF run.style = "gpt" THEN "core" ELSE "boot")
  /\ disk' = [disk EXCEPT !.boot = BootSector("blank", NoLayout),
                          !.hdr = "blank", !.tab = NoLayout, !.core = "none"]
  /\ UNCHANGED <<nodes, mounted>>

\* write_mbr_f: sector 0 with code, GUID and table, then the image from
\* sector 1, over what a GPT header and its entries would occupy.
WriteMbrSector ==
  /\ run.style = "mbr"
  /\ Step("boot", "core")
  /\ disk' = [disk EXCEPT !.boot = BootSector("mbr", Lay)]
  /\ UNCHANGED <<nodes, mounted>>

WriteMbrCore ==
  /\ run.style = "mbr"
  /\ Step("core", "sync")
  /\ disk' = [disk EXCEPT !.core = "mbr", !.hdr = "core", !.tab = NoLayout]
  /\ UNCHANGED <<nodes, mounted>>

\* write_gpt_f: image, protective MBR, header, entries (and the backup
\* copies, module GptUpdate), then the boot code into sector 0.
WriteGptCore ==
  /\ run.style = "gpt"
  /\ Step("core", "pmbr")
  /\ disk' = [disk EXCEPT !.core = "gpt"]
  /\ UNCHANGED <<nodes, mounted>>

WriteProtectiveMbr ==
  /\ Step("pmbr", "hdr")
  /\ disk' = [disk EXCEPT !.boot = BootSector("prot", NoLayout)]
  /\ UNCHANGED <<nodes, mounted>>

WriteGptHeader ==
  /\ Step("hdr", "tab")
  /\ disk' = [disk EXCEPT !.hdr = "gpt"]
  /\ UNCHANGED <<nodes, mounted>>

WriteGptEntries ==
  /\ Step("tab", "boot")
  /\ disk' = [disk EXCEPT !.tab = Lay]
  /\ UNCHANGED <<nodes, mounted>>

WriteGptBootCode ==
  /\ run.style = "gpt"
  /\ Step("boot", "sync")
  /\ disk' = [disk EXCEPT !.boot.kind = "protboot"]
  /\ UNCHANGED <<nodes, mounted>>

Sync ==
  /\ pc = "sync" /\ pc' = "del"
  /\ stable' = disk
  /\ UNCHANGED <<total, disk, nodes, mounted, udev, run, result, runs, crashes>>

RemovePartitionNodes ==
  /\ Step("del", "add")
  /\ nodes' = AfterDelete
  /\ UNCHANGED <<disk, mounted>>

AddPartitionNodes ==
  /\ Step("add", "wait")
  /\ nodes' = AfterAdd(TableOf(disk))
  /\ UNCHANGED <<disk, mounted>>

\* wait_for_partitions: only the existence of both nodes is looked at;
\* failing that partprobe and partx -a have another try.
WaitForPartitions ==
  LET again == IF HasNode(1) /\ HasNode(2) THEN nodes ELSE AfterAdd(TableOf(disk))
  IN  /\ pc = "wait"
      /\ nodes' = again
      /\ IF \A i \in 1..2 : again[i] # NoExtent
           THEN pc' = "fmt1" /\ UNCHANGED <<result, udev>>
           ELSE Return("error") /\ udev' = "running"
      /\ UNCHANGED <<total, disk, stable, mounted, run, runs, crashes>>

\* A filesystem made on extent e destroys one that overlaps it.
Clobber(fs, e, none) == IF Overlap(fs.at, e) THEN none ELSE fs

FormatPartition ==
  /\ 1 \notin mounted                    \* mkfs refuses a mounted partition
  /\ Step("fmt1", "fmtefi")
  /\ disk' = [disk EXCEPT !.data = [at |-> nodes[1], images |-> FALSE],
                          !.esp = Clobber(@, nodes[1], NoEsp)]
  /\ UNCHANGED <<nodes, mounted>>

\* format_efi_partition unmounts partition 2 before every attempt.
FormatEfiPartition ==
  /\ Step("fmtefi", "writeefi")
  /\ mounted' = mounted \ {2}
  /\ disk' = [disk EXCEPT !.esp = [at |-> nodes[2], loaded |-> FALSE],
                          !.data = Clobber(@, nodes[2], NoData)]
  /\ UNCHANGED nodes

\* write_efi_bootloader and, with -S, process_secure_boot_esp, which renames
\* only files that this installer never creates.
WriteEfiBootloader ==
  /\ disk.esp.at = nodes[2]
  /\ Step("writeefi", "resume")
  /\ mounted' = mounted \ {2}
  /\ disk' = [disk EXCEPT !.esp.loaded = TRUE]
  /\ UNCHANGED nodes

\* Mutant: no sync before success is reported.
ResumeWithoutSync ==
  /\ pc = "resume"
  /\ nodes' = AfterUpdate(TableOf(disk))
  /\ udev' = "running"
  /\ Return("ok")
  /\ UNCHANGED <<total, disk, stable, mounted, run, runs, crashes>>

\* udev_resume_and_notify_with_reload.
ResumeAndNotify ==
  /\ pc = "resume"
  /\ stable' = disk
  /\ nodes' = AfterUpdate(TableOf(disk))
  /\ udev' = "running"
  /\ Return("ok")
  /\ UNCHANGED <<total, disk, mounted, run, runs, crashes>>

\* Mutant: no guard, an early return leaves udev stopped.
FailWithoutGuard ==
  /\ pc \in Window
  /\ Return("error")
  /\ UNCHANGED <<total, disk, stable, nodes, mounted, udev, run, runs, crashes>>

\* Any call of the window may fail; the guard resumes udev on the way out.
FailInWindow ==
  /\ pc \in Window
  /\ udev' = "running"
  /\ Return("error")
  /\ UNCHANGED <<total, disk, stable, nodes, mounted, run, runs, crashes>>

-----------------------------------------------------------------------------
(* The environment.                                                        *)
Mount == \E i \in 1..2 :
  /\ Automounter /\ udev = "running"
  /\ HasNode(i) /\ i \notin mounted
  /\ nodes[i] = IF i = 1 THEN disk.data.at ELSE disk.esp.at
  /\ mounted' = mounted \cup {i}
  /\ UNCHANGED <<total, disk, stable, nodes, udev, pc, run, result, runs, crashes>>

\* The user copies images to the data partition of a finished installation.
CopyImages ==
  /\ pc = "idle" /\ result = "ok"
  /\ HasNode(1) /\ disk.data.at = nodes[1]
  /\ disk' = [disk EXCEPT !.data.images = TRUE]
  /\ stable' = [stable EXCEPT !.data = disk'.data]
  /\ UNCHANGED <<total, nodes, mounted, udev, pc, run, result, runs, crashes>>

\* The process is killed: the guard is not dropped and udev stays as it is.
Kill ==
  /\ pc # "idle" /\ crashes < MaxCrashes
  /\ crashes' = crashes + 1
  /\ Return("killed")
  /\ UNCHANGED <<total, disk, stable, nodes, mounted, udev, run, runs>>

\* Power is lost and the machine boots again.
PowerLoss == \E kept \in SUBSET Regions :
  /\ crashes < MaxCrashes
  /\ crashes' = crashes + 1
  /\ disk' = [r \in Regions |-> IF r \in kept THEN disk[r] ELSE stable[r]]
  /\ stable' = disk'
  /\ nodes' = Nodes(TableOf(disk'))
  /\ mounted' = {}
  /\ udev' = "running"
  /\ Return("killed")
  /\ UNCHANGED <<total, run, runs>>

Process ==
  \/ SizeGuards \/ CheckUmount \/ Detect \/ Answer
  \/ ZeroSectors \/ WriteMbrSector \/ WriteMbrCore
  \/ WriteGptCore \/ WriteProtectiveMbr \/ WriteGptHeader \/ WriteGptEntries
  \/ WriteGptBootCode \/ Sync \/ RemovePartitionNodes \/ AddPartitionNodes
  \/ WaitForPartitions \/ FormatPartition \/ FormatEfiPartition
  \/ WriteEfiBootloader \/ ResumeAndNotify \/ FailInWindow

Next == Start \/ Process \/ Mount \/ CopyImages \/ Kill \/ PowerLoss

Spec == Init /\ [][Next]_vars

\* Once started the process is scheduled until it returns.
FairSpec == Spec /\ WF_vars(Process)

-----------------------------------------------------------------------------
(* Properties.                                                             *)

Layouts == {Layout(s, total, m) : s \in Styles, m \in Reserves}
Extents == {lay.p1 : lay \in Layouts} \cup {lay.p2 : lay \in Layouts} \cup {NoExtent}

DiskType ==
  [boot : [kind : {"foreign", "blank", "mbr", "prot", "protboot"},
           lay : Layouts \cup {NoLayout}],
   hdr  : {"blank", "core", "gpt"},
   tab  : Layouts \cup {NoLayout},
   core : {"none", "mbr", "gpt"},
   data : [at : Extents, images : BOOLEAN],
   esp  : [at : Extents, loaded : BOOLEAN]]

\* Every variable has the type the comments above give it.
TypeOK ==
  /\ total \in Sizes
  /\ disk \in DiskType /\ stable \in DiskType
  /\ nodes \in [1..2 -> Extents]
  /\ mounted \in SUBSET {1, 2}
  /\ udev \in {"running", "stopped"}
  /\ pc \in {"idle"} \cup Before \cup Window
  /\ run \in Options
  /\ result \in {"none", "toosmall", "mounted", "error", "already", "aborted",
                 "killed", "ok"}
  /\ runs \in 0..MaxRuns /\ crashes \in 0..MaxCrashes

\* When install reports success the disk boots: table, boot code and image
\* are of the chosen style, both filesystems were made on exactly the extents
\* the table describes, BOOTX64.EFI is on the EFI one, and all of it (but the
\* user's own copies) is on the medium.
SuccessMeansBootable ==
  pc = "idle" /\ result = "ok" =>
    /\ TableOf(disk) = Lay
    /\ disk.boot.kind = IF run.style = "gpt" THEN "protboot" ELSE "mbr"
    /\ disk.core = run.style
    /\ disk.data.at = Lay.p1
    /\ disk.esp = [at |-> Lay.p2, loaded |-> TRUE]
    /\ \A r \in Regions \ {"data"} : stable[r] = disk[r]

\* A partition table the installer has written describes two non-empty,
\* disjoint partitions behind the stage-2 image and before the end of the
\* disk (or the backup GPT), with the EFI partition 4 KiB-aligned.
TableWellFormed ==
  TableOf(disk) # NoLayout => WellFormed(TableOf(disk), total)

\* The space asked for with -r is free behind the EFI partition, from the
\* moment the table is on the disk and after the run has reported success.
ReserveHonoured ==
  TableOf(disk) = Lay /\ (pc \in Window \/ result = "ok") =>
    EndOf(TableOf(disk).p2) + run.mib * SECTORS_PER_MIB <= total

\* The installer can be run again on whatever an earlier run left behind: no
\* state of a disk the installer itself made is one it refuses to examine.
DetectNeverFails ==
  runs > 0 /\ pc = "idle" => DetectChoosable(disk) # "error"

ImagesReachable(d) == /\ d.data.images /\ TableOf(d) # NoLayout
                      /\ NodeOf(TableOf(d), 1) = d.data.at

\* The images on a finished installation, once they and their table are on
\* the medium, survive every run without -I up to and including its first
\* write, and every power loss, however runs, refusals and crashes follow each
\* other: the installer never gets as far as writing over them unasked.
Durable == \A r \in {"boot", "hdr", "tab", "data"} : stable[r] = disk[r]

ImagesLostOnlyByForce ==
  [][/\ pc \in {"idle", "zero"} \cup Before
     /\ ImagesReachable(disk) /\ Durable
     => ImagesReachable(disk') \/ run.force]_vars

\* Every way out of the udev-stopped window but a kill resumes udev.
UdevComesBack ==
  (udev = "stopped" /\ pc \in Window) ~> (udev = "running" \/ result = "killed")
=============================================================================
