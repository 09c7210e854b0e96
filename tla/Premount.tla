------------------------------- MODULE Premount -------------------------------
(***************************************************************************)
(* /init.choosable (src/bootloader/premount-init): the first process of a  *)
(* Linux booted from an image on the stick.  It looks for the partition    *)
(* that holds the image, attaches the image to a loop device, mounts it on *)
(* /cdrom and runs the distribution's init, whatever came of it.           *)
(*                                                                         *)
(* Meanwhile the kernel goes on finding devices.                           *)
(***************************************************************************)
EXTENDS Naturals, FiniteSets, Sequences, SequencesExt

CONSTANTS
  Devices,        \* disks and partitions, without those scan_all passes over (loop, ram, dm, sr)
  Stick,          \* the partition choosable.part_guid and part_num stand for
  Loops,          \* /dev/loop0 and so on
  NoDevice,
  Retries,        \* 3 in the program
  MaxFailures     \* bound: failing system calls

NoLoop == "none"

ASSUME PremountAssumption ==
  /\ Stick \in Devices /\ NoDevice \notin Devices
  /\ IsFiniteSet(Devices) /\ Loops # {} /\ NoLoop \notin Loops
  /\ Retries \in Nat \ {0} /\ MaxFailures \in Nat

VARIABLES
  present,        \* the devices found so far
  early,          \* TRUE: the stick was there from the start
  named,          \* TRUE: a PARTUUID link or sysfs entry appears with the stick
  numbered,       \* devices with the stick's partition number on their disk
  removable,      \* those of them on removable disks
  iso,            \* devices with an ISO 9660 image at choosable.iso_offset
  pc,             \* "lookup", "attach", "offset", "mount", "list", "scan" or "init"
  attempt,        \* lookups that have failed
  target,         \* the device of the current try_mount_iso
  listed,         \* what scan_all read in /proc/partitions
  todo,           \* what it has not tried yet, in order
  loops,          \* the device each loop device is attached to
  cdrom,          \* the loop device mounted on /cdrom
  failures

world == <<early, named, numbered, removable, iso>>
vars == <<present, world, pc, attempt, target, listed, todo, loops, cdrom, failures>>

Init ==
  /\ present \in SUBSET Devices
  /\ early = (Stick \in present)
  /\ named \in BOOLEAN
  /\ numbered \in {s \in SUBSET Devices : Stick \in s}
  /\ removable \in SUBSET numbered
  /\ iso \in SUBSET Devices
  /\ pc = "lookup" /\ attempt = 0
  /\ target = NoDevice /\ listed = {} /\ todo = <<>>
  /\ loops = [l \in Loops |-> NoDevice] /\ cdrom = NoLoop
  /\ failures = 0

At(place) == pc = place /\ UNCHANGED <<present, world>>

-----------------------------------------------------------------------------
(* The three lookups, with a sleep behind each that fails.                 *)

ByPartuuid == IF named /\ Stick \in present THEN {Stick} ELSE {}

\* The first one on a removable disk in the order of /sys/block, or else the
\* first one.
ByPartnum == LET found == present \cap numbered
             IN  IF found \cap removable # {} THEN found \cap removable ELSE found

\* Mutant: the number is looked at first.
NumberFirst == IF ByPartnum # {} THEN ByPartnum ELSE ByPartuuid

Targets == IF ByPartuuid # {} THEN ByPartuuid ELSE ByPartnum

FindTarget ==
  /\ At("lookup") /\ attempt < Retries
  /\ \E d \in Targets : target' = d
  /\ pc' = "attach"
  /\ UNCHANGED <<attempt, listed, todo, loops, cdrom, failures>>

\* Mutant: the loop does not count.
RetryForever ==
  /\ At("lookup") /\ attempt < Retries /\ Targets = {}
  /\ UNCHANGED <<pc, attempt, target, listed, todo, loops, cdrom, failures>>

Retry ==
  /\ At("lookup") /\ attempt < Retries /\ Targets = {}
  /\ attempt' = attempt + 1
  /\ UNCHANGED <<pc, target, listed, todo, loops, cdrom, failures>>

-----------------------------------------------------------------------------
(* try_mount_iso.                                                          *)

Scanning == listed # {}

\* After the target all partitions are tried, after one of these the next.
NextPlace == IF Scanning THEN "scan" ELSE "list"

GiveUp == /\ pc' = NextPlace
          /\ target' = NoDevice
          /\ UNCHANGED <<attempt, listed, todo, cdrom>>

Detach == loops' = [l \in Loops |-> IF loops[l] = target THEN NoDevice ELSE loops[l]]

Fail == failures < MaxFailures /\ failures' = failures + 1

\* The device is opened and bound to the first loop device that takes it.
Attach ==
  /\ At("attach")
  /\ \E l \in Loops : /\ loops[l] = NoDevice
                      /\ loops' = [loops EXCEPT ![l] = target]
  /\ pc' = "offset"
  /\ UNCHANGED <<attempt, target, listed, todo, cdrom, failures>>

AttachFails ==
  /\ At("attach")
  /\ Fail
  /\ GiveUp /\ UNCHANGED loops

SetOffset ==
  /\ At("offset")
  /\ pc' = "mount"
  /\ UNCHANGED <<attempt, target, listed, todo, loops, cdrom, failures>>

SetOffsetFails == At("offset") /\ Fail /\ GiveUp /\ Detach

\* check_distro, which follows, is content with any image.
Mount ==
  /\ At("mount") /\ target \in iso
  /\ \E l \in Loops : loops[l] = target /\ cdrom' = l
  /\ pc' = "init"
  /\ UNCHANGED <<attempt, target, listed, todo, loops, failures>>

\* Mutant: the loop device keeps its file.
MountFailsAttached ==
  /\ At("mount")
  /\ \/ target \notin iso /\ UNCHANGED failures
     \/ Fail
  /\ GiveUp /\ UNCHANGED loops

MountFails ==
  /\ At("mount")
  /\ \/ target \notin iso /\ UNCHANGED failures
     \/ Fail
  /\ GiveUp /\ Detach

-----------------------------------------------------------------------------
(* scan_all.                                                               *)

ReadPartitions ==
  /\ \/ At("lookup") /\ attempt = Retries
     \/ At("list")
  /\ \E s \in SetToSeqs(present) : todo' = s
  /\ listed' = present
  /\ pc' = IF present = {} THEN "init" ELSE "scan"
  /\ UNCHANGED <<attempt, target, loops, cdrom, failures>>

ReadPartitionsFails ==
  /\ \/ At("lookup") /\ attempt = Retries
     \/ At("list")
  /\ Fail
  /\ pc' = "init"
  /\ UNCHANGED <<attempt, target, listed, todo, loops, cdrom>>

\* Mutant: the scan ends with the first partition.
ScanFirst ==
  /\ At("scan") /\ todo # <<>>
  /\ target' = Head(todo) /\ todo' = <<>>
  /\ pc' = "attach"
  /\ UNCHANGED <<attempt, listed, loops, cdrom, failures>>

ScanNext ==
  /\ At("scan") /\ todo # <<>>
  /\ target' = Head(todo) /\ todo' = Tail(todo)
  /\ pc' = "attach"
  /\ UNCHANGED <<attempt, listed, loops, cdrom, failures>>

ScanEnd ==
  /\ At("scan") /\ todo = <<>>
  /\ pc' = "init"
  /\ UNCHANGED <<attempt, target, listed, todo, loops, cdrom, failures>>

-----------------------------------------------------------------------------
(* The kernel finds another device.                                        *)
Arrive == /\ pc # "init"
          /\ \E d \in Devices \ present : present' = present \cup {d}
          /\ UNCHANGED <<world, pc, attempt, target, listed, todo, loops, cdrom, failures>>

Process == \/ FindTarget \/ Retry \/ Attach \/ AttachFails \/ SetOffset \/ SetOffsetFails
           \/ Mount \/ MountFails \/ ReadPartitions
           \/ ReadPartitionsFails \/ ScanNext \/ ScanEnd

Next == Process \/ Arrive

Spec == Init /\ [][Next]_vars

\* The process is not stopped; nothing is assumed of the devices.
FairSpec == Spec /\ WF_vars(Process)

-----------------------------------------------------------------------------
(* Properties.                                                             *)

Attached == {l \in Loops : loops[l] # NoDevice}

\* Whatever fails, at most one loop device is attached, and init inherits
\* none but the one under /cdrom.
LoopsReleased == /\ \A l, m \in Attached : l = m
                 /\ pc = "init" => Attached = {cdrom} \ {NoLoop}

\* No image that was there when scan_all read the partitions is missed.
NothingMissed == pc = "init" /\ cdrom = NoLoop /\ failures = 0 => listed \cap iso = {}

\* The PARTUUID decides: a stick that is there from the start and carries its
\* image is mounted, not another device with an image at the same offset.
GuidDecides ==
  pc = "init" /\ early /\ named /\ Stick \in iso /\ failures = 0 => target = Stick

\* The distribution's init runs, with or without the image.
InitRuns == <>(pc = "init")
=============================================================================
