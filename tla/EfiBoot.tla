-------------------------------- MODULE EfiBoot --------------------------------
(***************************************************************************)
(* The UEFI loader from its start to the image it boots: the stages of     *)
(* boot_stage.rs find the disk, the partition and its file system, the     *)
(* search of EfiScan lists the payloads, and a menu lets the user page,    *)
(* search again and boot one.                                              *)
(*                                                                         *)
(* A disk is what the firmware offers as a Block I/O handle: a table as in *)
(* Partitions, and                                                         *)
(*   whole, media  it is a disk and no partition of one; a medium is       *)
(*                 described                                               *)
(*   at            the file system at each lba that has one the loader     *)
(*                 knows                                                   *)
(***************************************************************************)
EXTENDS EfiScan, Partitions

CONSTANTS
  Machines,        \* sequences of disks, in the order of the firmware's handles
  MENU_PAGE_SIZE,
  Digits,          \* the digits the user types
  MaxKeys          \* bound: keys pressed

ASSUME BootAssumption ==
  /\ MENU_PAGE_SIZE \in Nat \ {0} /\ MaxKeys \in Nat
  /\ Digits \subseteq 0..9
  /\ \A m \in Machines :
       /\ DOMAIN m \subseteq Nat \ {0}
       /\ \A i \in DOMAIN m : /\ IsDisk(m[i])
                              /\ \A lba \in DOMAIN m[i].at : IsVolume(m[i].at[lba])

VARIABLES
  disks,
  pc,            \* the stage, "menu", "booted" or "halted"
  disk,          \* the handle taken, 0 for none
  part,          \* the partition: [lba, guid, num, mbr]
  page, digits,  \* page_start and the number typed so far
  keys

bootVars == <<disks, pc, disk, part, page, digits, keys>>
vars == <<scanVars, bootVars>>

Init ==
  /\ disks \in Machines
  /\ pc = "disk"
  /\ disk = 0 /\ part = NoPartition
  /\ vol = [fs |-> "none", dirs |-> <<>>]
  /\ stack = <<>> /\ files = <<>>
  /\ page = 0 /\ digits = <<>>
  /\ keys = 0 /\ errors = 0

-----------------------------------------------------------------------------
(* The stages.                                                             *)

\* find_disk_handle: the first that is a disk, wherever the loader came from.  A
\* firmware that does not list its handles has no disk.
DiscoverDisk ==
  /\ pc = "disk"
  /\ LET Good == {i \in DOMAIN disks : disks[i].whole /\ disks[i].media}
     IN  /\ disk' = IF Good = {} THEN 0 ELSE Min(Good)
         /\ pc' = IF Good = {} THEN "halted" ELSE "partition"
  /\ UNCHANGED <<scanVars, disks, part, page, digits, keys>>

\* The disk as it is read: an unreadable GPT is no GPT.
Readings == {disks[disk]} \cup
              (IF errors < MaxErrors THEN {[disks[disk] EXCEPT !.gpt = <<>>]} ELSE {})

\* The partition is the chosen one if a known file system begins there.
DiscoverPartition ==
  /\ pc = "partition"
  /\ \E d \in Readings :
       LET chosen == EfiPartition(d)
           known == chosen.lba \in DOMAIN d.at
       IN  /\ errors' = IF d = disks[disk] THEN errors ELSE errors + 1
           /\ pc' = IF known THEN "mount" ELSE "halted"
           /\ part' = IF known THEN chosen ELSE part
  /\ UNCHANGED <<vol, stack, files, disks, disk, page, digits, keys>>

\* The VBR is read again, and the search begins.
MountFilesystem ==
  /\ pc = "mount"
  /\ StartScan(disks[disk].at[part.lba])
  /\ pc' = "scan"
  /\ UNCHANGED <<errors, disks, disk, part, page, digits, keys>>

\* The MBR or the VBR cannot be read.
StageFails ==
  /\ pc \in {"partition", "mount"} /\ errors < MaxErrors
  /\ errors' = errors + 1
  /\ pc' = "halted"
  /\ UNCHANGED <<vol, stack, files, disks, disk, part, page, digits, keys>>

Scan == pc = "scan" /\ ScanStep /\ UNCHANGED bootVars

\* The first search as well as a later one: an empty list is the end.
DiscoverPayload ==
  /\ pc = "scan" /\ stack = <<>>
  /\ pc' = IF files = <<>> THEN "halted" ELSE "menu"
  /\ UNCHANGED <<scanVars, disks, disk, part, page, digits, keys>>

Stage == \/ DiscoverDisk \/ DiscoverPartition \/ MountFilesystem \/ StageFails
         \/ Scan \/ DiscoverPayload

-----------------------------------------------------------------------------
(* The menu.                                                               *)
Key == /\ pc = "menu" /\ keys < MaxKeys
       /\ keys' = keys + 1
       /\ UNCHANGED <<errors, disks, disk, part>>

\* Mutant: the page stays.
RefreshInPlace ==
  /\ Key
  /\ StartScan(vol)
  /\ pc' = "scan"
  /\ digits' = <<>>
  /\ UNCHANGED page

\* The list starts over.
PressRefresh ==
  /\ Key
  /\ StartScan(vol)
  /\ pc' = "scan"
  /\ page' = 0 /\ digits' = <<>>

Typing == Key /\ UNCHANGED <<vol, stack, files>>

NextPage ==
  /\ Typing
  /\ page' = IF page + MENU_PAGE_SIZE < Len(files) THEN page + MENU_PAGE_SIZE ELSE page
  /\ digits' = <<>>
  /\ UNCHANGED pc

PreviousPage ==
  /\ Typing
  /\ page' = IF page > MENU_PAGE_SIZE THEN page - MENU_PAGE_SIZE ELSE 0
  /\ digits' = <<>>
  /\ UNCHANGED pc

Backspace ==
  /\ Typing
  /\ digits' = IF digits = <<>> THEN <<>> ELSE Front(digits)
  /\ UNCHANGED <<pc, page>>

TypeDigit == \E d \in Digits :
  /\ Typing /\ Len(digits) < 3
  /\ digits' = Append(digits, d)
  /\ UNCHANGED <<pc, page>>

\* parse_menu_number
Number == FoldLeft(LAMBDA n, d : 10 * n + d, 0, digits)
Valid == digits # <<>> /\ Number \in 1..Len(files)

\* Only images and EFI programs can be booted; booting does not return.
Enter ==
  /\ Typing
  /\ IF Valid /\ files[Number].type \in {"iso", "efi"}
       THEN pc' = "booted" /\ UNCHANGED digits
       ELSE pc' = pc /\ digits' = <<>>
  /\ UNCHANGED page

\* The firmware offers no keyboard, or reading it fails.
KeyboardFails ==
  /\ pc = "menu" /\ errors < MaxErrors
  /\ errors' = errors + 1
  /\ pc' = "halted"
  /\ UNCHANGED <<vol, stack, files, disks, disk, part, page, digits, keys>>

Menu == \/ PressRefresh \/ NextPage \/ PreviousPage \/ Backspace \/ TypeDigit \/ Enter
        \/ KeyboardFails

Next == Stage \/ Menu

\* The stages run in a loop without waiting; the user may stop pressing keys.
Spec == Init /\ [][Next]_vars /\ WF_vars(Stage)

-----------------------------------------------------------------------------
(* Properties.                                                             *)

Searched == pc \in {"menu", "booted"} \/ (pc = "halted" /\ vol.fs # "none")

\* Sequence s with some elements left out.
Thinned(t, s) ==
  \E at \in [DOMAIN t -> DOMAIN s] :
    /\ \A i, j \in DOMAIN t : i < j => at[i] < at[j]
    /\ \A i \in DOMAIN t : t[i] = s[at[i]]

\* Wherever entries break across sectors and directories across clusters, the
\* list has the payloads of all directories in their order: a prefix of them at
\* every moment, and the first MaxFiles of them after a search without a read
\* error, the first search or a later one.  Read errors and what the loader
\* cannot read only take payloads away.
ScanExact ==
  NamesOwn(vol) =>
    LET e == Expected(vol)
    IN  /\ Thinned(files, e)
        /\ Regular(vol) /\ errors = 0 =>
             /\ IsPrefix(files, e)
             /\ Searched => Len(files) = Min({Len(e), MaxFiles})

\* However directories refer to each other, the calls are no deeper than the
\* limit allows, as long as paths fit in their buffer.
StackBounded ==
  stack # <<>> /\ Top.path.len < MaxPath => Len(stack) <= MaxDepth + 1

\* What the loader passes on as the place of the images -- first sector, GUID
\* or signature, number and kind of table -- is all of the data partition of a
\* disk as the installer leaves it; after a read error GUID and number may be
\* missing, but they are never those of another partition.
StickIdentified ==
  part.lba # 0 /\ AsInstalled(disks[disk]) =>
    LET data == DataPartition(disks[disk])
    IN  part = data \/ (errors > 0 /\ part = [NoPartition EXCEPT !.lba = data.lba])

\* The page on the screen is a page of the list and shows at least one payload,
\* also when a search has shortened the list.
PageInRange == pc = "menu" => /\ page < Len(files)
                              /\ page % MENU_PAGE_SIZE = 0

\* The loader comes to its menu or halts with a message, whatever it reads.
StagesEnd == pc \notin {"menu", "booted", "halted"} ~> pc \in {"menu", "booted", "halted"}
=============================================================================
