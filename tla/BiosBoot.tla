------------------------------- MODULE BiosBoot -------------------------------
(***************************************************************************)
(* The BIOS stage 2 from its start to the jump into an image: _start finds *)
(* the data partition and its file system, BiosMenu lists the images and   *)
(* lets the user choose, and boot_iso finds the BIOS boot image in the El  *)
(* Torito catalog of the chosen one, loads it and jumps.                   *)
(*                                                                         *)
(* A disk is a table as in Partitions, `at', the directory at each lba     *)
(* that has a known file system, as [fs, dir], and `image', what any of    *)
(* the images on it is.                                                    *)
(***************************************************************************)
EXTENDS BiosMenu, Partitions

CONSTANTS
  CatalogEntries,  \* entries of a boot catalog that are read, 16 in the program
  Drives,    \* disks
  Strangers  \* images that other sectors of the disk may belong to

CatalogEntry ==
  [type : {"validation", "section", "boot", "other"}, platform : 0..255, lba : Nat, count : Nat]

IsImage(i) == /\ i.signed \in BOOLEAN /\ i.where \in Nat /\ i.piece \in Nat
              /\ i.catalog \in Seq(CatalogEntry) /\ i.catalog # <<>>

ASSUME DriveAssumption ==
  /\ CatalogEntries \in Nat \ {0}
  /\ \A d \in Drives : /\ IsDisk(d) /\ IsImage(d.image)
                       /\ \A first \in DOMAIN d.at : IsVolume(d.at[first])
  /\ \A i \in Strangers : IsImage(i)

VARIABLES
  drive,
  lba,       \* where the data partition begins, 0 before it is known
  loaded     \* the boot image that is loaded: [lba, count]

bootVars == <<drive, lba, loaded>>
allVars == <<vars, bootVars>>

-----------------------------------------------------------------------------
(***************************************************************************)
(* An image is                                                             *)
(*   signed   its sector 17 is a boot record                               *)
(*   catalog  the 32-byte entries of the boot catalog: [type, platform,    *)
(*            lba, count]; "validation" comes first, a "section" header    *)
(*            names the platform of the "boot" entries behind it           *)
(*   where    the sector of the catalog                                    *)
(*   piece    the sectors of 2048 bytes that lie in one piece on the disk  *)
(***************************************************************************)
NotLoaded == [lba |-> 0, count |-> 0]

BOOT_RECORD_LBA_OFFSET == 17

Init ==
  /\ drive \in Drives
  /\ pc = "part"
  /\ lba = 0 /\ loaded = NotLoaded
  /\ fs = "none" /\ dir = <<>>
  /\ next = 0 /\ buf = <<>> /\ pos = 1 /\ carry = <<>>
  /\ files = <<>>
  /\ page = 0 /\ digits = <<>>
  /\ rescans = 0 /\ keys = 0 /\ errors = 0

\* read_partitions and the VBR of the first partition of its list.
FindPartition ==
  /\ pc = "part"
  /\ LET first == BiosLba(drive)
     IN  IF first \in DOMAIN drive.at
           THEN /\ pc' = "scan"
                /\ lba' = first
                /\ fs' = drive.at[first].fs /\ dir' = drive.at[first].dir
           ELSE /\ pc' = "halted"
                /\ UNCHANGED <<lba, fs, dir>>
  /\ UNCHANGED <<next, buf, pos, carry, files, page, digits, rescans, keys, errors, drive, loaded>>

\* A sector that cannot be read, here or on the way to the boot image, is the end.
ReadStops ==
  /\ pc \in {"part", "booted", "load"} /\ errors < MaxErrors
  /\ errors' = errors + 1
  /\ pc' = "halted"
  /\ UNCHANGED <<fs, dir, next, buf, pos, carry, files, page, digits, rescans, keys, bootVars>>

-----------------------------------------------------------------------------
(* parse_el_torito                                                         *)

BIOS == 0
Unknown == 255

\* Mutant: the platform of the validation entry holds for all.
PlatformOfCatalog(platform, entry) == platform

PlatformAfter(platform, entry) == IF entry.type = "section" THEN entry.platform ELSE platform

\* platform_id behind the first i entries.
Platforms(catalog) ==
  LET platform[i \in 0..Len(catalog)] ==
        IF i > 0 THEN PlatformAfter(platform[i - 1], catalog[i])
        ELSE IF catalog[1].type = "validation" THEN catalog[1].platform ELSE Unknown
  IN  platform

\* The first bootable entry of the BIOS if it is in the one sector that is read,
\* as a sequence of at most one.
BootEntry(catalog) ==
  LET own == {i \in DOMAIN catalog :
                catalog[i].type = "boot" /\ Platforms(catalog)[i - 1] = BIOS}
  IN  IF own # {} /\ Min(own) <= CatalogEntries THEN <<catalog[Min(own)]>> ELSE <<>>

Image == drive.image

\* The image's sectors are taken to lie one behind the other: what is read
\* behind its first piece is another file's.
ReadFrom(sector, other) == IF sector < Image.piece THEN Image ELSE other

ParseElTorito == \E other \in Strangers :
  /\ pc = "booted"
  /\ LET record == ReadFrom(BOOT_RECORD_LBA_OFFSET, other)
         source == ReadFrom(record.where, other)
         entry == BootEntry(source.catalog)
         found == record.signed /\ entry # <<>>
     IN  /\ pc' = IF found THEN "load" ELSE "halted"
         /\ loaded' = IF found
                        THEN [lba |-> entry[1].lba,
                              count |-> IF entry[1].count = 0 THEN 4 ELSE entry[1].count]
                        ELSE loaded
  /\ UNCHANGED <<fs, dir, next, buf, pos, carry, files, page, digits, rescans, keys, errors, drive, lba>>

\* load_boot_image and the jump.
LoadBootImage ==
  /\ pc = "load"
  /\ pc' = "jumped"
  /\ UNCHANGED <<fs, dir, next, buf, pos, carry, files, page, digits, rescans, keys, errors, bootVars>>

Stage == FindPartition \/ ReadStops \/ ParseElTorito \/ LoadBootImage

Next == \/ Stage
        \/ (Scan \/ Menu) /\ UNCHANGED bootVars

\* Scan and stages are loops without waiting; the user may stop pressing keys.
Spec == Init /\ [][Next]_allVars /\ WF_allVars(Scan /\ UNCHANGED bootVars) /\ WF_allVars(Stage)

-----------------------------------------------------------------------------
(* Properties.                                                             *)

\* On a disk as the installer leaves it the BIOS lists the images of the
\* partition that the UEFI loader takes, the data partition.
LoadersAgree ==
  lba # 0 /\ AsInstalled(drive) => /\ lba = DataPartition(drive).lba
                                   /\ EfiPartition(drive).lba = lba

\* The platform of entry i is that of the last section header before it, or of
\* the catalog.
ForBios(catalog, i) ==
  LET headers == {j \in 1..(i - 1) : \/ catalog[j].type = "section"
                                     \/ j = 1 /\ catalog[j].type = "validation"}
  IN  headers # {} /\ catalog[Max(headers)].platform = BIOS

\* The machine jumps into the image's own first BIOS boot image and never into
\* a UEFI one, and only if there is one, as long as record and catalog lie in
\* the image's first piece on the disk.
BootsBiosImage ==
  pc \in {"load", "jumped"} /\ Max({Image.where, BOOT_RECORD_LBA_OFFSET}) < Image.piece =>
    LET own == {i \in DOMAIN Image.catalog :
                  Image.catalog[i].type = "boot" /\ ForBios(Image.catalog, i)}
    IN  /\ Image.signed /\ own # {}
        /\ loaded.lba = Image.catalog[Min(own)].lba
        /\ loaded.count > 0

\* Every stage and scan comes to an end.
StagesEnd == pc \in {"part", "scan", "booted", "load"} ~> pc \in {"menu", "halted", "jumped"}
=============================================================================
