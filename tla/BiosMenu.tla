------------------------------- MODULE BiosMenu -------------------------------
(***************************************************************************)
(* The BIOS stage 2 (src/bootloader/kernel) on an exFAT or FAT32 data      *)
(* partition: the root directory is scanned for images sector by sector,   *)
(* with exFAT entry sets that continue in the next sector carried over,    *)
(* and a menu shows the list by pages, takes a number of at most two       *)
(* digits, rescans and boots.                                              *)
(*                                                                         *)
(* Names are abstracted to whether they end in .iso.  The sizes below are  *)
(* 16, 19, 64 and 16 in the program.  What comes before the scan and after *)
(* the choice is in BiosBoot.                                              *)
(***************************************************************************)
EXTENDS Naturals, Sequences, SequencesExt

CONSTANTS
  PerSector,      \* directory entries in a sector
  CarryEntries,   \* entries the carry buffer holds
  MaxFiles,       \* length of the file list
  MENU_PAGE_SIZE,
  Digits,         \* the digits the user types
  MaxKeys,        \* bound: keys pressed
  MaxErrors       \* bound: failing disk reads

ASSUME BiosAssumption ==
  /\ PerSector \in Nat \ {0} /\ CarryEntries \in Nat /\ MaxFiles \in Nat
  /\ MENU_PAGE_SIZE \in Nat \ {0}
  /\ Digits \subseteq 0..9
  /\ MaxKeys \in Nat /\ MaxErrors \in Nat

VARIABLES
  fs, dir,        \* the filesystem and the items of its root directory
  pc,             \* "scan", "menu", "booted", "halted" or a stage of BiosBoot
  next,           \* sectors of the directory read so far
  buf, pos,       \* carried and read entries, and the entry looked at
  carry,          \* entries kept for the next sector
  files,          \* the list: items of the directory
  page, digits,   \* page_start and the number typed so far
  rescans, keys, errors

vars == <<fs, dir, pc, next, buf, pos, carry, files, page, digits, rescans, keys, errors>>

-----------------------------------------------------------------------------
(***************************************************************************)
(* A directory.  An item is a file with `names' name entries (exFAT) or    *)
(* long-name entries (FAT32); "iso" is in use and ends in .iso, "plain" is *)
(* in use and does not, "gone" has been deleted.  The largest exFAT entry  *)
(* set fits in the carry buffer.                                           *)
(***************************************************************************)
IsVolume(v) ==
  /\ v.fs \in {"exfat", "fat32"}
  /\ v.dir \in Seq([kind : {"iso", "plain", "gone"}, names : Nat])
  /\ v.fs = "exfat" => \A i \in DOMAIN v.dir : v.dir[i].names + 2 <= CarryEntries

Entry(kind, more, item) == [kind |-> kind, more |-> more, item |-> item]
Other == Entry("other", 0, 0)
EndMark == Entry("end", 0, 0)

Copies(n, e) == [i \in 1..n |-> e]

Entries(i) ==
  LET n == dir[i].names
  IN  CASE dir[i].kind = "gone" -> Copies(IF fs = "exfat" THEN n + 2 ELSE n + 1, Other)
        [] dir[i].kind # "gone" /\ fs = "exfat" ->
             <<Entry("file", n + 1, i)>> \o Copies(n + 1, Entry("part", 0, i))
        [] OTHER -> Append(Copies(n, Other), Entry("short", 0, i))

Flat == FlattenSeq([i \in DOMAIN dir |-> Entries(i)])

Sectors == (Len(Flat) + PerSector - 1) \div PerSector

\* Sector s, filled up with end markers.
Sector(s) == [k \in 1..PerSector |->
                LET i == (s - 1) * PerSector + k
                IN  IF i <= Len(Flat) THEN Flat[i] ELSE EndMark]

-----------------------------------------------------------------------------
Scanning == /\ pc = "scan"
            /\ UNCHANGED <<fs, dir, page, digits, rescans, keys>>

More == pos <= Len(buf)

\* One sector is read behind what was carried over; at the end of a cluster
\* the next one is looked up first.
ReadSector ==
  /\ Scanning /\ ~More /\ next < Sectors
  /\ buf' = carry \o Sector(next + 1)
  /\ carry' = <<>>
  /\ pos' = 1
  /\ next' = next + 1
  /\ UNCHANGED <<pc, files, errors>>

\* The first scan is followed by a test for an empty list, a rescan is not.
AfterScan == pc' = IF rescans = 0 /\ files = <<>> THEN "halted" ELSE "menu"

\* The chain ends, or an end marker is met.
EndOfDirectory ==
  /\ Scanning
  /\ (~More /\ next = Sectors) \/ (More /\ buf[pos].kind = "end")
  /\ AfterScan
  /\ UNCHANGED <<next, buf, pos, carry, files, errors>>

\* A sector or a FAT entry cannot be read: the scan ends, nobody is told.
ReadFails ==
  /\ Scanning /\ ~More /\ next < Sectors
  /\ errors < MaxErrors
  /\ errors' = errors + 1
  /\ AfterScan
  /\ UNCHANGED <<next, buf, pos, carry, files>>

SkipEntry ==
  /\ Scanning /\ More /\ buf[pos].kind \in {"other", "part"}
  /\ pos' = pos + 1
  /\ UNCHANGED <<pc, next, buf, carry, files, errors>>

SetFits == pos + buf[pos].more <= Len(buf)

\* Mutant: what does not fit in a sector is dropped.
KeepSector(rest) == IF Len(rest) <= PerSector THEN rest ELSE <<>>

Keep(rest) == IF Len(rest) <= CarryEntries THEN rest ELSE <<>>

\* Mutant: the scan goes on with the entry it has just carried over.
CarryAndStay ==
  /\ Scanning /\ More /\ buf[pos].kind = "file" /\ ~SetFits
  /\ carry' = Keep(SubSeq(buf, pos, Len(buf)))
  /\ UNCHANGED <<pc, next, buf, pos, files, errors>>

CarryOver ==
  /\ Scanning /\ More /\ buf[pos].kind = "file" /\ ~SetFits
  /\ carry' = Keep(SubSeq(buf, pos, Len(buf)))
  /\ pos' = Len(buf) + 1
  /\ UNCHANGED <<pc, next, buf, files, errors>>

List(item) == files' = IF dir[item].kind = "iso" /\ Len(files) < MaxFiles
                         THEN Append(files, item) ELSE files

\* An exFAT entry set that is complete, or a FAT32 short entry.
TakeSet ==
  /\ Scanning /\ More
  /\ buf[pos].kind \in {"file", "short"} /\ SetFits
  /\ List(buf[pos].item)
  /\ pos' = pos + 1 + buf[pos].more
  /\ UNCHANGED <<pc, next, buf, carry, errors>>

Scan == ReadSector \/ EndOfDirectory \/ ReadFails \/ SkipEntry \/ CarryOver \/ TakeSet

-----------------------------------------------------------------------------
(* The keys.                                                               *)
Key == /\ pc = "menu" /\ keys < MaxKeys
       /\ keys' = keys + 1
       /\ UNCHANGED <<fs, dir, errors>>

\* The scan starts over, behind the files already in the list: each image is
\* listed once more.
PressRefresh ==
  /\ Key
  /\ pc' = "scan"
  /\ next' = 0 /\ buf' = <<>> /\ pos' = 1 /\ carry' = <<>>
  /\ page' = 0 /\ digits' = <<>>
  /\ rescans' = rescans + 1
  /\ UNCHANGED files

Typing == Key /\ UNCHANGED <<next, buf, pos, carry, files, rescans>>

\* Mutant: a page may begin behind the last file.
NextPageLate ==
  /\ Typing
  /\ page' = IF page + MENU_PAGE_SIZE <= Len(files) THEN page + MENU_PAGE_SIZE ELSE page
  /\ digits' = <<>>
  /\ UNCHANGED pc

NextPage ==
  /\ Typing
  /\ page' = IF page + MENU_PAGE_SIZE < Len(files) THEN page + MENU_PAGE_SIZE ELSE page
  /\ digits' = <<>>
  /\ UNCHANGED pc

PreviousPage ==
  /\ Typing
  /\ page' = IF page > MENU_PAGE_SIZE THEN page - MENU_PAGE_SIZE ELSE 0
  /\ digits' = <<>>
  /\ UNCHANGED pc

Backspace ==
  /\ Typing
  /\ digits' = IF digits = <<>> THEN <<>> ELSE Front(digits)
  /\ UNCHANGED <<pc, page>>

TypeDigit == \E d \in Digits :
  /\ Typing /\ Len(digits) < 2
  /\ digits' = Append(digits, d)
  /\ UNCHANGED <<pc, page>>

\* parse_selection.
Number == FoldLeft(LAMBDA n, d : 10 * n + d, 0, digits)

Valid == digits # <<>> /\ Number \in 1..Len(files)

\* boot_iso does not return.
Enter ==
  /\ Typing
  /\ pc' = IF Valid THEN "booted" ELSE "menu"
  /\ digits' = IF Valid THEN digits ELSE <<>>
  /\ UNCHANGED page

Menu == PressRefresh \/ NextPage \/ PreviousPage \/ Backspace \/ TypeDigit \/ Enter

-----------------------------------------------------------------------------
(* Properties.                                                             *)

Images == FlattenSeq([i \in DOMAIN dir |-> IF dir[i].kind = "iso" THEN <<i>> ELSE <<>>])

\* Wherever entry sets break across sectors, the first scan lists the images
\* in the order of the directory: a prefix of them at every moment, and the
\* first MaxFiles of them when it ends without a read error.
ScanExact ==
  rescans = 0 =>
    /\ IsPrefix(files, Images)
    /\ pc \in {"menu", "halted", "booted"} /\ errors = 0 =>
         Len(files) = (IF Len(Images) < MaxFiles THEN Len(Images) ELSE MaxFiles)

\* The page on the screen is a page of the list and shows at least one image.
PageInRange == pc = "menu" => /\ page < Len(files)
                              /\ page % MENU_PAGE_SIZE = 0
=============================================================================
