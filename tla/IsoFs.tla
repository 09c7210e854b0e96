-------------------------------- MODULE IsoFs --------------------------------
(***************************************************************************)
(* The filesystem on the virtual CD-ROM (src/bootloader/efi/src/iso_fs.rs) *)
(* as the started loader uses it: it opens a directory and reads it with   *)
(* buffers of its own choice until a read returns nothing.                 *)
(***************************************************************************)
EXTENDS VirtualCd

CONSTANT MaxEntries   \* bound: records that fit in the loader's buffer

VARIABLES
  dir,            \* the open VirtualFile: which directory, position, flag
  got,            \* names returned so far
  ended,          \* a read has returned no bytes
  trouble         \* a read has returned EFI_DEVICE_ERROR

fileVars == <<dir, got, ended, trouble>>
fsVars == <<vars, fileVars>>

Closed == [of |-> "none", sector |-> 0, slot |-> 0, injected |-> FALSE]

FsInit == Init /\ dir = Closed /\ got = <<>> /\ ended = FALSE /\ trouble = FALSE

Running == pc = "running" /\ "fs" \in published /\ UNCHANGED vars

-----------------------------------------------------------------------------
(* Directories and files by name.                                          *)

\* The size is the one read when the filesystem was published.
SectorsOf(d) == IF d = "root" THEN (fs.rootSlots + Slots - 1) \div Slots ELSE 1
LbaOf(d, s) == IF d = "root" THEN RootLba + s ELSE BootLba(image)
\* Mutant: reads go to the stick, past the CD-ROM.
RecordsOnStick(d, s) == RealSector(LbaOf(d, s)).records

RecordsOf(d, s) == Sector(LbaOf(d, s)).records
Positions(d) == FlattenSeq([i \in 1 .. SectorsOf(d) |->
                  [k \in DOMAIN RecordsOf(d, i - 1) |-> [sector |-> i - 1, slot |-> k]]])
NameAt(d, p) == RecordsOf(d, p.sector)[p.slot].name
Names(d) == LET ps == Positions(d) IN [i \in DOMAIN ps |-> NameAt(d, ps[i])]

\* file_open and file_read_file: the archive comes from memory, whatever the
\* directory; the first record of that name otherwise.
FileNamed(d, name) ==
  IF fs.bundle /\ name = "PREMOUNT" THEN Whole("bundle", BundleSectors)
  ELSE LET names == Names(d)
           i == CHOOSE i \in DOMAIN names :
                  names[i] = name /\ \A j \in 1 .. i - 1 : names[j] # name
           p == Positions(d)[i]
       IN  Contents(RecordsOf(d, p.sector)[p.slot])

-----------------------------------------------------------------------------
(* file_read_dir.                                                          *)

OpenDir ==
  /\ Running /\ dir = Closed
  /\ \E d \in {"root", "boot"} : dir' = [Closed EXCEPT !.of = d]
  /\ UNCHANGED <<got, ended, trouble>>

\* Where the position stands once the records are through: the number of
\* sectors with bit 16 or 17 of the position set.
Through(sectors) == IF sectors % 2 = 1 THEN sectors ELSE sectors + 1
End(sectors) == IF (sectors \div 2) % 2 = 1 THEN sectors ELSE sectors + 2

IsBehind(p) == p.sector > dir.sector \/ (p.sector = dir.sector /\ p.slot > dir.slot)
Left == LET ps == Positions(dir.of)
            passed == {i \in DOMAIN ps : ~IsBehind(ps[i])}
        IN  SubSeq(ps, Cardinality(passed) + 1, Len(ps))

AtStart == dir.sector = 0 /\ dir.slot = 0

\* A buffer holds entries records and, with slack, at least a bare EfiFileInfo
\* more.  The loader's buffers hold at least that.
Buffer(entries, slack) == entries > 0 \/ slack

\* Mutant: the position keeps the sector only.
ReadBySector(entries, slack) ==
  LET left == Left
      n == IF Len(left) < entries THEN Len(left) ELSE entries
      through == n = Len(left) /\ (n < entries \/ slack)
  IN  /\ Running /\ dir # Closed /\ ~ended
      /\ dir.sector < SectorsOf(dir.of)
      /\ Buffer(entries, slack)
      /\ n > 0 \/ through
      /\ got' = got \o [i \in 1 .. n |-> NameAt(dir.of, left[i])]
      /\ ended' = (n = 0)
      /\ dir' = [dir EXCEPT
                   !.injected = ~AtStart /\ @,
                   !.sector = IF through THEN Through(SectorsOf(dir.of)) ELSE left[n].sector,
                   !.slot = 0]
      /\ UNCHANGED trouble

ReadRecords(entries, slack) ==
  LET left == Left
      n == IF Len(left) < entries THEN Len(left) ELSE entries
      through == n = Len(left) /\ (n < entries \/ slack)
  IN  /\ Running /\ dir # Closed /\ ~ended
      /\ dir.sector < SectorsOf(dir.of)
      /\ Buffer(entries, slack)
      /\ n > 0 \/ through                    \* EFI_BUFFER_TOO_SMALL
      /\ got' = got \o [i \in 1 .. n |-> NameAt(dir.of, left[i])]
      /\ ended' = (n = 0)
      /\ dir' = [dir EXCEPT
                   !.injected = ~AtStart /\ @,
                   !.sector = IF through THEN Through(SectorsOf(dir.of)) ELSE left[n].sector,
                   !.slot = IF through THEN 0 ELSE left[n].slot]
      /\ UNCHANGED trouble

\* The sector after those that fitted cannot be read: what the call had copied
\* is not returned, and the position is behind it.
ReadBreaks ==
  /\ Running /\ dir # Closed /\ ~ended /\ ~trouble
  /\ \E s \in dir.sector .. SectorsOf(dir.of) - 1 :
       dir' = IF s = dir.sector THEN dir ELSE [dir EXCEPT !.sector = s, !.slot = 0]
  /\ trouble' = TRUE
  /\ UNCHANGED <<got, ended>>

AtBundle == /\ dir.sector >= SectorsOf(dir.of)
            /\ dir.sector % 2 = 1 /\ ~dir.injected

ReadBundle(entries) ==
  /\ Running /\ dir # Closed /\ ~ended
  /\ AtBundle /\ fs.bundle
  /\ entries > 0                             \* EFI_BUFFER_TOO_SMALL
  /\ got' = Append(got, "PREMOUNT")
  /\ dir' = [dir EXCEPT !.injected = TRUE, !.sector = End(SectorsOf(dir.of)), !.slot = 0]
  /\ UNCHANGED <<ended, trouble>>

ReadEnd ==
  /\ Running /\ dir # Closed /\ ~ended
  /\ dir.sector >= SectorsOf(dir.of)
  /\ ~(AtBundle /\ fs.bundle)
  /\ dir' = IF AtBundle THEN [dir EXCEPT !.sector = End(SectorsOf(dir.of)), !.slot = 0] ELSE dir
  /\ ended' = TRUE
  /\ UNCHANGED <<got, trouble>>

\* SetPosition(0), the only one a directory takes.
Rewind ==
  /\ Running /\ dir # Closed
  /\ dir' = [dir EXCEPT !.sector = 0, !.slot = 0]
  /\ got' = <<>> /\ ended' = FALSE
  /\ UNCHANGED trouble

Close ==
  /\ Running /\ dir # Closed
  /\ dir' = Closed /\ got' = <<>> /\ ended' = FALSE /\ trouble' = FALSE

ReadDir == \/ \E entries \in 0 .. MaxEntries, slack \in BOOLEAN : ReadRecords(entries, slack)
           \/ \E entries \in 0 .. MaxEntries : ReadBundle(entries)
           \/ ReadEnd

FsNext == \/ Next /\ UNCHANGED fileVars
          \/ OpenDir \/ ReadDir \/ ReadBreaks \/ Rewind \/ Close

FsSpec == FsInit /\ [][FsNext]_fsVars

-----------------------------------------------------------------------------
(* However the buffers are cut, until a read fails a loader gets the       *)
(* records of the directory in order, none left out and none twice but     *)
(* the archive's, and has them all when a read returns nothing             *)
(* (file_read_dir: the position packs a sector and an offset, and its      *)
(* upper bits mark the phases).                                            *)
NothingSkipped ==
  dir # Closed /\ ~trouble =>
    /\ IsPrefix(got, Names(dir.of) \o (IF fs.bundle THEN <<"PREMOUNT">> ELSE <<>>))
    /\ ended => Len(got) >= Len(Names(dir.of))

\* No two files of a directory have the same name, and none has the archive's.
NamesDistinct ==
  \A im \in Images : im.valid =>
    \A l \in DirSectors(im) : \A i \in DOMAIN RecordsAt(im, l) :
      /\ RecordsAt(im, l)[i].name # "PREMOUNT"
      /\ \A m \in DirSectors(im) : \A k \in DOMAIN RecordsAt(im, m) :
           (l = BootLba(im)) = (m = BootLba(im)) /\ RecordsAt(im, l)[i].name = RecordsAt(im, m)[k].name
             => l = m /\ i = k

\* The filesystem shows a loader the files the CD-ROM itself has, with the same
\* contents, although it has read the size of the root directory before the
\* archive was added to it (virtual_blockio.rs 447, iso.rs 1450).
Visibly(d) ==
  UNION {{Sector(lba).records[k] : k \in Visible(lba)} :
           lba \in IF d = "root" THEN RootSectors(image) ELSE {BootLba(image)}}

FsAgrees ==
  pc = "running" /\ "fs" \in published =>
    \A d \in {"root", "boot"} :
      /\ {r.name : r \in Visibly(d)} = ToSet(Names(d))
      /\ \A r \in Visibly(d) : FileNamed(d, r.name) = Contents(r)
=============================================================================
