------------------------------ MODULE VirtualCd ------------------------------
(***************************************************************************)
(* The EFI loader starts an ISO image (uefi_chainload_iso in               *)
(* src/bootloader/efi/src/iso.rs): it publishes the image as a CD-ROM,     *)
(* adds /PREMOUNT.CPIO behind its end, rewrites one boot menu, and starts  *)
(* the image's own loader, which reads the CD-ROM through the patches.     *)
(*                                                                         *)
(* Sectors are ISO sectors (2048 bytes).  A directory sector is a sequence *)
(* of at most Slots records; sizes of directories are counted in slots.    *)
(***************************************************************************)
EXTENDS Naturals, Sequences, FiniteSets, SequencesExt

CONSTANTS
  Images,         \* what may be on the stick, see ImageAssumption
  Slots,          \* records that fit in a directory sector
  BundleSectors,  \* length of the premount archive
  MaxCandidates,  \* menus considered, 8 in the program
  MaxFailures     \* bound: failing firmware calls and reads

PvdLba == 1       \* the volume descriptor, sector 16 of a real image
RootLba == 2

(***************************************************************************)
(* An image is [halves, valid, kind, root, boot]: its length in half       *)
(* sectors, whether it has a volume descriptor, the kind of distribution   *)
(* the scan finds, the sectors of the root directory, and the sector of a  *)
(* directory below it.  A record is [name, first, sectors, class, text].   *)
(* class: "dir"; "menu", a path patch_grub_cfg_blockio knows; "cfg" and    *)
(* "conf", other files with these extensions; "spare", a file that may be  *)
(* sacrificed; "vital", any other.  text tells what a menu says: "linux",  *)
(* "stub" (only configfile) or "none".                                     *)
(***************************************************************************)
SectorsIn(im) == (im.halves + 1) \div 2
BootLba(im) == RootLba + Len(im.root)
RootSectors(im) == RootLba .. BootLba(im) - 1
DirSectors(im) == RootLba .. BootLba(im)

RecordsAt(im, lba) == IF lba = BootLba(im) THEN im.boot ELSE im.root[lba - RootLba + 1]

RecordType ==
  [name : STRING, first : Nat, sectors : Nat \ {0},
   class : {"dir", "menu", "cfg", "conf", "spare", "vital"}, text : {"linux", "stub", "none"}]

ImageAssumption ==
  /\ Slots \in Nat \ {0} /\ BundleSectors \in Nat \ {0}
  /\ MaxCandidates \in Nat /\ MaxFailures \in Nat
  /\ \A im \in Images :
       /\ im.halves \in Nat /\ im.valid \in BOOLEAN
       /\ im.kind \in {"fedora", "arch", "windows", "unknown"}
       /\ im.valid =>
            /\ im.root \in Seq(Seq(RecordType)) /\ im.boot \in Seq(RecordType)
            /\ im.root # <<>> /\ BootLba(im) < SectorsIn(im)
            /\ \E lba \in RootSectors(im) : \E k \in DOMAIN RecordsAt(im, lba) :
                 LET r == RecordsAt(im, lba)[k]
                 IN  r.class = "dir" /\ r.first = BootLba(im) /\ r.sectors = 1
            /\ \A lba \in DirSectors(im) :
                 /\ Len(RecordsAt(im, lba)) \in 1 .. Slots
                 /\ \A k \in DOMAIN RecordsAt(im, lba) :
                      LET r == RecordsAt(im, lba)[k]
                      IN  /\ r.first + r.sectors <= SectorsIn(im)
                          /\ r.class # "dir" => r.first > BootLba(im)
ASSUME ImageAssumption

Blocks == {"path", "cd", "fs", "bundle", "text", "rewritten", "area",
           "loader", "filePath", "cdromPath"}

VARIABLES
  image,          \* the payload the user chose
  pc,
  pool,           \* what became of each allocation
  published,      \* the allocations behind protocols of the CD-ROM's handle
  cd,             \* VirtualBlockIo
  path,           \* PartitionSize of the CD-ROM's device path
  fs,             \* IsoFsCtx
  kind,           \* what scan_iso_structure found
  todo, menu,     \* menus not tried yet, and the one being tried
  loads,          \* calls of LoadImage that were refused
  loaded,         \* the child's LoadedImageProtocol
  failures

vars == <<image, pc, pool, published, cd, path, fs, kind, todo, menu, loads, loaded, failures>>

Nowhere == [lba |-> 0, slot |-> 0]
NoArea == [first |-> 0, sectors |-> 0]

NewCd(sectors) ==
  [last |-> sectors - 1,
   bundle |-> NoArea, entry |-> Nowhere, how |-> "none", rootSlots |-> 0,
   menu |-> NoArea, menuEntry |-> Nowhere]

Init ==
  /\ image \in Images /\ pc = "path"
  /\ pool = [b \in Blocks |-> "none"] /\ published = {}
  /\ cd = NewCd(1) /\ path = 0
  /\ fs = [bound |-> FALSE, bundle |-> FALSE, rootSlots |-> 0]
  /\ kind = "unknown" /\ todo = {} /\ menu = Nowhere /\ loads = 0
  /\ loaded = [device |-> FALSE, filePath |-> FALSE, starts |-> 0]
  /\ failures = 0

-----------------------------------------------------------------------------
(* Reading the CD-ROM: vblock_read.                                        *)

\* What is on the stick, whose sectors go on behind the image.
RealSector(lba) ==
  CASE image.valid /\ lba = PvdLba ->
         [what |-> "pvd", sectors |-> SectorsIn(image), rootSlots |-> Len(image.root) * Slots]
    [] image.valid /\ lba \in DirSectors(image) ->
         [what |-> "dir", records |-> RecordsAt(image, lba)]
    [] OTHER -> [what |-> "data", lba |-> lba]

PremountRecord ==
  [name |-> "PREMOUNT", first |-> cd.bundle.first, sectors |-> cd.bundle.sectors,
   class |-> "vital", text |-> "none"]

\* Injected behind the last record, or in place of another one.
WithPremount(records, lba) ==
  IF cd.how = "none" \/ cd.entry.lba # lba THEN records
  ELSE IF cd.how = "injected" THEN Append(SubSeq(records, 1, cd.entry.slot - 1), PremountRecord)
  ELSE [records EXCEPT ![cd.entry.slot] = PremountRecord]

WithMenu(records, lba) ==
  IF cd.menuEntry.lba # lba THEN records
  ELSE [records EXCEPT ![cd.menuEntry.slot].first = cd.menu.first,
                       ![cd.menuEntry.slot].sectors = cd.menu.sectors]

Patched(lba) == lba = cd.menuEntry.lba \/ (cd.how # "none" /\ lba = cd.entry.lba)

Serves(area, lba) == lba \in area.first .. area.first + area.sectors - 1

Descriptor ==
  [what |-> "pvd", sectors |-> cd.last + 1,
   rootSlots |-> IF cd.how = "injected" THEN cd.rootSlots ELSE RealSector(PvdLba).rootSlots]

Sector(lba) ==
  IF image.valid /\ lba \in DirSectors(image) /\ Patched(lba)
  THEN [what |-> "dir", records |-> WithPremount(WithMenu(RecordsAt(image, lba), lba), lba)]
  ELSE IF Serves(cd.bundle, lba) THEN [what |-> "bundle", at |-> lba - cd.bundle.first]
  ELSE IF Serves(cd.menu, lba) THEN [what |-> "menu", at |-> lba - cd.menu.first]
  ELSE IF image.valid /\ lba = PvdLba THEN Descriptor
  ELSE RealSector(lba)

-----------------------------------------------------------------------------
(* The firmware's pool, failing calls, and halt_or_reboot.                 *)

At(place) == pc = place /\ UNCHANGED image
Goto(place) == pc' = place

Fails == failures < MaxFailures /\ failures' = failures + 1
Works == UNCHANGED failures

Got(bs) == [b \in Blocks |-> IF b \in bs THEN "live" ELSE pool[b]]

\* FreePool of a null pointer changes nothing.
Freed(p, bs) ==
  [b \in Blocks |-> IF b \notin bs \/ p[b] = "none" THEN p[b]
                    ELSE IF p[b] = "live" THEN "freed" ELSE "twice"]

-----------------------------------------------------------------------------
(* create_virtual_cdrom.                                                   *)

CreatePath ==
  /\ At("path") /\ Works
  /\ SectorsIn(image) > 0
  /\ pool' = Got({"path"}) /\ path' = SectorsIn(image)
  /\ Goto("cd")
  /\ UNCHANGED <<published, cd, fs, kind, todo, menu, loads, loaded>>

CreateCd ==
  /\ At("cd") /\ Works
  /\ pool' = Got({"cd"}) /\ cd' = NewCd(SectorsIn(image))
  /\ Goto("publish")
  /\ UNCHANGED <<published, path, fs, kind, todo, menu, loads, loaded>>

PublishCd ==
  /\ At("publish") /\ Works
  /\ published' = {"cd"}
  /\ Goto("publishPath")
  /\ UNCHANGED <<pool, cd, path, fs, kind, todo, menu, loads, loaded>>

\* Nothing stays behind when one of these three fails.
CreateFails ==
  /\ pc \in {"path", "cd", "publish"} /\ UNCHANGED image
  /\ \/ pc = "path" /\ SectorsIn(image) = 0 /\ Works
     \/ Fails
  /\ pool' = Freed(pool, {"path", "cd"})
  /\ Goto("halted")
  /\ UNCHANGED <<published, cd, path, fs, kind, todo, menu, loads, loaded>>

\* The device path is kept whether it could be published or not.
PublishPath ==
  /\ At("publishPath")
  /\ \/ Works /\ published' = published \cup {"path"}
     \/ Fails /\ UNCHANGED published
  /\ Goto("fs")
  /\ UNCHANGED <<pool, cd, path, fs, kind, todo, menu, loads, loaded>>

\* From here on the filesystem reads through the CD-ROM, too.
PublishFs ==
  /\ At("fs") /\ Works
  /\ image.valid
  /\ pool' = Got({"fs"}) /\ published' = published \cup {"fs"}
  /\ fs' = [fs EXCEPT !.bound = TRUE, !.rootSlots = Sector(PvdLba).rootSlots]
  /\ Goto("scan")
  /\ UNCHANGED <<cd, path, kind, todo, menu, loads, loaded>>

\* No memory for it, no volume descriptor, or it cannot be published.
NoFs ==
  /\ At("fs")
  /\ \/ Works /\ ~image.valid /\ pool' = Freed(Got({"fs"}), {"fs"})
     \/ Fails /\ pool' \in {pool, Freed(Got({"fs"}), {"fs"})}
  /\ Goto("scan")
  /\ UNCHANGED <<published, cd, path, fs, kind, todo, menu, loads, loaded>>

-----------------------------------------------------------------------------
(* Scan and premount archive.                                              *)

ScanIso ==
  /\ At("scan")
  /\ \/ Works /\ kind' = (IF image.valid THEN image.kind ELSE "unknown")
     \/ Fails /\ kind' = "unknown"
  /\ Goto("bundle")
  /\ UNCHANGED <<pool, published, cd, path, fs, todo, menu, loads, loaded>>

BuildBundle ==
  /\ At("bundle") /\ Works
  /\ kind # "windows"
  /\ pool' = Got({"bundle"})
  /\ Goto("expose")
  /\ UNCHANGED <<published, cd, path, fs, kind, todo, menu, loads, loaded>>

NoBundle ==
  /\ At("bundle")
  /\ \/ kind = "windows" /\ Works
     \/ Fails
  /\ Goto("menus")
  /\ UNCHANGED <<pool, published, cd, path, fs, kind, todo, menu, loads, loaded>>

-----------------------------------------------------------------------------
(* prepare_premount_iso_file.                                              *)

LastRootLba == BootLba(image) - 1
HasRoom == Len(RecordsAt(image, LastRootLba)) < Slots

\* Root records in the order of the directory.
Places(lbas) == {[lba |-> l, slot |-> k] : l \in lbas, k \in 1 .. Slots}
Before(p, q) == p.lba < q.lba \/ (p.lba = q.lba /\ p.slot < q.slot)
IsRecord(p) == p.slot \in DOMAIN RecordsAt(image, p.lba)
RecordOf(p) == RecordsAt(image, p.lba)[p.slot]
Spares == {p \in Places(RootSectors(image)) : IsRecord(p) /\ RecordOf(p).class = "spare"}

\* The archive follows the last sector; the directory entry is a second step.
WithBundle(c) == [c EXCEPT !.bundle = [first |-> c.last + 1, sectors |-> BundleSectors],
                           !.last = c.last + BundleSectors]

\* walked: full sectors before the last one, and the records in that one.
Walked == (Len(image.root) - 1) * Slots + Len(RecordsAt(image, LastRootLba))

Inject ==
  /\ At("expose") /\ Works
  /\ image.valid /\ HasRoom
  /\ cd' = [WithBundle(cd) EXCEPT
              !.how = "injected", !.rootSlots = Walked + 1,
              !.entry = [lba |-> LastRootLba, slot |-> Len(RecordsAt(image, LastRootLba)) + 1]]
  /\ fs' = [fs EXCEPT !.bundle = fs.bound]
  /\ Goto("menus")
  /\ UNCHANGED <<pool, published, path, kind, todo, menu, loads, loaded>>

Rename ==
  /\ At("expose")
  /\ image.valid
  /\ \/ Works /\ ~HasRoom
     \/ Fails
  /\ \E p \in Spares :
       /\ \A q \in Spares : p = q \/ Before(p, q)
       /\ cd' = [WithBundle(cd) EXCEPT !.how = "renamed", !.entry = p]
  /\ fs' = [fs EXCEPT !.bundle = fs.bound]
  /\ Goto("menus")
  /\ UNCHANGED <<pool, published, path, kind, todo, menu, loads, loaded>>

\* No place in the root directory, or it cannot be read.
NoEntry ==
  /\ At("expose")
  /\ image.valid
  /\ \/ Works /\ ~HasRoom /\ Spares = {}
     \/ Fails
  /\ cd' = WithBundle(cd)
  /\ Goto("menus")
  /\ UNCHANGED <<pool, published, path, fs, kind, todo, menu, loads, loaded>>

NoDescriptor ==
  /\ At("expose")
  /\ \/ Works /\ ~image.valid
     \/ Fails
  /\ Goto("menus")
  /\ UNCHANGED <<pool, published, cd, path, fs, kind, todo, menu, loads, loaded>>

-----------------------------------------------------------------------------
(* patch_grub_cfg_blockio and try_patch_candidate.                         *)

Files(class, lbas) == {p \in Places(lbas) : IsRecord(p) /\ RecordOf(p).class = class}

\* The recursive search descends when it meets the directory.
BootPlace == CHOOSE p \in Files("dir", RootSectors(image)) : RecordOf(p).first = BootLba(image)
Upper(p) == IF p.lba = BootLba(image) THEN BootPlace ELSE p
Met(p, q) == IF p.lba = q.lba THEN Before(p, q) ELSE Before(Upper(p), Upper(q))

\* The menus that are considered: systemd-boot's entries on Arch and the paths
\* that are known; other names only when there is none of these; and Fedora's
\* entries or, when nothing was found, anybody's.
Listed ==
  LET confs == Files("conf", {BootLba(image)})
      known == Files("menu", DirSectors(image)) \cup (IF kind = "arch" THEN confs ELSE {})
      found == IF known = {} THEN Files("cfg", DirSectors(image)) ELSE known
  IN  IF kind \in {"arch", "fedora"} \/ found = {} THEN found \cup confs ELSE found

\* They are added in this order; the known paths below the root come first.
Phase(p) == CASE RecordOf(p).class = "conf" -> IF kind = "arch" THEN 0 ELSE 3
              [] RecordOf(p).class = "menu" -> IF p.lba = BootLba(image) THEN 1 ELSE 2
              [] OTHER -> 1
Earlier(p, q) == Phase(p) < Phase(q) \/ (Phase(p) = Phase(q) /\ Met(p, q))

\* add_cfg_entry: one of each extent, up to the size of the array.
Candidates ==
  LET Repeats(p) == \E q \in Listed : Earlier(q, p) /\ RecordOf(q).first = RecordOf(p).first
      own == {p \in Listed : ~Repeats(p)}
  IN  {p \in own : Cardinality({q \in own : Earlier(q, p)}) < MaxCandidates}

CollectMenus ==
  /\ At("menus")
  /\ \/ Works /\ todo' = (IF image.valid THEN Candidates ELSE {})
     \/ Fails /\ todo' = {}
  /\ Goto("menu")
  /\ UNCHANGED <<pool, published, cd, path, fs, kind, menu, loads, loaded>>

\* Nothing to rewrite in it; for Fedora a stub does not count.
Irrelevant(text) == text = "none" \/ (kind = "fedora" /\ text = "stub")

\* The loop over the candidates comes to the next one.
TryNext(p) == /\ p \in todo /\ \A q \in todo : p = q \/ Earlier(p, q)
              /\ todo' = todo \ {p}

ReadMenu ==
  /\ At("menu") /\ Works
  /\ \E p \in todo : TryNext(p) /\ menu' = p
  /\ pool' = Got({"text"})
  /\ Goto("rewrite")
  /\ UNCHANGED <<published, cd, path, fs, kind, loads, loaded>>

SkipMenu ==
  /\ At("menu") /\ Fails
  /\ \E p \in todo : TryNext(p)
  /\ UNCHANGED <<pc, pool, published, cd, path, fs, kind, menu, loads, loaded>>

RewriteMenu ==
  /\ At("rewrite") /\ Works
  /\ ~Irrelevant(RecordOf(menu).text)
  /\ pool' = Freed(Got({"rewritten"}), {"text"})
  /\ Goto("append")
  /\ UNCHANGED <<published, cd, path, fs, kind, todo, menu, loads, loaded>>

\* There is nothing to rewrite, or nothing has changed: the menu was rewritten
\* before.  A stub always gets a line.
LeaveMenu ==
  /\ At("rewrite")
  /\ LET text == RecordOf(menu).text
     IN  \/ Works /\ Irrelevant(text) /\ pool' = Freed(pool, {"text"})
         \/ Fails /\ pool' = Freed(pool, {"text"})
         \/ /\ Works /\ ~Irrelevant(text) /\ text # "stub"
            /\ pool' = Freed(Got({"rewritten"}), {"text", "rewritten"})
  /\ Goto("menu")
  /\ UNCHANGED <<published, cd, path, fs, kind, todo, menu, loads, loaded>>

\* Mutant: behind the image, where the archive already is.
AppendBehindImage ==
  /\ At("append") /\ Works
  /\ pool' = Freed(Got({"area"}), {"rewritten"})
  /\ \E more \in 0 .. 1 :
       LET sectors == RecordOf(menu).sectors + more
       IN  cd' = [cd EXCEPT !.menu = [first |-> SectorsIn(image), sectors |-> sectors],
                            !.menuEntry = menu,
                            !.last = cd.last + sectors]
  /\ todo' = {}
  /\ Goto("menu")
  /\ UNCHANGED <<published, path, fs, kind, menu, loads, loaded>>

\* The new text may take a sector more.  The first menu rewritten is the last.
AppendMenu ==
  /\ At("append") /\ Works
  /\ pool' = Freed(Got({"area"}), {"rewritten"})
  /\ \E more \in 0 .. 1 :
       LET sectors == RecordOf(menu).sectors + more
       IN  cd' = [cd EXCEPT !.menu = [first |-> cd.last + 1, sectors |-> sectors],
                            !.menuEntry = menu,
                            !.last = cd.last + sectors]
  /\ todo' = {}
  /\ Goto("menu")
  /\ UNCHANGED <<published, path, fs, kind, menu, loads, loaded>>

AppendFails ==
  /\ At("append") /\ Fails
  /\ pool' = Freed(pool, {"rewritten"})
  /\ Goto("menu")
  /\ UNCHANGED <<published, cd, path, fs, kind, todo, menu, loads, loaded>>

\* Mutant: the length the image has on the stick.
SyncPathToImage ==
  /\ At("menu") /\ todo = {} /\ Works
  /\ path' = SectorsIn(image)
  /\ Goto("find")
  /\ UNCHANGED <<pool, published, cd, fs, kind, todo, menu, loads, loaded>>

SyncPath ==
  /\ At("menu") /\ todo = {} /\ Works
  /\ path' = cd.last + 1
  /\ Goto("find")
  /\ UNCHANGED <<pool, published, cd, fs, kind, todo, menu, loads, loaded>>

-----------------------------------------------------------------------------
(* Starting the image's loader.                                            *)

ReadLoader ==
  /\ At("find")
  /\ image.valid
  /\ \/ Works /\ pool' = Got({"loader", "filePath"})
     \/ Fails /\ pool' = Got({"loader"})
  /\ Goto("load")
  /\ UNCHANGED <<published, cd, path, fs, kind, todo, menu, loads, loaded>>

NoLoader ==
  /\ At("find")
  /\ \/ Works /\ ~image.valid
     \/ Fails
  /\ Goto("halted")
  /\ UNCHANGED <<pool, published, cd, path, fs, kind, todo, menu, loads, loaded>>

\* Mutant: as after a failure.
LoadAndFreeBoth ==
  /\ At("load") /\ loads < 4 /\ Works
  /\ pool' = Freed(IF loads = 2 THEN Got({"cdromPath"}) ELSE pool, {"loader", "filePath"})
  /\ loads' = 0
  /\ Goto("loaded")
  /\ UNCHANGED <<published, cd, path, fs, kind, todo, menu, loaded>>

\* With the file's path, without one, with the CD-ROM's only, without buffer:
\* whichever was accepted, the status of the others is forgotten.
LoadImage ==
  /\ At("load") /\ loads < 4 /\ Works
  /\ pool' = Freed(IF loads = 2 THEN Got({"cdromPath"}) ELSE pool, {"loader"})
  /\ loads' = 0
  /\ Goto("loaded")
  /\ UNCHANGED <<published, cd, path, fs, kind, todo, menu, loaded>>

\* A soft error leads to the next attempt; the third is left out when there is
\* no memory for its path.
LoadRefused ==
  /\ At("load") /\ loads < 4 /\ Works
  /\ pool' \in (IF loads = 2 THEN {pool, Freed(Got({"cdromPath"}), {"cdromPath"})} ELSE {pool})
  /\ loads' = loads + 1
  /\ UNCHANGED <<pc, published, cd, path, fs, kind, todo, menu, loaded>>

\* Another error, or the last soft one.
LoadFails ==
  /\ At("load") /\ Works
  /\ pool' \in (IF loads = 2 THEN {Freed(Got({"cdromPath"}), {"cdromPath", "loader", "filePath"})}
                ELSE {Freed(pool, {"loader", "filePath"})})
  /\ Goto("halted")
  /\ UNCHANGED <<published, cd, path, fs, kind, todo, menu, loads, loaded>>

\* The image is told that it comes from the CD-ROM.
StartImage ==
  /\ At("loaded")
  /\ \/ Works /\ loaded' = [device |-> TRUE, filePath |-> pool["filePath"] # "none", starts |-> 1]
     \/ Fails /\ loaded' = [loaded EXCEPT !.starts = 1]
  /\ Goto("running")
  /\ UNCHANGED <<pool, published, cd, path, fs, kind, todo, menu, loads>>

\* EFI_UNSUPPORTED: once more without the device, if it can be cleared.
StartAgain ==
  /\ At("running")
  /\ loaded.starts = 1 /\ loaded.device
  /\ \/ Works /\ loaded' = [loaded EXCEPT !.device = FALSE, !.starts = 2]
     \/ Fails /\ loaded' = [loaded EXCEPT !.starts = 2]
  /\ UNCHANGED <<pc, pool, published, cd, path, fs, kind, todo, menu, loads>>

\* Success leaves the processor halted for good, all else restarts.
Return ==
  /\ At("running") /\ Works
  /\ pc' \in {"stopped", "halted"}
  /\ UNCHANGED <<pool, published, cd, path, fs, kind, todo, menu, loads, loaded>>

Next ==
  \/ CreatePath \/ CreateCd \/ PublishCd \/ CreateFails \/ PublishPath \/ PublishFs \/ NoFs
  \/ ScanIso \/ BuildBundle \/ NoBundle
  \/ Inject \/ Rename \/ NoEntry \/ NoDescriptor
  \/ CollectMenus \/ ReadMenu \/ SkipMenu \/ RewriteMenu \/ LeaveMenu \/ AppendMenu \/ AppendFails
  \/ SyncPath \/ ReadLoader \/ NoLoader \/ LoadImage \/ LoadRefused \/ LoadFails
  \/ StartImage \/ StartAgain \/ Return

Spec == Init /\ [][Next]_vars

-----------------------------------------------------------------------------
(* What a reader of the CD-ROM finds.                                      *)

\* The types of all that is not a number of sectors or a place in a directory.
TypeOK ==
  /\ image \in Images
  /\ pool \in [Blocks -> {"none", "live", "freed", "twice"}]
  /\ published \subseteq {"cd", "path", "fs"}
  /\ cd.how \in {"none", "injected", "renamed"}
  /\ fs.bound \in BOOLEAN /\ fs.bundle \in BOOLEAN
  /\ kind \in {"fedora", "arch", "windows", "unknown"}
  /\ loads \in 0 .. 4 /\ failures \in 0 .. MaxFailures

\* The records of a directory sector that the size of the directory covers.
SizeOf(lba) == IF lba = BootLba(image) THEN Slots
               ELSE Sector(PvdLba).rootSlots - (lba - RootLba) * Slots
Visible(lba) == {k \in DOMAIN Sector(lba).records : k <= SizeOf(lba)}

Contents(r) == IF r.class = "dir" THEN <<r.first>>
               ELSE [i \in 1 .. r.sectors |-> Sector(r.first + i - 1)]
Whole(what, sectors) == [i \in 1 .. sectors |-> [what |-> what, at |-> i - 1]]
Original(r) == IF r.class = "dir" THEN <<r.first>>
               ELSE [i \in 1 .. r.sectors |-> [what |-> "data", lba |-> r.first + i - 1]]

\* What place p of a directory should hold: the archive, the menu rewritten, or
\* what it held before.
Holds(p, r) ==
  IF cd.how # "none" /\ p = cd.entry
  THEN r.name = "PREMOUNT" /\ Contents(r) = Whole("bundle", BundleSectors)
  ELSE /\ IsRecord(p) /\ r.name = RecordOf(p).name
       /\ Contents(r) = (IF p = cd.menuEntry THEN Whole("menu", cd.menu.sectors)
                         ELSE Original(RecordOf(p)))

\* At every moment from its publication on, whatever has failed, the CD-ROM is
\* the image with nothing lost but a file sacrificed, one menu replaced and
\* the archive added, and its descriptor covers all of it (vblock_read,
\* prepare_premount_iso_file, try_patch_candidate).
ImageIntact ==
  "cd" \in published /\ image.valid =>
    /\ Sector(PvdLba).sectors = cd.last + 1
    /\ \A lba \in DirSectors(image) :
         /\ DOMAIN RecordsAt(image, lba) \subseteq Visible(lba)
         /\ cd.how # "none" /\ cd.entry.lba = lba => cd.entry.slot \in Visible(lba)
         /\ \A k \in Visible(lba) :
              LET r == Sector(lba).records[k]
              IN  /\ Holds([lba |-> lba, slot |-> k], r)
                  /\ r.first + r.sectors <= cd.last + 1

\* No allocation is given back twice or while something reachable points at
\* it, and when the loader runs no scratch buffer is left (the free_pool calls
\* of create_virtual_cdrom, try_patch_candidate and uefi_chainload_iso).
InUse ==
  published
  \cup (IF "cd" \in published
        THEN (IF cd.bundle # NoArea THEN {"bundle"} ELSE {})
             \cup (IF cd.menu # NoArea THEN {"area"} ELSE {})
        ELSE {})
  \cup (IF "fs" \in published /\ fs.bundle THEN {"bundle"} ELSE {})
  \cup (IF loaded.filePath THEN {"filePath"} ELSE {})

PoolSafe ==
  /\ \A b \in Blocks : pool[b] # "twice" /\ (b \in InUse => pool[b] = "live")
  /\ pc = "running" => \A b \in {"text", "rewritten", "loader"} : pool[b] # "live"

\* From the first LoadImage on, the device path and the media agree on the
\* length of the CD-ROM (comment at iso.rs 1518: "otherwise GRUB/systemd-boot
\* may reject reads beyond the original ISO end").
LengthsAgree == pc \in {"load", "loaded", "running"} => path = cd.last + 1
=============================================================================
