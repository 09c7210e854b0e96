# A TLA+ model of Choosable

Choosable turns a USB stick into a boot menu: a host program (`src/src`, Rust,
command line and GUI) partitions the stick and writes a BIOS stage 1, a stage 2
and an EFI loader to it; the user then copies ISO images to the data partition.
At boot one of the two loaders lists the images and starts the chosen one, and
inside a Linux live system a small init (`premount-init`) finds the image again
and mounts it. This directory models the parts whose correctness depends on the
order of things: writes to a disk that can be interrupted, messages of a window,
devices that come and go.

Paths such as `src/installer.rs` below are relative to the repository.

## 1. Inventory

| Component | State | Operations | Hard behaviours | Correct means | Model |
|---|---|---|---|---|---|
| Disk layout arithmetic (`installer.rs`, `constants.rs`, `disk_layout.rs`) | none | size guards, `align_down`, extents of an MBR and a GPT installation | unsigned subtraction, rounding at the smallest disks | two non-empty disjoint partitions behind stage 2 and before the end (or the backup GPT); the reserve stays free | `DiskLayout` |
| `install_choosable` | the disk, the kernel's partition nodes, mounts, udev's event queue | checks, prompts, zeroing, table, stage 2, boot code, `sync`, node reload, `mkfs` twice, EFI loader | kill or power loss between two writes; reinstalling over an installation; an automounter; checks made before a prompt and relied on after it | success means a durable, bootable disk; images go only with `-I`; udev is resumed | `Install` |
| `non_destructive_install` | the user's partition table and filesystem, nodes | measure, shrink, update the table, boot images, nodes, format, loader | size boundaries; failure after the irreversible shrink; stale nodes; run again after a failure | the user's data is never overwritten and always inside its partition | `NonDestructive` |
| `update_choosable`, the GPT on disk | boot sector, stage 2, two GPT copies, loader | swap the active flag, stage 2, attributes in both GPT copies, boot code around the disk UUID, loader | interruption between any two of some fifteen writes; write cache | one GPT copy is always valid; a partition is always active; success means all replaced | `GptUpdate`, `TableSwitch` |
| Disk checks and udev (`checks.rs`, guards in `installer.rs`) | mounts, nodes, udev | unmount, swap and tool checks, wait for nodes, remove nodes, udev guard | check-then-use | as for the installer | part of `Install`, `NonDestructive` |
| Detection and enumeration (`disk.rs`) | none | `detect_choosable`, `enumerate_disks`, `PartitionSlice` | detection of a half-written table | never refuses what an interrupted run left | `DetectChoosable` in `Install`; `IsChoosable` in `NonDestructive`; order of the list in `Gui` |
| GUI (`gui.rs`) | disk list, index, options, `loading`; the message queue and background tasks | nine messages | messages queued before a button is disabled; a list that changes under an index; tasks that overlap | index in range; one task at a time; the disk shown is the disk written | `Gui` |
| BIOS stage 2: scan and menu (`bootloader/kernel`: `fs.rs`, `menu.rs`) | file list, page, digits; a carry buffer | exFAT, FAT32 and NTFS scans, keys | directory entry sets broken across sectors and clusters; lists longer than the array; the last page | lists exactly the images; the page is never empty; the scan ends | `BiosMenu` (NTFS aside) |
| BIOS stage 2: partitions, El Torito, ATA, chainload (`part.rs`, `iso.rs`, ...) | the data partition; the boot image loaded | read the tables, parse the boot catalog, load, jump | two loaders read the tables with code of their own; platform headers between catalog entries; fragmented images | the partition is the one the UEFI loader takes; the code jumped into is the image's own, for the BIOS | `Partitions`, `BiosBoot`; hardware protocols aside |
| Premount init (`bootloader/premount-init`) | devices, loop devices, `/cdrom` | look up by PARTUUID or number with retries, attach, offset, mount, fall back to a scan, hand over | devices that appear late; a system call that fails half-way | no loop device leaks; no image missed; the stick named is the one mounted; init always runs | `Premount` |
| EFI pipeline (`bootloader/efi`: `boot_stage.rs`, `boot_context.rs`, `disk.rs`) | `BootContext` filled stage by stage | stages from the disk to the chosen payload | fields a stage expects of an earlier one; a partition identified by three reads that may each fail | what is passed on to the live system identifies the data partition or nothing | `EfiBoot`, `Partitions` |
| EFI file systems and menu (`fs.rs`, `iso.rs:1695-1866`) | the payload list; recursion; long-name and carry buffers; page, digits | recursive search of exFAT and FAT32, keys | recursion limited by slashes in a path that is cut; names in pieces; directories over many clusters | lists the payloads of all directories in order; ends; bounded stack | `EfiScan`, `EfiBoot` (NTFS aside) |
| EFI virtual CD-ROM (`virtual_blockio.rs`) | last block, three patches, published protocols | create and publish, block reads with patches | read past the end; published before it is patched; failure half-way | what a loader reads is the image with nothing lost but one spare file | `VirtualCd` |
| EFI file system on it (`iso_fs.rs`) | size of the root directory, archive, handles with a position | open, read a directory in pieces, rewind, close | a size read before it changes; a position with phase bits; buffers of any size | it shows the CD-ROM's own files; no record skipped | `IsoFs` |
| EFI chainloading (`iso.rs`, `premount.rs`, `boot_kind.rs`) | pool allocations, the child's `LoadedImage` | scan, archive, directory entry, choice of a menu, four attempts at `LoadImage` | each call may fail; who frees what; several menus compete for one patch | no block freed twice or too early; device path as long as the media | `VirtualCd` |
| EFI menu rewriting (`strategy.rs`, `boot_kind.rs`, `locator.rs`) | a buffer sized from counts | rewriting a menu line by line | one forgotten count is a write behind the buffer; several insertions into one line; arguments that do not fit | never behind the buffer; every entry gets its arguments and archive once, in their place | `GrubPatch` |
| BIOS stage 1 and `build.rs`, CLI, Secure Boot ESP, version and list | – | – | little or no state of their own | – | not modelled |

How they interact: GUI and CLI call the three installer functions, each a
sequence of blocking calls in one process; the GUI runs them as tasks whose
results come back as messages. The installer talks to the kernel through
partition nodes (`partx`), which may differ from the table on the disk, and to
udev and the desktop, which act on those nodes behind its back. The only thing
that passes from the host program to the boot loaders is the disk. The EFI loader
gives the image's own loader a CD-ROM handle with block and file protocols, which
share memory with it, and hands the premount init a command line with the PARTUUID, the partition number,
and the offset of the image.

`PROJECT.json` lists the same components with their status, every hazard at its
line with the properties that watch it, and the definitions' source lines.

## 2. Modules

```
DiskLayout ── Install ── MCInstall            TableSwitch (abstract)
     │            └─ HostProofs                    ▲ refined by
     │           Gui ─┴─ MCGui                GptUpdate ── GptUpdateProofs
     └─ NonDestructive ── MCNonDestructive
              └─ NonDestructiveProofs         VirtualCd ── IsoFs ── MCIsoFs
                                                   └─ VirtualCdProofs
             Partitions ── LoaderFacts
            ▲          ▲                      GrubPatch ── MCGrubPatch
 EfiScan ── EfiBoot   BiosBoot ── BiosMenu         └─ LinuxProofs
               │          │                   Premount ─┴─ MCPremount
        MCEfiBoot,    MCBiosBoot,
    EfiBootProofs     BiosBootProofs
```

`LoaderFacts` holds the lemmas `BiosBootProofs`, `EfiBootProofs` and `LinuxProofs`
share. `HostProofs` and `LinuxProofs` are each about two models that never meet in one
specification; so that one module may extend both, `Gui` and `GrubPatch`
name their specifications `GuiSpec`, `GuiFairSpec` and `PatchSpec`.

The boot path through the modules: `Partitions` is the disk both loaders see.
On a BIOS machine `BiosBoot` runs from `_start` to the jump, with `BiosMenu`
inside. On a UEFI machine `EfiBoot` runs to the choice of a payload, with
`EfiScan` inside; what it chose is started in `VirtualCd`, whose `RewriteMenu`
is `GrubPatch` in full; the arguments written there are those `Premount` gets.

### DiskLayout
Operators only: `LargeEnough` and `ReserveFits` are the two size guards,
`align_to_4k` the rounding, `Layout(style, total, mib)` the extents `write_mbr_f`
and `write_gpt_f` compute. Subtractions are taken modulo `U64` as release builds
do. `WellFormed` is what a layout should be.

### Install
One disk and one process that is started up to `MaxRuns` times with any options.
The disk is a record of the regions the program writes with one call each
(`boot`, `hdr`, `tab`, `core`, `data`, `esp`). `disk` is what a reader sees
through the page cache and `stable` what has reached the medium: `Sync` copies
one to the other, `PowerLoss` keeps an arbitrary subset of what was dirty. `nodes`
are the extents the kernel believes in; the `partx` operators say when the two
differ (a partition in use keeps its node). There is one action for each write and each
check of `install_choosable`, `FailInWindow` for every early return while udev
is stopped (the guard's `Drop` resumes it) and `Kill`, which drops nothing. The
desktop's `Mount` is an action that is enabled while udev runs.

### NonDestructive
The user's disk is a record `d` that never changes (size, style, four extents,
filesystem kind); `table`, `fs` (the length of the filesystem on partition 1),
`lost` (partitions overwritten), `nodes`, `boot` and `esp` do. `Measure` is
everything up to the decision where partition 2 starts, `Shrink` the resize tools with
their rounding, `UpdatePartitionTable` the slot search and the entries written.

### GptUpdate and TableSwitch
`GptUpdate` has one action for each write of `update_choosable`, in the order of
`GptInfo::write_to_disk` where it writes the table, on a cache and a medium. A
GPT copy is valid when header and entries are of the same version. `TableSwitch`
is what the rewrite promises a reader: the old table, then the new one, never
neither; `Seen` is the refinement mapping.

### Gui
`inbox` holds the messages that have not been handled, so that clicks made before
a button is redrawn are there; `update` is split into one action per message;
`tasks` are the threads. `patient` marks a user who waits for the window: some
properties hold only for that user, which is itself a result (section 6).

### BiosMenu and BiosBoot
A directory is a sequence of files with a kind and a number of name entries; the scanner
reads it by sectors of `PerSector` entries and carries unfinished sets over.
`scan_exfat_dir` and `scan_fat32_dir` differ in what they do with deleted
entries and with carry. Then the menu: pages, digits, Enter, rescan. `BiosBoot`
puts the search for the partition before it and, behind it, `ParseElTorito` and
`LoadBootImage`. An image is its boot catalog and the length of the first piece it
has on the disk: `Platforms` is what the loop over the catalog knows of the platform, `ReadFrom` gives a sector behind that piece to another file, as
the code, which never looks at the FAT of an image, would.

### Partitions
Operators only: what `DiscoverPartition` (`EfiPartition`) and `read_partitions`
(`BiosLba`) make of the same MBR and GPT, entry by entry, and `AsInstalled`, the
tables `install_choosable` writes.

### EfiScan and EfiBoot
`stack` holds one frame for each running call of the recursive search, with its
directory, path, sector buffer, carry and the long name being put together;
`Descend` is a call, `Return` its end. A path counts the bytes and slashes that the
256-byte buffer keeps, so that the limit on the depth is the code's own. The
firmware's stack holds `MaxCalls` calls; a search that needs more stands still.
Directory entries are slots: the pieces of a FAT32 long name in their (reversed)
order, deleted and orphaned ones too; exFAT sets with their number of entries.
`EfiBoot` has an action for each stage, each with the ways it halts, and the menu.

### GrubPatch
A menu is a sequence of lines with a keyword, the words the code looks for, and
their place in bytes. `Allocate` computes the block from counts as the code does
before it copies; then one action copies a line and one action, by the line's
keyword, changes it, each moving `dst` by the bytes it inserts or removes. The
lengths of all arguments are the code's, from the kind of image and the location.

### Premount
One action for each system call that can fail, each followed by what the code
undoes; `Arrive` is the kernel finding one more device. Which devices have the
stick's number, are removable, or hold an image is chosen at `Init`.

### VirtualCd
`uefi_chainload_iso` from `create_virtual_cdrom` to `StartImage`, one action for
each call that can fail and what the code undoes then. `image` (chosen at
`Init`) is the ISO in sectors with records in its directories; `todo` are the places of the menus
that the loop over the candidates has not come to, `menu` the one it is at, and `Earlier` the order of
that loop; `cd` is the
`VirtualBlockIo` with its last block, the archive, the directory entry (injected
or renamed) and the rewritten menu; `Sector(lba)` is `vblock_read`. `pool` follows
each allocation (`none`, `live`, `freed`, `twice`) and `published` the protocols
behind the handle, so that a reader exists from `PublishCd` on: `ImageIntact` is
required in every state after it, also between the two patches.

### IsoFs
Extends it with a loader that uses the file system: one directory handle with its
position (`sector`, `slot`, and the two phase bits that the code ors into the
sector number, modelled as what they do to it: `Through`, `End`), read with any
buffer, with read errors, rewound and closed.

## 3. Runs

| Run | Expected | What it asks | Bounds |
|---|---|---|---|
| `InstallSafe` | pass | `SuccessMeansBootable`, `TableWellFormed`, `ReserveHonoured`, `ImagesLostOnlyByForce` | 2 installs, 1 crash, both styles, reserve 0 or 1 MiB, two disk sizes of which one is the smallest with room; no automounter |
| `InstallLive` | pass | `UdevComesBack`, with an automounter | 2 installs, 2 crashes, both styles, reserve 0 or 1 MiB |
| `InstallInterrupted` | violation | `DetectNeverFails` | 2 installs, 1 crash, GPT |
| `NonDestructive` | pass | `DataKept`, `OthersKept`, `TableDisjoint`, `SuccessMeansBootable`, `ShrunkAtMostOnce` | 3 runs, 1 kill, any failure and replugging; 11 tables around each boundary of the size checks |
| `NonDestructiveSlot` | violation | `OthersKept` with slot 2 taken | 1 run |
| `GptUpdate` | pass | `TableReadable`, `ActiveAlways`, `OkMeansUpdated`, the refinement `TableSwitches` | 3 updates, 2 failures or kills, 1 power loss |
| `Gui` | pass | `IndexInRange`, `OneAtATime`, `TargetWasShown`, `LoadingEnds` | 2 disks, 4 clicks, 1 replug |
| `BiosBoot` | pass | `ScanExact`, `PageInRange`, `LoadersAgree`, `BootsBiosImage`, `StagesEnd` | every directory of up to 3 files plus lists of 4 to 6 images; sectors of 4 entries, carry of 6, 5 places in the array, pages of 2; 6 MBRs with 3 GPTs; catalogs of up to 4 entries of which 3 are read, boot images in and behind the first piece; 3 keys, 1 read error |
| `EfiBoot` | pass | `ScanExact`, `StackBounded`, `StickIdentified`, `PageInRange`, `StagesEnd` | sectors of 4 entries, clusters of 2 sectors, carry of 6, 3 places in the list, depth 3, paths of 24 bytes; roots of up to 3 items, four kinds of subdirectory, chains of 7 and cyclic ones; 8 MBRs with 4 GPTs, one or two disks; 2 keys, 1 read error, 8 calls |
| `GrubPatch` | pass | `Fits`, `LongPathOnly`, `EntriesReady` | every menu of up to 3 of 12 lines, and 12 equal lines; 7 kinds of image, 3 locations, 2 archive names |
| `Premount` | pass | `LoopsReleased`, `NothingMissed`, `GuidDecides`, `InitRuns` | 3 devices, 2 loop devices, 3 attempts, 1 failing call |
| `IsoFs` | pass | `ImageIntact`, `PoolSafe`, `LengthsAgree`, `FsAgrees`, `NothingSkipped` | 10 images (2 invalid) with root directories of 1 to 3 sectors of 3 records, archive of 2 sectors, 2 of the menus considered, buffers of up to 2 records with or without slack, 1 failing call |

Why these bounds are enough. An install does nothing but compare and write
constants of its own run: what a second run can find differs only by
where the first was cut off and by its options, so two runs with one crash meet
every disk state that matters, and a third run starts from a state a second one
can start from. Three runs of `non_destructive_install` are needed to shrink,
fail, reload, and go through again. `GptUpdate` needs three, so that an update can be
cut short during the repair of an interrupted one. The disk sizes sit at the guards, where
rounding and subtraction decide; the arithmetic between them is proved for all
sizes. In `BiosBoot` and `EfiBoot` a set of up to 6 entries in sectors of 4 can
break over two and three sectors, at every place, and overflow the carry buffer;
three items in a root are enough to have each kind before and behind each other.
Directories nested seven deep pass the limit of three, and paths of 24 bytes are
cut both before and after it is reached. All tables, all directories and all
boot catalogs are in the instances, not all of their combinations: what a scan
does depends on the partition's place only. Twelve equal lines use up in
`GrubPatch` what the 256 bytes of slack could hide, for each kind of line.
Two loop devices are one more than the program may hold. The images of `IsoFs` have
a root directory with room, full with and without a spare file, and of odd and even
length (the phase bits differ), the menu in the root or below, in the sector of
the archive's entry or another, and one that competes with a stub; one failure
reaches every error path, as they end the program or skip one thing.
`VirtualCd` alone holds with four failures as well. `MaxRuns`, `MaxCrashes`,
`MaxKills`, `MaxStops`, `MaxLosses`, `MaxClicks`, `MaxReplugs`, `MaxKeys`,
`MaxErrors`, `MaxCalls`, `MaxEntries` and `MaxFailures` bound the environment and stand as guards; they
are the only artificial limits. (`MaxFiles`, `MaxDepth`, `MaxPath`, `CarryEntries` and the page
size are the program's, scaled down: 64, 12, 256 and 19 there, and a page of 16 lines in the BIOS
menu, of 12 in the UEFI menu.) `U64` and `U32` are scaled down (2^26, 2^25) since TLC's
integers have 32 bits; they stay far above every sector number of the instance.

`CHECK_DEADLOCK FALSE` everywhere: each program really stops (all
runs used up, init executed, an image booted, no click left).

No symmetry sets are used: partition numbers, the order of devices and of loop
devices all matter to the code.

## 4. Fairness

- `Install`: `WF(Process)`. The installer is a process the scheduler runs; each step is a
  blocking call that returns, with an error at worst. Nothing is assumed of the user,
  the automounter or crashes.
- `Gui`: `WF(Update)`, the message loop, and `WF(FinishTask)`: scans and operations
  end. They run external tools without a timeout; this is the assumption
  `LoadingEnds` rests on.
- `BiosBoot`: `WF(Scan)` and `WF(Stage)`, `EfiBoot`: `WF(Stage)`: loops without
  waiting; no key needs ever be pressed.
  The disk's answer is a step: `ata.rs` polls some status bits without
  a bound, so a drive that never answers hangs the real program.
- `Premount`: `WF(Process)`; the sleeps end. No device needs ever arrive.

Safety runs and all refutations use the specification without liveness, or with
the fairness above where a temporal property is checked.

## 5. Proofs

All theorems hold for every value of the constants that the named assumptions
allow.

- **HostProofs**, the installer. `NoReserveWellFormed`: without `-r` the guard alone makes
  the layout well formed, for every size and style. `LayoutWellFormed`: with a
  reserve, under room for both partitions. Then `TypeCorrect`; `ImagesKept` (action property: no step before
  the first write of a run without `-I` touches reachable images - by the type
  invariant and the link between `pc = "zero"` and what `Detect` saw);
  `TablesCorrect` and `ReserveCorrect` under `RoomForAll` (each accepted
  size has room for the reserve in each style: the code's own guard is slightly
  too weak, section 6); `SuccessCorrect` with `Automounter = FALSE`. Its inductive
  invariant says, for each value of `pc`, which regions have already been
  written in this run and that the kernel's nodes are either gone or those of the
  table: success alone is a statement about the last step and not inductive.
- **NonDestructiveProofs.** `TypeCorrect` (no length becomes negative),
  `DataKeptAlways` and `EntriesKept`, on every disk. The invariant `IInv` adds `Geometry` (where partition 1 and a partition
  made by an earlier run lie with respect to the user's table, and that the kernel's
  node may still be the one from before an interrupted run) and `Planned` (from the
  decision on, the filesystem ends before the planned start). Without the first
  a rerun over stale nodes could not be excluded. Where slot 2 is free
  (`Slot2Free`, the hypothesis of the run, finding 3 without it) also
  `OthersKeptAlways`, `TableDisjointAlways`, `SuccessCorrect` and `ShrunkOnce`: `SlotInv` says that
  the disk is either as the user brought it (`Before`: nothing but the filesystem's
  length has changed) or has the new table for good (`After`: a rerun meets the
  check for Choosable and stops), and that the filesystem has one of two lengths.
  On disks off 4 KiB boundaries nothing is claimed of overlaps (section 6).
- **GptUpdateProofs.** `TypeCorrect`, `TableCorrect`, `SwitchCorrect` (the
  refinement of `TableSwitch`: every step is a switch, a power loss or a
  stutter), `ActiveCorrect`, `UpdatedCorrect`. The invariant is `Ordered` (the
  four parts of the GPT become new in the order header, entries, backup header,
  backup entries, also in a run that starts over, so that at most one copy is
  ever between two versions) and `Progress` (what the steps behind the current
  one have achieved).
- **VirtualCdProofs.** `TypeCorrect`, `PoolCorrect` and `LengthsCorrect`. The invariant says for
  each stage which blocks are live: what is published, what `cd`, `fs` and the
  child point at, and that each scratch buffer lives in one stage only;
  `PoolSafe` alone does not know that a block freed next is still live.
  `ImageKept`: the invariant `CdInv` says that the archive and the menu lie behind the
  image, one behind the other and inside the media (`Added`), that the patched
  place is a menu of the image, and that the archive's entry is a spare file's or the
  first free place of the last root sector. From it the lemmas derive what `vblock_read` returns
  for each sector (`DirRecords`, `BundleRead`, `MenuRead`, `DataRead`) and then
  what each record leads to (`RecordHolds`).
  `DirectoriesComplete`, of the filesystem: the positions of a directory's records, sector
  by sector, are strictly ordered (`PositionsOrdered`), so what is left behind a
  position is the rest of the sequence (`LeftBehind`). The invariant `FileInv` says that what
  was returned is the first records up to the one at the position (`Reading`), or all of them and
  perhaps the archive's name when the position is past the directory (`AllRead`);
  `NothingSkipped` alone says nothing of the position. `FilesystemAgrees` adds to
  `ImageKept` that the number of sectors the filesystem remembers is the image's
  (`FsInv`) and, under `NamesDistinct`, that a name leads to one record. Two
  records of one name occur on images whose files have several extents, which the
  filesystem does not put together; `MCIsoFs` assumes `NamesDistinct` for its images.
- **LinuxProofs**, the boot menu. `FitsCorrect` and `LongPathCorrect`. `Fits` compares what
  has been written with a count over the whole menu, so the invariant `Budget`
  says what the lines behind the cursor may have taken: at most `Need(k)`, the first
  `k` lines with all their counted extras, between two lines, and `Before(k)` plus
  what has gone into line `k` within one. `NeedStep` (one line more costs its length
  and the extras of its own keyword) and `NeedBound` (`Need` grows up to the
  allocated size) are facts on the cardinality of sets of lines.
  `EntriesCorrect`: `ReadyInv` says that the output is finished up to the line at hand
  (`Written`) and what of that line has been written. The lemmas on `Only`
  say that filtering words commutes with concatenation, so that inserting words of the
  loader's own (`Inserted`) changes nothing of `Original`. It uses the assumption that
  the word behind `linux` is the kernel, no option.
- **LinuxProofs**, the premount init. `LoopsCorrect`, `NothingMissedCorrect`, `GuidCorrect`: where
  a loop device is attached is a function of `pc`; whatever was listed and is no longer
  to do has been tried and holds no image.
- **HostProofs**, the window. `IndexCorrect`, `OneAtATimeCorrect`, `TargetCorrect`: for a patient
  user at most one thing is under way, a queued message or a task, and it
  carries what was shown.
- **LoaderFacts.** `InstalledAgree`, a fact about the two readings of any
  installed table. The rest stands in for induction over data: `LeastNumber` and `AllNumbers` give induction
  with a set of numbers in place of a predicate, `AllSequences` that for sequences, `Recursion` a function defined by
  its steps, `Unfolded` and `FlattenAppend` what the library's fold over a sequence does at its last
  element, and `Flattened` what the library's `FlattenSeq` makes of a
  sequence of sequences: where each of them begins (`Ends`) and what stands there.
  `SectorsEnough` says that the sectors a directory occupies have room for its entries.
- **BiosBootProofs.** From `InstalledAgree`, `LoadersCorrect`. `PageCorrect`, whose invariant
  `Paging` adds that a page other than the first exists in a complete list only and
  that a rescan begins with an image in the list. `BiosImageCorrect`: the
  platform behind the i-th entry of a catalog, which the code carries through its
  loop, is that of the last header at or before it (`PlatformOfHeaders`), and the entry taken is the
  first bootable one behind a header for the BIOS.
  `ImagesListed`: the reference `Listing` knows nothing of sectors; the scan sees
  nothing else. Its invariant `Loop` puts the two together: `Streams` says
  that the buffer, the carry and the sectors not yet read are one stream, the entries of all items
  one behind the other (`Flat`), at some `Place` in it; `Inside` that this place is
  the beginning of an item's entries or among those that are skipped, and
  that a set carried over is cut off by the end of what has been read; `Lists`
  that the images of the items so far are listed, as far as there is room. `SkipStep`,
  `TakeStep` and `CarryStep` are the three ways one entry is dealt with; each
  keeps `Loop`, and `AtEnd` concludes at the end mark. What the code needs for it
  is in `IsVolume`: an exFAT set fits in the carry buffer.
- **EfiBootProofs.** `StickCorrect`: `Located` ties what a stage has found to what one
  reading of the disk's tables says, whole or with an unread GPT; `WholeAgrees` and `UnreadAgrees`
  (from `InstalledAgree`) say what that is on an installed disk: the data partition with its GUID
  or number, or its first sector alone. `EfiPageCorrect`: as for the BIOS, but a search starts
  with an empty list and resets the page. `RecursionBounded`: `Nested` says of each two neighbouring frames of
  the stack that the upper was called below the limit with a path
  that the lower one's extends (`Calls`), and of each frame that a path which fits has a slash for
  every call (`Deep`); so the limit on slashes is a limit on calls, up to where
  a path is cut. `Searches`, that a frame's buffers hold slots of its own
  directory, is needed so that a call goes to a directory that exists.
  `PayloadsListed`: the reference `Listing` is a recursion over directories and knows
  neither sectors nor calls; the search sees one slot after the other and leaves a
  directory in the middle of a buffer. `ScanExact` alone says nothing of
  what the waiting calls will still do. The invariant has two parts. `Stands` is about one
  call: its buffer, its carry and the sectors to come are one stream, the slots of
  its directory's items one behind the other; the call stands at the beginning of an item's slots or
  among those it skips; and the long name at hand is the one of the pieces passed. `Owed` is about
  all of them: what has been passed, followed by what each call from the top of the stack
  down still has to list (`RestOf`), is `Expected`. `Listed` ties the list to what was passed: all
  of it up to `MaxFiles`, or, after a read error or on a volume that is not `Regular`, some
  of it in order. `SkipStep`, `PieceStep`, `PassStep`, `CarryStep` and `ReadStep` are the ways a
  call moves in its stream, one lemma each; a call takes its directory's share of `Owed` from its caller
  and gives back what is left, which is nothing at an end mark (`AtEnd`). From the code it
  uses, in `IsVolume`, that an exFAT set fits in the carry buffer.
  `NamesOwn`, the hypothesis of the property, keeps an orphaned long name from the next entry
  (finding 7).

Assumptions on constants are the named `ASSUME`s of the modules
(`U64Assumption`, `InstallAssumption` and the like): the ranges of the bounds and
that `U64` is a number above 2^20. TLC evaluates them on every run. Beyond the hypotheses named above nothing is assumed.

The type invariants of `Install`, `NonDestructive`, `GptUpdate` and `VirtualCd` are
proved and no longer run.

Only model-checked: all liveness (`UdevComesBack`, `LoadingEnds`, `StagesEnd`,
`InitRuns`), since the prover handles neither liveness under fairness nor ENABLED.
Every safety invariant, action property and refinement that a passing run checks has a theorem.

## 6. What the checks found

Places where the code does something other than its documentation, comments or
messages say. `PROJECT.json` quotes the lines.

1. A GPT install cut off after the protective MBR and before the header leaves
   a disk that `detect_choosable` cannot examine; no later install, `-I` or
   not, gets past the check (`InstallInterrupted`).
2. Partitions are unmounted before the prompts and udev is stopped after them: a
   partition mounted in between keeps its stale kernel node, the wrong extent is
   formatted, and success is reported. TLC shows it with `Automounter = TRUE` in
   the instance of `InstallSafe`.
3. `non_destructive_install` puts its entry into the first free slot but formats
   partition 2 (`NonDestructiveSlot`).
4. The premount init accepts another disk's partition with the same number while
   the stick has not appeared; init then runs without an image.
5. An image with a path of more than about 194 bytes makes the loader panic over
   the image's menu: the arguments that do not fit become an empty slice, and
   `windows(0)` is evaluated before the test for it (`LongPathOnly` bounds it).
   Menus with `options` or `blscfg` lines silently get no arguments then.
6. The UEFI loader searches the first disk of the firmware, not the one it was
   started from; neither loader finds a data partition of a Linux type, which the
   non-destructive installation accepts; on hybrid tables the two differ.
7. The UEFI search reads one cluster only of an exFAT directory without a FAT
   chain; loses FAT32 names with a character whose low byte is 00 or FF; takes
   an orphaned long name for the next entry; counts depth by slashes in a path it
   cuts, so that a cyclic directory with long names is not stopped; and lists a
   directory at the limit that is named like an image.
8. `initrd` lines shorter than the archive's name never get it; menus with
   `menuentry` lines only are not injected into, against the comment.
9. Found while modelling, without a run of their own: an update cut off between
   backup header and backup entries leaves a backup GPT that no later update
   repairs; the menu of an image is rewritten to load the premount archive
   also when there is none; the EFI file system lists the archive in every directory; "already contains Choosable" after
   a non-destructive install that failed behind the table; the MBR update's two-step
   UUID; 4 KiB rounding in the non-destructive install that overlaps a neighbour which begins
   off a boundary; the reserve guard that leaves out the first MiB and
   the GPT's tail; BIOS rescan appends to the old list; GUI Refresh ends `loading` while an
   install runs; the GUI keeps an index, not a disk, across a refresh; the NTFS
   scanner reads its attributes at the wrong offset.

The model keeps these behaviours. The preconditions of the properties that hold
(`RoomForAll`, `AlignedDisk`, `patient`, `rescans = 0`, a free slot 2, `AsInstalled`,
`Regular`, `NamesOwn`) name exactly
where they bite.

## 7. Abstractions

- One write call is atomic, except the stage-2 image and the loader of an update, which may
  be torn. The order in which dirty regions reach the medium is arbitrary.
- Contents are versions or the names of their writer; text, command lines, and progress are left out.
- Retries (`wait_for_partitions`, ten attempts at `mkfs.fat`) are one step with
  either outcome; the premount lookups, whose retry matters, are counted.
- The four MBR slots stand for the 128 of a GPT.
- An image's files are extents and a class (directory, menu, spare, vital);
  the rewritten menu is a number of sectors. Directories are two levels, the
  known paths and the two directories of `.conf` files are their classes. What a
  file handle itself allocates, `GetInfo`, and reads of a file in pieces are left out.
- `EfiScan` and `BiosMenu`: a name is its ending and its length; orphaned long
  names are complete; sectors are full of entries up to the first end mark. A boot
  sector is known or not: its geometry checks are left out. An NTFS volume lists
  nothing (the scanners' defects are in section 6). Sets of fewer entries than exFAT
  requires and long names of more than 20 pieces are left out.
- `Install` and `NonDestructive`: the disk is whole, with sectors of 512 bytes. The refusal of an MBR
  on more than 2 TiB is left out, so that what is proved covers such disks as
  well. `detect_choosable` also compares the name of the GPT's second partition, which both
  installations write alike.
- The stack on which the loader's search calls itself is the firmware's: its size is the
  bound `MaxCalls`, and the reference `Listing` goes as deep.
- `Partitions`: GPT entries in use have at least one sector, and begin below 2^32, where the
  kernel's 32 bits end; the 128 entries are a few.
- `Premount`: the devices whose names `scan_all` passes over (loop, ram, dm, sr) are not among `Devices`.
- `GrubPatch`: keywords, words and lengths; `blscfg` inside a line, which
  is counted but not patched, only makes more room and is left out. The words that decide
  whether a menu is patched are looked for at the heads of its lines, not anywhere in the text.
- External, modelled from how the code uses them: kernel nodes and `partx`, `mkfs`,
  the resize tools, the automounter, the page cache, device arrival.

Not modelled, and why: command-line parsing and dispatch (no state); the Secure
Boot ESP, `list` and the version string (reads, or copies of files the installer
never creates); the NTFS scan (a record parser with the defect above); machine
code assembled by `build.rs`; ATA, VGA and mode switching (hardware protocols);
the WIM, VHD and raw payloads of the EFI loader, which end in a message, and the
EFI program payload, which is handed to `LoadImage` as it is; the network stage,
which the program does not use. Two hazards have no property: the automounter
during an update (`installer.rs:1137`), which needs the mounts of `Install` in
`GptUpdate`, and the menu that is rewritten without an archive
(`efi/src/iso.rs:1513`), which the code does knowingly.

## 8. Plan

Done, in this order: `DiskLayout`, `Install`, `NonDestructive`, `GptUpdate` over
`TableSwitch`, `Gui`, `BiosMenu`, `Premount`, `VirtualCd` and `IsoFs`, `GrubPatch`,
`EfiScan` and `EfiBoot` over `Partitions`, `BiosBoot`.

Left, most important first:

1. The composition of `GptUpdate` with the mounts of `checks.rs`, for the
   automounter during an update; the Secure Boot ESP renaming as part of it.
2. The NTFS searches, once they read what they should: their present defects
   leave nothing that a model could show beyond the findings.
