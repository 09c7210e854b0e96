-------------------------------- MODULE EfiScan --------------------------------
(***************************************************************************)
(* The UEFI loader's search for payloads on an exFAT or FAT32 partition    *)
(* (src/bootloader/efi/src/fs.rs): every directory is read sector by       *)
(* sector, and a sub-directory is searched by a recursive call where its   *)
(* entry stands.  The calls are a stack of frames here.                    *)
(*                                                                         *)
(* Names are abstracted to what they end in and to their length.  The      *)
(* sizes below are 16, 19, 64, 12 and 256 in the program.                  *)
(***************************************************************************)
EXTENDS Naturals, Sequences, SequencesExt

CONSTANTS
  PerSector,     \* directory entries in a sector
  PerCluster,    \* sectors in a cluster
  CarryEntries,  \* entries the carry buffer holds
  MaxFiles,      \* length of the list
  MaxDepth,      \* slashes in the path of the deepest directory whose sub-directories are searched, plus one
  MaxPath,       \* length of the buffer for a path
  MaxCalls,      \* bound: calls the firmware's stack holds
  MaxErrors      \* bound: failing disk reads

ASSUME ScanAssumption ==
  /\ {PerSector, PerCluster, MaxDepth, MaxPath, MaxCalls} \subseteq Nat \ {0}
  /\ {CarryEntries, MaxFiles, MaxErrors} \subseteq Nat

VARIABLES
  vol,      \* the partition's file system
  stack,    \* the frames of the running calls
  files,    \* the list
  errors

scanVars == <<vol, stack, files, errors>>

-----------------------------------------------------------------------------
(***************************************************************************)
(* A volume is [fs, dirs]; directory 1 is the root.  A directory is        *)
(* [items, chained]: the clusters of an exFAT directory that is not        *)
(* chained lie one after the other and have no entries in the FAT.  An     *)
(* item has a kind, `parts' name entries, the ending of its name, and the  *)
(* length of the name; a directory has the number `sub'.                   *)
(*   "file", "dir"  in use                                                 *)
(*   "dots"         one of . and .. (FAT32)                                *)
(*   "gone"         deleted                                                *)
(*   "other"        a volume label, an allocation bitmap                   *)
(*   "broken"       an exFAT set without its stream extension              *)
(*   "orphan"       the long name of a FAT32 entry that is gone            *)
(* The name of a `cut' item has a character of which FAT32's long name     *)
(* stores a low byte of 00 or FF, between its start and its ending.  The   *)
(* largest exFAT set fits in the carry buffer.  Nothing is said of what an *)
(* NTFS volume holds.                                                      *)
(***************************************************************************)
Payloads == {"iso", "wim", "vhd", "vhdx", "img", "efi"}

IsVolume(v) ==
  /\ v.fs \in {"exfat", "fat32", "ntfs"}
  /\ v.fs = "ntfs" <=> v.dirs = <<>>
  /\ v.dirs \in Seq([items : Seq([kind  : {"file", "dir", "dots", "gone", "other", "broken", "orphan"},
                                 name  : STRING, cut : BOOLEAN,
                                 parts : Nat, sub : Nat, bytes : Nat \ {0}]),
                    chained : BOOLEAN])
  /\ \A d \in DOMAIN v.dirs : \A i \in DOMAIN v.dirs[d].items :
       LET it == v.dirs[d].items[i]
       IN  /\ it.kind = "dir" => it.sub \in DOMAIN v.dirs
           /\ it.kind = "dots" => it.name \notin Payloads
           /\ it.kind = "broken" => v.fs = "exfat"
           /\ it.kind = "orphan" => v.fs = "fat32" /\ it.parts > 0
           /\ v.fs = "exfat" => it.parts + 2 <= CarryEntries

Slot(kind, n, item) == [kind |-> kind, n |-> n, item |-> item]

Copies(n, s) == [i \in 1..n |-> s]

\* The last piece of a long name comes first.
Pieces(n, item) == [j \in 1..n |-> Slot(IF j = 1 THEN "last" ELSE "piece", n + 1 - j, item)]

SlotsOf(fs, it, i) ==
  CASE it.kind = "gone" -> Copies(it.parts + (IF fs = "exfat" THEN 2 ELSE 1), Slot("free", 0, i))
    [] it.kind = "other" -> <<Slot("label", 0, i)>>
    [] it.kind = "orphan" -> Pieces(it.parts, i)
    [] it.kind \in {"file", "dir", "dots", "broken"} ->
         IF fs = "exfat"
           THEN <<Slot("set", it.parts + 1, i)>> \o Copies(it.parts + 1, Slot("free", 0, i))
           ELSE Append(Pieces(it.parts, i), Slot("short", 0, i))

Slots(v, d) == LET items == v.dirs[d].items
               IN  FlattenSeq([i \in DOMAIN items |-> SlotsOf(v.fs, items[i], i)])

ClusterSlots == PerSector * PerCluster

Clusters(v, d) == LET n == Len(Slots(v, d))
                  IN  IF n = 0 THEN 1 ELSE (n + ClusterSlots - 1) \div ClusterSlots

\* read_fat_entry finds no successor of a cluster without an entry.
Sectors(v, d) == PerCluster * (IF v.dirs[d].chained THEN Clusters(v, d) ELSE 1)

\* Sector s, filled up with end marks.
Sector(v, d, s) == [k \in 1..PerSector |->
                      LET i == (s - 1) * PerSector + k
                      IN  IF i <= Len(Slots(v, d)) THEN Slots(v, d)[i] ELSE Slot("end", 0, 0)]

-----------------------------------------------------------------------------
(* Paths and frames.                                                       *)

\* A path: the items it leads through, and its length and slashes in the buffer.
Paths == [trail : Seq(Nat), len : Nat, slashes : Nat]
Root == [trail |-> <<>>, len |-> 1, slashes |-> 1]

\* build_full_path: what does not fit is cut off.
Join(path, i, bytes) ==
  LET slash == IF path.len > 1 /\ path.len < MaxPath THEN 1 ELSE 0
  IN  [trail   |-> Append(path.trail, i),
       len     |-> Min({path.len + slash + bytes, MaxPath}),
       slashes |-> path.slashes + slash]

\* The long name being put together: pieces of the name, the piece expected
\* next, the entry it belongs to, and whose first characters the buffer holds.
NoName == [len |-> 0, seq |-> 0, of |-> 0, head |-> 0]

Frame(d, path) == [dir |-> d, path |-> path, next |-> 0, buf |-> <<>>, pos |-> 1,
                   carry |-> <<>>, lfn |-> NoName]

Top == Last(stack)
More == Top.pos <= Len(Top.buf)
Here == Top.buf[Top.pos]
Items == vol.dirs[Top.dir].items
Item == Items[Here.item]

SetTop(frame) == stack' = Append(Front(stack), frame)

\* scan_payloads starts with an empty list and in the root directory; on NTFS
\* it finds nothing.
StartScan(v) ==
  /\ vol' = v
  /\ files' = <<>>
  /\ stack' = IF v.fs = "ntfs" THEN <<>> ELSE <<Frame(1, Root)>>

-----------------------------------------------------------------------------
Scanning == stack # <<>> /\ UNCHANGED vol

ReadSector ==
  /\ Scanning /\ ~More /\ Top.next < Sectors(vol, Top.dir)
  /\ SetTop([Top EXCEPT !.buf = Top.carry \o Sector(vol, Top.dir, Top.next + 1),
                        !.carry = <<>>, !.pos = 1, !.next = @ + 1])
  /\ UNCHANGED <<files, errors>>

\* The chain ends, or an end mark is met: the caller goes on behind the entry
\* of this directory.
Return ==
  /\ Scanning
  /\ IF More THEN Here.kind = "end" ELSE Top.next = Sectors(vol, Top.dir)
  /\ stack' = Front(stack)
  /\ UNCHANGED <<files, errors>>

\* A sector or a FAT entry cannot be read: so much for this directory.
ReadFails ==
  /\ Scanning /\ ~More /\ Top.next < Sectors(vol, Top.dir)
  /\ errors < MaxErrors
  /\ errors' = errors + 1
  /\ stack' = Front(stack)
  /\ UNCHANGED files

SkipSlot ==
  /\ Scanning /\ More /\ Here.kind \in {"free", "label"}
  /\ SetTop([Top EXCEPT !.pos = @ + 1, !.lfn.len = 0])
  /\ UNCHANGED <<files, errors>>

\* A piece of a long name counts if it is the one that is due.
TakePiece ==
  /\ Scanning /\ More /\ Here.kind \in {"last", "piece"}
  /\ LET name == IF Here.kind = "last"
                   THEN [Top.lfn EXCEPT !.len = Here.n, !.seq = Here.n, !.of = Here.item]
                   ELSE Top.lfn
         due == Here.n = name.seq /\ Here.item = name.of
     IN  SetTop([Top EXCEPT
           !.pos = @ + 1,
           !.lfn = IF due THEN [name EXCEPT !.seq = @ - 1,
                                            !.head = IF Here.n = 1 THEN Here.item ELSE @]
                   ELSE name])
  /\ UNCHANGED <<files, errors>>

SetFits == Top.pos + Here.n <= Len(Top.buf)

\* Mutant: the buffer holds a sector.
KeepSector(rest) == IF Len(rest) <= PerSector THEN rest ELSE <<>>

Keep(rest) == IF Len(rest) <= CarryEntries THEN rest ELSE <<>>

CarryOver ==
  /\ Scanning /\ More /\ Here.kind = "set" /\ ~SetFits
  /\ SetTop([Top EXCEPT !.carry = Keep(SubSeq(Top.buf, Top.pos, Len(Top.buf))),
                        !.pos = Len(Top.buf) + 1])
  /\ UNCHANGED <<files, errors>>

SkipBroken ==
  /\ Scanning /\ More /\ Here.kind = "set" /\ SetFits
  /\ Item.kind = "broken"
  /\ SetTop([Top EXCEPT !.pos = @ + 1 + Here.n])
  /\ UNCHANGED <<files, errors>>

\* A complete exFAT set, or the short entry of FAT32.
AtEntry ==
  /\ Scanning /\ More
  /\ Here.kind \in {"set", "short"} /\ SetFits
  /\ Item.kind # "broken"

Behind == [Top EXCEPT !.pos = @ + 1 + Here.n, !.lfn.len = 0]

\* The item whose name is taken: FAT32 uses the long name at hand.
LongName == Top.lfn.len > 0 /\ Top.lfn.head # 0
Owner == IF LongName THEN Top.lfn.of ELSE Here.item
Name == Items[Owner]

\* is_bootable_extension
Bootable == Name.name \in Payloads /\ ~(LongName /\ Name.cut)

\* Mutant: recursion without a limit but for the list's.
DescendsAnywhere == Item.kind = "dir" /\ Len(files) < MaxFiles

Descends == /\ Item.kind = "dir"
            /\ Len(files) < MaxFiles
            /\ Top.path.slashes < MaxDepth

StackHolds == Len(stack) < MaxCalls

\* Mutant: the caller comes back to the entry it left.
DescendAgain ==
  /\ AtEntry /\ Descends /\ StackHolds
  /\ stack' = Append(stack, Frame(Item.sub, Join(Top.path, Owner, Name.bytes)))
  /\ UNCHANGED <<files, errors>>

Descend ==
  /\ AtEntry /\ Descends /\ StackHolds
  /\ stack' = Front(stack) \o <<Behind, Frame(Item.sub, Join(Top.path, Owner, Name.bytes))>>
  /\ UNCHANGED <<files, errors>>

\* Any other entry is listed if its name is a payload's, a directory that is
\* not searched as well.
Take ==
  /\ AtEntry /\ ~Descends
  /\ files' = IF Bootable /\ Len(files) < MaxFiles
                THEN Append(files, [path |-> Join(Top.path, Owner, Name.bytes),
                                    item |-> Here.item, type |-> Name.name])
                ELSE files
  /\ SetTop(Behind)
  /\ UNCHANGED errors

ScanStep == \/ ReadSector \/ Return \/ ReadFails \/ SkipSlot \/ TakePiece \/ CarryOver
            \/ SkipBroken \/ Descend \/ Take

-----------------------------------------------------------------------------
(* What a search is to find.                                               *)

\* What the item in place i of a directory adds to the list, given the path of
\* the directory and the lists of all directories for paths one name longer.
Added(it, i, path, below) ==
  LET p == Join(path, i, it.bytes)
  IN  CASE it.kind = "dir" /\ path.slashes < MaxDepth -> below[it.sub][p]
        [] it.kind = "file" /\ it.name \in Payloads -> <<[path |-> p, item |-> i, type |-> it.name]>>
        [] OTHER -> <<>>

\* The payloads of the directories of a volume and of those below them, up to n
\* directories one in the other.
Listing(v) ==
  LET Level[n \in 0..MaxCalls] ==
        [d \in DOMAIN v.dirs |-> [path \in Paths |->
           IF n = 0 THEN <<>>
           ELSE LET items == v.dirs[d].items
                IN  FlattenSeq([i \in DOMAIN items |-> Added(items[i], i, path, Level[n - 1])])]]
  IN  Level

Expected(v) == IF v.dirs = <<>> THEN <<>> ELSE Listing(v)[MaxCalls][1][Root]

\* What the loader knows how to read: directories without a chain that fit in
\* a cluster, and no cut name.
Regular(v) == \A d \in DOMAIN v.dirs :
                /\ v.dirs[d].chained \/ Clusters(v, d) = 1
                /\ \A i \in DOMAIN v.dirs[d].items : ~v.dirs[d].items[i].cut

\* The entry behind an orphaned long name has a long name of its own, and no
\* directory is named like a payload.
NamesOwn(v) == \A d \in DOMAIN v.dirs :
                 LET items == v.dirs[d].items
                 IN  \A i \in DOMAIN items :
                       /\ items[i].kind = "dir" => items[i].name \notin Payloads
                       /\ items[i].kind = "orphan" /\ i < Len(items) => items[i + 1].parts > 0
=============================================================================
