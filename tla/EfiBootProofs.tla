---------------------------- MODULE EfiBootProofs ----------------------------
(***************************************************************************)
(* For every machine and volume: the UEFI loader passes on the place of    *)
(* the data partition and no other, its menu never shows a page behind its *)
(* list, and its search calls itself no deeper than its limit allows and   *)
(* lists exactly the payloads of the volume.                               *)
(***************************************************************************)
EXTENDS EfiBoot, LoaderFacts

\* A disk whose GPT cannot be read.
Unread(d) == [d EXCEPT !.gpt = <<>>]

LEMMA FirstOfMbr ==
  ASSUME NEW d, IsDisk(d), Used(d) # {}
  PROVE  Min(Used(d)) \in Used(d)
<1>1. Used(d) \in SUBSET Nat
  BY DEF Used, IsDisk
<1>. QED BY <1>1, MinOf

\* Read in full, a table as the installer leaves it gives the data partition.
LEMMA WholeAgrees ==
  ASSUME NEW d, IsDisk(d), AsInstalled(d), EfiPartition(d).lba # 0
  PROVE  EfiPartition(d) = DataPartition(d)
<1>1. SUFFICES ASSUME BiosLba(d) = 0 PROVE FALSE
  BY InstalledAgree
<1>2. DataPartition(d).lba = 0
  BY <1>1, InstalledAgree
<1>3. 1 \in DOMAIN d.mbr /\ d.mbr \in Seq([type : STRING, lba : Nat, size : Nat])
  BY DEF IsDisk
<1>4. CASE d.gpt # <<>>
  <2>1. 1 \in DOMAIN d.gpt /\ d.gpt[1].type = "basic"
    BY <1>4 DEF AsInstalled, IsDisk
  <2>2. d.gpt[1] \in [type : STRING, lba : Nat, guid : Nat]
    <3>1. d.gpt \in Seq([type : STRING, lba : Nat, guid : Nat])
      BY DEF IsDisk
    <3>. QED BY <2>1, <3>1, ElementsTyped
  <2>3. d.gpt[1].lba > 0 /\ d.gpt[1].lba \in Nat
    <3>1. d.gpt[1].type # "none"
      BY <2>1
    <3>. QED BY <2>1, <2>2, <3>1 DEF IsDisk
  <2>. QED BY <1>2, <1>4, <2>3 DEF DataPartition
<1>5. CASE d.gpt = <<>>
  <2>1. d.mbr[1].lba = 0
    BY <1>2, <1>5 DEF DataPartition
  <2>2. 1 \in Used(d) /\ Used(d) \in SUBSET (Nat \ {0})
    BY <1>3, <1>5 DEF AsInstalled, Used, IsDisk
  <2>3. MbrLba(d) = 0
    BY <2>1, <2>2, FirstIsMin DEF MbrLba
  <2>4. AtMbrLba(d) = {} /\ BasicData(d) = {}
    BY <1>5 DEF AtMbrLba, BasicData
  <2>5. EfiPartition(d) = [NoPartition EXCEPT !.lba = 0]
    BY <2>3, <2>4 DEF EfiPartition, ByGptTable
  <2>. QED BY <2>5 DEF NoPartition
<1>. QED BY <1>4, <1>5

\* With its GPT unread it gives either the same or the place alone.
LEMMA UnreadAgrees ==
  ASSUME NEW d, IsDisk(d), AsInstalled(d), EfiPartition(Unread(d)).lba # 0
  PROVE  \/ EfiPartition(Unread(d)) = DataPartition(d)
         \/ EfiPartition(Unread(d)) = [NoPartition EXCEPT !.lba = DataPartition(d).lba]
<1>. DEFINE u == Unread(d)
<1>1. u.mbr = d.mbr /\ u.gpt = <<>> /\ u.sig = d.sig
  BY DEF IsDisk, Unread
<1>. HIDE DEF u
<1>2. /\ Used(u) = Used(d) /\ MbrLba(u) = MbrLba(d) /\ (IsGpt(u) <=> IsGpt(d))
      /\ AtMbrLba(u) = {} /\ BasicData(u) = {}
  BY <1>1 DEF Used, MbrLba, IsGpt, AtMbrLba, BasicData
<1>3. CASE d.gpt = <<>>
  <2>1. AtMbrLba(d) = {} /\ BasicData(d) = {}
    BY <1>3 DEF AtMbrLba, BasicData
  <2>2. EfiPartition(u) = EfiPartition(d)
    BY <1>1, <1>2, <2>1 DEF EfiPartition, ByGptTable, ByMbr
  <2>. QED BY <2>2, WholeAgrees DEF u
<1>4. CASE d.gpt # <<>>
  <2>1. IsGpt(d)
    <3>1. d.mbr[1].type = "EE" /\ d.mbr[1].size > 0 /\ 1 \in DOMAIN d.mbr /\ DOMAIN d.mbr = 1..4
      BY <1>4 DEF AsInstalled, IsDisk
    <3>2. \A i \in Used(d) : 1 < i
      BY <3>1 DEF Used
    <3>. QED BY <3>1, <3>2 DEF IsGpt
  <2>2. EfiPartition(u) = [NoPartition EXCEPT !.lba = MbrLba(d)]
    BY <1>2, <2>1 DEF EfiPartition, ByGptTable
  <2>3. MbrLba(d) # 0
    BY <2>2 DEF u, NoPartition
  <2>4. MbrLba(d) = DataPartition(d).lba
    <3>1. Used(d) # {}
      BY <2>3 DEF MbrLba
    <3>2. MbrLba(d) = d.gpt[1].lba
      BY <1>4, <3>1, FirstOfMbr DEF MbrLba, AsInstalled
    <3>. QED BY <1>4, <3>2 DEF DataPartition
  <2>. QED BY <2>2, <2>4 DEF u
<1>. QED BY <1>3, <1>4

-----------------------------------------------------------------------------
\* The disk is one of the machine's, and the partition what its tables say.
Located ==
  /\ disks \in Machines /\ errors \in Nat
  /\ pc \in {"partition", "mount", "scan", "menu", "booted"} => disk \in DOMAIN disks
  /\ pc = "mount" => part.lba \in DOMAIN disks[disk].at
  /\ pc \in {"disk", "partition"} => part = NoPartition
  /\ part # NoPartition =>
       /\ disk \in DOMAIN disks
       /\ \/ part = EfiPartition(disks[disk])
          \/ part = EfiPartition(Unread(disks[disk])) /\ errors > 0

LEMMA LocatedKept ==
  ASSUME Located, [Next]_vars
  PROVE  Located'
<1>1. CASE DiscoverDisk
  <2>. DEFINE Good == {i \in DOMAIN disks : disks[i].whole /\ disks[i].media}
  <2>1. /\ disk' = (IF Good = {} THEN 0 ELSE Min(Good))
        /\ pc' = (IF Good = {} THEN "halted" ELSE "partition")
        /\ UNCHANGED <<disks, part, errors>> /\ pc = "disk"
    BY <1>1 DEF DiscoverDisk, scanVars
  <2>2. Good \in SUBSET Nat /\ Good \subseteq DOMAIN disks
    BY BootAssumption DEF Located
  <2>. HIDE DEF Good
  <2>3. pc' = "partition" => disk' \in DOMAIN disks
    BY <2>1, <2>2, MinOf
  <2>. QED BY <2>1, <2>3 DEF Located
<1>2. CASE DiscoverPartition
  <2>0. pc = "partition" /\ UNCHANGED <<disks, disk>>
    BY <1>2 DEF DiscoverPartition
  <2>1. disk \in DOMAIN disks /\ IsDisk(disks[disk])
    BY <2>0, BootAssumption DEF Located
  <2>2. PICK d \in Readings :
          /\ errors' = (IF d = disks[disk] THEN errors ELSE errors + 1)
          /\ pc' = (IF EfiPartition(d).lba \in DOMAIN d.at THEN "mount" ELSE "halted")
          /\ part' = (IF EfiPartition(d).lba \in DOMAIN d.at THEN EfiPartition(d) ELSE part)
    BY <1>2 DEF DiscoverPartition
  <2>3. d = disks[disk] \/ d = Unread(disks[disk])
    BY DEF Readings, Unread
  <2>4. d.at = disks[disk].at
    BY <2>1, <2>3 DEF Unread, IsDisk
  <2>5. part = NoPartition /\ errors \in Nat /\ disks \in Machines
    BY <2>0 DEF Located
  <2>6. errors' \in Nat /\ (d # disks[disk] => errors' > 0)
    BY <2>2, <2>5
  <2>7. CASE EfiPartition(d).lba \in DOMAIN d.at
    BY <2>0, <2>1, <2>2, <2>3, <2>4, <2>5, <2>6, <2>7 DEF Located
  <2>8. CASE EfiPartition(d).lba \notin DOMAIN d.at
    BY <2>0, <2>1, <2>2, <2>5, <2>6, <2>8 DEF Located
  <2>. QED BY <2>7, <2>8
<1>3. CASE MountFilesystem
  BY <1>3 DEF MountFilesystem, Located
<1>4. CASE StageFails
  BY <1>4 DEF StageFails, Located
<1>5. CASE Scan
  <2>1. UNCHANGED <<disks, pc, disk, part>> /\ (errors' = errors \/ errors' = errors + 1)
    BY <1>5 DEF Scan, bootVars, ScanStep, ReadSector, Return, ReadFails, SkipSlot,
                TakePiece, CarryOver, SkipBroken, Descend, Take
  <2>. QED BY <2>1 DEF Located
<1>6. CASE DiscoverPayload
  BY <1>6 DEF DiscoverPayload, Located, scanVars
<1>7. CASE Menu
  <2>1. /\ pc = "menu" /\ pc' \in {"scan", "menu", "booted", "halted"} /\ UNCHANGED <<disks, disk, part>>
        /\ errors' = errors \/ errors' = errors + 1
    BY <1>7 DEF Menu, Key, Typing, PressRefresh, NextPage, PreviousPage, Backspace,
                TypeDigit, Enter, KeyboardFails
  <2>. QED BY <2>1 DEF Located
<1>8. CASE UNCHANGED vars
  BY <1>8 DEF vars, scanVars, bootVars, Located
<1>. QED BY <1>1, <1>2, <1>3, <1>4, <1>5, <1>6, <1>7, <1>8 DEF Next, Stage

\* What the UEFI loader passes on as the place of the images is the data
\* partition's, on every machine and wherever reading the disk fails.
THEOREM StickCorrect == Spec => []StickIdentified
<1>1. Init => Located
  BY DEF Init, Located, NoPartition
<1>2. Located => StickIdentified
  <2>1. SUFFICES ASSUME Located, part.lba # 0, AsInstalled(disks[disk])
                 PROVE  \/ part = DataPartition(disks[disk])
                        \/ errors > 0 /\ part = [NoPartition EXCEPT !.lba = DataPartition(disks[disk]).lba]
    BY DEF StickIdentified
  <2>2. part # NoPartition
    BY <2>1 DEF NoPartition
  <2>3. disk \in DOMAIN disks /\ IsDisk(disks[disk])
    BY <2>1, <2>2, BootAssumption DEF Located
  <2>4. \/ part = EfiPartition(disks[disk])
        \/ part = EfiPartition(Unread(disks[disk])) /\ errors > 0
    BY <2>1, <2>2 DEF Located
  <2>. QED BY <2>1, <2>3, <2>4, WholeAgrees, UnreadAgrees
<1>3. Located /\ [Next]_vars => Located'
  BY LocatedKept
<1>. QED BY <1>1, <1>2, <1>3, PTL DEF Spec

-----------------------------------------------------------------------------
(* Pages.                                                                  *)

\* The page is the first from the start of a search to its end, whatever was
\* shown before it.
EfiPaging ==
  /\ page \in Nat /\ \E S : files \in Seq(S)
  /\ pc \in {"disk", "partition", "mount", "scan"} => page = 0
  /\ pc = "menu" => page < Len(files) /\ page % MENU_PAGE_SIZE = 0

LEMMA StagePaging ==
  ASSUME EfiPaging, Stage
  PROVE  EfiPaging'
<1>1. UNCHANGED page /\ page \in Nat
  BY DEF Stage, DiscoverDisk, DiscoverPartition, MountFilesystem, StageFails, Scan,
         DiscoverPayload, bootVars, EfiPaging
<1>2. CASE DiscoverPayload
  <2>1. /\ pc = "scan" /\ UNCHANGED files /\ page = 0
        /\ pc' = (IF files = <<>> THEN "halted" ELSE "menu")
    BY <1>2 DEF DiscoverPayload, scanVars, EfiPaging
  <2>2. 0 % MENU_PAGE_SIZE = 0
    <3>1. MENU_PAGE_SIZE \in Nat \ {0}
      BY BootAssumption
    <3>. QED BY <3>1
  <2>3. files # <<>> => Len(files) > 0
    BY EmptyOrShown DEF EfiPaging
  <2>. QED BY <1>1, <2>1, <2>2, <2>3 DEF EfiPaging
<1>3. CASE Scan
  <2>1. UNCHANGED pc /\ pc = "scan"
    BY <1>3 DEF Scan, bootVars
  <2>2. files' = files \/ \E e : files' = Append(files, e)
    BY <1>3 DEF Scan, ScanStep, ReadSector, Return, ReadFails, SkipSlot,
                TakePiece, CarryOver, SkipBroken, Descend, Take
  <2>3. \E S : files' \in Seq(S)
    BY <2>2, AppendGrows DEF EfiPaging
  <2>. QED BY <1>1, <2>1, <2>3 DEF EfiPaging
<1>4. CASE MountFilesystem
  <2>1. files' = <<>> /\ pc = "mount" /\ pc' = "scan"
    BY <1>4 DEF MountFilesystem, StartScan
  <2>2. <<>> \in Seq({})
    OBVIOUS
  <2>. QED BY <1>1, <2>1, <2>2 DEF EfiPaging
<1>5. CASE DiscoverDisk \/ DiscoverPartition \/ StageFails
  <2>1. /\ UNCHANGED files /\ pc \in {"disk", "partition", "mount"}
        /\ pc' \in {"partition", "mount", "halted"}
    BY <1>5 DEF DiscoverDisk, DiscoverPartition, StageFails, scanVars
  <2>. QED BY <1>1, <2>1 DEF EfiPaging
<1>. QED BY <1>2, <1>3, <1>4, <1>5 DEF Stage

LEMMA EfiMenuPaging ==
  ASSUME EfiPaging, Menu
  PROVE  EfiPaging'
<1>1. MENU_PAGE_SIZE \in Nat \ {0}
  BY BootAssumption
<1>2. pc = "menu" /\ page < Len(files) /\ page % MENU_PAGE_SIZE = 0 /\ page \in Nat
  BY DEF EfiPaging, Menu, Key, Typing, PressRefresh, NextPage, PreviousPage, Backspace,
         TypeDigit, Enter, KeyboardFails
<1>3. Len(files) \in Nat
  BY EmptyOrShown DEF EfiPaging
<1>4. CASE PressRefresh
  <2>1. files' = <<>> /\ page' = 0 /\ pc' = "scan" /\ <<>> \in Seq({})
    BY <1>4 DEF PressRefresh, StartScan
  <2>. QED BY <2>1 DEF EfiPaging
<1>5. CASE UNCHANGED <<page, files>> /\ pc' \in {"menu", "booted", "halted"}
  BY <1>2, <1>5 DEF EfiPaging
<1>6. CASE NextPage
  <2>1. pc' = "menu" /\ UNCHANGED files
    BY <1>2, <1>6 DEF NextPage, Typing
  <2>2. page' \in Nat /\ page' < Len(files) /\ page' % MENU_PAGE_SIZE = 0
    <3>1. CASE page + MENU_PAGE_SIZE < Len(files)
      <4>1. page' = page + MENU_PAGE_SIZE
        BY <1>6, <3>1 DEF NextPage
      <4>2. page' \in Nat /\ page' < Len(files)
        BY <1>1, <1>2, <1>3, <3>1, <4>1
      <4>3. page' % MENU_PAGE_SIZE = 0
        BY <1>1, <1>2, <4>1, <4>2, MultipleOf
      <4> QED BY <4>2, <4>3
    <3>2. CASE ~ (page + MENU_PAGE_SIZE < Len(files))
      BY <1>2, <1>6, <3>2 DEF NextPage
    <3> QED BY <3>1, <3>2
  <2> QED BY <1>2, <2>1, <2>2 DEF EfiPaging
<1>7. CASE PreviousPage
  <2>1. pc' = "menu" /\ UNCHANGED files
    BY <1>2, <1>7 DEF PreviousPage, Typing
  <2>2. page' \in Nat /\ page' < Len(files) /\ page' % MENU_PAGE_SIZE = 0
    <3>1. CASE page > MENU_PAGE_SIZE
      <4>1. page' = page - MENU_PAGE_SIZE
        BY <1>7, <3>1 DEF PreviousPage
      <4>2. page' \in Nat /\ page = page' + MENU_PAGE_SIZE /\ page' < Len(files)
        BY <1>1, <1>2, <1>3, <3>1, <4>1
      <4>3. page' % MENU_PAGE_SIZE = 0
        BY <1>1, <1>2, <4>2, MultipleOf
      <4> QED BY <4>2, <4>3
    <3>2. CASE ~ (page > MENU_PAGE_SIZE)
      <4>1. page' = 0
        BY <1>7, <3>2 DEF PreviousPage
      <4>2. 0 % MENU_PAGE_SIZE = 0
        BY <1>1
      <4>3. 0 < Len(files)
        BY <1>2, <1>3
      <4>. QED BY <4>1, <4>2, <4>3
    <3> QED BY <3>1, <3>2
  <2> QED BY <1>2, <2>1, <2>2 DEF EfiPaging
<1>8. CASE Backspace \/ TypeDigit \/ Enter \/ KeyboardFails
  BY <1>2, <1>5, <1>8 DEF Backspace, TypeDigit, Enter, KeyboardFails, Typing
<1> QED BY <1>4, <1>6, <1>7, <1>8 DEF Menu

\* Every page of the UEFI menu shows at least one payload, also when a search
\* started from a later page finds fewer than the one before it.
THEOREM EfiPageCorrect == Spec => []PageInRange
<1>1. Init => EfiPaging
  <2>1. <<>> \in Seq({})
    OBVIOUS
  <2> QED BY <2>1 DEF Init, EfiPaging
<1>2. EfiPaging /\ [Next]_vars => EfiPaging'
  <2>1. CASE UNCHANGED vars
    BY <2>1 DEF vars, scanVars, bootVars, EfiPaging
  <2>. QED BY <2>1, StagePaging, EfiMenuPaging DEF Next
<1>3. EfiPaging => PageInRange
  BY DEF EfiPaging, PageInRange
<1> QED BY <1>1, <1>2, <1>3, PTL DEF Spec

-----------------------------------------------------------------------------
(* The depth of the recursion.                                             *)

AnItem == [kind  : {"file", "dir", "dots", "gone", "other", "broken", "orphan"},
           name  : STRING, cut : BOOLEAN, parts : Nat, sub : Nat, bytes : Nat \ {0}]

\* The slots a directory with some items has on the disk.
SlotsIn(items) ==
  [kind : {"free", "label", "last", "piece", "set", "short"}, n : Nat, item : DOMAIN items]
    \cup {Slot("end", 0, 0)}

AnySlot == [kind : {"free", "label", "last", "piece", "set", "short", "end"}, n : Nat, item : Nat]

AFrame == [dir : Nat, path : Paths, next : Nat, buf : Seq(AnySlot), pos : Nat \ {0}, carry : Seq(AnySlot),
           lfn : [len : Nat, seq : Int, of : Nat, head : Nat]]

\* A frame searches a directory of volume v.  Its buffers hold slots of that
\* directory, and a long name at hand belongs to one of its items.
Searches(v, f) ==
  /\ f \in AFrame /\ f.dir \in DOMAIN v.dirs
  /\ f.buf \in Seq(SlotsIn(v.dirs[f.dir].items)) /\ f.carry \in Seq(SlotsIn(v.dirs[f.dir].items))
  /\ f.lfn.len > 0 => f.lfn.of \in DOMAIN v.dirs[f.dir].items

\* As long as a path fits, it has a slash for every call but the root's own.
Deep(i, p) ==
  /\ p.len >= 1
  /\ p.len < MaxPath => /\ p.slashes = (IF i = 1 THEN 1 ELSE i - 1)
                        /\ p.len > 1 <=> i > 1

\* A call is made only below the limit, and a path that fits extends one that does.
Calls(p, q) == p.slashes < MaxDepth /\ (q.len < MaxPath => p.len < MaxPath)

Nested(v, s) ==
  /\ s \in Seq(AFrame)
  /\ \A i \in 1..Len(s) : Searches(v, s[i]) /\ Deep(i, s[i].path)
  /\ \A i \in 1..Len(s) - 1 : Calls(s[i].path, s[i + 1].path)

LEMMA NestedBounded ==
  ASSUME NEW v, NEW s, Nested(v, s), s # <<>>, s[Len(s)].path.len < MaxPath
  PROVE  Len(s) <= MaxDepth + 1
<1>1. MaxDepth \in Nat \ {0} /\ MaxPath \in Nat /\ Len(s) \in Nat /\ Len(s) > 0
  BY ScanAssumption DEF Nested
<1>2. CASE Len(s) <= 2
  BY <1>1, <1>2
<1>3. CASE Len(s) > 2
  <2>. DEFINE n == Len(s) - 1
  <2>1. n \in 1..Len(s) /\ n \in 1..Len(s) - 1 /\ n + 1 = Len(s) /\ n # 1 /\ n \in Nat
    BY <1>1, <1>3
  <2>2. Calls(s[n].path, s[n + 1].path) /\ Deep(n, s[n].path)
    BY <2>1 DEF Nested
  <2>3. s[n].path.slashes = n - 1 /\ s[n].path.slashes < MaxDepth
    BY <2>1, <2>2 DEF Calls, Deep
  <2>. QED BY <1>1, <2>1, <2>3
<1>. QED BY <1>1, <1>2, <1>3

LEMMA FrontIs ==
  ASSUME NEW T, NEW s \in Seq(T), s # <<>>
  PROVE  /\ Front(s) \in Seq(T) /\ Len(Front(s)) = Len(s) - 1
         /\ \A i \in 1..Len(s) - 1 : Front(s)[i] = s[i]
<1>1. Len(s) \in Nat /\ Len(s) > 0 /\ Len(s) - 1 \in Nat
  OBVIOUS
<1>. DEFINE n == Len(s) - 1
<1>2. n \in Nat /\ n \in 0..Len(s) /\ Front(s) = SubSeq(s, 1, n)
  BY <1>1 DEF Front
<1>. HIDE DEF n
<1>3. SubSeq(s, 1, n) \in Seq(T) /\ Len(SubSeq(s, 1, n)) = n
  BY <1>1, <1>2
<1>4. \A i \in 1..n : SubSeq(s, 1, n)[i] = s[i]
  BY <1>1, <1>2
<1>. QED BY <1>2, <1>3, <1>4 DEF n

\* Sequences whose last element goes, changes or is followed by another.
LEMMA PopNested ==
  ASSUME NEW v, NEW s, Nested(v, s), s # <<>>
  PROVE  Nested(v, Front(s)) /\ Len(Front(s)) = Len(s) - 1
<1>1. s \in Seq(AFrame) /\ Len(s) \in Nat /\ Len(s) > 0
  BY DEF Nested
<1>2. /\ Front(s) \in Seq(AFrame) /\ Len(Front(s)) = Len(s) - 1
      /\ \A i \in 1..Len(s) - 1 : Front(s)[i] = s[i]
  BY <1>1, FrontIs
<1>. QED BY <1>1, <1>2 DEF Nested

LEMMA PushNested ==
  ASSUME NEW v, NEW s, Nested(v, s), NEW f, Searches(v, f), Deep(Len(s) + 1, f.path),
         s # <<>> => Calls(s[Len(s)].path, f.path)
  PROVE  Nested(v, Append(s, f))
<1>1. s \in Seq(AFrame) /\ Len(s) \in Nat /\ f \in AFrame
  BY DEF Nested, Searches
<1>. DEFINE t == Append(s, f)
<1>2. /\ t \in Seq(AFrame) /\ Len(t) = Len(s) + 1 /\ t[Len(s) + 1] = f
      /\ \A i \in 1..Len(s) : t[i] = s[i]
  BY <1>1
<1>. HIDE DEF t
<1>3. ASSUME NEW i \in 1..Len(t) PROVE Searches(v, t[i]) /\ Deep(i, t[i].path)
  <2>1. i \in 1..Len(s) \/ i = Len(s) + 1
    BY <1>1, <1>2
  <2>. QED BY <1>2, <2>1 DEF Nested
<1>4. ASSUME NEW i \in 1..Len(t) - 1 PROVE Calls(t[i].path, t[i + 1].path)
  <2>1. CASE i = Len(s)
    <3>1. s # <<>> /\ i \in 1..Len(s)
      BY <1>1, <1>2, <2>1
    <3>. QED BY <1>2, <2>1, <3>1
  <2>2. CASE i # Len(s)
    <3>1. i \in 1..Len(s) - 1 /\ i \in 1..Len(s) /\ i + 1 \in 1..Len(s)
      BY <1>1, <1>2, <2>2
    <3>. QED BY <1>2, <3>1 DEF Nested
  <2>. QED BY <2>1, <2>2
<1>. QED BY <1>2, <1>3, <1>4 DEF Nested, t

LEMMA TopNested ==
  ASSUME NEW v, NEW s, Nested(v, s), s # <<>>, NEW f, Searches(v, f), f.path = s[Len(s)].path
  PROVE  Nested(v, Append(Front(s), f))
<1>1. s \in Seq(AFrame) /\ Len(s) \in Nat /\ Len(s) \in 1..Len(s)
  BY DEF Nested
<1>. DEFINE t == Front(s)
<1>2. Nested(v, t) /\ Len(t) = Len(s) - 1
  BY PopNested
<1>3. \A i \in 1..Len(s) - 1 : t[i] = s[i]
  BY <1>1, FrontIs
<1>4. t \in Seq(AFrame)
  BY <1>2 DEF Nested
<1>. HIDE DEF t
<1>5. Deep(Len(t) + 1, f.path)
  <2>1. Len(t) + 1 = Len(s)
    BY <1>1, <1>2
  <2>. QED BY <1>1, <2>1 DEF Nested
<1>6. t # <<>> => Calls(t[Len(t)].path, f.path)
  <2>1. SUFFICES ASSUME t # <<>> PROVE Calls(t[Len(t)].path, f.path)
    OBVIOUS
  <2>2. Len(t) \in 1..Len(s) - 1 /\ Len(t) + 1 = Len(s)
    BY <1>1, <1>2, <1>4, <2>1
  <2>. QED BY <1>3, <2>2 DEF Nested
<1>. QED BY <1>2, <1>5, <1>6, PushNested DEF t

LEMMA VolumeFacts ==
  ASSUME NEW v, IsVolume(v)
  PROVE  /\ v.fs \in {"exfat", "fat32", "ntfs"} /\ (v.fs # "ntfs" => 1 \in DOMAIN v.dirs)
         /\ v.fs = "ntfs" => v.dirs = <<>>
         /\ DOMAIN v.dirs \subseteq Nat
         /\ \A d \in DOMAIN v.dirs :
              /\ v.dirs[d].items \in Seq(AnItem)
              /\ \A i \in DOMAIN v.dirs[d].items :
                   /\ v.dirs[d].items[i] \in AnItem
                   /\ v.dirs[d].items[i].kind = "dir" => v.dirs[d].items[i].sub \in DOMAIN v.dirs
<1>1. /\ v.fs \in {"exfat", "fat32", "ntfs"} /\ (v.fs = "ntfs" <=> v.dirs = <<>>)
      /\ v.dirs \in Seq([items : Seq(AnItem), chained : BOOLEAN])
      /\ \A d \in DOMAIN v.dirs : \A i \in DOMAIN v.dirs[d].items :
           v.dirs[d].items[i].kind = "dir" => v.dirs[d].items[i].sub \in DOMAIN v.dirs
  BY DEF IsVolume, AnItem
<1>2. v.dirs # <<>> => 1 \in DOMAIN v.dirs
  BY <1>1
<1>3. DOMAIN v.dirs \subseteq Nat
  BY <1>1
<1>4. ASSUME NEW d \in DOMAIN v.dirs PROVE v.dirs[d].items \in Seq(AnItem)
  <2>1. v.dirs[d] \in [items : Seq(AnItem), chained : BOOLEAN]
    BY <1>1, ElementsTyped
  <2>. QED BY <2>1
<1>5. ASSUME NEW d \in DOMAIN v.dirs, NEW i \in DOMAIN v.dirs[d].items
      PROVE  v.dirs[d].items[i] \in AnItem
  BY <1>4, ElementsTyped
<1>. QED BY <1>1, <1>2, <1>3, <1>4, <1>5

LEMMA SlotsTyped ==
  ASSUME NEW v, IsVolume(v), NEW d \in DOMAIN v.dirs
  PROVE  Slots(v, d) \in Seq(SlotsIn(v.dirs[d].items))
<1>. DEFINE items == v.dirs[d].items
            S == SlotsIn(items)
            parts == [i \in DOMAIN items |-> SlotsOf(v.fs, items[i], i)]
<1>1. /\ items \in Seq(AnItem) /\ \A i \in DOMAIN items : items[i] \in AnItem
  BY VolumeFacts
<1>2. ASSUME NEW i \in DOMAIN items, NEW kind \in {"free", "label", "last", "piece", "set", "short"}, NEW n \in Nat
      PROVE  Slot(kind, n, i) \in S
  BY DEF Slot, SlotsIn
<1>3. ASSUME NEW n \in Nat, NEW e \in S PROVE Copies(n, e) \in Seq(S)
  <2>. HIDE DEF S
  <2>. QED BY DEF Copies
<1>4. ASSUME NEW i \in DOMAIN items, NEW n \in Nat PROVE Pieces(n, i) \in Seq(S)
  <2>1. \A j \in 1..n : Slot(IF j = 1 THEN "last" ELSE "piece", (n + 1) - j, i) \in S
    <3>1. ASSUME NEW j \in 1..n PROVE Slot(IF j = 1 THEN "last" ELSE "piece", (n + 1) - j, i) \in S
      <4>1. (n + 1) - j \in Nat
        OBVIOUS
      <4>. HIDE DEF S
      <4>. QED BY <1>2, <4>1
    <3>. QED BY <3>1
  <2>. HIDE DEF S
  <2>. QED BY <2>1 DEF Pieces
<1>5. ASSUME NEW i \in DOMAIN items PROVE SlotsOf(v.fs, items[i], i) \in Seq(S)
  <2>. DEFINE it == items[i]
  <2>1. it.kind \in {"file", "dir", "dots", "gone", "other", "broken", "orphan"} /\ it.parts \in Nat
    BY <1>1 DEF AnItem
  <2>2. /\ Slot("free", 0, i) \in S /\ Slot("label", 0, i) \in S /\ Slot("short", 0, i) \in S
        /\ Slot("set", it.parts + 1, i) \in S
    <3>. HIDE DEF S
    <3>. QED BY <1>2, <2>1
  <2>. HIDE DEF S, items, it
  <2>3. Pieces(it.parts, i) \in Seq(S)
    BY <1>4, <2>1
  <2>4. \A n \in Nat : Copies(n, Slot("free", 0, i)) \in Seq(S)
    BY <1>3, <2>2
  <2>5. /\ it.parts + 2 \in Nat /\ it.parts + 1 \in Nat
    BY <2>1
  <2>6. CASE it.kind = "gone"
    BY <2>4, <2>5, <2>6 DEF SlotsOf, it
  <2>7. CASE it.kind = "other"
    BY <2>2, <2>7 DEF SlotsOf, it
  <2>8. CASE it.kind = "orphan"
    BY <2>3, <2>8 DEF SlotsOf, it
  <2>9. CASE it.kind \in {"file", "dir", "dots", "broken"}
    <3>. DEFINE one == Slot("set", it.parts + 1, i)
                copies == Copies(it.parts + 1, Slot("free", 0, i))
                pieces == Pieces(it.parts, i)
                last == Slot("short", 0, i)
    <3>1. SlotsOf(v.fs, it, i) = IF v.fs = "exfat" THEN <<one>> \o copies ELSE Append(pieces, last)
      BY <2>9 DEF SlotsOf
    <3>2. one \in S /\ last \in S /\ copies \in Seq(S) /\ pieces \in Seq(S)
      BY <2>2, <2>3, <2>4, <2>5
    <3>. HIDE DEF one, copies, pieces, last
    <3>3. <<one>> \o copies \in Seq(S) /\ Append(pieces, last) \in Seq(S)
      BY <3>2
    <3>. QED BY <3>1, <3>3 DEF it
  <2>. QED BY <2>1, <2>6, <2>7, <2>8, <2>9
<1>6. Slots(v, d) = FlattenSeq(parts)
  BY DEF Slots
<1>7. parts \in Seq(Seq(S))
  <2>1. DOMAIN items = 1..Len(items) /\ Len(items) \in Nat
    BY <1>1
  <2>. HIDE DEF S, items
  <2>. QED BY <1>5, <2>1
<1>. HIDE DEF parts, S
<1>8. FlattenSeq(parts) \in Seq(S)
  BY <1>7, Flattened
<1>. QED BY <1>6, <1>8 DEF S

LEMMA SectorTyped ==
  ASSUME NEW v, IsVolume(v), NEW d \in DOMAIN v.dirs, NEW s \in Nat \ {0}
  PROVE  Sector(v, d, s) \in Seq(SlotsIn(v.dirs[d].items))
<1>. DEFINE S == SlotsIn(v.dirs[d].items)
<1>1. Slots(v, d) \in Seq(S)
  BY SlotsTyped
<1>2. PerSector \in Nat \ {0}
  BY ScanAssumption
<1>3. Slot("end", 0, 0) \in S
  BY DEF SlotsIn
<1>. HIDE DEF S
<1>4. ASSUME NEW k \in 1..PerSector
      PROVE  LET i == (s - 1) * PerSector + k
             IN  (IF i <= Len(Slots(v, d)) THEN Slots(v, d)[i] ELSE Slot("end", 0, 0)) \in S
  <2>. DEFINE i == (s - 1) * PerSector + k
  <2>0. (s - 1) * PerSector \in Nat
    BY <1>2
  <2>1. i \in Nat /\ i >= 1
    BY <1>2, <2>0
  <2>. HIDE DEF i
  <2>2. i <= Len(Slots(v, d)) => i \in DOMAIN Slots(v, d)
    BY <1>1, <2>1
  <2>3. i <= Len(Slots(v, d)) => Slots(v, d)[i] \in S
    BY <1>1, <2>2, ElementsTyped
  <2>. QED BY <1>3, <2>3 DEF i
<1>5. Sector(v, d, s) \in [1..PerSector -> S]
  BY <1>4 DEF Sector
<1>. QED BY <1>2, <1>5 DEF S

LEMMA MinOfTwo ==
  ASSUME NEW a \in Nat, NEW b \in Nat
  PROVE  Min({a, b}) = IF a <= b THEN a ELSE b
<1>1. {a, b} \in SUBSET Nat /\ {a, b} # {}
  OBVIOUS
<1>2. Min({a, b}) \in {a, b} /\ \A y \in {a, b} : Min({a, b}) <= y
  BY <1>1, MinOf
<1>3. Min({a, b}) \in {a, b} /\ Min({a, b}) <= a /\ Min({a, b}) <= b
  BY <1>2
<1>. QED BY <1>3

\* The path of a call, from the k-th of the calls.
LEMMA PathOfCall ==
  ASSUME NEW p \in Paths, NEW i \in Nat, NEW bytes \in Nat \ {0}, NEW k \in Nat \ {0},
         Deep(k, p), p.slashes < MaxDepth
  PROVE  Join(p, i, bytes) \in Paths /\ Deep(k + 1, Join(p, i, bytes)) /\ Calls(p, Join(p, i, bytes))
<1>1. /\ MaxPath \in Nat \ {0} /\ p.len \in Nat /\ p.slashes \in Nat /\ p.trail \in Seq(Nat)
  BY ScanAssumption DEF Paths
<1>. DEFINE slash == IF p.len > 1 /\ p.len < MaxPath THEN 1 ELSE 0
            n == (p.len + slash) + bytes
            len == IF n <= MaxPath THEN n ELSE MaxPath
            q == [trail |-> Append(p.trail, i), len |-> len, slashes |-> p.slashes + slash]
<1>2. slash \in {0, 1} /\ n \in Nat
  BY <1>1
<1>3. Min({n, MaxPath}) = len
  BY <1>1, <1>2, MinOfTwo
<1>4. Join(p, i, bytes) = q
  BY <1>3 DEF Join
<1>5. len \in Nat /\ len >= 1 /\ p.slashes + slash \in Nat
  BY <1>1, <1>2
<1>6. Append(p.trail, i) \in Seq(Nat)
  BY <1>1
<1>7. q \in Paths
  BY <1>5, <1>6 DEF Paths
<1>8. len < MaxPath => len = n /\ p.len < MaxPath
  BY <1>1, <1>2
<1>9. Calls(p, q)
  BY <1>8 DEF Calls
<1>10. Deep(k + 1, q)
  <2>1. SUFFICES ASSUME len < MaxPath
                 PROVE  /\ p.slashes + slash = (IF k + 1 = 1 THEN 1 ELSE (k + 1) - 1)
                        /\ len > 1 <=> k + 1 > 1
    BY <1>5 DEF Deep
  <2>2. /\ len = n /\ p.len < MaxPath /\ p.len >= 1
        /\ p.slashes = (IF k = 1 THEN 1 ELSE k - 1) /\ (p.len > 1 <=> k > 1)
    BY <1>8, <2>1 DEF Deep
  <2>3. CASE k = 1
    <3>1. slash = 0 /\ p.slashes = 1 /\ len > 1
      BY <1>1, <2>2, <2>3
    <3>. QED BY <2>3, <3>1
  <2>4. CASE k # 1
    <3>1. slash = 1 /\ p.slashes = k - 1 /\ len > 1
      BY <1>1, <2>2, <2>4
    <3>. QED BY <2>4, <3>1
  <2>. QED BY <2>3, <2>4
<1>. QED BY <1>4, <1>7, <1>9, <1>10

LEMMA NewFrame ==
  ASSUME NEW v, NEW d \in DOMAIN v.dirs, d \in Nat, NEW path \in Paths
  PROVE  Searches(v, Frame(d, path)) /\ Frame(d, path).path = path
<1>1. \A S : <<>> \in Seq(S)
  OBVIOUS
<1>. QED BY <1>1 DEF Frame, NoName, Searches, AFrame

LEMMA SearchBegins ==
  ASSUME NEW v, IsVolume(v), StartScan(v)
  PROVE  vol' = v /\ Nested(v, stack')
<1>1. vol' = v /\ stack' = IF v.fs = "ntfs" THEN <<>> ELSE <<Frame(1, Root)>>
  BY DEF StartScan
<1>2. Nested(v, <<>>)
  BY DEF Nested
<1>3. CASE v.fs # "ntfs"
  <2>1. 1 \in DOMAIN v.dirs
    BY <1>3, VolumeFacts
  <2>2. Root \in Paths /\ Deep(1, Root)
    BY DEF Root, Paths, Deep
  <2>. DEFINE f == Frame(1, Root)
  <2>3. Searches(v, f) /\ f.path = Root
    BY <2>1, <2>2, NewFrame
  <2>. HIDE DEF f
  <2>4. Nested(v, Append(<<>>, f))
    <3>1. Len(<<>>) + 1 = 1
      OBVIOUS
    <3>. QED BY <1>2, <2>2, <2>3, <3>1, PushNested
  <2>5. Append(<<>>, f) = <<f>>
    OBVIOUS
  <2>. QED BY <1>1, <1>3, <2>4, <2>5 DEF f
<1>. QED BY <1>1, <1>2, <1>3

\* The frame on top, and the slot it looks at.
LEMMA TopFacts ==
  ASSUME Nested(vol, stack), stack # <<>>
  PROVE  /\ Top = stack[Len(stack)] /\ Len(stack) \in Nat \ {0}
         /\ Searches(vol, Top) /\ Deep(Len(stack), Top.path)
         /\ More => /\ Here \in SlotsIn(vol.dirs[Top.dir].items)
                    /\ Here.n \in Nat
                    /\ Here.kind # "end" => Here.item \in DOMAIN vol.dirs[Top.dir].items
<1>1. stack \in Seq(AFrame) /\ Len(stack) \in Nat \ {0} /\ Len(stack) \in 1..Len(stack)
  BY DEF Nested
<1>2. Top = stack[Len(stack)]
  BY DEF Top, Last
<1>3. Searches(vol, Top) /\ Deep(Len(stack), Top.path)
  BY <1>1, <1>2 DEF Nested
<1>4. ASSUME More
      PROVE  /\ Here \in SlotsIn(vol.dirs[Top.dir].items) /\ Here.n \in Nat
             /\ Here.kind # "end" => Here.item \in DOMAIN vol.dirs[Top.dir].items
  <2>. DEFINE S == SlotsIn(vol.dirs[Top.dir].items)
              b == Top.buf
  <2>1. b \in Seq(S) /\ Top.pos \in Nat \ {0}
    BY <1>3 DEF Searches, AFrame
  <2>2. Top.pos \in DOMAIN b
    BY <1>4, <2>1 DEF More
  <2>. HIDE DEF S, b
  <2>3. b[Top.pos] \in S
    BY <2>1, <2>2, ElementsTyped
  <2>. QED BY <2>3 DEF S, b, Here, SlotsIn, Slot
<1>. QED BY <1>1, <1>2, <1>3, <1>4

\* What the frame on top is while the search goes on.
AtTop == IsVolume(vol) /\ Nested(vol, stack) /\ stack # <<>> /\ vol' = vol

ItemsHere == vol.dirs[Top.dir].items

LEMMA SlotsAny ==
  ASSUME NEW items, DOMAIN items \subseteq Nat
  PROVE  SlotsIn(items) \subseteq AnySlot
<1>1. SUFFICES ASSUME NEW x \in SlotsIn(items) PROVE x \in AnySlot
  OBVIOUS
<1>2. CASE x = Slot("end", 0, 0)
  BY <1>2 DEF Slot, AnySlot
<1>3. CASE x \in [kind : {"free", "label", "last", "piece", "set", "short"}, n : Nat, item : DOMAIN items]
  BY <1>3 DEF AnySlot
<1>. QED BY <1>2, <1>3 DEF SlotsIn

LEMMA TopFrame ==
  ASSUME AtTop
  PROVE  /\ Top \in AFrame /\ Top.dir \in DOMAIN vol.dirs
         /\ Top.buf \in Seq(SlotsIn(ItemsHere)) /\ Top.carry \in Seq(SlotsIn(ItemsHere))
         /\ Top.lfn.len > 0 => Top.lfn.of \in DOMAIN ItemsHere
         /\ Searches(vol, Top)
         /\ More => /\ Here.n \in Nat
                    /\ Here.kind # "end" => Here.item \in DOMAIN ItemsHere
         /\ DOMAIN ItemsHere \subseteq Nat
         /\ \A i \in DOMAIN ItemsHere : ItemsHere[i] \in AnItem
         /\ SlotsIn(ItemsHere) \subseteq AnySlot
<1>1. Searches(vol, Top)
  BY TopFacts DEF AtTop
<1>2. Top.dir \in DOMAIN vol.dirs
  BY <1>1 DEF Searches
<1>3. ItemsHere \in Seq(AnItem) /\ \A i \in DOMAIN ItemsHere : ItemsHere[i] \in AnItem
  BY <1>2, VolumeFacts DEF AtTop, ItemsHere
<1>4. DOMAIN ItemsHere \subseteq Nat
  BY <1>3
<1>5. SlotsIn(ItemsHere) \subseteq AnySlot
  BY <1>4, SlotsAny
<1>6. More => /\ Here.n \in Nat
              /\ Here.kind # "end" => Here.item \in DOMAIN ItemsHere
  BY TopFacts DEF AtTop, ItemsHere
<1>. QED BY <1>1, <1>3, <1>4, <1>5, <1>6 DEF Searches, ItemsHere

\* A frame on top that goes on in its directory.
LEMMA GoesOn ==
  ASSUME AtTop, NEW f, Searches(vol, f), f.path = Top.path, stack' = Append(Front(stack), f)
  PROVE  Nested(vol', stack')
<1>1. f.path = stack[Len(stack)].path
  BY TopFacts DEF AtTop
<1>2. Nested(vol, Append(Front(stack), f))
  BY <1>1, TopNested DEF AtTop
<1>. QED BY <1>2 DEF AtTop

Names == [len : Nat, seq : Int, of : Nat, head : Nat]

LEMMA NameOff ==
  ASSUME NEW l \in Names
  PROVE  [l EXCEPT !.len = 0] \in Names /\ ~([l EXCEPT !.len = 0].len > 0)
<1>. DEFINE x == [l EXCEPT !.len = 0]
<1>1. x = [len |-> 0, seq |-> l.seq, of |-> l.of, head |-> l.head]
  BY DEF Names
<1>2. l.seq \in Int /\ l.of \in Nat /\ l.head \in Nat
  BY DEF Names
<1>. HIDE DEF x
<1>3. x \in Names /\ ~(x.len > 0)
  BY <1>1, <1>2 DEF Names
<1>. QED BY <1>3 DEF x

\* What the actions make of a frame.
Moved(f, p) == [f EXCEPT !.pos = p]
Named(f, p, l) == [f EXCEPT !.pos = p, !.lfn = l]
Unnamed(f, p) == [f EXCEPT !.pos = p, !.lfn.len = 0]
Carrying(f, p, c) == [f EXCEPT !.carry = c, !.pos = p]
Filled(f, b, c, p, n) == [f EXCEPT !.buf = b, !.carry = c, !.pos = p, !.next = n]

Fields(d, a, n, b, p, c, l) ==
  [dir |-> d, path |-> a, next |-> n, buf |-> b, pos |-> p, carry |-> c, lfn |-> l]

LEMMA FieldsUpdated ==
  ASSUME NEW d, NEW a, NEW n, NEW b, NEW p, NEW c, NEW l
  PROVE  LET t == Fields(d, a, n, b, p, c, l)
         IN  /\ \A p1 : Moved(t, p1) = Fields(d, a, n, b, p1, c, l)
             /\ \A p1, l1 : Named(t, p1, l1) = Fields(d, a, n, b, p1, c, l1)
             /\ \A p1 : Unnamed(t, p1) = Fields(d, a, n, b, p1, c, [l EXCEPT !.len = 0])
             /\ \A p1, c1 : Carrying(t, p1, c1) = Fields(d, a, n, b, p1, c1, l)
             /\ \A b1, c1, p1, n1 : Filled(t, b1, c1, p1, n1) = Fields(d, a, n1, b1, p1, c1, l)
<1>. DEFINE t == Fields(d, a, n, b, p, c, l)
<1>1. ASSUME NEW p1, NEW l1, NEW c1, NEW b1, NEW n1
      PROVE  /\ Moved(t, p1) = Fields(d, a, n, b, p1, c, l)
             /\ Named(t, p1, l1) = Fields(d, a, n, b, p1, c, l1)
             /\ Unnamed(t, p1) = Fields(d, a, n, b, p1, c, [l EXCEPT !.len = 0])
             /\ Carrying(t, p1, c1) = Fields(d, a, n, b, p1, c1, l)
             /\ Filled(t, b1, c1, p1, n1) = Fields(d, a, n1, b1, p1, c1, l)
  <2>. DEFINE s == [t EXCEPT !.pos = p1]
              u == [t EXCEPT !.carry = c1]
              w == [t EXCEPT !.buf = b1]
              x == [w EXCEPT !.carry = c1]
              y == [x EXCEPT !.pos = p1]
  <2>1. /\ s = Fields(d, a, n, b, p1, c, l) /\ u = Fields(d, a, n, b, p, c1, l)
        /\ w = Fields(d, a, n, b1, p, c, l)
    BY DEF Fields
  <2>2. /\ Moved(t, p1) = s /\ Named(t, p1, l1) = [s EXCEPT !.lfn = l1]
        /\ Unnamed(t, p1) = [s EXCEPT !.lfn.len = 0] /\ Carrying(t, p1, c1) = [u EXCEPT !.pos = p1]
        /\ Filled(t, b1, c1, p1, n1) = [y EXCEPT !.next = n1]
    BY DEF Moved, Named, Unnamed, Carrying, Filled
  <2>. HIDE DEF s, u, w
  <2>3. /\ [s EXCEPT !.lfn = l1] = Fields(d, a, n, b, p1, c, l1)
        /\ [s EXCEPT !.lfn.len = 0] = Fields(d, a, n, b, p1, c, [l EXCEPT !.len = 0])
        /\ [u EXCEPT !.pos = p1] = Fields(d, a, n, b, p1, c1, l)
        /\ x = Fields(d, a, n, b1, p, c1, l)
    BY <2>1 DEF Fields
  <2>. HIDE DEF x
  <2>4. y = Fields(d, a, n, b1, p1, c1, l)
    BY <2>3 DEF Fields
  <2>. HIDE DEF y
  <2>5. [y EXCEPT !.next = n1] = Fields(d, a, n1, b1, p1, c1, l)
    BY <2>4 DEF Fields
  <2>. QED BY <2>1, <2>2, <2>3, <2>5
<1>. HIDE DEF t
<1>2. /\ \A p1 : Moved(t, p1) = Fields(d, a, n, b, p1, c, l)
      /\ \A p1, l1 : Named(t, p1, l1) = Fields(d, a, n, b, p1, c, l1)
      /\ \A p1 : Unnamed(t, p1) = Fields(d, a, n, b, p1, c, [l EXCEPT !.len = 0])
      /\ \A p1, c1 : Carrying(t, p1, c1) = Fields(d, a, n, b, p1, c1, l)
      /\ \A b1, c1, p1, n1 : Filled(t, b1, c1, p1, n1) = Fields(d, a, n1, b1, p1, c1, l)
  BY <1>1
<1>. QED BY <1>2 DEF t

\* A frame still searches its directory when it moves on, has a name of the
\* directory at hand, keeps some slots of it or reads more of them.
LEMMA StillSearches ==
  ASSUME NEW v, NEW t, Searches(v, t), NEW items, items = v.dirs[t.dir].items, DOMAIN items \subseteq Nat,
         NEW p \in Nat \ {0}
  PROVE  /\ Searches(v, Moved(t, p)) /\ Moved(t, p).path = t.path
         /\ Searches(v, Unnamed(t, p)) /\ Unnamed(t, p).path = t.path
         /\ \A l \in Names : (l.len > 0 => l.of \in DOMAIN items) =>
              Searches(v, Named(t, p, l)) /\ Named(t, p, l).path = t.path
         /\ \A c \in Seq(SlotsIn(items)) :
              Searches(v, Carrying(t, p, c)) /\ Carrying(t, p, c).path = t.path
         /\ \A b, c \in Seq(SlotsIn(items)), n \in Nat :
              Searches(v, Filled(t, b, c, p, n)) /\ Filled(t, b, c, p, n).path = t.path
<1>1. PICK d, a, n0, b0, p0, c0, l0 : t = Fields(d, a, n0, b0, p0, c0, l0)
  BY DEF Searches, AFrame, Fields
<1>2. /\ d \in DOMAIN v.dirs /\ d \in Nat /\ a \in Paths /\ n0 \in Nat
      /\ b0 \in Seq(SlotsIn(items)) /\ c0 \in Seq(SlotsIn(items))
      /\ l0 \in Names /\ (l0.len > 0 => l0.of \in DOMAIN items) /\ t.path = a /\ items = v.dirs[d].items
  BY <1>1 DEF Searches, AFrame, Fields, Names
<1>3. SlotsIn(items) \subseteq AnySlot
  BY SlotsAny
<1>4. \A s \in Seq(SlotsIn(items)) : s \in Seq(AnySlot)
  BY <1>3
<1>5. ASSUME NEW n2 \in Nat, NEW b2 \in Seq(SlotsIn(items)), NEW c2 \in Seq(SlotsIn(items)),
             NEW l2 \in Names, l2.len > 0 => l2.of \in DOMAIN items
      PROVE  LET f == Fields(d, a, n2, b2, p, c2, l2) IN Searches(v, f) /\ f.path = a
  <2>. DEFINE f == Fields(d, a, n2, b2, p, c2, l2)
  <2>1. f \in AFrame
    <3>1. b2 \in Seq(AnySlot) /\ c2 \in Seq(AnySlot)
      BY <1>4
    <3>. QED BY <1>2, <3>1 DEF AFrame, Names, Fields
  <2>2. f.dir = d /\ f.path = a /\ f.buf = b2 /\ f.carry = c2 /\ f.lfn = l2
    BY DEF Fields
  <2>. HIDE DEF f
  <2>3. Searches(v, f)
    BY <1>2, <1>5, <2>1, <2>2 DEF Searches
  <2>. QED BY <2>2, <2>3 DEF f
<1>. DEFINE u == Fields(d, a, n0, b0, p0, c0, l0)
            l1 == [l0 EXCEPT !.len = 0]
<1>6. l1 \in Names /\ ~(l1.len > 0)
  BY <1>2, NameOff
<1>7. t = u
  BY <1>1
<1>8. /\ Moved(u, p) = Fields(d, a, n0, b0, p, c0, l0)
      /\ Unnamed(u, p) = Fields(d, a, n0, b0, p, c0, l1)
      /\ \A l : Named(u, p, l) = Fields(d, a, n0, b0, p, c0, l)
      /\ \A c : Carrying(u, p, c) = Fields(d, a, n0, b0, p, c, l0)
      /\ \A b, c, n : Filled(u, b, c, p, n) = Fields(d, a, n, b, p, c, l0)
  BY FieldsUpdated
<1>. HIDE DEF l1, u
<1>9. Searches(v, Moved(t, p)) /\ Moved(t, p).path = t.path
  BY <1>2, <1>5, <1>7, <1>8
<1>10. Searches(v, Unnamed(t, p)) /\ Unnamed(t, p).path = t.path
  BY <1>2, <1>5, <1>6, <1>7, <1>8
<1>11. ASSUME NEW l \in Names, l.len > 0 => l.of \in DOMAIN items
       PROVE  Searches(v, Named(t, p, l)) /\ Named(t, p, l).path = t.path
  BY <1>2, <1>5, <1>7, <1>8, <1>11
<1>12. ASSUME NEW c \in Seq(SlotsIn(items))
       PROVE  Searches(v, Carrying(t, p, c)) /\ Carrying(t, p, c).path = t.path
  BY <1>2, <1>5, <1>7, <1>8
<1>13. ASSUME NEW b \in Seq(SlotsIn(items)), NEW c \in Seq(SlotsIn(items)), NEW n \in Nat
       PROVE  Searches(v, Filled(t, b, c, p, n)) /\ Filled(t, b, c, p, n).path = t.path
  <2>. DEFINE f == Fields(d, a, n, b, p, c, l0)
  <2>1. Searches(v, f) /\ f.path = a
    BY <1>2, <1>5
  <2>2. Filled(t, b, c, p, n) = f
    BY <1>7, <1>8
  <2>. HIDE DEF f
  <2>. QED BY <1>2, <2>1, <2>2
<1>. QED BY <1>9, <1>10, <1>11, <1>12, <1>13

LEMMA TopUpdated ==
  ASSUME AtTop, NEW p \in Nat \ {0}
  PROVE  /\ Searches(vol, Moved(Top, p)) /\ Moved(Top, p).path = Top.path
         /\ Searches(vol, Unnamed(Top, p)) /\ Unnamed(Top, p).path = Top.path
         /\ \A l \in Names : (l.len > 0 => l.of \in DOMAIN ItemsHere) =>
              Searches(vol, Named(Top, p, l)) /\ Named(Top, p, l).path = Top.path
         /\ \A c \in Seq(SlotsIn(ItemsHere)) :
              Searches(vol, Carrying(Top, p, c)) /\ Carrying(Top, p, c).path = Top.path
         /\ \A b, c \in Seq(SlotsIn(ItemsHere)), n \in Nat :
              Searches(vol, Filled(Top, b, c, p, n)) /\ Filled(Top, b, c, p, n).path = Top.path
<1>1. Searches(vol, Top) /\ ItemsHere = vol.dirs[Top.dir].items /\ DOMAIN ItemsHere \subseteq Nat
  BY TopFrame DEF ItemsHere
<1>. QED BY <1>1, StillSearches

LEMMA SkipSearch ==
  ASSUME AtTop, SkipSlot
  PROVE  Nested(vol', stack')
<1>. DEFINE p == Top.pos + 1
            f == Unnamed(Top, p)
<1>1. p \in Nat \ {0}
  BY TopFrame DEF AFrame
<1>2. stack' = Append(Front(stack), f)
  BY DEF SkipSlot, SetTop, Unnamed
<1>. HIDE DEF p
<1>3. Searches(vol, f) /\ f.path = Top.path
  BY <1>1, TopUpdated
<1>. HIDE DEF f
<1>. QED BY <1>2, <1>3, GoesOn

LEMMA PassPosition ==
  ASSUME AtTop, More
  PROVE  Top.pos + 1 + Here.n \in Nat \ {0}
<1>. DEFINE p == Top.pos
            n == Here.n
<1>1. p \in Nat \ {0} /\ n \in Nat
  BY TopFrame DEF AFrame
<1>. HIDE DEF p, n
<1>2. p + 1 + n \in Nat \ {0}
  BY <1>1
<1>. QED BY <1>2 DEF p, n

LEMMA BrokenSearch ==
  ASSUME AtTop, SkipBroken
  PROVE  Nested(vol', stack')
<1>. DEFINE p == Top.pos + 1 + Here.n
            f == Moved(Top, p)
<1>1. p \in Nat \ {0}
  BY PassPosition DEF SkipBroken
<1>2. stack' = Append(Front(stack), f)
  BY DEF SkipBroken, SetTop, Moved
<1>. HIDE DEF p
<1>3. Searches(vol, f) /\ f.path = Top.path
  BY <1>1, TopUpdated
<1>. HIDE DEF f
<1>. QED BY <1>2, <1>3, GoesOn

LEMMA BehindSearches ==
  ASSUME AtTop, More
  PROVE  Searches(vol, Behind) /\ Behind.path = Top.path
<1>. DEFINE p == Top.pos + 1 + Here.n
<1>1. p \in Nat \ {0}
  BY PassPosition
<1>2. Behind = Unnamed(Top, p)
  BY DEF Behind, Unnamed
<1>. HIDE DEF p
<1>3. Searches(vol, Unnamed(Top, p)) /\ Unnamed(Top, p).path = Top.path
  BY <1>1, TopUpdated
<1>. QED BY <1>2, <1>3

LEMMA TakeSearch ==
  ASSUME AtTop, Take
  PROVE  Nested(vol', stack')
<1>1. Searches(vol, Behind) /\ Behind.path = Top.path
  BY BehindSearches DEF Take, AtEntry
<1>2. stack' = Append(Front(stack), Behind)
  BY DEF Take, SetTop
<1>. QED BY <1>1, <1>2, GoesOn

\* A long name begins with its last piece and goes on with the piece due.
Begun(old, here) == [old EXCEPT !.len = here.n, !.seq = here.n, !.of = here.item]
Continued(name, here) == [name EXCEPT !.seq = @ - 1, !.head = IF here.n = 1 THEN here.item ELSE @]
Belongs(l, items) == l \in Names /\ (l.len > 0 => l.of \in DOMAIN items)

LEMMA NameBegun ==
  ASSUME NEW items, NEW old, Belongs(old, items),
         NEW here, here.n \in Nat, here.item \in DOMAIN items, here.item \in Nat
  PROVE  Belongs(Begun(old, here), items)
<1>. DEFINE name == Begun(old, here)
<1>1. name = [len |-> here.n, seq |-> here.n, of |-> here.item, head |-> old.head]
  <2>. DEFINE x == [old EXCEPT !.len = here.n]
              y == [x EXCEPT !.seq = here.n]
  <2>1. x = [len |-> here.n, seq |-> old.seq, of |-> old.of, head |-> old.head]
    BY DEF Belongs, Names
  <2>2. name = [y EXCEPT !.of = here.item]
    BY DEF Begun
  <2>. HIDE DEF x, name
  <2>3. y = [len |-> here.n, seq |-> here.n, of |-> old.of, head |-> old.head]
    BY <2>1
  <2>. HIDE DEF y
  <2>. QED BY <2>2, <2>3
<1>2. old.head \in Nat /\ here.n \in Int
  BY DEF Belongs, Names
<1>. HIDE DEF name
<1>3. Belongs(name, items)
  BY <1>1, <1>2 DEF Belongs, Names
<1>. QED BY <1>3 DEF name

LEMMA NameContinued ==
  ASSUME NEW items, NEW name, Belongs(name, items), NEW here, here.item \in Nat
  PROVE  Belongs(Continued(name, here), items)
<1>. DEFINE h == IF here.n = 1 THEN here.item ELSE name.head
            l == Continued(name, here)
<1>1. /\ name.len \in Nat /\ name.seq \in Int /\ name.of \in Nat /\ name.head \in Nat
      /\ name.len > 0 => name.of \in DOMAIN items
  BY DEF Belongs, Names
<1>2. name.seq - 1 \in Int /\ h \in Nat
  BY <1>1
<1>3. l = [len |-> name.len, seq |-> name.seq - 1, of |-> name.of, head |-> h]
  <2>. DEFINE x == [name EXCEPT !.seq = @ - 1]
  <2>1. x = [len |-> name.len, seq |-> name.seq - 1, of |-> name.of, head |-> name.head]
    BY DEF Belongs, Names
  <2>2. l = [x EXCEPT !.head = h]
    BY DEF Continued
  <2>. HIDE DEF x, l, h
  <2>. QED BY <2>1, <2>2
<1>. HIDE DEF h, l
<1>4. Belongs(l, items)
  BY <1>1, <1>2, <1>3 DEF Belongs, Names
<1>. QED BY <1>4 DEF l

LEMMA PieceSearch ==
  ASSUME AtTop, TakePiece
  PROVE  Nested(vol', stack')
<1>. DEFINE here == Here
            old == Top.lfn
            name == IF here.kind = "last" THEN Begun(old, here) ELSE old
            due == here.n = name.seq /\ here.item = name.of
            l == IF due THEN Continued(name, here) ELSE name
            p == Top.pos + 1
            f == Named(Top, p, l)
<1>1. /\ here.n \in Nat /\ here.item \in DOMAIN ItemsHere /\ here.item \in Nat
      /\ Belongs(old, ItemsHere)
  <2>1. More /\ Here.kind # "end"
    BY DEF TakePiece
  <2>. QED BY <2>1, TopFrame DEF AFrame, Names, Belongs
<1>2. stack' = Append(Front(stack), f)
  BY DEF TakePiece, SetTop, Named, Begun, Continued
<1>3. p \in Nat \ {0}
  BY TopFrame DEF AFrame
<1>. HIDE DEF here, old, p
<1>4. Belongs(name, ItemsHere)
  BY <1>1, NameBegun
<1>. HIDE DEF name
<1>5. Belongs(l, ItemsHere)
  BY <1>1, <1>4, NameContinued
<1>. HIDE DEF l
<1>6. Searches(vol, f) /\ f.path = Top.path
  BY <1>3, <1>5, TopUpdated DEF Belongs
<1>. HIDE DEF f
<1>. QED BY <1>2, <1>6, GoesOn

LEMMA CarrySearch ==
  ASSUME AtTop, CarryOver
  PROVE  Nested(vol', stack')
<1>. DEFINE b == Top.buf
            S == SlotsIn(ItemsHere)
            rest == Keep(SubSeq(b, Top.pos, Len(b)))
            p == Len(b) + 1
            f == Carrying(Top, p, rest)
<1>1. b \in Seq(S) /\ Top.pos \in Nat \ {0}
  BY TopFrame DEF AFrame
<1>2. stack' = Append(Front(stack), f)
  BY DEF CarryOver, SetTop, Carrying
<1>3. rest \in Seq(S)
  <2>. HIDE DEF b, S
  <2>1. \A i \in Top.pos..Len(b) : b[i] \in S
    BY <1>1
  <2>2. SubSeq(b, Top.pos, Len(b)) \in Seq(S)
    BY <1>1, <2>1
  <2>3. <<>> \in Seq(S)
    OBVIOUS
  <2>. QED BY <2>2, <2>3 DEF Keep
<1>4. p \in Nat \ {0}
  <2>. HIDE DEF b, S
  <2>. QED BY <1>1
<1>. HIDE DEF rest, p, b
<1>5. Searches(vol, f) /\ f.path = Top.path
  BY <1>3, <1>4, TopUpdated
<1>. HIDE DEF f
<1>. QED BY <1>2, <1>5, GoesOn

LEMMA ReadSearch ==
  ASSUME AtTop, ReadSector
  PROVE  Nested(vol', stack')
<1>. DEFINE d == Top.dir
            S == SlotsIn(ItemsHere)
            s == Top.carry
            t == Sector(vol, d, Top.next + 1)
            b == s \o t
            n == Top.next + 1
            f == Filled(Top, b, <<>>, 1, n)
<1>1. s \in Seq(S) /\ Top.next \in Nat /\ d \in DOMAIN vol.dirs /\ IsVolume(vol)
  BY TopFrame DEF AFrame, AtTop
<1>2. stack' = Append(Front(stack), f)
  BY DEF ReadSector, SetTop, Filled
<1>3. t \in Seq(S)
  BY <1>1, SectorTyped DEF ItemsHere
<1>4. b \in Seq(S) /\ <<>> \in Seq(S)
  <2>. HIDE DEF s, t, S
  <2>. QED BY <1>1, <1>3
<1>5. n \in Nat /\ 1 \in Nat \ {0}
  BY <1>1
<1>. HIDE DEF b, n
<1>6. Searches(vol, f) /\ f.path = Top.path
  BY <1>4, <1>5, TopUpdated
<1>. HIDE DEF f
<1>. QED BY <1>2, <1>6, GoesOn

LEMMA ReturnSearch ==
  ASSUME AtTop, stack' = Front(stack)
  PROVE  Nested(vol', stack')
BY PopNested DEF AtTop

LEMMA DescendSearch ==
  ASSUME AtTop, Descend
  PROVE  Nested(vol', stack')
<1>. DEFINE q == Join(Top.path, Owner, Name.bytes)
            f == Frame(Item.sub, q)
            s == Append(Front(stack), Behind)
<1>1. /\ More /\ Here.kind # "end" /\ Item.kind = "dir" /\ Top.path.slashes < MaxDepth
      /\ stack' = Front(stack) \o <<Behind, f>>
  BY DEF Descend, AtEntry, Descends
<1>2. Searches(vol, Behind) /\ Behind.path = Top.path
  BY <1>1, BehindSearches
<1>3. Items = ItemsHere
  BY DEF Items, ItemsHere
<1>4. Owner \in DOMAIN ItemsHere /\ Here.item \in DOMAIN ItemsHere
  BY <1>1, TopFrame DEF Owner, LongName
<1>5. Owner \in Nat /\ Name.bytes \in Nat \ {0}
  BY <1>3, <1>4, TopFrame DEF Name, AnItem
<1>6. Item.sub \in DOMAIN vol.dirs /\ Item.sub \in Nat
  BY <1>1, <1>3, <1>4, TopFrame, VolumeFacts DEF Item, AtTop, ItemsHere
<1>7. /\ Top.path \in Paths /\ Len(stack) \in Nat \ {0} /\ Deep(Len(stack), Top.path)
      /\ Top = stack[Len(stack)]
  BY TopFrame, TopFacts DEF AFrame, AtTop
<1>8. q \in Paths /\ Deep(Len(stack) + 1, q) /\ Calls(Top.path, q)
  BY <1>1, <1>5, <1>7, PathOfCall
<1>. HIDE DEF q
<1>9. Searches(vol, f) /\ f.path = q
  BY <1>6, <1>8, NewFrame
<1>. HIDE DEF f
<1>10. Nested(vol, s)
  BY <1>2, <1>7, TopNested DEF AtTop
<1>11. /\ Front(stack) \in Seq(AFrame) /\ Len(Front(stack)) = Len(stack) - 1
       /\ Behind \in AFrame /\ f \in AFrame
  BY <1>2, <1>9, PopNested DEF AtTop, Nested, Searches
<1>12. Len(s) = Len(stack) /\ s[Len(s)] = Behind /\ s # <<>>
  BY <1>7, <1>11
<1>13. Nested(vol, Append(s, f))
  <2>. HIDE DEF s
  <2>. QED BY <1>2, <1>8, <1>9, <1>10, <1>12, PushNested
<1>14. stack' = Append(s, f)
  <2>. DEFINE t == Front(stack)
              g == Behind
  <2>2. t \in Seq(AFrame) /\ g \in AFrame
    BY <1>11
  <2>. HIDE DEF t, g
  <2>3. t \o <<g, f>> = Append(Append(t, g), f)
    BY <1>11, <2>2
  <2>. QED BY <1>1, <2>3 DEF t, g
<1>. QED BY <1>13, <1>14 DEF AtTop

\* The calls while a search runs, on the volume at the partition.
EfiStack ==
  /\ Located
  /\ pc \in {"scan", "menu", "booted"} => IsVolume(vol)
  /\ Nested(vol, stack)
  /\ pc # "scan" => stack = <<>>

LEMMA NoneNested == \A v : Nested(v, <<>>)
BY DEF Nested

LEMMA ScanNests ==
  ASSUME EfiStack, Scan
  PROVE  Nested(vol', stack')
<1>1. AtTop /\ ScanStep
  <2>1. pc = "scan" /\ stack # <<>> /\ vol' = vol /\ ScanStep
    BY DEF Scan, ScanStep, ReadSector, Return, ReadFails, SkipSlot, TakePiece,
           CarryOver, SkipBroken, Descend, Take, AtEntry, Scanning
  <2>. QED BY <2>1 DEF EfiStack, AtTop
<1>2. CASE Return \/ ReadFails
  <2>1. stack' = Front(stack)
    BY <1>2 DEF Return, ReadFails
  <2>. QED BY <1>1, <2>1, ReturnSearch
<1>. QED BY <1>1, <1>2, ReadSearch, SkipSearch, PieceSearch, CarrySearch, BrokenSearch, DescendSearch,
            TakeSearch DEF ScanStep

LEMMA StackKept ==
  ASSUME EfiStack, [Next]_vars
  PROVE  EfiStack'
<1>1. Located'
  BY LocatedKept DEF EfiStack
<1>2. CASE Scan
  <2>1. Nested(vol', stack') /\ pc = "scan" /\ pc' = "scan"
    BY <1>2, ScanNests DEF Scan, bootVars
  <2>2. vol' = vol
    BY <1>2 DEF Scan, ScanStep, ReadSector, Return, ReadFails, SkipSlot, TakePiece,
                CarryOver, SkipBroken, Descend, Take, AtEntry, Scanning
  <2>. QED BY <1>1, <2>1, <2>2 DEF EfiStack
<1>3. CASE MountFilesystem
  <2>. DEFINE v == disks[disk].at[part.lba]
  <2>1. pc = "mount" /\ StartScan(v) /\ pc' = "scan"
    BY <1>3 DEF MountFilesystem
  <2>2. disks \in Machines /\ disk \in DOMAIN disks /\ part.lba \in DOMAIN disks[disk].at
    BY <2>1 DEF EfiStack, Located
  <2>3. IsVolume(v)
    BY <2>2, BootAssumption
  <2>. HIDE DEF v
  <2>4. vol' = v /\ Nested(v, stack')
    BY <2>1, <2>3, SearchBegins
  <2>. QED BY <1>1, <2>1, <2>3, <2>4 DEF EfiStack
<1>4. CASE PressRefresh
  <2>1. pc = "menu" /\ StartScan(vol) /\ pc' = "scan"
    BY <1>4 DEF PressRefresh, Key
  <2>2. IsVolume(vol)
    BY <2>1 DEF EfiStack
  <2>3. vol' = vol /\ Nested(vol, stack')
    BY <2>1, <2>2, SearchBegins
  <2>. QED BY <1>1, <2>1, <2>2, <2>3 DEF EfiStack
<1>5. CASE DiscoverPayload
  <2>1. UNCHANGED <<vol, stack>> /\ pc = "scan" /\ stack = <<>>
    BY <1>5 DEF DiscoverPayload, scanVars
  <2>. QED BY <1>1, <2>1 DEF EfiStack
<1>6. CASE DiscoverDisk \/ DiscoverPartition \/ StageFails
  <2>1. /\ UNCHANGED <<vol, stack>> /\ pc \in {"disk", "partition", "mount"}
        /\ pc' \in {"partition", "mount", "halted"}
    BY <1>6 DEF DiscoverDisk, DiscoverPartition, StageFails, scanVars
  <2>. QED BY <1>1, <2>1 DEF EfiStack
<1>7. CASE NextPage \/ PreviousPage \/ Backspace \/ TypeDigit \/ Enter \/ KeyboardFails
  <2>1. UNCHANGED <<vol, stack>> /\ pc = "menu" /\ pc' \in {"menu", "booted", "halted"}
    BY <1>7 DEF NextPage, PreviousPage, Backspace, TypeDigit, Enter, KeyboardFails,
                Typing, Key
  <2>. QED BY <1>1, <2>1 DEF EfiStack
<1>8. CASE UNCHANGED vars
  <2>1. UNCHANGED <<vol, stack, pc>>
    BY <1>8 DEF vars, scanVars, bootVars
  <2>. QED BY <1>1, <2>1 DEF EfiStack
<1>. QED BY <1>2, <1>3, <1>4, <1>5, <1>6, <1>7, <1>8 DEF Next, Stage, Menu

\* However the directories of a volume refer to each other, round in circles
\* too, the recursion of scan_fat32_dir and scan_exfat_dir is no deeper than
\* the limit allows as long as paths fit in their buffer.
THEOREM RecursionBounded == Spec => []StackBounded
<1>1. Init => EfiStack
  <2>1. SUFFICES ASSUME Init PROVE EfiStack
    OBVIOUS
  <2>2. stack = <<>> /\ pc = "disk" /\ Located
    BY <2>1 DEF Init, Located, NoPartition
  <2>. QED BY <2>2, NoneNested DEF EfiStack
<1>2. EfiStack => StackBounded
  <2>1. SUFFICES ASSUME EfiStack, stack # <<>>, Top.path.len < MaxPath
                 PROVE  Len(stack) <= MaxDepth + 1
    BY DEF StackBounded
  <2>2. Top = stack[Len(stack)] /\ Nested(vol, stack)
    BY <2>1, TopFacts DEF EfiStack
  <2>. QED BY <2>1, <2>2, NestedBounded
<1>3. EfiStack /\ [Next]_vars => EfiStack'
  BY StackKept
<1>. QED BY <1>1, <1>2, <1>3, PTL DEF Spec

-----------------------------------------------------------------------------
(* The slots of a directory.                                               *)

InDir(v, d) == IsVolume(v) /\ d \in DOMAIN v.dirs

ItemsOf(v, d) == v.dirs[d].items
PartsOf(v, d) == [i \in DOMAIN ItemsOf(v, d) |-> SlotsOf(v.fs, ItemsOf(v, d)[i], i)]

\* Slots of an item, and its j-th.
LengthOf(fs, it) ==
  IF it.kind = "other" THEN 1
  ELSE IF it.kind = "orphan" THEN it.parts
  ELSE it.parts + (IF fs = "exfat" THEN 2 ELSE 1)

Piece(it, i, j) == Slot(IF j = 1 THEN "last" ELSE "piece", (it.parts + 1) - j, i)

SlotAt(fs, it, i, j) ==
  CASE it.kind = "gone" -> Slot("free", 0, i)
    [] it.kind = "other" -> Slot("label", 0, i)
    [] it.kind = "orphan" -> Piece(it, i, j)
    [] it.kind \in {"file", "dir", "dots", "broken"} ->
         IF fs = "exfat"
           THEN (IF j = 1 THEN Slot("set", it.parts + 1, i) ELSE Slot("free", 0, i))
           ELSE (IF j = it.parts + 1 THEN Slot("short", 0, i) ELSE Piece(it, i, j))

LEMMA DirFacts ==
  ASSUME NEW v, NEW d, InDir(v, d)
  PROVE  /\ v.fs \in {"exfat", "fat32"} /\ d \in Nat
         /\ ItemsOf(v, d) \in Seq(AnItem) /\ Len(ItemsOf(v, d)) \in Nat
         /\ DOMAIN ItemsOf(v, d) = 1..Len(ItemsOf(v, d))
         /\ {PerSector, PerCluster} \subseteq Nat \ {0} /\ CarryEntries \in Nat
<1>1. /\ v.fs \in {"exfat", "fat32", "ntfs"} /\ (v.fs = "ntfs" => v.dirs = <<>>)
      /\ ItemsOf(v, d) \in Seq(AnItem) /\ d \in Nat
  BY VolumeFacts DEF InDir, ItemsOf
<1>2. v.fs # "ntfs"
  BY <1>1 DEF InDir
<1>3. Len(ItemsOf(v, d)) \in Nat /\ DOMAIN ItemsOf(v, d) = 1..Len(ItemsOf(v, d))
  BY <1>1
<1>. QED BY <1>1, <1>2, <1>3, ScanAssumption

LEMMA ItemFacts ==
  ASSUME NEW v, NEW d, InDir(v, d), NEW i \in 1..Len(ItemsOf(v, d)), NEW it, it = ItemsOf(v, d)[i]
  PROVE  /\ it \in AnItem /\ it.parts \in Nat
         /\ it.kind \in {"file", "dir", "dots", "gone", "other", "broken", "orphan"}
         /\ it.kind = "dir" => it.sub \in DOMAIN v.dirs
         /\ it.kind = "dots" => it.name \notin Payloads
         /\ it.kind = "broken" => v.fs = "exfat"
         /\ it.kind = "orphan" => v.fs = "fat32" /\ it.parts > 0
         /\ v.fs = "exfat" => it.parts + 2 <= CarryEntries
<1>1. i \in DOMAIN v.dirs[d].items /\ it = v.dirs[d].items[i] /\ IsVolume(v) /\ d \in DOMAIN v.dirs
  BY DirFacts DEF ItemsOf, InDir
<1>2. it \in AnItem
  BY <1>1, VolumeFacts
<1>3. /\ it.kind = "dir" => it.sub \in DOMAIN v.dirs
      /\ it.kind = "dots" => it.name \notin Payloads
      /\ it.kind = "broken" => v.fs = "exfat"
      /\ it.kind = "orphan" => v.fs = "fat32" /\ it.parts > 0
      /\ v.fs = "exfat" => it.parts + 2 <= CarryEntries
  BY <1>1 DEF IsVolume
<1>. QED BY <1>2, <1>3 DEF AnItem

LEMMA LengthPositive ==
  ASSUME NEW v, NEW d, InDir(v, d), NEW i \in 1..Len(ItemsOf(v, d))
  PROVE  LengthOf(v.fs, ItemsOf(v, d)[i]) \in Nat /\ LengthOf(v.fs, ItemsOf(v, d)[i]) >= 1
BY ItemFacts DEF LengthOf

LEMMA CopiesAre ==
  ASSUME NEW S, NEW n \in Nat, NEW e \in S
  PROVE  /\ Copies(n, e) \in Seq(S) /\ Len(Copies(n, e)) = n
         /\ \A j \in 1..n : Copies(n, e)[j] = e
BY DEF Copies

LEMMA SlotTyped ==
  ASSUME NEW kind \in {"free", "label", "last", "piece", "set", "short", "end"}, NEW n \in Nat, NEW i \in Nat
  PROVE  Slot(kind, n, i) \in AnySlot
BY DEF Slot, AnySlot

LEMMA PiecesAre ==
  ASSUME NEW it, it.parts \in Nat, NEW i \in Nat
  PROVE  /\ Pieces(it.parts, i) \in Seq(AnySlot) /\ Len(Pieces(it.parts, i)) = it.parts
         /\ \A j \in 1..it.parts : Pieces(it.parts, i)[j] = Piece(it, i, j)
<1>. DEFINE n == it.parts
            f == [j \in 1..n |-> Piece(it, i, j)]
<1>1. \A j \in 1..n : Piece(it, i, j) \in AnySlot
  <2>1. ASSUME NEW j \in 1..n PROVE Piece(it, i, j) \in AnySlot
    <3>1. (n + 1) - j \in Nat
      OBVIOUS
    <3>2. \A kind \in {"last", "piece"} : Slot(kind, (n + 1) - j, i) \in AnySlot
      BY <3>1, SlotTyped
    <3>. QED BY <3>2 DEF Piece
  <2>. QED BY <2>1
<1>2. Pieces(n, i) = f
  BY DEF Pieces, Piece
<1>3. f \in Seq(AnySlot) /\ Len(f) = n /\ \A j \in 1..n : f[j] = Piece(it, i, j)
  BY <1>1
<1>. QED BY <1>2, <1>3

LEMMA SlotsAre ==
  ASSUME NEW v, NEW d, InDir(v, d), NEW i \in 1..Len(ItemsOf(v, d)), NEW it, it = ItemsOf(v, d)[i]
  PROVE  /\ SlotsOf(v.fs, it, i) \in Seq(AnySlot)
         /\ Len(SlotsOf(v.fs, it, i)) = LengthOf(v.fs, it)
         /\ \A j \in 1..LengthOf(v.fs, it) : SlotsOf(v.fs, it, i)[j] = SlotAt(v.fs, it, i, j)
<1>. DEFINE n == it.parts
            free == Slot("free", 0, i)
            label == Slot("label", 0, i)
            short == Slot("short", 0, i)
            set == Slot("set", n + 1, i)
<1>1. /\ n \in Nat /\ v.fs \in {"exfat", "fat32"} /\ i \in Nat
      /\ it.kind \in {"file", "dir", "dots", "gone", "other", "broken", "orphan"}
  BY ItemFacts, DirFacts
<1>2. free \in AnySlot /\ label \in AnySlot /\ short \in AnySlot /\ set \in AnySlot
  <2>1. n + 1 \in Nat /\ 0 \in Nat
    BY <1>1
  <2>. QED BY <1>1, <2>1, SlotTyped
<1>3. /\ Pieces(n, i) \in Seq(AnySlot) /\ Len(Pieces(n, i)) = n
      /\ \A j \in 1..n : Pieces(n, i)[j] = Piece(it, i, j)
  BY <1>1, PiecesAre
<1>4. CASE it.kind = "gone"
  <2>. DEFINE k == n + (IF v.fs = "exfat" THEN 2 ELSE 1)
  <2>1. k \in Nat /\ LengthOf(v.fs, it) = k
    BY <1>1, <1>4 DEF LengthOf
  <2>2. SlotsOf(v.fs, it, i) = Copies(k, free) /\ \A j : SlotAt(v.fs, it, i, j) = free
    BY <1>4 DEF SlotsOf, SlotAt
  <2>. HIDE DEF k, free
  <2>3. Copies(k, free) \in Seq(AnySlot) /\ Len(Copies(k, free)) = k /\ \A j \in 1..k : Copies(k, free)[j] = free
    BY <1>2, <2>1, CopiesAre
  <2>. QED BY <2>1, <2>2, <2>3
<1>5. CASE it.kind = "other"
  <2>1. /\ SlotsOf(v.fs, it, i) = <<label>> /\ LengthOf(v.fs, it) = 1
        /\ \A j : SlotAt(v.fs, it, i, j) = label
    BY <1>5 DEF SlotsOf, LengthOf, SlotAt
  <2>. HIDE DEF label
  <2>2. <<label>> \in Seq(AnySlot) /\ Len(<<label>>) = 1 /\ \A j \in 1..1 : <<label>>[j] = label
    BY <1>2
  <2>. QED BY <2>1, <2>2
<1>6. CASE it.kind = "orphan"
  <2>1. /\ SlotsOf(v.fs, it, i) = Pieces(n, i) /\ LengthOf(v.fs, it) = n
        /\ \A j : SlotAt(v.fs, it, i, j) = Piece(it, i, j)
    BY <1>6 DEF SlotsOf, LengthOf, SlotAt
  <2>. QED BY <1>3, <2>1
<1>7. CASE it.kind \in {"file", "dir", "dots", "broken"} /\ v.fs = "exfat"
  <2>. DEFINE c == Copies(n + 1, free)
  <2>1. /\ SlotsOf(v.fs, it, i) = <<set>> \o c /\ LengthOf(v.fs, it) = n + 2
        /\ \A j : SlotAt(v.fs, it, i, j) = IF j = 1 THEN set ELSE free
    BY <1>7 DEF SlotsOf, LengthOf, SlotAt
  <2>2. n + 1 \in Nat
    BY <1>1
  <2>3. c \in Seq(AnySlot) /\ Len(c) = n + 1 /\ \A j \in 1..n + 1 : c[j] = free
    BY <1>2, <2>2, CopiesAre
  <2>. HIDE DEF c, set, free, n
  <2>4. <<set>> \o c \in Seq(AnySlot) /\ Len(<<set>> \o c) = n + 2
    BY <1>1, <1>2, <2>3
  <2>5. ASSUME NEW j \in 1..n + 2 PROVE (<<set>> \o c)[j] = IF j = 1 THEN set ELSE free
    <3>1. CASE j = 1
      BY <1>2, <2>3, <3>1
    <3>2. CASE j # 1
      <4>1. j - 1 \in 1..n + 1
        BY <1>1, <3>2
      <4>2. (<<set>> \o c)[j] = c[j - 1]
        BY <1>1, <1>2, <2>3, <3>2
      <4>. QED BY <2>3, <3>2, <4>1, <4>2
    <3>. QED BY <3>1, <3>2
  <2>. QED BY <2>1, <2>4, <2>5
<1>8. CASE it.kind \in {"file", "dir", "dots", "broken"} /\ v.fs = "fat32"
  <2>. DEFINE c == Pieces(n, i)
  <2>1. /\ SlotsOf(v.fs, it, i) = Append(c, short) /\ LengthOf(v.fs, it) = n + 1
        /\ \A j : SlotAt(v.fs, it, i, j) = IF j = n + 1 THEN short ELSE Piece(it, i, j)
    BY <1>8 DEF SlotsOf, LengthOf, SlotAt
  <2>. HIDE DEF c, short, n
  <2>2. c \in Seq(AnySlot) /\ Len(c) = n /\ \A j \in 1..n : c[j] = Piece(it, i, j)
    BY <1>3 DEF c
  <2>3. Append(c, short) \in Seq(AnySlot) /\ Len(Append(c, short)) = n + 1
    BY <1>1, <1>2, <2>2
  <2>4. \A j \in 1..n + 1 : Append(c, short)[j] = IF j = n + 1 THEN short ELSE Piece(it, i, j)
    BY <1>1, <1>2, <2>2
  <2>. QED BY <2>1, <2>3, <2>4
<1>. QED BY <1>1, <1>4, <1>5, <1>6, <1>7, <1>8

\* Where the slots of the items begin and end.
Upto(v, d, k) == Ends(PartsOf(v, d))[k]

LEMMA PartsFacts ==
  ASSUME NEW v, NEW d, InDir(v, d)
  PROVE  LET n == Len(ItemsOf(v, d))
             items == ItemsOf(v, d)
             flat == Slots(v, d)
         IN  /\ Len(flat) \in Nat /\ Len(flat) = Upto(v, d, n) /\ Upto(v, d, 0) = 0
             /\ \A k \in 0..n : Upto(v, d, k) \in Nat /\ Upto(v, d, k) <= Len(flat)
             /\ \A k \in 1..n : Upto(v, d, k) = Upto(v, d, k - 1) + LengthOf(v.fs, items[k])
             /\ \A k \in 1..n : \A j \in 1..LengthOf(v.fs, items[k]) :
                  flat[Upto(v, d, k - 1) + j] = SlotAt(v.fs, items[k], k, j)
             /\ flat \in Seq(AnySlot)
<1>. DEFINE n == Len(ItemsOf(v, d))
            items == ItemsOf(v, d)
            flat == Slots(v, d)
            parts == PartsOf(v, d)
            e == Ends(parts)
<1>1. n \in Nat /\ DOMAIN items = 1..n
  BY DirFacts
<1>2. /\ parts \in Seq(Seq(AnySlot)) /\ Len(parts) = n
      /\ \A k \in 1..n : parts[k] = SlotsOf(v.fs, items[k], k)
  <2>1. \A k \in 1..n : SlotsOf(v.fs, items[k], k) \in Seq(AnySlot)
    BY SlotsAre
  <2>2. parts = [k \in 1..n |-> SlotsOf(v.fs, items[k], k)]
    BY <1>1 DEF PartsOf
  <2>. HIDE DEF n, items, parts
  <2>. QED BY <1>1, <2>1, <2>2
<1>3. /\ e \in [0..Len(parts) -> Nat] /\ e[0] = 0
      /\ \A i \in 1..Len(parts) : e[i] = e[i - 1] + Len(parts[i])
  BY <1>2, EndsDefined
<1>4. flat \in Seq(AnySlot) /\ Joined(parts, flat, Len(parts))
  <2>1. flat = FlattenSeq(parts)
    BY DEF Slots, PartsOf, ItemsOf
  <2>2. FlattenSeq(parts) \in Seq(AnySlot) /\ Joined(parts, FlattenSeq(parts), Len(parts))
    BY <1>2, Flattened
  <2>. QED BY <2>1, <2>2
<1>5. \A k : Upto(v, d, k) = e[k]
  BY DEF Upto
<1>6. \A k \in 1..n : /\ Len(parts[k]) = LengthOf(v.fs, items[k])
                      /\ \A j \in 1..LengthOf(v.fs, items[k]) : parts[k][j] = SlotAt(v.fs, items[k], k, j)
  <2>1. \A k \in 1..n : /\ Len(SlotsOf(v.fs, items[k], k)) = LengthOf(v.fs, items[k])
                        /\ \A j \in 1..LengthOf(v.fs, items[k]) :
                             SlotsOf(v.fs, items[k], k)[j] = SlotAt(v.fs, items[k], k, j)
    BY SlotsAre
  <2>. QED BY <1>2, <2>1
<1>7. \A k \in 0..n : e[k] <= e[n]
  <2>1. \A k \in 0..n : n \in k..Len(parts)
    BY <1>1, <1>2
  <2>. QED BY <1>2, <2>1, EndsGrow
<1>. HIDE DEF n, items, flat, parts, e
<1>8. Len(flat) = e[n] /\ Len(flat) \in Nat
  BY <1>2, <1>4 DEF Joined, e
<1>9. \A k \in 0..n : e[k] \in Nat /\ e[k] <= Len(flat)
  BY <1>2, <1>3, <1>7, <1>8
<1>10. \A k \in 1..n : e[k] = e[k - 1] + LengthOf(v.fs, items[k])
  BY <1>2, <1>3, <1>6
<1>11. \A k \in 1..n : \A j \in 1..LengthOf(v.fs, items[k]) : flat[e[k - 1] + j] = SlotAt(v.fs, items[k], k, j)
  BY <1>2, <1>4, <1>6 DEF Joined, e
<1>12. Upto(v, d, 0) = 0
  BY <1>3, <1>5
<1>13. \A k \in 0..n : Upto(v, d, k) \in Nat /\ Upto(v, d, k) <= Len(flat)
  BY <1>5, <1>9
<1>14. \A k \in 1..n : Upto(v, d, k) = Upto(v, d, k - 1) + LengthOf(v.fs, items[k])
  BY <1>5, <1>10
<1>15. \A k \in 1..n : \A j \in 1..LengthOf(v.fs, items[k]) :
         flat[Upto(v, d, k - 1) + j] = SlotAt(v.fs, items[k], k, j)
  BY <1>5, <1>11
<1>16. Len(flat) = Upto(v, d, n)
  BY <1>5, <1>8
<1>. QED BY <1>4, <1>8, <1>12, <1>13, <1>14, <1>15, <1>16 DEF n, items, flat

-----------------------------------------------------------------------------
(* A call, as a place in the stream of slots of its directory: r slots have *)
(* been read, b, p and c are the buffer, the position in it and what is     *)
(* carried over, l is the long name at hand.                                *)

EndSlot == Slot("end", 0, 0)

At(v, d, k) == IF k <= Len(Slots(v, d)) THEN Slots(v, d)[k] ELSE EndSlot

Place(r, b, p, c) == ((r - Len(c)) - (Len(b) + 1)) + p

Streams(v, d, r, b, p, c) ==
  /\ r \in Nat /\ b \in Seq(AnySlot) /\ c \in Seq(AnySlot) /\ p \in 1..Len(b) + 1
  /\ Len(b) <= r /\ Len(c) <= r
  /\ \A q \in 1..Len(b) : b[q] = At(v, d, (r - Len(b)) + q)
  /\ \A q \in 1..Len(c) : c[q] = At(v, d, (r - Len(c)) + q)
  /\ c # <<>> => p = Len(b) + 1

\* The long name at hand when j slots of item k + 1 have been passed: none or
\* that of an orphan at its first, its own up to there behind it.
NameAt(fs, items, k, j, l) ==
  IF j = 0
    THEN l.len > 0 => fs = "fat32" /\ k > 0 /\ items[k].kind = "orphan"
    ELSE \/ items[k + 1].kind = "gone" /\ l.len = 0
         \/ /\ fs = "fat32" /\ items[k + 1].kind # "gone"
            /\ l.len = items[k + 1].parts /\ l.of = k + 1 /\ l.seq = items[k + 1].parts - j

\* Place m is in item k + 1, or behind the last.
InItem(v, d, k, m, l) ==
  /\ k \in 0..Len(ItemsOf(v, d)) /\ Upto(v, d, k) <= m
  /\ k < Len(ItemsOf(v, d)) => /\ m < Upto(v, d, k + 1)
                               /\ NameAt(v.fs, ItemsOf(v, d), k, m - Upto(v, d, k), l)

\* The call has dealt with k items.  A set carried over ends behind what has
\* been read.
Stands(v, d, k, r, b, p, c, l) ==
  /\ Streams(v, d, r, b, p, c)
  /\ InItem(v, d, k, Place(r, b, p, c), l)
  /\ c # <<>> => k < Len(ItemsOf(v, d)) /\ r < Upto(v, d, k + 1)

LEMMA AtTyped == ASSUME NEW v, NEW d, InDir(v, d), NEW k \in Nat \ {0} PROVE At(v, d, k) \in AnySlot
<1>1. Slots(v, d) \in Seq(AnySlot) /\ Len(Slots(v, d)) \in Nat
  BY PartsFacts
<1>2. EndSlot \in AnySlot
  BY SlotTyped DEF EndSlot
<1>. DEFINE s == Slots(v, d)
<1>. HIDE DEF s
<1>3. ASSUME k <= Len(s) PROVE s[k] \in AnySlot
  <2>1. s \in Seq(AnySlot) /\ k \in 1..Len(s)
    BY <1>1, <1>3 DEF s
  <2>. QED BY <2>1
<1>. QED BY <1>2, <1>3 DEF At, s

LEMMA NextItem ==
  ASSUME NEW v, NEW d, InDir(v, d), NEW k \in 0..Len(ItemsOf(v, d)), k < Len(ItemsOf(v, d))
  PROVE  /\ k \in Nat /\ k + 1 \in 0..Len(ItemsOf(v, d)) /\ k + 1 \in 1..Len(ItemsOf(v, d)) /\ (k + 1) - 1 = k
         /\ Upto(v, d, k) \in Nat /\ Upto(v, d, k + 1) \in Nat
         /\ Upto(v, d, k + 1) = Upto(v, d, k) + LengthOf(v.fs, ItemsOf(v, d)[k + 1])
         /\ LengthOf(v.fs, ItemsOf(v, d)[k + 1]) \in Nat /\ LengthOf(v.fs, ItemsOf(v, d)[k + 1]) >= 1
         /\ k + 1 < Len(ItemsOf(v, d)) => Upto(v, d, k + 1) < Upto(v, d, (k + 1) + 1)
<1>1. Len(ItemsOf(v, d)) \in Nat
  BY DirFacts
<1>2. k + 1 \in 1..Len(ItemsOf(v, d)) /\ k + 1 \in 0..Len(ItemsOf(v, d)) /\ (k + 1) - 1 = k /\ k \in Nat
  BY <1>1
<1>3. /\ Upto(v, d, k) \in Nat /\ Upto(v, d, k + 1) \in Nat
      /\ Upto(v, d, k + 1) = Upto(v, d, k) + LengthOf(v.fs, ItemsOf(v, d)[k + 1])
  BY <1>2, PartsFacts
<1>4. LengthOf(v.fs, ItemsOf(v, d)[k + 1]) \in Nat /\ LengthOf(v.fs, ItemsOf(v, d)[k + 1]) >= 1
  BY <1>2, LengthPositive
<1>5. ASSUME k + 1 < Len(ItemsOf(v, d)) PROVE Upto(v, d, k + 1) < Upto(v, d, (k + 1) + 1)
  <2>1. (k + 1) + 1 \in 1..Len(ItemsOf(v, d)) /\ ((k + 1) + 1) - 1 = k + 1
    BY <1>1, <1>5
  <2>2. Upto(v, d, (k + 1) + 1) = Upto(v, d, k + 1) + LengthOf(v.fs, ItemsOf(v, d)[(k + 1) + 1])
    BY <2>1, PartsFacts
  <2>3. /\ LengthOf(v.fs, ItemsOf(v, d)[(k + 1) + 1]) \in Nat
        /\ LengthOf(v.fs, ItemsOf(v, d)[(k + 1) + 1]) >= 1
    BY <2>1, LengthPositive
  <2>. QED BY <1>3, <2>2, <2>3
<1>. QED BY <1>2, <1>3, <1>4, <1>5

\* A call at its beginning.
LEMMA FirstPlace ==
  ASSUME NEW v, NEW d, InDir(v, d), NEW l, l.len = 0
  PROVE  Stands(v, d, 0, 0, <<>>, 1, <<>>, l)
<1>1. Len(ItemsOf(v, d)) \in Nat /\ 0 \in 0..Len(ItemsOf(v, d)) /\ Upto(v, d, 0) = 0
  BY DirFacts, PartsFacts
<1>2. <<>> \in Seq(AnySlot) /\ Len(<<>>) = 0
  OBVIOUS
<1>3. Place(0, <<>>, 1, <<>>) = 0
  <2>1. Len(<<>>) = 0 /\ ((0 - 0) - (0 + 1)) + 1 = 0
    OBVIOUS
  <2>. QED BY <2>1 DEF Place
<1>4. Streams(v, d, 0, <<>>, 1, <<>>)
  BY <1>2 DEF Streams
<1>5. 0 < Len(ItemsOf(v, d)) => 0 < Upto(v, d, 0 + 1)
  <2>1. SUFFICES ASSUME 0 < Len(ItemsOf(v, d)) PROVE 0 < Upto(v, d, 0 + 1)
    OBVIOUS
  <2>2. /\ Upto(v, d, 0 + 1) = Upto(v, d, 0) + LengthOf(v.fs, ItemsOf(v, d)[0 + 1])
        /\ LengthOf(v.fs, ItemsOf(v, d)[0 + 1]) \in Nat /\ LengthOf(v.fs, ItemsOf(v, d)[0 + 1]) >= 1
    BY <1>1, <2>1, NextItem
  <2>. QED BY <1>1, <2>2
<1>6. InItem(v, d, 0, 0, l)
  BY <1>1, <1>5 DEF InItem, NameAt
<1>. QED BY <1>3, <1>4, <1>6 DEF Stands

LEMMA ReadStep ==
  ASSUME NEW v, NEW d, InDir(v, d), NEW k, NEW r, NEW b, NEW p, NEW c, NEW l,
         Stands(v, d, k, r, b, p, c, l), ~(p <= Len(b))
  PROVE  Stands(v, d, k, r + PerSector, c \o [i \in 1..PerSector |-> At(v, d, r + i)], 1, <<>>, l)
<1>. DEFINE s == [i \in 1..PerSector |-> At(v, d, r + i)]
<1>2. /\ r \in Nat /\ b \in Seq(AnySlot) /\ c \in Seq(AnySlot) /\ p = Len(b) + 1
      /\ Len(b) \in Nat /\ Len(c) \in Nat /\ Len(c) <= r
      /\ \A q \in 1..Len(c) : c[q] = At(v, d, (r - Len(c)) + q)
  BY DEF Stands, Streams
<1>3. PerSector \in Nat /\ PerSector > 0
  BY DirFacts
<1>4. s \in Seq(AnySlot) /\ Len(s) = PerSector /\ \A i \in 1..PerSector : s[i] = At(v, d, r + i)
  <2>1. \A i \in 1..PerSector : r + i \in Nat \ {0}
    BY <1>2, <1>3
  <2>2. \A i \in 1..PerSector : At(v, d, r + i) \in AnySlot
    BY <2>1, AtTyped
  <2>. QED BY <1>3, <2>2
<1>. HIDE DEF s
<1>. DEFINE t == c \o s
<1>5. t \in Seq(AnySlot) /\ Len(t) = Len(c) + PerSector
  <2>1. c \in Seq(AnySlot) /\ s \in Seq(AnySlot)
    BY <1>2, <1>4
  <2>. QED BY <1>4, <2>1
<1>6. ASSUME NEW q \in 1..Len(t) PROVE t[q] = At(v, d, ((r + PerSector) - Len(t)) + q)
  <2>1. q \in Nat /\ q >= 1 /\ q <= Len(c) + PerSector
    BY <1>2, <1>3, <1>5
  <2>2. ((r + PerSector) - Len(t)) + q = (r - Len(c)) + q
    BY <1>2, <1>3, <1>5, <2>1
  <2>3. CASE q <= Len(c)
    <3>1. q \in 1..Len(c)
      BY <1>2, <2>1, <2>3
    <3>2. t[q] = c[q]
      BY <1>2, <1>4, <3>1
    <3>. QED BY <1>2, <2>2, <3>1, <3>2
  <2>4. CASE ~(q <= Len(c))
    <3>1. q - Len(c) \in 1..PerSector
      BY <1>2, <1>3, <2>1, <2>4
    <3>2. t[q] = s[q - Len(c)]
      BY <1>2, <1>3, <1>4, <2>1, <2>4
    <3>3. r + (q - Len(c)) = (r - Len(c)) + q
      BY <1>2, <2>1
    <3>. QED BY <1>4, <2>2, <3>1, <3>2, <3>3
  <2>. QED BY <2>3, <2>4
<1>. HIDE DEF t
<1>7. Place(r + PerSector, t, 1, <<>>) = Place(r, b, p, c)
  <2>1. Len(<<>>) = 0
    OBVIOUS
  <2>. QED BY <1>2, <1>3, <1>5, <2>1 DEF Place
<1>8. Streams(v, d, r + PerSector, t, 1, <<>>)
  <2>1. <<>> \in Seq(AnySlot) /\ Len(<<>>) = 0
    OBVIOUS
  <2>. QED BY <1>2, <1>3, <1>5, <1>6, <2>1 DEF Streams
<1>. QED BY <1>7, <1>8 DEF Stands, t, s

\* The slot the call looks at.
LEMMA Looking ==
  ASSUME NEW v, NEW d, InDir(v, d), NEW k, NEW r, NEW b, NEW p, NEW c, NEW l,
         Stands(v, d, k, r, b, p, c, l), p <= Len(b)
  PROVE  LET m == Place(r, b, p, c)
             u == Upto(v, d, k)
             it == ItemsOf(v, d)[k + 1]
         IN  /\ c = <<>> /\ m \in Nat /\ m = (r - (Len(b) + 1)) + p /\ u \in Nat
             /\ k \in 0..Len(ItemsOf(v, d)) /\ p \in Nat /\ Len(b) \in Nat /\ r \in Nat
             /\ k = Len(ItemsOf(v, d)) => b[p] = EndSlot
             /\ k # Len(ItemsOf(v, d)) =>
                  /\ k < Len(ItemsOf(v, d)) /\ u <= m /\ m < u + LengthOf(v.fs, it)
                  /\ b[p] = SlotAt(v.fs, it, k + 1, (m + 1) - u)
                  /\ NameAt(v.fs, ItemsOf(v, d), k, m - u, l)
<1>. DEFINE m == Place(r, b, p, c)
            n == Len(ItemsOf(v, d))
<1>1. /\ r \in Nat /\ b \in Seq(AnySlot) /\ p \in 1..Len(b) /\ Len(b) \in Nat /\ Len(b) <= r
      /\ c = <<>> /\ \A q \in 1..Len(b) : b[q] = At(v, d, (r - Len(b)) + q)
  BY DEF Stands, Streams
<1>2. Len(c) = 0
  BY <1>1
<1>3. m \in Nat /\ m = (r - (Len(b) + 1)) + p /\ (r - Len(b)) + p = m + 1
  BY <1>1, <1>2 DEF Place
<1>4. b[p] = At(v, d, m + 1)
  BY <1>1, <1>3
<1>5. /\ n \in Nat /\ k \in 0..n /\ Upto(v, d, k) <= m
      /\ k < n => m < Upto(v, d, k + 1) /\ NameAt(v.fs, ItemsOf(v, d), k, m - Upto(v, d, k), l)
  BY DirFacts DEF Stands, InItem
<1>6. /\ k \in Nat /\ Upto(v, d, k) \in Nat /\ Len(Slots(v, d)) = Upto(v, d, n) /\ Len(Slots(v, d)) \in Nat
  BY <1>5, PartsFacts
<1>7. CASE k = n
  <2>1. ~(m + 1 <= Len(Slots(v, d)))
    BY <1>3, <1>5, <1>6, <1>7
  <2>. QED BY <1>1, <1>3, <1>4, <1>5, <1>6, <1>7, <2>1 DEF At
<1>8. CASE k # n
  <2>. DEFINE it == ItemsOf(v, d)[k + 1]
              u == Upto(v, d, k)
              j == (m + 1) - u
  <2>0. k < n
    BY <1>5, <1>8
  <2>1. k + 1 \in 1..n /\ k + 1 \in 0..n /\ (k + 1) - 1 = k
    BY <1>5, <1>6, <2>0
  <2>2. /\ Upto(v, d, k + 1) = u + LengthOf(v.fs, it) /\ Upto(v, d, k + 1) \in Nat
        /\ Upto(v, d, k + 1) <= Len(Slots(v, d))
        /\ \A i \in 1..LengthOf(v.fs, it) : Slots(v, d)[u + i] = SlotAt(v.fs, it, k + 1, i)
    BY <2>1, PartsFacts
  <2>3. LengthOf(v.fs, it) \in Nat
    BY <2>1, LengthPositive
  <2>5. j \in 1..LengthOf(v.fs, it) /\ u + j = m + 1 /\ m + 1 <= Len(Slots(v, d)) /\ m < u + LengthOf(v.fs, it)
    <3>. DEFINE w == LengthOf(v.fs, it)
                x == Upto(v, d, k + 1)
                y == Len(Slots(v, d))
    <3>1. m < x /\ x = u + w /\ x <= y /\ w \in Nat /\ x \in Nat /\ y \in Nat /\ u \in Nat /\ m \in Nat /\ u <= m
      BY <1>3, <1>5, <1>6, <2>0, <2>2, <2>3
    <3>. HIDE DEF w, x, y, u, m
    <3>. QED BY <3>1 DEF w, y
  <2>6. At(v, d, m + 1) = SlotAt(v.fs, it, k + 1, j)
    BY <2>2, <2>5 DEF At
  <2>. HIDE DEF m, n
  <2>. QED BY <1>1, <1>3, <1>4, <1>5, <1>6, <1>8, <2>0, <2>5, <2>6 DEF m, n
<1>. QED BY <1>7, <1>8

\* The call goes on at another position of its buffer.
LEMMA Advance ==
  ASSUME NEW v, NEW d, InDir(v, d), NEW r, NEW b, NEW p, NEW q \in Nat, NEW k, NEW l,
         Streams(v, d, r, b, p, <<>>), p <= q, q <= Len(b) + 1,
         InItem(v, d, k, (r - (Len(b) + 1)) + q, l)
  PROVE  Stands(v, d, k, r, b, q, <<>>, l)
<1>1. r \in Nat /\ Len(b) \in Nat /\ p \in 1..Len(b) + 1 /\ Len(<<>>) = 0
  BY DEF Streams
<1>2. Place(r, b, q, <<>>) = (r - (Len(b) + 1)) + q
  BY <1>1 DEF Place
<1>4. q \in 1..Len(b) + 1
  BY <1>1
<1>5. Streams(v, d, r, b, q, <<>>)
  BY <1>4 DEF Streams
<1>. QED BY <1>2, <1>5 DEF Stands

\* From one slot to the next: the item goes on or has been passed.
LEMMA OneOn ==
  ASSUME NEW v, NEW d, InDir(v, d), NEW k, NEW r, NEW b, NEW p, NEW c, NEW l,
         Stands(v, d, k, r, b, p, c, l), p <= Len(b), k # Len(ItemsOf(v, d)), NEW l1,
         LET m == Place(r, b, p, c)
             u == Upto(v, d, k)
         IN  /\ m + 1 < Upto(v, d, k + 1) => NameAt(v.fs, ItemsOf(v, d), k, (m + 1) - u, l1)
             /\ m + 1 = Upto(v, d, k + 1) => NameAt(v.fs, ItemsOf(v, d), k + 1, 0, l1)
  PROVE  \/ Stands(v, d, k, r, b, p + 1, c, l1)
         \/ Place(r, b, p, c) + 1 = Upto(v, d, k + 1) /\ Stands(v, d, k + 1, r, b, p + 1, c, l1)
<1>. DEFINE m == Place(r, b, p, c)
            u == Upto(v, d, k)
            w == Upto(v, d, k + 1)
<1>1. /\ c = <<>> /\ m \in Nat /\ m = (r - (Len(b) + 1)) + p /\ u \in Nat /\ k \in 0..Len(ItemsOf(v, d))
      /\ p \in Nat /\ Len(b) \in Nat /\ r \in Nat /\ k < Len(ItemsOf(v, d)) /\ u <= m
      /\ m < u + LengthOf(v.fs, ItemsOf(v, d)[k + 1])
  BY Looking
<1>2. /\ k \in Nat /\ k + 1 \in 0..Len(ItemsOf(v, d)) /\ w \in Nat
      /\ w = u + LengthOf(v.fs, ItemsOf(v, d)[k + 1])
      /\ k + 1 < Len(ItemsOf(v, d)) => w < Upto(v, d, (k + 1) + 1)
  BY <1>1, NextItem
<1>3. p + 1 \in Nat /\ p <= p + 1 /\ p + 1 <= Len(b) + 1 /\ (r - (Len(b) + 1)) + (p + 1) = m + 1
  BY <1>1
<1>4. Streams(v, d, r, b, p, <<>>)
  BY <1>1 DEF Stands
<1>5. /\ m + 1 < w => NameAt(v.fs, ItemsOf(v, d), k, (m + 1) - u, l1)
      /\ m + 1 = w => NameAt(v.fs, ItemsOf(v, d), k + 1, 0, l1)
  OBVIOUS
<1>. HIDE DEF m
<1>6. CASE m + 1 < w
  <2>1. InItem(v, d, k, m + 1, l1)
    BY <1>1, <1>5, <1>6 DEF InItem
  <2>2. Stands(v, d, k, r, b, p + 1, <<>>, l1)
    BY <1>3, <1>4, <2>1, Advance
  <2>. QED BY <1>1, <2>2
<1>7. CASE m + 1 = w
  <2>1. (m + 1) - w = 0
    BY <1>1, <1>2, <1>7
  <2>2. InItem(v, d, k + 1, m + 1, l1)
    BY <1>1, <1>2, <1>5, <1>7, <2>1 DEF InItem
  <2>3. Stands(v, d, k + 1, r, b, p + 1, <<>>, l1)
    BY <1>3, <1>4, <2>2, Advance
  <2>. QED BY <1>1, <1>7, <2>3 DEF m
<1>8. m + 1 <= w
  <2>. DEFINE x == LengthOf(v.fs, ItemsOf(v, d)[k + 1])
  <2>. HIDE DEF x, u, w
  <2>. QED BY <1>1, <1>2 DEF x
<1>. QED BY <1>1, <1>2, <1>6, <1>7, <1>8

\* A slot of a deleted entry or of a label: the item goes on, or one that lists
\* nothing has been passed.
LEMMA SkipStep ==
  ASSUME NEW v, NEW d, InDir(v, d), NEW k, NEW r, NEW b, NEW p, NEW c, NEW l,
         Stands(v, d, k, r, b, p, c, l), p <= Len(b), b[p].kind \in {"free", "label"},
         NEW l1, l1.len = 0
  PROVE  /\ k \in 0..Len(ItemsOf(v, d)) /\ k < Len(ItemsOf(v, d))
         /\ \/ Stands(v, d, k, r, b, p + 1, c, l1)
            \/ ItemsOf(v, d)[k + 1].kind \in {"gone", "other"} /\ Stands(v, d, k + 1, r, b, p + 1, c, l1)
<1>. DEFINE m == Place(r, b, p, c)
            u == Upto(v, d, k)
            it == ItemsOf(v, d)[k + 1]
            n == Len(ItemsOf(v, d))
<1>1. /\ m \in Nat /\ u \in Nat /\ k \in 0..n
      /\ k = n => b[p] = EndSlot
      /\ k # n => /\ k < n /\ u <= m /\ m < u + LengthOf(v.fs, it)
                  /\ b[p] = SlotAt(v.fs, it, k + 1, (m + 1) - u)
                  /\ NameAt(v.fs, ItemsOf(v, d), k, m - u, l)
  BY Looking
<1>2. k # n
  <2>1. EndSlot.kind = "end"
    BY DEF EndSlot, Slot
  <2>. QED BY <1>1, <2>1
<1>3. /\ k < n /\ u <= m /\ b[p] = SlotAt(v.fs, it, k + 1, (m + 1) - u)
      /\ m < u + LengthOf(v.fs, it) /\ NameAt(v.fs, ItemsOf(v, d), k, m - u, l)
  BY <1>1, <1>2
<1>4. /\ k + 1 \in 1..n /\ Upto(v, d, k + 1) = u + LengthOf(v.fs, it)
  BY <1>1, <1>3, NextItem
<1>5. /\ v.fs \in {"exfat", "fat32"} /\ it.parts \in Nat
      /\ it.kind \in {"file", "dir", "dots", "gone", "other", "broken", "orphan"}
      /\ it.kind = "orphan" => v.fs = "fat32"
  BY <1>4, ItemFacts, DirFacts
<1>6. it.kind \in {"gone", "other"}
  <2>1. CASE it.kind = "orphan" \/ (it.kind \in {"file", "dir", "dots", "broken"} /\ v.fs = "fat32")
    <3>1. SlotAt(v.fs, it, k + 1, (m + 1) - u).kind \in {"last", "piece", "short"}
      BY <2>1 DEF SlotAt, Slot, Piece
    <3>. QED BY <1>3, <3>1
  <2>2. CASE it.kind \in {"file", "dir", "dots", "broken"} /\ v.fs = "exfat"
    <3>1. CASE m - u = 0
      <4>1. (m + 1) - u = 1
        BY <1>1, <3>1
      <4>2. SlotAt(v.fs, it, k + 1, (m + 1) - u).kind = "set"
        BY <2>2, <4>1 DEF SlotAt, Slot
      <4>. QED BY <1>3, <4>2
    <3>2. CASE m - u # 0
      BY <1>3, <2>2, <3>2 DEF NameAt
    <3>. QED BY <3>1, <3>2
  <2>. QED BY <1>5, <2>1, <2>2
<1>7. m + 1 < Upto(v, d, k + 1) => NameAt(v.fs, ItemsOf(v, d), k, (m + 1) - u, l1)
  <2>1. SUFFICES ASSUME m + 1 < Upto(v, d, k + 1) PROVE NameAt(v.fs, ItemsOf(v, d), k, (m + 1) - u, l1)
    OBVIOUS
  <2>2. it.kind # "other"
    <3>1. it.kind = "other" => LengthOf(v.fs, it) = 1
      BY DEF LengthOf
    <3>. DEFINE x == LengthOf(v.fs, it)
                w == Upto(v, d, k + 1)
    <3>. HIDE DEF x, m, u, w
    <3>2. w = u + x /\ m + 1 < w
      BY <1>4, <2>1 DEF w, x
    <3>3. x # 1
      BY <1>1, <1>3, <3>2
    <3>. QED BY <3>1, <3>3 DEF x
  <2>3. (m + 1) - u # 0
    BY <1>1, <1>3
  <2>. QED BY <1>6, <2>2, <2>3 DEF NameAt
<1>8. NameAt(v.fs, ItemsOf(v, d), k + 1, 0, l1)
  BY DEF NameAt
<1>. HIDE DEF m, u, it, n
<1>9. \/ Stands(v, d, k, r, b, p + 1, c, l1)
      \/ Stands(v, d, k + 1, r, b, p + 1, c, l1)
  BY <1>2, <1>7, <1>8, OneOn DEF m, u, n
<1>. QED BY <1>1, <1>3, <1>6, <1>9 DEF n, it

\* The long name after a piece of it.
LongAfter(l, h) ==
  LET name == IF h.kind = "last" THEN Begun(l, h) ELSE l
  IN  IF h.n = name.seq /\ h.item = name.of THEN Continued(name, h) ELSE name

LEMMA PieceDue ==
  ASSUME NEW l \in Names, NEW h, h.n \in Nat, h.item \in Nat
  PROVE  LET w == LongAfter(l, h)
         IN  /\ h.kind = "last" => w.len = h.n /\ w.of = h.item /\ w.seq = h.n - 1
             /\ h.kind # "last" /\ h.n = l.seq /\ h.item = l.of =>
                  w.len = l.len /\ w.of = l.of /\ w.seq = l.seq - 1
<1>1. ASSUME NEW x \in Names PROVE /\ Continued(x, h).len = x.len /\ Continued(x, h).of = x.of
                                   /\ Continued(x, h).seq = x.seq - 1
  BY DEF Continued, Names
<1>2. CASE h.kind = "last"
  <2>. DEFINE x == Begun(l, h)
  <2>1. x \in Names /\ x.len = h.n /\ x.seq = h.n /\ x.of = h.item
    <3>1. h.n \in Int
      OBVIOUS
    <3>2. x = [len |-> h.n, seq |-> h.n, of |-> h.item, head |-> l.head] /\ l.head \in Nat
      <4>. DEFINE y == [l EXCEPT !.len = h.n]
                  z == [y EXCEPT !.seq = h.n]
      <4>1. y = [len |-> h.n, seq |-> l.seq, of |-> l.of, head |-> l.head] /\ l.head \in Nat
        BY DEF Names
      <4>2. x = [z EXCEPT !.of = h.item]
        BY DEF Begun
      <4>. HIDE DEF x, y
      <4>3. z = [len |-> h.n, seq |-> h.n, of |-> l.of, head |-> l.head]
        BY <4>1
      <4>. HIDE DEF z
      <4>. QED BY <4>1, <4>2, <4>3
    <3>. HIDE DEF x
    <3>. QED BY <3>1, <3>2 DEF Names
  <2>. HIDE DEF x
  <2>2. LongAfter(l, h) = IF h.n = x.seq /\ h.item = x.of THEN Continued(x, h) ELSE x
    BY <1>2 DEF LongAfter, x
  <2>3. LongAfter(l, h) = Continued(x, h)
    BY <2>1, <2>2
  <2>. QED BY <1>1, <1>2, <2>1, <2>3
<1>3. CASE h.kind # "last" /\ h.n = l.seq /\ h.item = l.of
  <2>1. LongAfter(l, h) = Continued(l, h)
    BY <1>3 DEF LongAfter
  <2>. QED BY <1>1, <1>3, <2>1
<1>. QED BY <1>2, <1>3

\* A piece of a long name: its entry goes on, or the piece was an orphan's last.
LEMMA PieceStep ==
  ASSUME NEW v, NEW d, InDir(v, d), NEW k, NEW r, NEW b, NEW p, NEW c, NEW l \in Names,
         Stands(v, d, k, r, b, p, c, l), p <= Len(b), b[p].kind \in {"last", "piece"}
  PROVE  LET l1 == LongAfter(l, b[p])
         IN  /\ k \in 0..Len(ItemsOf(v, d)) /\ k < Len(ItemsOf(v, d))
             /\ \/ Stands(v, d, k, r, b, p + 1, c, l1)
                \/ ItemsOf(v, d)[k + 1].kind = "orphan" /\ Stands(v, d, k + 1, r, b, p + 1, c, l1)
<1>. DEFINE m == Place(r, b, p, c)
            u == Upto(v, d, k)
            it == ItemsOf(v, d)[k + 1]
            n == Len(ItemsOf(v, d))
            h == b[p]
            j == (m + 1) - u
            l1 == LongAfter(l, h)
<1>1. /\ m \in Nat /\ u \in Nat /\ k \in 0..n
      /\ k = n => h = EndSlot
      /\ k # n => /\ k < n /\ u <= m /\ m < u + LengthOf(v.fs, it)
                  /\ h = SlotAt(v.fs, it, k + 1, j)
                  /\ NameAt(v.fs, ItemsOf(v, d), k, m - u, l)
  BY Looking
<1>2. k # n
  <2>1. EndSlot.kind = "end"
    BY DEF EndSlot, Slot
  <2>. QED BY <1>1, <2>1
<1>3. /\ k < n /\ u <= m /\ h = SlotAt(v.fs, it, k + 1, j)
      /\ m < u + LengthOf(v.fs, it) /\ NameAt(v.fs, ItemsOf(v, d), k, m - u, l)
  BY <1>1, <1>2
<1>4. k + 1 \in 1..n /\ Upto(v, d, k + 1) = u + LengthOf(v.fs, it) /\ LengthOf(v.fs, it) \in Nat
  BY <1>1, <1>3, NextItem
<1>5. /\ v.fs \in {"exfat", "fat32"} /\ it.parts \in Nat
      /\ it.kind \in {"file", "dir", "dots", "gone", "other", "broken", "orphan"}
      /\ it.kind = "orphan" => v.fs = "fat32"
  BY <1>4, ItemFacts, DirFacts
<1>6. j \in Nat /\ j >= 1 /\ j <= LengthOf(v.fs, it)
  <2>. DEFINE x == LengthOf(v.fs, it)
  <2>. HIDE DEF x, m, u
  <2>. QED BY <1>1, <1>3, <1>4 DEF x
<1>7. it.kind \notin {"gone", "other"}
  <2>1. it.kind \in {"gone", "other"} => SlotAt(v.fs, it, k + 1, j).kind \in {"free", "label"}
    BY DEF SlotAt, Slot
  <2>. QED BY <1>3, <2>1
<1>8. v.fs = "fat32"
  <2>1. v.fs = "exfat" /\ it.kind # "orphan" => SlotAt(v.fs, it, k + 1, j).kind \in {"set", "free"}
    BY <1>5, <1>7 DEF SlotAt, Slot
  <2>. QED BY <1>3, <1>5, <2>1
<1>9. h = Piece(it, k + 1, j) /\ j <= it.parts
  <2>1. CASE it.kind = "orphan"
    <3>1. LengthOf(v.fs, it) = it.parts
      BY <2>1 DEF LengthOf
    <3>. QED BY <1>3, <1>6, <2>1, <3>1 DEF SlotAt
  <2>2. CASE it.kind # "orphan"
    <3>1. LengthOf(v.fs, it) = it.parts + 1
      BY <1>7, <1>8, <2>2 DEF LengthOf
    <3>2. SlotAt(v.fs, it, k + 1, j) = IF j = it.parts + 1 THEN Slot("short", 0, k + 1) ELSE Piece(it, k + 1, j)
      BY <1>5, <1>7, <1>8, <2>2 DEF SlotAt
    <3>3. j # it.parts + 1
      <4>1. Slot("short", 0, k + 1).kind = "short"
        BY DEF Slot
      <4>. QED BY <1>3, <3>2, <4>1
    <3>. HIDE DEF j, it
    <3>4. j <= it.parts
      BY <1>5, <1>6, <3>1, <3>3
    <3>. QED BY <1>3, <3>2, <3>3, <3>4
  <2>. QED BY <2>1, <2>2
<1>10. /\ h.kind = (IF j = 1 THEN "last" ELSE "piece") /\ h.n = (it.parts + 1) - j /\ h.item = k + 1
       /\ h.n \in Nat /\ h.item \in Nat
  <2>1. /\ h.kind = (IF j = 1 THEN "last" ELSE "piece") /\ h.n = (it.parts + 1) - j /\ h.item = k + 1
    BY <1>9 DEF Piece, Slot
  <2>2. (it.parts + 1) - j \in Nat /\ k + 1 \in Nat
    <3>. HIDE DEF j, it, n
    <3>. QED BY <1>4, <1>5, <1>6, <1>9
  <2>. QED BY <2>1, <2>2
<1>. HIDE DEF h
<1>11. /\ h.kind = "last" => l1.len = h.n /\ l1.of = h.item /\ l1.seq = h.n - 1
       /\ h.kind # "last" /\ h.n = l.seq /\ h.item = l.of =>
            l1.len = l.len /\ l1.of = l.of /\ l1.seq = l.seq - 1
  BY <1>10, PieceDue
<1>. HIDE DEF l1
<1>12. l1.len = it.parts /\ l1.of = k + 1 /\ l1.seq = it.parts - j
  <2>1. CASE j = 1
    <3>1. l1.len = (it.parts + 1) - 1 /\ l1.of = k + 1 /\ l1.seq = ((it.parts + 1) - 1) - 1
      BY <1>10, <1>11, <2>1
    <3>. HIDE DEF it, j
    <3>. QED BY <1>5, <2>1, <3>1
  <2>2. CASE j # 1
    <3>1. m - u # 0 /\ m - u = j - 1
      BY <1>1, <1>3, <2>2
    <3>2. l.len = it.parts /\ l.of = k + 1 /\ l.seq = it.parts - (j - 1)
      <4>1. NameAt(v.fs, ItemsOf(v, d), k, j - 1, l) /\ j - 1 # 0
        BY <1>3, <3>1
      <4>. HIDE DEF j
      <4>. QED BY <1>7, <4>1 DEF NameAt
    <3>3. it.parts - (j - 1) = (it.parts + 1) - j /\ (it.parts - (j - 1)) - 1 = it.parts - j
      <4>. HIDE DEF it, j
      <4>. QED BY <1>5, <1>6
    <3>4. h.kind # "last" /\ h.n = l.seq /\ h.item = l.of
      BY <1>10, <2>2, <3>2, <3>3
    <3>. QED BY <1>11, <3>2, <3>3, <3>4
  <2>. QED BY <2>1, <2>2
<1>13. m + 1 < Upto(v, d, k + 1) => NameAt(v.fs, ItemsOf(v, d), k, (m + 1) - u, l1)
  <2>1. j # 0
    BY <1>6
  <2>. HIDE DEF j
  <2>2. NameAt(v.fs, ItemsOf(v, d), k, j, l1)
    BY <1>7, <1>8, <1>12, <2>1 DEF NameAt
  <2>. QED BY <2>2 DEF j
<1>14. m + 1 = Upto(v, d, k + 1) => it.kind = "orphan"
  <2>1. SUFFICES ASSUME m + 1 = Upto(v, d, k + 1), it.kind # "orphan" PROVE FALSE
    OBVIOUS
  <2>2. LengthOf(v.fs, it) = it.parts + 1
    BY <1>7, <1>8, <2>1 DEF LengthOf
  <2>3. m + 1 = u + (it.parts + 1)
    BY <1>4, <2>1, <2>2
  <2>4. (m + 1) - u <= it.parts
    BY <1>9
  <2>. HIDE DEF m, u, it, j
  <2>. QED BY <1>1, <1>5, <2>3, <2>4
<1>15. m + 1 = Upto(v, d, k + 1) => NameAt(v.fs, ItemsOf(v, d), k + 1, 0, l1)
  <2>1. k + 1 > 0
    BY <1>1, <1>4
  <2>. QED BY <1>8, <1>14, <2>1 DEF NameAt
<1>. HIDE DEF m, u, it, n
<1>16. \/ Stands(v, d, k, r, b, p + 1, c, l1)
       \/ m + 1 = Upto(v, d, k + 1) /\ Stands(v, d, k + 1, r, b, p + 1, c, l1)
  BY <1>2, <1>13, <1>15, OneOn DEF m, u, n
<1>. QED BY <1>1, <1>3, <1>14, <1>16 DEF n, it, h, l1

\* A complete set or a short entry: the last slots of an item in use.  A long
\* name at hand is its own.
LEMMA AtItsEntry ==
  ASSUME NEW v, NEW d, InDir(v, d), NEW k, NEW r, NEW b, NEW p, NEW c, NEW l \in Names,
         Stands(v, d, k, r, b, p, c, l), p <= Len(b), b[p].kind \in {"set", "short"}
  PROVE  LET m == Place(r, b, p, c)
             items == ItemsOf(v, d)
         IN  /\ k \in 0..Len(items) /\ k < Len(items) /\ c = <<>>
             /\ b[p].item = k + 1 /\ b[p].n \in Nat
             /\ m \in Nat /\ m = (r - (Len(b) + 1)) + p /\ m + (1 + b[p].n) = Upto(v, d, k + 1)
             /\ items[k + 1].kind \in {"file", "dir", "dots", "broken"}
             /\ b[p].kind = "set" => /\ v.fs = "exfat" /\ b[p].n = items[k + 1].parts + 1
                                     /\ m = Upto(v, d, k) /\ l.len = 0
             /\ b[p].kind = "short" => v.fs = "fat32" /\ b[p].n = 0
             /\ NamesOwn(v) /\ l.len > 0 => l.of = k + 1
<1>. DEFINE m == Place(r, b, p, c)
            u == Upto(v, d, k)
            items == ItemsOf(v, d)
            it == items[k + 1]
            n == Len(items)
            h == b[p]
            j == (m + 1) - u
<1>1. /\ c = <<>> /\ m \in Nat /\ m = (r - (Len(b) + 1)) + p /\ u \in Nat /\ k \in 0..n
      /\ k = n => h = EndSlot
      /\ k # n => /\ k < n /\ u <= m /\ m < u + LengthOf(v.fs, it)
                  /\ h = SlotAt(v.fs, it, k + 1, j)
                  /\ NameAt(v.fs, items, k, m - u, l)
  BY Looking
<1>2. k # n
  <2>1. EndSlot.kind = "end"
    BY DEF EndSlot, Slot
  <2>. QED BY <1>1, <2>1
<1>3. /\ k < n /\ u <= m /\ h = SlotAt(v.fs, it, k + 1, j)
      /\ m < u + LengthOf(v.fs, it) /\ NameAt(v.fs, items, k, m - u, l)
  BY <1>1, <1>2
<1>4. /\ k \in Nat /\ k + 1 \in 1..n /\ Upto(v, d, k + 1) = u + LengthOf(v.fs, it) /\ LengthOf(v.fs, it) \in Nat
  BY <1>1, <1>3, NextItem
<1>5. /\ v.fs \in {"exfat", "fat32"} /\ it.parts \in Nat
      /\ it.kind \in {"file", "dir", "dots", "gone", "other", "broken", "orphan"}
      /\ DOMAIN items = 1..n
  BY <1>4, ItemFacts, DirFacts
<1>6. it.kind \in {"file", "dir", "dots", "broken"}
  <2>1. it.kind \in {"gone", "other", "orphan"} => SlotAt(v.fs, it, k + 1, j).kind \in {"free", "label", "last", "piece"}
    BY DEF SlotAt, Slot, Piece
  <2>. QED BY <1>3, <1>5, <2>1
<1>7. l.len \in Nat
  BY DEF Names
<1>8. CASE v.fs = "exfat"
  <2>1. j = 1 /\ h = Slot("set", it.parts + 1, k + 1)
    <3>1. SlotAt(v.fs, it, k + 1, j) = IF j = 1 THEN Slot("set", it.parts + 1, k + 1) ELSE Slot("free", 0, k + 1)
      BY <1>6, <1>8 DEF SlotAt
    <3>2. Slot("free", 0, k + 1).kind = "free"
      BY DEF Slot
    <3>. HIDE DEF j
    <3>. QED BY <1>3, <3>1, <3>2
  <2>2. h.kind = "set" /\ h.n = it.parts + 1 /\ h.item = k + 1
    BY <2>1 DEF Slot
  <2>3. m = u /\ m - u = 0
    BY <1>1, <2>1
  <2>4. LengthOf(v.fs, it) = it.parts + 2
    BY <1>6, <1>8 DEF LengthOf
  <2>5. ~(l.len > 0)
    <3>1. NameAt(v.fs, items, k, 0, l)
      BY <1>3, <2>3
    <3>. QED BY <1>8, <3>1 DEF NameAt
  <2>6. m + (1 + h.n) = Upto(v, d, k + 1) /\ h.n \in Nat
    <3>. DEFINE w == Upto(v, d, k + 1)
                y == LengthOf(v.fs, it)
                x == it.parts
                z == h.n
    <3>1. m \in Nat /\ u \in Nat /\ w = u + y /\ y = x + 2 /\ z = x + 1 /\ x \in Nat /\ m = u
      BY <1>1, <1>4, <1>5, <2>2, <2>3, <2>4
    <3>. HIDE DEF m, u, w, x, y, z
    <3>2. m + (1 + z) = w /\ z \in Nat
      BY <3>1
    <3>. QED BY <3>2 DEF z, w
  <2>7. l.len = 0
    BY <1>7, <2>5
  <2>. HIDE DEF m, u, it, n, h, items
  <2>8. h.kind # "short"
    BY <2>2
  <2>. QED BY <1>1, <1>3, <1>6, <1>8, <2>2, <2>3, <2>5, <2>6, <2>7, <2>8 DEF m, u, it, n, h, items
<1>9. CASE v.fs = "fat32"
  <2>1. j = it.parts + 1 /\ h = Slot("short", 0, k + 1)
    <3>1. SlotAt(v.fs, it, k + 1, j) = IF j = it.parts + 1 THEN Slot("short", 0, k + 1) ELSE Piece(it, k + 1, j)
      BY <1>6, <1>9 DEF SlotAt
    <3>2. Piece(it, k + 1, j).kind \in {"last", "piece"}
      BY DEF Slot, Piece
    <3>. HIDE DEF j
    <3>. QED BY <1>3, <3>1, <3>2
  <2>2. h.kind = "short" /\ h.n = 0 /\ h.item = k + 1
    BY <2>1 DEF Slot
  <2>4. LengthOf(v.fs, it) = it.parts + 1
    BY <1>6, <1>9 DEF LengthOf
  <2>3. m - u = it.parts /\ m + 1 = Upto(v, d, k + 1)
    <3>1. (m + 1) - u = it.parts + 1
      BY <2>1
    <3>. DEFINE w == Upto(v, d, k + 1)
                y == LengthOf(v.fs, it)
                x == it.parts
    <3>2. m \in Nat /\ u \in Nat /\ w = u + y /\ y = x + 1 /\ x \in Nat /\ (m + 1) - u = x + 1
      BY <1>1, <1>4, <1>5, <2>4, <3>1
    <3>. HIDE DEF m, u, w, x, y
    <3>3. m - u = x /\ m + 1 = w
      BY <3>2
    <3>. QED BY <3>3 DEF x, w
  <2>5. NamesOwn(v) /\ l.len > 0 => l.of = k + 1
    <3>1. SUFFICES ASSUME NamesOwn(v), l.len > 0 PROVE l.of = k + 1
      OBVIOUS
    <3>2. NameAt(v.fs, items, k, it.parts, l)
      BY <1>3, <2>3
    <3>3. CASE it.parts # 0
      BY <1>6, <3>2, <3>3 DEF NameAt
    <3>4. CASE it.parts = 0
      <4>1. k > 0 /\ items[k].kind = "orphan"
        <5>1. NameAt(v.fs, items, k, 0, l)
          BY <3>2, <3>4
        <5>. QED BY <3>1, <5>1 DEF NameAt
      <4>2. k \in DOMAIN items /\ k < n
        BY <1>3, <1>4, <1>5, <4>1
      <4>3. items[k + 1].parts > 0
        <5>1. d \in DOMAIN v.dirs /\ items = v.dirs[d].items
          BY DEF InDir, ItemsOf
        <5>. QED BY <3>1, <4>1, <4>2, <5>1 DEF NamesOwn
      <4>. QED BY <3>4, <4>3
    <3>. QED BY <3>3, <3>4
  <2>6. m + (1 + h.n) = Upto(v, d, k + 1) /\ h.n \in Nat
    BY <1>1, <2>2, <2>3
  <2>. HIDE DEF m, u, it, n, h, items
  <2>8. h.kind # "set"
    BY <2>2
  <2>. QED BY <1>1, <1>3, <1>6, <1>9, <2>2, <2>3, <2>5, <2>6, <2>8 DEF m, u, it, n, h, items
<1>. QED BY <1>5, <1>8, <1>9

\* The call goes on behind the entry.
LEMMA PassStep ==
  ASSUME NEW v, NEW d, InDir(v, d), NEW k, NEW r, NEW b, NEW p, NEW c, NEW l \in Names,
         Stands(v, d, k, r, b, p, c, l), p <= Len(b), b[p].kind \in {"set", "short"},
         p + b[p].n <= Len(b), NEW l1, l1.len = 0
  PROVE  Stands(v, d, k + 1, r, b, (p + 1) + b[p].n, c, l1)
<1>. DEFINE h == b[p]
            w == Upto(v, d, k + 1)
            q == (p + 1) + h.n
            n == Len(ItemsOf(v, d))
            m == Place(r, b, p, c)
<1>1. /\ k \in 0..n /\ k < n /\ c = <<>> /\ h.n \in Nat
      /\ m = (r - (Len(b) + 1)) + p /\ m + (1 + h.n) = w
  BY AtItsEntry
<1>2. r \in Nat /\ Len(b) \in Nat /\ p \in Nat /\ p + h.n <= Len(b)
  BY DEF Stands, Streams
<1>3. /\ k + 1 \in 0..n /\ w \in Nat
      /\ k + 1 < n => w < Upto(v, d, (k + 1) + 1)
  BY <1>1, NextItem
<1>. HIDE DEF h, w, m, n
<1>4. q \in Nat /\ p <= q /\ q <= Len(b) + 1 /\ (r - (Len(b) + 1)) + q = w
  <2>. DEFINE y == Len(b)
              x == h.n
  <2>1. y \in Nat /\ x \in Nat /\ p + x <= y /\ m = (r - (y + 1)) + p /\ m + (1 + x) = w
    BY <1>1, <1>2
  <2>. HIDE DEF y, x
  <2>2. /\ (p + 1) + x \in Nat /\ p <= (p + 1) + x /\ (p + 1) + x <= y + 1
        /\ (r - (y + 1)) + ((p + 1) + x) = w
    BY <1>2, <2>1
  <2>. QED BY <2>2 DEF x, y
<1>5. Streams(v, d, r, b, p, <<>>)
  BY <1>1 DEF Stands
<1>6. InItem(v, d, k + 1, w, l1)
  <2>1. w - Upto(v, d, k + 1) = 0 /\ Upto(v, d, k + 1) <= w
    BY <1>3 DEF w
  <2>2. NameAt(v.fs, ItemsOf(v, d), k + 1, 0, l1)
    BY DEF NameAt
  <2>. QED BY <1>3, <2>1, <2>2 DEF InItem, n
<1>. HIDE DEF q
<1>7. Stands(v, d, k + 1, r, b, q, <<>>, l1)
  BY <1>4, <1>5, <1>6, Advance
<1>. QED BY <1>1, <1>7 DEF q, h

\* A set that goes on in the next sector is carried over in full.
LEMMA CarryStep ==
  ASSUME NEW v, NEW d, InDir(v, d), NEW k, NEW r, NEW b, NEW p, NEW c, NEW l \in Names,
         Stands(v, d, k, r, b, p, c, l), p <= Len(b), b[p].kind = "set",
         ~(p + b[p].n <= Len(b))
  PROVE  Stands(v, d, k, r, b, Len(b) + 1, Keep(SubSeq(b, p, Len(b))), l)
<1>. DEFINE u == Upto(v, d, k)
            w == Upto(v, d, k + 1)
            N == Len(ItemsOf(v, d))
            x == b[p].n
            rest == SubSeq(b, p, Len(b))
            m == Place(r, b, p, c)
<1>1. /\ k \in 0..N /\ k < N /\ c = <<>> /\ x \in Nat
      /\ m = (r - (Len(b) + 1)) + p /\ m + (1 + x) = w /\ m = u
      /\ v.fs = "exfat" /\ x = ItemsOf(v, d)[k + 1].parts + 1
  BY AtItsEntry
<1>2. /\ r \in Nat /\ Len(b) \in Nat /\ p \in 1..Len(b) /\ b \in Seq(AnySlot) /\ Len(b) <= r
      /\ \A q \in 1..Len(b) : b[q] = At(v, d, (r - Len(b)) + q)
  BY DEF Stands, Streams
<1>3. /\ k + 1 \in 1..N /\ u \in Nat /\ w \in Nat
  BY <1>1, NextItem
<1>4. x + 1 <= CarryEntries /\ CarryEntries \in Nat
  <2>. DEFINE i == ItemsOf(v, d)[k + 1].parts
  <2>1. i \in Nat /\ i + 2 <= CarryEntries /\ CarryEntries \in Nat /\ x = i + 1
    BY <1>1, <1>3, ItemFacts, DirFacts
  <2>. HIDE DEF i, x
  <2>. QED BY <2>1
<1>5. /\ rest \in Seq(AnySlot) /\ Len(rest) = (Len(b) + 1) - p
      /\ \A q \in 1..Len(rest) : rest[q] = b[(p + q) - 1]
  BY <1>2
<1>6. ~(p + x <= Len(b))
  OBVIOUS
<1>. HIDE DEF x
<1>7. Len(rest) <= CarryEntries /\ Len(rest) <= x
  <2>. DEFINE y == Len(b)
  <2>1. y \in Nat /\ p \in Nat /\ ~(p + x <= y) /\ Len(rest) = (y + 1) - p
    BY <1>2, <1>5, <1>6
  <2>. HIDE DEF y, rest
  <2>. QED BY <1>1, <1>4, <2>1
<1>8. Keep(rest) = rest
  BY <1>7 DEF Keep
<1>. HIDE DEF rest
<1>9. Place(r, b, Len(b) + 1, rest) = u
  BY <1>1, <1>2, <1>5 DEF Place
<1>10. r < w
  <2>. DEFINE y == Len(b)
  <2>1. /\ y \in Nat /\ p \in Nat /\ ~(p + x <= y) /\ r \in Nat /\ m = (r - (y + 1)) + p /\ m + (1 + x) = w
    BY <1>1, <1>2, <1>6
  <2>. HIDE DEF y, m, w
  <2>. QED BY <1>1, <2>1
<1>11. InItem(v, d, k, u, l)
  <2>1. InItem(v, d, k, m, l)
    BY DEF Stands
  <2>2. m = u
    BY <1>1
  <2>. QED BY <2>1, <2>2
<1>12. ASSUME NEW q \in 1..Len(rest) PROVE rest[q] = At(v, d, (r - Len(rest)) + q)
  <2>1. (p + q) - 1 \in 1..Len(b) /\ (r - Len(b)) + ((p + q) - 1) = (r - Len(rest)) + q
    BY <1>2, <1>5
  <2>. QED BY <1>2, <1>5, <2>1
<1>13. Len(rest) <= r /\ Len(b) + 1 \in 1..Len(b) + 1
  BY <1>2, <1>5
<1>14. Streams(v, d, r, b, Len(b) + 1, rest)
  BY <1>2, <1>5, <1>12, <1>13 DEF Streams
<1>. HIDE DEF u, w, N
<1>15. Stands(v, d, k, r, b, Len(b) + 1, rest, l)
  BY <1>1, <1>9, <1>10, <1>11, <1>14 DEF Stands, N, w
<1>. QED BY <1>8, <1>15 DEF rest

\* At the end of the directory all its items have been dealt with.
LEMMA AtEnd ==
  ASSUME NEW v, NEW d, InDir(v, d), NEW k, NEW r, NEW b, NEW p, NEW c, NEW l,
         Stands(v, d, k, r, b, p, c, l),
         \/ p <= Len(b) /\ b[p].kind = "end"
         \/ ~(p <= Len(b)) /\ r >= Len(Slots(v, d))
  PROVE  k = Len(ItemsOf(v, d))
<1>. DEFINE N == Len(ItemsOf(v, d))
<1>1. SUFFICES ASSUME k # N PROVE FALSE
  OBVIOUS
<1>2. k \in 0..N /\ N \in Nat /\ k < N /\ k + 1 \in 1..N
  BY <1>1, DirFacts DEF Stands, InItem
<1>3. CASE p <= Len(b) /\ b[p].kind = "end"
  <2>. DEFINE it == ItemsOf(v, d)[k + 1]
              j == (Place(r, b, p, c) + 1) - Upto(v, d, k)
  <2>1. b[p] = SlotAt(v.fs, it, k + 1, j)
    BY <1>1, <1>3, Looking
  <2>2. it.kind \in {"file", "dir", "dots", "gone", "other", "broken", "orphan"}
    BY <1>2, ItemFacts
  <2>. HIDE DEF it, j
  <2>3. SlotAt(v.fs, it, k + 1, j).kind # "end"
    BY <2>2 DEF SlotAt, Slot, Piece
  <2>. QED BY <1>3, <2>1, <2>3
<1>4. CASE ~(p <= Len(b)) /\ r >= Len(Slots(v, d))
  <2>1. /\ r \in Nat /\ p = Len(b) + 1 /\ Len(b) \in Nat /\ c \in Seq(AnySlot)
    BY <1>4 DEF Stands, Streams
  <2>2. /\ Upto(v, d, k + 1) \in Nat /\ Upto(v, d, k + 1) <= Len(Slots(v, d))
        /\ Len(Slots(v, d)) \in Nat
    BY <1>2, PartsFacts
  <2>3. ~(r < Upto(v, d, k + 1))
    BY <1>4, <2>1, <2>2
  <2>4. c = <<>>
    BY <2>3 DEF Stands
  <2>5. Place(r, b, p, c) = r
    <3>1. Len(c) = 0
      BY <2>4
    <3>. QED BY <2>1, <3>1 DEF Place
  <2>6. Place(r, b, p, c) < Upto(v, d, k + 1)
    BY <1>2 DEF Stands, InItem
  <2>. QED BY <2>3, <2>5, <2>6
<1>. QED BY <1>3, <1>4

-----------------------------------------------------------------------------
(* Sequences put together.                                                 *)

LEMMA Associates ==
  ASSUME NEW T, NEW a \in Seq(T), NEW b \in Seq(T), NEW c \in Seq(T)
  PROVE  (a \o b) \o c = a \o (b \o c)
OBVIOUS

LEMMA EmptyAround == ASSUME NEW T, NEW a \in Seq(T) PROVE a \o <<>> = a /\ <<>> \o a = a
OBVIOUS

LEMMA FlattenNothing == FlattenSeq(<<>>) = <<>>
<1>1. <<>> \in Seq(Seq({})) /\ Len(<<>>) = 0
  OBVIOUS
<1>2. PICK f \in [0..Len(<<>>) -> Seq({})] : f[0] = <<>> /\ FlattenSeq(<<>>) = f[Len(<<>>)]
  BY <1>1, Unfolded
<1>. QED BY <1>1, <1>2

LEMMA FlattenCons ==
  ASSUME NEW T, NEW x \in Seq(T), NEW ss \in Seq(Seq(T))
  PROVE  FlattenSeq(<<x>> \o ss) = x \o FlattenSeq(ss)
<1>. DEFINE U == Seq(T)
            P == {s \in Seq(U) : FlattenSeq(<<x>> \o s) = x \o FlattenSeq(s)}
<1>1. \A s \in Seq(U) : FlattenSeq(s) \in Seq(T)
  BY Flattened
<1>2. <<>> \in P
  <2>. HIDE DEF U
  <2>1. <<>> \in Seq(U) /\ <<x>> \o <<>> = Append(<<>>, x)
    BY DEF U
  <2>2. FlattenSeq(Append(<<>>, x)) = FlattenSeq(<<>>) \o x
    BY <2>1, FlattenAppend DEF U
  <2>3. <<>> \o x = x /\ x \o <<>> = x
    BY EmptyAround
  <2>4. FlattenSeq(<<x>> \o <<>>) = x \o FlattenSeq(<<>>)
    BY <2>1, <2>2, <2>3, FlattenNothing
  <2>. QED BY <2>1, <2>4
<1>3. ASSUME NEW s \in Seq(U), NEW y \in U, s \in P PROVE Append(s, y) \in P
  <2>. DEFINE xs == <<x>> \o s
              z == FlattenSeq(s)
  <2>1. x \in U /\ y \in Seq(T)
    OBVIOUS
  <2>2. FlattenSeq(xs) = x \o z /\ z \in Seq(T)
    BY <1>1, <1>3
  <2>3. xs \in Seq(U) /\ <<x>> \o Append(s, y) = Append(xs, y) /\ Append(s, y) \in Seq(U)
    <3>. HIDE DEF U
    <3>. QED BY <2>1
  <2>. HIDE DEF xs, z
  <2>4. FlattenSeq(Append(xs, y)) = FlattenSeq(xs) \o y
    BY <2>1, <2>3, FlattenAppend
  <2>5. FlattenSeq(Append(s, y)) = z \o y
    BY <2>1, FlattenAppend DEF z
  <2>6. (x \o z) \o y = x \o (z \o y)
    BY <2>1, <2>2, Associates
  <2>. QED BY <2>2, <2>3, <2>4, <2>5, <2>6
<1>4. Seq(U) \subseteq P
  <2>1. \A s \in Seq(U), y \in U : s \in P => Append(s, y) \in P
    BY <1>3
  <2>. HIDE DEF U, P
  <2>. QED BY <1>2, <2>1, AllSequences
<1>. QED BY <1>4

\* What remains of some sequences put together, from the k-th on.
Remaining(ss, k) == FlattenSeq(SubSeq(ss, k + 1, Len(ss)))

LEMMA RemainingFacts ==
  ASSUME NEW T, NEW ss \in Seq(Seq(T))
  PROVE  /\ Remaining(ss, 0) = FlattenSeq(ss) /\ Remaining(ss, Len(ss)) = <<>>
         /\ \A k \in 0..Len(ss) : Remaining(ss, k) \in Seq(T)
         /\ \A k \in 0..Len(ss) : k # Len(ss) => Remaining(ss, k) = ss[k + 1] \o Remaining(ss, k + 1)
<1>. DEFINE U == Seq(T)
            n == Len(ss)
            From(k) == SubSeq(ss, k + 1, n)
<1>1. n \in Nat /\ ss \in Seq(U) /\ n = Len(ss)
  OBVIOUS
<1>. HIDE DEF U, n
<1>2. \A k \in 0..n : From(k) \in Seq(U)
  <2>1. ASSUME NEW k \in 0..n PROVE From(k) \in Seq(U)
    <3>1. \A i \in k + 1..n : ss[i] \in U
      BY <1>1
    <3>. QED BY <1>1, <3>1
  <2>. QED BY <2>1
<1>3. From(0) = ss /\ From(n) = <<>>
  BY <1>1
<1>4. ASSUME NEW k \in 0..n, k # n PROVE From(k) = <<ss[k + 1]>> \o From(k + 1) /\ ss[k + 1] \in U /\ k + 1 \in 0..n
  <2>1. k + 1 \in 0..n /\ k + 1 \in 1..n
    BY <1>1, <1>4
  <2>2. ss[k + 1] \in U
    BY <1>1, <2>1
  <2>3. From(k) = <<ss[k + 1]>> \o From(k + 1)
    <3>. DEFINE a == From(k)
                b == <<ss[k + 1]>> \o From(k + 1)
    <3>0. a \in Seq(U) /\ From(k + 1) \in Seq(U)
      BY <1>2, <2>1
    <3>1. Len(a) = n - k /\ \A i \in 1..n - k : a[i] = ss[k + i]
      BY <1>1
    <3>2. Len(From(k + 1)) = (n - k) - 1 /\ \A i \in 1..(n - k) - 1 : From(k + 1)[i] = ss[(k + 1) + i]
      BY <1>1, <2>1
    <3>3. b \in Seq(U) /\ Len(b) = n - k
      <4>. DEFINE c == From(k + 1)
      <4>1. c \in Seq(U) /\ Len(c) = (n - k) - 1
        BY <3>0, <3>2
      <4>. HIDE DEF c
      <4>. QED BY <1>1, <2>2, <4>1 DEF c
    <3>4. ASSUME NEW i \in 1..n - k PROVE b[i] = ss[k + i]
      <4>. DEFINE c == From(k + 1)
      <4>1. c \in Seq(U) /\ Len(c) = (n - k) - 1 /\ \A m \in 1..(n - k) - 1 : c[m] = ss[(k + 1) + m]
        BY <3>0, <3>2
      <4>. HIDE DEF c
      <4>2. CASE i = 1
        BY <2>2, <4>1, <4>2 DEF c
      <4>3. CASE i # 1
        <5>1. i - 1 \in 1..(n - k) - 1 /\ (k + 1) + (i - 1) = k + i
          BY <1>1, <4>3
        <5>2. (<<ss[k + 1]>> \o c)[i] = c[i - 1]
          BY <1>1, <2>2, <4>1, <4>3
        <5>. QED BY <4>1, <5>1, <5>2 DEF c
      <4>. QED BY <4>2, <4>3
    <3>. HIDE DEF a, b
    <3>5. a = b
      BY <3>0, <3>1, <3>3, <3>4
    <3>. QED BY <3>5 DEF a, b
  <2>. QED BY <2>1, <2>2, <2>3
<1>. HIDE DEF From
<1>5. \A k : Remaining(ss, k) = FlattenSeq(From(k))
  BY DEF Remaining, From, n
<1>6. \A k \in 0..n : FlattenSeq(From(k)) \in Seq(T)
  BY <1>2, Flattened DEF U
<1>7. ASSUME NEW k \in 0..n, k # n PROVE FlattenSeq(From(k)) = ss[k + 1] \o FlattenSeq(From(k + 1))
  <2>1. From(k + 1) \in Seq(Seq(T)) /\ ss[k + 1] \in Seq(T) /\ From(k) = <<ss[k + 1]>> \o From(k + 1)
    BY <1>2, <1>4, <1>7 DEF U
  <2>. QED BY <2>1, FlattenCons
<1>. QED BY <1>1, <1>3, <1>5, <1>6, <1>7, FlattenNothing

-----------------------------------------------------------------------------
(* What a search is to find, level by level.                               *)

AFile == [path : Paths, item : Nat, type : STRING]

\* What the items of a directory add to the list, the levels above B known.
Shares(v, d, p, B) == [i \in DOMAIN ItemsOf(v, d) |-> Added(ItemsOf(v, d)[i], i, p, B)]

Levels(v) == [DOMAIN v.dirs -> [Paths -> Seq(AFile)]]

LevelOn(v, B) == [d \in DOMAIN v.dirs |-> [p \in Paths |-> FlattenSeq(Shares(v, d, p, B))]]

LEMMA FilesAssociate == \A a, b, c \in Seq(AFile) : (a \o b) \o c = a \o (b \o c)
BY Associates

LEMMA JoinTyped ==
  ASSUME NEW p \in Paths, NEW i \in Nat, NEW bytes \in Nat
  PROVE  Join(p, i, bytes) \in Paths
<1>1. MaxPath \in Nat /\ p.len \in Nat /\ p.slashes \in Nat /\ p.trail \in Seq(Nat)
  BY ScanAssumption DEF Paths
<1>. DEFINE slash == IF p.len > 1 /\ p.len < MaxPath THEN 1 ELSE 0
            n == (p.len + slash) + bytes
<1>2. slash \in Nat /\ n \in Nat
  BY <1>1
<1>. HIDE DEF slash
<1>3. Min({n, MaxPath}) \in Nat
  <2>. HIDE DEF n
  <2>. QED BY <1>1, <1>2, MinOfTwo
<1>4. Join(p, i, bytes) = [trail |-> Append(p.trail, i), len |-> Min({n, MaxPath}), slashes |-> p.slashes + slash]
  BY DEF Join, slash
<1>5. Append(p.trail, i) \in Seq(Nat) /\ p.slashes + slash \in Nat
  BY <1>1, <1>2
<1>. HIDE DEF n
<1>. QED BY <1>3, <1>4, <1>5 DEF Paths

LEMMA AddedTyped ==
  ASSUME NEW v, NEW d, InDir(v, d), NEW i \in 1..Len(ItemsOf(v, d)), NEW p \in Paths, NEW B \in Levels(v)
  PROVE  Added(ItemsOf(v, d)[i], i, p, B) \in Seq(AFile)
<1>. DEFINE it == ItemsOf(v, d)[i]
            q == Join(p, i, it.bytes)
            one == [path |-> q, item |-> i, type |-> it.name]
<1>1. it \in AnItem /\ i \in Nat /\ (it.kind = "dir" => it.sub \in DOMAIN v.dirs)
  BY ItemFacts, DirFacts
<1>2. q \in Paths
  BY <1>1, JoinTyped DEF AnItem
<1>3. it.name \in STRING
  BY <1>1 DEF AnItem
<1>. HIDE DEF q, it
<1>4. one \in AFile
  BY <1>1, <1>2, <1>3 DEF AFile
<1>. HIDE DEF one
<1>5. <<one>> \in Seq(AFile) /\ <<>> \in Seq(AFile)
  BY <1>4
<1>6. it.kind = "dir" => B[it.sub][q] \in Seq(AFile)
  BY <1>1, <1>2 DEF Levels
<1>7. Added(it, i, p, B) = CASE it.kind = "dir" /\ p.slashes < MaxDepth -> B[it.sub][q]
                             [] it.kind = "file" /\ it.name \in Payloads -> <<one>>
                             [] OTHER -> <<>>
  BY DEF Added, q, one
<1>8. Added(it, i, p, B) \in Seq(AFile)
  BY <1>5, <1>6, <1>7
<1>. QED BY <1>8 DEF it

LEMMA SharesTyped ==
  ASSUME NEW v, NEW d, InDir(v, d), NEW p \in Paths, NEW B \in Levels(v)
  PROVE  /\ Shares(v, d, p, B) \in Seq(Seq(AFile))
         /\ Len(Shares(v, d, p, B)) = Len(ItemsOf(v, d))
         /\ \A i \in 1..Len(ItemsOf(v, d)) : Shares(v, d, p, B)[i] = Added(ItemsOf(v, d)[i], i, p, B)
<1>. DEFINE n == Len(ItemsOf(v, d))
            f == Shares(v, d, p, B)
<1>1. n \in Nat /\ DOMAIN ItemsOf(v, d) = 1..n
  BY DirFacts
<1>2. \A i \in 1..n : Added(ItemsOf(v, d)[i], i, p, B) \in Seq(AFile)
  BY AddedTyped
<1>3. f = [i \in 1..n |-> Added(ItemsOf(v, d)[i], i, p, B)]
  BY <1>1 DEF Shares
<1>. HIDE DEF n, f
<1>4. f \in Seq(Seq(AFile)) /\ Len(f) = n /\ \A i \in 1..n : f[i] = Added(ItemsOf(v, d)[i], i, p, B)
  BY <1>1, <1>2, <1>3
<1>. QED BY <1>4 DEF f, n

LEMMA LevelTyped ==
  ASSUME NEW v, IsVolume(v), NEW B \in Levels(v)
  PROVE  LevelOn(v, B) \in Levels(v)
<1>1. \A d \in DOMAIN v.dirs, p \in Paths : Shares(v, d, p, B) \in Seq(Seq(AFile))
  BY SharesTyped DEF InDir
<1>2. \A d \in DOMAIN v.dirs, p \in Paths : FlattenSeq(Shares(v, d, p, B)) \in Seq(AFile)
  BY <1>1, Flattened
<1>. QED BY <1>2 DEF LevelOn, Levels

LEMMA ListingDefined ==
  ASSUME NEW v, IsVolume(v)
  PROVE  /\ Listing(v) \in [0..MaxCalls -> Levels(v)]
         /\ \A d \in DOMAIN v.dirs, p \in Paths : Listing(v)[0][d][p] = <<>>
         /\ \A n \in 1..MaxCalls : Listing(v)[n] = LevelOn(v, Listing(v)[n - 1])
<1>. DEFINE D == DOMAIN v.dirs
            V == Levels(v)
            none == [d \in D |-> [p \in Paths |-> <<>>]]
            step == [i \in 1..MaxCalls |-> [B \in V |-> LevelOn(v, B)]]
            Step(h) == [n \in 0..MaxCalls |->
                          [d \in D |-> [path \in Paths |->
                             IF n = 0 THEN <<>>
                             ELSE LET items == v.dirs[d].items
                                  IN  FlattenSeq([i \in DOMAIN items |-> Added(items[i], i, path, h[n - 1])])]]]
<1>1. MaxCalls \in Nat
  BY ScanAssumption
<1>2. none \in V
  <2>1. <<>> \in Seq(AFile)
    OBVIOUS
  <2>. QED BY <2>1 DEF Levels
<1>3. step \in [1..MaxCalls -> [V -> V]]
  <2>1. \A B \in V : LevelOn(v, B) \in V
    BY LevelTyped
  <2>. HIDE DEF V
  <2>. QED BY <2>1
<1>. HIDE DEF V, none
<1>4. PICK f \in [0..MaxCalls -> V] : f[0] = none /\ \A i \in 1..MaxCalls : f[i] = step[i][f[i - 1]]
  <2>. HIDE DEF step
  <2>1. Obeying(V, none, MaxCalls, step) # {}
    BY <1>1, <1>2, <1>3, Recursion
  <2>. QED BY <2>1 DEF Obeying
<1>5. ASSUME NEW i \in 1..MaxCalls PROVE f[i] = LevelOn(v, f[i - 1])
  <2>1. i - 1 \in 0..MaxCalls
    BY <1>1
  <2>2. f[i - 1] \in V
    BY <1>4, <2>1
  <2>. QED BY <1>4, <2>2
<1>6. ASSUME NEW h PROVE /\ Step(h)[0] = none
                         /\ \A n \in 1..MaxCalls : Step(h)[n] = LevelOn(v, h[n - 1])
                         /\ DOMAIN Step(h) = 0..MaxCalls /\ Step(h) = [n \in DOMAIN Step(h) |-> Step(h)[n]]
  <2>1. Step(h)[0] = none
    BY <1>1 DEF none
  <2>2. ASSUME NEW n \in 1..MaxCalls PROVE Step(h)[n] = LevelOn(v, h[n - 1])
    <3>1. n # 0 /\ n \in 0..MaxCalls
      BY <1>1
    <3>2. Step(h)[n] = [d \in D |-> [path \in Paths |->
                          FlattenSeq([i \in DOMAIN v.dirs[d].items |-> Added(v.dirs[d].items[i], i, path, h[n - 1])])]]
      BY <3>1
    <3>. QED BY <3>2 DEF LevelOn, Shares, ItemsOf
  <2>. QED BY <2>1, <2>2
<1>. HIDE DEF Step
<1>7. f = Step(f)
  <2>1. \A n \in 0..MaxCalls : n = 0 \/ n \in 1..MaxCalls
    BY <1>1
  <2>2. \A n \in 0..MaxCalls : f[n] = Step(f)[n]
    BY <1>4, <1>5, <1>6, <2>1
  <2>. DEFINE g == Step(f)
  <2>3. DOMAIN g = 0..MaxCalls /\ g = [n \in DOMAIN g |-> g[n]] /\ \A n \in 0..MaxCalls : f[n] = g[n]
    BY <1>6, <2>2
  <2>. HIDE DEF g
  <2>4. f = [n \in 0..MaxCalls |-> f[n]]
    BY <1>4
  <2>5. f = g
    BY <2>3, <2>4
  <2>. QED BY <2>5 DEF g
<1>8. Listing(v) = CHOOSE h : h = Step(h)
  BY DEF Listing, Step
<1>. DEFINE L == Listing(v)
<1>. HIDE DEF L
<1>9. L = Step(L)
  BY <1>7, <1>8 DEF L
<1>10. DOMAIN L = 0..MaxCalls /\ L = [n \in DOMAIN L |-> L[n]] /\ L[0] = none
       /\ \A n \in 1..MaxCalls : L[n] = LevelOn(v, L[n - 1])
  BY <1>6, <1>9
<1>11. \A n \in 0..MaxCalls : L[n] \in V
  <2>. DEFINE S == {n \in Nat : n <= MaxCalls => L[n] \in V}
  <2>1. 0 \in S
    BY <1>2, <1>10
  <2>2. ASSUME NEW n \in Nat, n \in S PROVE n + 1 \in S
    <3>1. SUFFICES ASSUME n + 1 <= MaxCalls PROVE L[n + 1] \in V
      OBVIOUS
    <3>2. n + 1 \in 1..MaxCalls /\ (n + 1) - 1 = n /\ n <= MaxCalls
      BY <1>1, <3>1
    <3>3. L[n] \in V
      BY <2>2, <3>2
    <3>4. L[n + 1] = LevelOn(v, L[n])
      BY <1>10, <3>2
    <3>. QED BY <3>3, <3>4, LevelTyped DEF V
  <2>. HIDE DEF S
  <2>3. Nat \subseteq S
    BY <2>1, <2>2, AllNumbers
  <2>. QED BY <1>1, <2>3 DEF S
<1>12. L \in [0..MaxCalls -> V]
  BY <1>10, <1>11
<1>13. \A d \in D, p \in Paths : L[0][d][p] = <<>>
  BY <1>10 DEF none
<1>. QED BY <1>10, <1>12, <1>13 DEF L, V

\* What the items of directory d behind the k-th add, given their levels.
Rest(v, d, p, k, B) == Remaining(Shares(v, d, p, B), k)

LEMMA RestFacts ==
  ASSUME NEW v, NEW d, InDir(v, d), NEW p \in Paths, NEW n \in 1..MaxCalls
  PROVE  LET B == Listing(v)[n - 1]
             N == Len(ItemsOf(v, d))
         IN  /\ Rest(v, d, p, 0, B) = Listing(v)[n][d][p] /\ Rest(v, d, p, N, B) = <<>>
             /\ \A k \in 0..N : Rest(v, d, p, k, B) \in Seq(AFile)
             /\ \A k \in 0..N : k # N =>
                  Rest(v, d, p, k, B) = Added(ItemsOf(v, d)[k + 1], k + 1, p, B) \o Rest(v, d, p, k + 1, B)
             /\ B \in Levels(v)
<1>. DEFINE B == Listing(v)[n - 1]
            N == Len(ItemsOf(v, d))
            ss == Shares(v, d, p, B)
<1>1. MaxCalls \in Nat /\ n - 1 \in 0..MaxCalls /\ N \in Nat
  BY ScanAssumption, DirFacts
<1>2. IsVolume(v) /\ d \in DOMAIN v.dirs
  BY DEF InDir
<1>3. B \in Levels(v) /\ Listing(v)[n] = LevelOn(v, B)
  BY <1>1, <1>2, ListingDefined
<1>4. Listing(v)[n][d][p] = FlattenSeq(ss)
  BY <1>2, <1>3 DEF LevelOn
<1>. HIDE DEF B
<1>5. /\ ss \in Seq(Seq(AFile)) /\ Len(ss) = N
      /\ \A i \in 1..N : ss[i] = Added(ItemsOf(v, d)[i], i, p, B)
  BY <1>3, SharesTyped
<1>6. \A k : Rest(v, d, p, k, B) = Remaining(ss, k)
  BY DEF Rest
<1>7. \A k \in 0..N : k # N => k + 1 \in 1..N
  BY <1>1
<1>. HIDE DEF ss, N
<1>8. /\ Remaining(ss, 0) = FlattenSeq(ss) /\ Remaining(ss, N) = <<>>
      /\ \A k \in 0..N : Remaining(ss, k) \in Seq(AFile)
      /\ \A k \in 0..N : k # N => Remaining(ss, k) = ss[k + 1] \o Remaining(ss, k + 1)
  BY <1>5, RemainingFacts
<1>. QED BY <1>3, <1>4, <1>5, <1>6, <1>7, <1>8 DEF B, N

LEMMA ExpectedIs ==
  ASSUME NEW v, IsVolume(v)
  PROVE  /\ Expected(v) \in Seq(AFile)
         /\ v.dirs # <<>> => Expected(v) = Listing(v)[MaxCalls][1][Root]
<1>1. v.dirs = <<>> => Expected(v) = <<>>
  BY DEF Expected
<1>2. ASSUME v.dirs # <<>> PROVE Expected(v) = Listing(v)[MaxCalls][1][Root] /\ Expected(v) \in Seq(AFile)
  <2>1. 1 \in DOMAIN v.dirs
    BY <1>2, VolumeFacts
  <2>2. Root \in Paths
    BY DEF Root, Paths
  <2>3. MaxCalls \in 0..MaxCalls
    BY ScanAssumption
  <2>4. Listing(v)[MaxCalls] \in Levels(v)
    BY <2>3, ListingDefined
  <2>. QED BY <1>2, <2>1, <2>2, <2>4 DEF Levels, Expected
<1>3. <<>> \in Seq(AFile)
  OBVIOUS
<1>. QED BY <1>1, <1>2, <1>3

-----------------------------------------------------------------------------
(* The list and what has been passed of what is to be listed.              *)

First(n) == IF n <= MaxFiles THEN n ELSE MaxFiles

Exactly(t, a) == Len(t) = First(Len(a)) /\ \A i \in 1..Len(t) : t[i] = a[i]

\* Read errors, and what the loader cannot read, only thin the list out.
Listed(v, t, er, a) == Thinned(t, a) /\ (Regular(v) /\ er = 0 => Exactly(t, a))

LEMMA ThinnedMore ==
  ASSUME NEW T, NEW t \in Seq(T), NEW a \in Seq(T), NEW b \in Seq(T), Thinned(t, a)
  PROVE  Thinned(t, a \o b)
<1>1. PICK at \in [DOMAIN t -> DOMAIN a] :
        /\ \A i, j \in DOMAIN t : i < j => at[i] < at[j]
        /\ \A i \in DOMAIN t : t[i] = a[at[i]]
  BY DEF Thinned
<1>. DEFINE c == a \o b
<1>2. c \in Seq(T) /\ DOMAIN a \subseteq DOMAIN c /\ \A i \in DOMAIN a : c[i] = a[i]
  OBVIOUS
<1>. HIDE DEF c
<1>3. at \in [DOMAIN t -> DOMAIN c] /\ \A i \in DOMAIN t : t[i] = c[at[i]]
  BY <1>1, <1>2
<1>4. Thinned(t, c)
  BY <1>1, <1>3 DEF Thinned
<1>. QED BY <1>4 DEF c

LEMMA ThinnedBoth ==
  ASSUME NEW T, NEW t \in Seq(T), NEW a \in Seq(T), NEW x \in T, Thinned(t, a)
  PROVE  Thinned(Append(t, x), a \o <<x>>)
<1>1. PICK at \in [DOMAIN t -> DOMAIN a] :
        /\ \A i, j \in DOMAIN t : i < j => at[i] < at[j]
        /\ \A i \in DOMAIN t : t[i] = a[at[i]]
  BY DEF Thinned
<1>. DEFINE c == a \o <<x>>
            u == Append(t, x)
            n == Len(t)
            m == Len(a)
            bt == [i \in 1..n + 1 |-> IF i <= n THEN at[i] ELSE m + 1]
<1>2. /\ DOMAIN c = 1..m + 1 /\ m \in Nat /\ c[m + 1] = x
      /\ \A i \in 1..m : c[i] = a[i]
  OBVIOUS
<1>3. /\ DOMAIN u = 1..n + 1 /\ n \in Nat /\ u[n + 1] = x
      /\ \A i \in 1..n : u[i] = t[i]
  OBVIOUS
<1>4. DOMAIN t = 1..n /\ DOMAIN a = 1..m
  OBVIOUS
<1>. HIDE DEF c, u, n, m
<1>5. \A i \in 1..n : at[i] \in 1..m
  BY <1>1, <1>4
<1>6. \A i \in 1..n + 1 : i \in 1..n \/ i = n + 1
  BY <1>3
<1>7. /\ \A i \in 1..n : bt[i] = at[i]
      /\ bt[n + 1] = m + 1
  BY <1>2, <1>3
<1>8. bt \in [DOMAIN u -> DOMAIN c]
  <2>1. \A i \in 1..n + 1 : (IF i <= n THEN at[i] ELSE m + 1) \in 1..m + 1
    BY <1>2, <1>3, <1>5
  <2>. QED BY <1>2, <1>3, <2>1
<1>. HIDE DEF bt
<1>9. ASSUME NEW i \in DOMAIN u, NEW j \in DOMAIN u, i < j PROVE bt[i] < bt[j]
  <2>1. i \in 1..n
    BY <1>3, <1>9
  <2>2. CASE j \in 1..n
    BY <1>1, <1>4, <1>7, <1>9, <2>1, <2>2
  <2>3. CASE j = n + 1
    <3>1. bt[i] \in 1..m /\ bt[j] = m + 1
      BY <1>5, <1>7, <2>1, <2>3
    <3>. QED BY <1>2, <3>1
  <2>. QED BY <1>3, <1>6, <2>2, <2>3
<1>10. ASSUME NEW i \in DOMAIN u PROVE u[i] = c[bt[i]]
  <2>1. CASE i \in 1..n
    <3>1. t[i] = a[at[i]] /\ at[i] \in 1..m
      BY <1>1, <1>4, <1>5, <2>1
    <3>. QED BY <1>2, <1>3, <1>7, <2>1, <3>1
  <2>2. CASE i = n + 1
    BY <1>2, <1>3, <1>7, <2>2
  <2>. QED BY <1>3, <1>6, <2>1, <2>2
<1>11. Thinned(u, c)
  BY <1>8, <1>9, <1>10 DEF Thinned
<1>. QED BY <1>11 DEF u, c

LEMMA ThinnedNothing == \A a : Thinned(<<>>, a)
<1>1. SUFFICES ASSUME NEW a PROVE Thinned(<<>>, a)
  OBVIOUS
<1>. DEFINE at == [i \in DOMAIN <<>> |-> i]
<1>2. DOMAIN <<>> = {}
  OBVIOUS
<1>3. at \in [DOMAIN <<>> -> DOMAIN a]
  BY <1>2
<1>. QED BY <1>2, <1>3 DEF Thinned

LEMMA ExactlyMore ==
  ASSUME NEW T, NEW t \in Seq(T), NEW a \in Seq(T), NEW b \in Seq(T), Exactly(t, a), ~(Len(t) < MaxFiles)
  PROVE  Exactly(t, a \o b)
<1>. DEFINE c == a \o b
<1>1. /\ Len(c) = Len(a) + Len(b) /\ Len(a) \in Nat /\ Len(b) \in Nat /\ Len(t) \in Nat
      /\ \A i \in 1..Len(a) : c[i] = a[i]
  OBVIOUS
<1>2. MaxFiles \in Nat /\ Len(t) = First(Len(a)) /\ \A i \in 1..Len(t) : t[i] = a[i]
  BY ScanAssumption DEF Exactly
<1>. HIDE DEF c
<1>3. Len(t) = First(Len(c)) /\ Len(t) <= Len(a)
  BY <1>1, <1>2 DEF First
<1>4. \A i \in 1..Len(t) : i \in 1..Len(a)
  BY <1>1, <1>3
<1>5. Exactly(t, c)
  BY <1>1, <1>2, <1>3, <1>4 DEF Exactly
<1>. QED BY <1>5 DEF c

LEMMA ExactlyBoth ==
  ASSUME NEW T, NEW t \in Seq(T), NEW a \in Seq(T), NEW x \in T, Exactly(t, a), Len(t) < MaxFiles
  PROVE  Exactly(Append(t, x), a \o <<x>>)
<1>. DEFINE c == a \o <<x>>
            u == Append(t, x)
<1>1. /\ Len(c) = Len(a) + 1 /\ Len(a) \in Nat /\ c[Len(a) + 1] = x
      /\ \A i \in 1..Len(a) : c[i] = a[i]
  OBVIOUS
<1>2. /\ Len(u) = Len(t) + 1 /\ Len(t) \in Nat /\ u[Len(t) + 1] = x
      /\ \A i \in 1..Len(t) : u[i] = t[i]
  OBVIOUS
<1>3. MaxFiles \in Nat /\ Len(t) = First(Len(a)) /\ \A i \in 1..Len(t) : t[i] = a[i]
  BY ScanAssumption DEF Exactly
<1>. HIDE DEF c, u
<1>4. Len(t) = Len(a) /\ Len(u) = First(Len(c))
  BY <1>1, <1>2, <1>3 DEF First
<1>5. \A i \in 1..Len(u) : i \in 1..Len(t) \/ i = Len(t) + 1
  BY <1>2
<1>6. Exactly(u, c)
  BY <1>1, <1>2, <1>3, <1>4, <1>5 DEF Exactly
<1>. QED BY <1>6 DEF u, c

LEMMA ExactlyPrefix ==
  ASSUME NEW T, NEW t \in Seq(T), NEW a \in Seq(T), NEW b \in Seq(T), Exactly(t, a)
  PROVE  IsPrefix(t, a \o b)
<1>. DEFINE c == a \o b
<1>1. /\ Len(c) = Len(a) + Len(b) /\ Len(a) \in Nat /\ Len(b) \in Nat /\ Len(t) \in Nat /\ c \in Seq(T)
      /\ \A i \in 1..Len(a) : c[i] = a[i]
  OBVIOUS
<1>2. MaxFiles \in Nat /\ Len(t) = First(Len(a)) /\ \A i \in 1..Len(t) : t[i] = a[i]
  BY ScanAssumption DEF Exactly
<1>. HIDE DEF c
<1>3. Len(t) <= Len(a) /\ Len(t) <= Len(c)
  BY <1>1, <1>2 DEF First
<1>4. \A i \in 1..Len(t) : t[i] = c[i]
  BY <1>1, <1>2, <1>3
<1>5. SubSeq(t, 1, Len(t)) = SubSeq(c, 1, Len(t))
  BY <1>1, <1>3, <1>4
<1>6. IsPrefix(t, c)
  BY <1>3, <1>5 DEF IsPrefix
<1>. QED BY <1>6 DEF c

-----------------------------------------------------------------------------
(* What all the calls owe.                                                 *)

\* A call that has dealt with k items.
Stays(v, f, k) == Stands(v, f.dir, k, f.next * PerSector, f.buf, f.pos, f.carry, f.lfn)

\* What the i-th call has still to add.
RestOf(v, f, k, i) == Rest(v, f.dir, f.path, k, Listing(v)[MaxCalls - i])

\* Of what is to be listed, a has been passed and the rest is what the calls
\* have still to add, the last call first.
Owes(v, s, acc, k) ==
  /\ acc[0] = Expected(v)
  /\ \A i \in 1..Len(s) : Stays(v, s[i], k[i]) /\ acc[i - 1] = acc[i] \o RestOf(v, s[i], k[i], i)

Owed(v, s, a) ==
  \E acc \in [0..Len(s) -> Seq(AFile)], k \in [1..Len(s) -> Nat] : Owes(v, s, acc, k) /\ acc[Len(s)] = a

LEMMA RestOfTyped ==
  ASSUME NEW v, IsVolume(v), NEW f, Searches(v, f), NEW k, Stays(v, f, k), NEW i \in 1..MaxCalls
  PROVE  RestOf(v, f, k, i) \in Seq(AFile)
<1>1. InDir(v, f.dir) /\ f.path \in Paths
  BY DEF Searches, InDir, AFrame
<1>2. k \in 0..Len(ItemsOf(v, f.dir))
  BY DEF Stays, Stands, InItem
<1>. DEFINE n == (MaxCalls - i) + 1
<1>3. n \in 1..MaxCalls /\ n - 1 = MaxCalls - i
  BY ScanAssumption
<1>. HIDE DEF n
<1>4. Rest(v, f.dir, f.path, k, Listing(v)[n - 1]) \in Seq(AFile)
  BY <1>1, <1>2, <1>3, RestFacts
<1>. QED BY <1>3, <1>4 DEF RestOf

LEMMA OwedNothing == \A v, a : a \in Seq(AFile) => (Owed(v, <<>>, a) <=> a = Expected(v))
<1>1. SUFFICES ASSUME NEW v, NEW a \in Seq(AFile) PROVE Owed(v, <<>>, a) <=> a = Expected(v)
  OBVIOUS
<1>2. Len(<<>>) = 0 /\ 1..0 = {}
  OBVIOUS
<1>3. ASSUME Owed(v, <<>>, a) PROVE a = Expected(v)
  BY <1>2, <1>3 DEF Owed, Owes
<1>4. ASSUME a = Expected(v) PROVE Owed(v, <<>>, a)
  <2>. DEFINE acc == [i \in 0..0 |-> a]
              k == [i \in 1..0 |-> 0]
  <2>1. acc \in [0..0 -> Seq(AFile)] /\ acc[0] = a /\ k \in [1..0 -> Nat]
    OBVIOUS
  <2>. HIDE DEF acc, k
  <2>2. Owes(v, <<>>, acc, k)
    BY <1>2, <1>4, <2>1 DEF Owes
  <2>. QED BY <1>2, <2>1, <2>2 DEF Owed
<1>. QED BY <1>3, <1>4

LEMMA OwedPush ==
  ASSUME NEW v, NEW T, NEW s \in Seq(T), NEW f \in T, NEW a \in Seq(AFile), NEW k \in Nat, Stays(v, f, k),
         Owed(v, s, a \o RestOf(v, f, k, Len(s) + 1))
  PROVE  Owed(v, Append(s, f), a)
<1>. DEFINE n == Len(s)
            t == Append(s, f)
            b == a \o RestOf(v, f, k, n + 1)
<1>1. n \in Nat /\ Len(t) = n + 1 /\ t[n + 1] = f /\ \A i \in 1..n : t[i] = s[i]
  OBVIOUS
<1>2. PICK acc \in [0..n -> Seq(AFile)], ks \in [1..n -> Nat] : Owes(v, s, acc, ks) /\ acc[n] = b
  BY DEF Owed
<1>. DEFINE acc1 == [i \in 0..n + 1 |-> IF i <= n THEN acc[i] ELSE a]
            ks1 == [i \in 1..n + 1 |-> IF i <= n THEN ks[i] ELSE k]
<1>. HIDE DEF n, t, b
<1>3. acc1 \in [0..n + 1 -> Seq(AFile)] /\ acc1[n + 1] = a /\ \A i \in 0..n : acc1[i] = acc[i]
  <2>1. \A i \in 0..n + 1 : (IF i <= n THEN acc[i] ELSE a) \in Seq(AFile)
    BY <1>1, <1>2
  <2>. QED BY <1>1, <2>1
<1>4. ks1 \in [1..n + 1 -> Nat] /\ ks1[n + 1] = k /\ \A i \in 1..n : ks1[i] = ks[i]
  <2>1. \A i \in 1..n + 1 : (IF i <= n THEN ks[i] ELSE k) \in Nat
    BY <1>1, <1>2
  <2>. QED BY <1>1, <2>1
<1>. HIDE DEF acc1, ks1
<1>5. acc1[0] = Expected(v)
  BY <1>1, <1>2, <1>3 DEF Owes
<1>6. ASSUME NEW i \in 1..n + 1
      PROVE  Stays(v, t[i], ks1[i]) /\ acc1[i - 1] = acc1[i] \o RestOf(v, t[i], ks1[i], i)
  <2>1. CASE i = n + 1
    <3>1. i - 1 = n /\ n \in 0..n
      BY <1>1, <2>1
    <3>2. acc1[i - 1] = b /\ acc1[i] = a /\ ks1[i] = k /\ t[i] = f
      BY <1>1, <1>2, <1>3, <1>4, <2>1, <3>1
    <3>3. b = a \o RestOf(v, f, k, i)
      BY <2>1 DEF b
    <3>. QED BY <3>2, <3>3
  <2>2. CASE i # n + 1
    <3>1. i \in 1..n /\ i \in 0..n /\ i - 1 \in 0..n
      BY <1>1, <2>2
    <3>2. Stays(v, s[i], ks[i]) /\ acc[i - 1] = acc[i] \o RestOf(v, s[i], ks[i], i)
      BY <1>2, <3>1 DEF Owes, n
    <3>. QED BY <1>1, <1>3, <1>4, <3>1, <3>2
  <2>. QED BY <2>1, <2>2
<1>7. Owes(v, t, acc1, ks1)
  BY <1>1, <1>5, <1>6 DEF Owes
<1>8. Owed(v, t, a)
  BY <1>1, <1>3, <1>4, <1>7 DEF Owed
<1>. QED BY <1>8 DEF t

LEMMA OwedPop ==
  ASSUME NEW v, NEW T, NEW s \in Seq(T), s # <<>>, NEW a, Owed(v, s, a)
  PROVE  \E k \in Nat : /\ Stays(v, s[Len(s)], k)
                        /\ Owed(v, Front(s), a \o RestOf(v, s[Len(s)], k, Len(s)))
<1>. DEFINE n == Len(s)
            t == Front(s)
            f == s[n]
<1>1. n \in Nat /\ n > 0 /\ n \in 1..n /\ n - 1 \in 0..n /\ n - 1 \in Nat
  OBVIOUS
<1>2. Len(t) = n - 1 /\ \A i \in 1..n - 1 : t[i] = s[i]
  BY FrontIs
<1>3. PICK acc \in [0..n -> Seq(AFile)], ks \in [1..n -> Nat] : Owes(v, s, acc, ks) /\ acc[n] = a
  BY DEF Owed
<1>. HIDE DEF t, n
<1>. DEFINE m == n - 1
            acc1 == [i \in 0..m |-> acc[i]]
            ks1 == [i \in 1..m |-> ks[i]]
<1>4. Stays(v, f, ks[n]) /\ acc[m] = a \o RestOf(v, f, ks[n], n) /\ ks[n] \in Nat
  BY <1>1, <1>3 DEF Owes, n
<1>5. m \in Nat /\ \A i \in 0..m : i \in 0..n
  BY <1>1
<1>6. \A i \in 1..m : i \in 1..n /\ i - 1 \in 0..m /\ i \in 0..m
  BY <1>1
<1>. HIDE DEF m, f
<1>7. acc1 \in [0..m -> Seq(AFile)] /\ \A i \in 0..m : acc1[i] = acc[i]
  BY <1>3, <1>5
<1>8. ks1 \in [1..m -> Nat] /\ \A i \in 1..m : ks1[i] = ks[i]
  BY <1>3, <1>6
<1>. HIDE DEF acc1, ks1
<1>9. acc1[0] = Expected(v) /\ acc1[m] = acc[m]
  BY <1>3, <1>5, <1>7 DEF Owes
<1>10. ASSUME NEW i \in 1..m
       PROVE  Stays(v, t[i], ks1[i]) /\ acc1[i - 1] = acc1[i] \o RestOf(v, t[i], ks1[i], i)
  <2>1. Stays(v, s[i], ks[i]) /\ acc[i - 1] = acc[i] \o RestOf(v, s[i], ks[i], i)
    BY <1>3, <1>6 DEF Owes, n
  <2>2. t[i] = s[i]
    BY <1>2 DEF m
  <2>. QED BY <1>6, <1>7, <1>8, <2>1, <2>2
<1>11. Len(t) = m
  BY <1>2 DEF m
<1>12. Owes(v, t, acc1, ks1)
  BY <1>9, <1>10, <1>11 DEF Owes
<1>13. Owed(v, t, acc[m])
  BY <1>7, <1>8, <1>9, <1>11, <1>12 DEF Owed
<1>. QED BY <1>4, <1>13 DEF t, f, n

\* What has been passed is a prefix of what is to be listed.
LEMMA OwedPrefix ==
  ASSUME NEW v, IsVolume(v), NEW s, Nested(v, s), Len(s) <= MaxCalls, NEW a, Owed(v, s, a)
  PROVE  \E b \in Seq(AFile) : Expected(v) = a \o b
<1>. DEFINE n == Len(s)
<1>1. n \in Nat /\ MaxCalls \in Nat /\ \A i \in 1..n : i \in 1..MaxCalls /\ Searches(v, s[i])
  BY ScanAssumption DEF Nested
<1>2. PICK acc \in [0..n -> Seq(AFile)], ks \in [1..n -> Nat] : Owes(v, s, acc, ks) /\ acc[n] = a
  BY DEF Owed
<1>. DEFINE Starts(m) == \E b \in Seq(AFile) : Expected(v) = acc[m] \o b
            S == {m \in Nat : m <= n => Starts(m)}
<1>3. 0 \in S
  <2>1. acc[0] = Expected(v) /\ acc[0] \in Seq(AFile)
    BY <1>1, <1>2 DEF Owes
  <2>2. acc[0] \o <<>> = acc[0] /\ <<>> \in Seq(AFile)
    BY <2>1, EmptyAround
  <2>. QED BY <2>1, <2>2
<1>4. ASSUME NEW m \in Nat, m \in S PROVE m + 1 \in S
  <2>1. SUFFICES ASSUME m + 1 <= n PROVE Starts(m + 1)
    <3>. HIDE DEF Starts
    <3>. QED OBVIOUS
  <2>2. m <= n /\ m + 1 \in 1..n /\ m + 1 \in 0..n /\ (m + 1) - 1 = m
    BY <1>1, <2>1
  <2>3. PICK b \in Seq(AFile) : Expected(v) = acc[m] \o b
    BY <1>4, <2>2
  <2>. DEFINE R == RestOf(v, s[m + 1], ks[m + 1], m + 1)
  <2>4. Stays(v, s[m + 1], ks[m + 1]) /\ acc[m] = acc[m + 1] \o R /\ acc[m + 1] \in Seq(AFile)
    BY <1>2, <2>2 DEF Owes
  <2>5. R \in Seq(AFile)
    BY <1>1, <2>2, <2>4, RestOfTyped
  <2>. HIDE DEF R
  <2>. DEFINE c == acc[m + 1]
  <2>. HIDE DEF c
  <2>6. R \o b \in Seq(AFile)
    BY <2>3, <2>5, Concatenated
  <2>7. c \in Seq(AFile)
    BY <2>4 DEF c
  <2>8. (c \o R) \o b = c \o (R \o b)
    BY <2>3, <2>5, <2>7, FilesAssociate
  <2>9. Expected(v) = c \o (R \o b)
    BY <2>3, <2>4, <2>8 DEF c
  <2>. QED BY <2>6, <2>9 DEF c
<1>5. n \in S
  <2>. HIDE DEF S
  <2>. QED BY <1>1, <1>3, <1>4, AllNumbers
<1>6. Starts(n)
  <2>. HIDE DEF Starts
  <2>. QED BY <1>1, <1>5
<1>. QED BY <1>2, <1>6

\* List t1 is list t with the item, if it is a payload and there is room.
Adding(v, d, i, p, t, t1) ==
  LET it == ItemsOf(v, d)[i]
  IN  /\ it.kind \in {"file", "dir", "dots"}
      /\ ~(it.kind = "dir" /\ Len(t) < MaxFiles /\ p.slashes < MaxDepth)
      /\ \/ /\ Len(t) < MaxFiles /\ it.name \in Payloads
            /\ t1 = Append(t, [path |-> Join(p, i, it.bytes), item |-> i, type |-> it.name])
         \/ t1 = t /\ (Regular(v) /\ it.name \in Payloads => ~(Len(t) < MaxFiles))

\* An entry that is not searched adds to the list what it is to add, or the
\* list is full or not in question.
LEMMA TakenListed ==
  ASSUME NEW v, NEW d, InDir(v, d), NamesOwn(v), NEW i \in 1..Len(ItemsOf(v, d)),
         NEW p \in Paths, NEW B \in Levels(v),
         NEW t \in Seq(AFile), NEW a \in Seq(AFile), NEW er, Listed(v, t, er, a),
         NEW t1, Adding(v, d, i, p, t, t1)
  PROVE  t1 \in Seq(AFile) /\ Listed(v, t1, er, a \o Added(ItemsOf(v, d)[i], i, p, B))
<1>. DEFINE it == ItemsOf(v, d)[i]
            x == [path |-> Join(p, i, it.bytes), item |-> i, type |-> it.name]
<1>1. /\ it.kind \in {"file", "dir", "dots"}
      /\ ~(it.kind = "dir" /\ Len(t) < MaxFiles /\ p.slashes < MaxDepth)
      /\ \/ t1 = Append(t, x) /\ Len(t) < MaxFiles /\ it.name \in Payloads
         \/ t1 = t /\ (Regular(v) /\ it.name \in Payloads => ~(Len(t) < MaxFiles))
  BY DEF Adding
<1>. DEFINE D == Added(it, i, p, B)
<1>2. D \in Seq(AFile)
  BY AddedTyped
<1>3. x \in AFile
  <2>1. it \in AnItem /\ i \in Nat
    BY ItemFacts, DirFacts
  <2>2. Join(p, i, it.bytes) \in Paths
    BY <2>1, JoinTyped DEF AnItem
  <2>. QED BY <2>1, <2>2 DEF AFile, AnItem
<1>4. it.kind = "dir" \/ it.kind = "dots" => it.name \notin Payloads
  <2>1. it.kind = "dots" => it.name \notin Payloads
    BY ItemFacts
  <2>2. it.kind = "dir" => it.name \notin Payloads
    <3>1. d \in DOMAIN v.dirs /\ i \in DOMAIN v.dirs[d].items /\ it = v.dirs[d].items[i]
      BY DirFacts DEF InDir, ItemsOf
    <3>. QED BY <3>1 DEF NamesOwn
  <2>. QED BY <2>1, <2>2
<1>5. D = CASE it.kind = "dir" /\ p.slashes < MaxDepth -> B[it.sub][Join(p, i, it.bytes)]
            [] it.kind = "file" /\ it.name \in Payloads -> <<x>>
            [] OTHER -> <<>>
  BY DEF Added
<1>. SUFFICES t1 \in Seq(AFile) /\ Listed(v, t1, er, a \o D)
  OBVIOUS
<1>. HIDE DEF D, x, it
<1>6. Thinned(t, a) /\ (Regular(v) /\ er = 0 => Exactly(t, a))
  BY DEF Listed
<1>7. CASE ~(it.kind = "dir" /\ p.slashes < MaxDepth) /\ ~(it.kind = "file" /\ it.name \in Payloads)
  <2>1. D = <<>>
    BY <1>5, <1>7
  <2>2. t1 = t
    BY <1>1, <1>4, <1>7
  <2>3. a \o <<>> = a
    BY EmptyAround
  <2>. QED BY <2>1, <2>2, <2>3
<1>8. CASE it.kind = "dir" /\ p.slashes < MaxDepth
  <2>1. t1 = t /\ ~(Len(t) < MaxFiles)
    BY <1>1, <1>4, <1>8
  <2>2. Thinned(t, a \o D)
    BY <1>2, <1>6, ThinnedMore
  <2>3. Exactly(t, a) => Exactly(t, a \o D)
    BY <1>2, <2>1, ExactlyMore
  <2>. QED BY <1>6, <2>1, <2>2, <2>3 DEF Listed
<1>9. CASE it.kind = "file" /\ it.name \in Payloads
  <2>1. D = <<x>>
    BY <1>5, <1>9
  <2>2. CASE t1 = Append(t, x) /\ Len(t) < MaxFiles
    <3>1. Thinned(Append(t, x), a \o <<x>>)
      BY <1>3, <1>6, ThinnedBoth
    <3>2. Exactly(t, a) => Exactly(Append(t, x), a \o <<x>>)
      BY <1>3, <2>2, ExactlyBoth
    <3>3. Append(t, x) \in Seq(AFile)
      BY <1>3
    <3>. QED BY <1>6, <2>1, <2>2, <3>1, <3>2, <3>3 DEF Listed
  <2>3. CASE t1 = t /\ (Regular(v) => ~(Len(t) < MaxFiles))
    <3>2. Thinned(t, a \o D)
      BY <1>2, <1>6, ThinnedMore
    <3>3. Exactly(t, a) /\ ~(Len(t) < MaxFiles) => Exactly(t, a \o D)
      BY <1>2, ExactlyMore
    <3>. QED BY <1>6, <2>3, <3>2, <3>3 DEF Listed
  <2>. QED BY <1>1, <1>9, <2>2, <2>3
<1>. QED BY <1>7, <1>8, <1>9

-----------------------------------------------------------------------------
(* The search, step by step.                                               *)

\* While a search runs, what has been passed is listed and the calls owe the
\* rest.
Lists(v, s, t, er) ==
  /\ Len(s) <= MaxCalls /\ t \in Seq(AFile)
  /\ \E a \in Seq(AFile) : Owed(v, s, a) /\ Listed(v, t, er, a)

\* The call on top and the calls below it.
Below(a, k) == Owed(vol, Front(stack), a \o RestOf(vol, Top, k, Len(stack)))

\* What the item adds that comes behind the k-th in the directory of the call.
Adds(k) == Added(ItemsHere[k + 1], k + 1, Top.path, Listing(vol)[MaxCalls - Len(stack)])

LEMMA HereIs ==
  ASSUME AtTop, Len(stack) <= MaxCalls
  PROVE  /\ InDir(vol, Top.dir) /\ Top.path \in Paths /\ ItemsHere = ItemsOf(vol, Top.dir)
         /\ Len(stack) \in 1..MaxCalls /\ MaxCalls \in Nat /\ Top = stack[Len(stack)]
         /\ stack \in Seq(AFrame) /\ Front(stack) \in Seq(AFrame) /\ Len(Front(stack)) + 1 = Len(stack)
         /\ Top \in AFrame /\ Top.lfn \in Names /\ IsVolume(vol) /\ Searches(vol, Top)
<1>1. /\ Top = stack[Len(stack)] /\ Len(stack) \in Nat \ {0} /\ Searches(vol, Top)
  BY TopFacts DEF AtTop
<1>2. Top \in AFrame /\ Top.dir \in DOMAIN vol.dirs
  BY <1>1 DEF Searches
<1>3. stack \in Seq(AFrame)
  BY DEF AtTop, Nested
<1>4. Front(stack) \in Seq(AFrame) /\ Len(Front(stack)) = Len(stack) - 1
  BY <1>3, FrontIs DEF AtTop
<1>5. Len(Front(stack)) + 1 = Len(stack) /\ Len(stack) \in 1..MaxCalls /\ MaxCalls \in Nat
  BY <1>1, <1>4, ScanAssumption
<1>6. Top.path \in Paths /\ Top.lfn \in Names
  BY <1>2 DEF AFrame, Names
<1>. QED BY <1>1, <1>2, <1>3, <1>4, <1>5, <1>6 DEF AtTop, InDir, ItemsHere, ItemsOf

LEMMA AtWork ==
  ASSUME AtTop, Lists(vol, stack, files, errors)
  PROVE  \E a \in Seq(AFile), k \in Nat :
           Stays(vol, Top, k) /\ Below(a, k) /\ Listed(vol, files, errors, a)
<1>1. PICK a \in Seq(AFile) : Owed(vol, stack, a) /\ Listed(vol, files, errors, a)
  BY DEF Lists
<1>2. stack \in Seq(AFrame) /\ stack # <<>> /\ Top = stack[Len(stack)]
  BY HereIs DEF Lists, AtTop
<1>3. PICK k \in Nat : /\ Stays(vol, stack[Len(stack)], k)
                       /\ Owed(vol, Front(stack), a \o RestOf(vol, stack[Len(stack)], k, Len(stack)))
  BY <1>1, <1>2, OwedPop
<1>. QED BY <1>1, <1>2, <1>3 DEF Below

\* The call goes on with the same item.
LEMMA Replaced ==
  ASSUME AtTop, Len(stack) <= MaxCalls, NEW a \in Seq(AFile), NEW k \in Nat, Below(a, k),
         NEW f \in AFrame, f.dir = Top.dir, f.path = Top.path, Stays(vol, f, k)
  PROVE  /\ Owed(vol, Append(Front(stack), f), a)
         /\ Len(Append(Front(stack), f)) = Len(stack)
<1>. DEFINE s == Front(stack)
<1>1. s \in Seq(AFrame) /\ Len(s) + 1 = Len(stack)
  BY HereIs
<1>2. RestOf(vol, Top, k, Len(stack)) = RestOf(vol, f, k, Len(s) + 1)
  BY <1>1 DEF RestOf
<1>3. Owed(vol, s, a \o RestOf(vol, f, k, Len(s) + 1))
  BY <1>2 DEF Below
<1>. HIDE DEF s
<1>4. Len(Append(s, f)) = Len(s) + 1
  BY <1>1
<1>5. Owed(vol, Append(s, f), a)
  BY <1>1, <1>3, OwedPush
<1>. QED BY <1>1, <1>4, <1>5 DEF s

\* What a call at an item still adds: what the item adds, and the rest.
LEMMA RestOfNext ==
  ASSUME NEW v, NEW d, InDir(v, d), NEW q \in Paths, NEW n \in 1..MaxCalls,
         NEW k \in 0..Len(ItemsOf(v, d)), k # Len(ItemsOf(v, d)), NEW B, B = Listing(v)[MaxCalls - n]
  PROVE  /\ B \in Levels(v) /\ Added(ItemsOf(v, d)[k + 1], k + 1, q, B) \in Seq(AFile)
         /\ Rest(v, d, q, k + 1, B) \in Seq(AFile)
         /\ Rest(v, d, q, k, B) = Added(ItemsOf(v, d)[k + 1], k + 1, q, B) \o Rest(v, d, q, k + 1, B)
<1>. DEFINE m == (MaxCalls - n) + 1
            N == Len(ItemsOf(v, d))
<1>1. m \in 1..MaxCalls /\ m - 1 = MaxCalls - n
  BY ScanAssumption
<1>2. N \in Nat
  BY DirFacts
<1>. HIDE DEF m, N
<1>3. k + 1 \in 0..N /\ k + 1 \in 1..N
  BY <1>2 DEF N
<1>. DEFINE C == Listing(v)[m - 1]
<1>4. C = B
  BY <1>1
<1>5. /\ \A i \in 0..N : Rest(v, d, q, i, B) \in Seq(AFile)
      /\ \A i \in 0..N : i # N =>
           Rest(v, d, q, i, B) = Added(ItemsOf(v, d)[i + 1], i + 1, q, B) \o Rest(v, d, q, i + 1, B)
      /\ B \in Levels(v)
  <2>1. C \in Levels(v)
    BY <1>1, RestFacts
  <2>2. \A i \in 0..Len(ItemsOf(v, d)) : Rest(v, d, q, i, C) \in Seq(AFile)
    BY <1>1, RestFacts
  <2>3. \A i \in 0..Len(ItemsOf(v, d)) : i # Len(ItemsOf(v, d)) =>
           Rest(v, d, q, i, C) = Added(ItemsOf(v, d)[i + 1], i + 1, q, C) \o Rest(v, d, q, i + 1, C)
    BY <1>1, RestFacts, SMTT(30)
  <2>. HIDE DEF C
  <2>. QED BY <1>4, <2>1, <2>2, <2>3 DEF N
<1>6. k \in 0..N /\ k # N
  BY DEF N
<1>7. Added(ItemsOf(v, d)[k + 1], k + 1, q, B) \in Seq(AFile)
  BY <1>3, <1>5, AddedTyped DEF N
<1>. QED BY <1>3, <1>5, <1>6, <1>7

\* The call has passed an item.
LEMMA Passed ==
  ASSUME AtTop, Len(stack) <= MaxCalls, NEW a \in Seq(AFile), NEW k \in Nat, Below(a, k),
         k \in 0..Len(ItemsHere), k # Len(ItemsHere),
         NEW f \in AFrame, f.dir = Top.dir, f.path = Top.path, Stays(vol, f, k + 1)
  PROVE  /\ Adds(k) \in Seq(AFile) /\ a \o Adds(k) \in Seq(AFile)
         /\ Owed(vol, Append(Front(stack), f), a \o Adds(k))
         /\ Len(Append(Front(stack), f)) = Len(stack)
<1>. DEFINE n == Len(stack)
            B == Listing(vol)[MaxCalls - n]
            D == Adds(k)
            R == Rest(vol, Top.dir, Top.path, k + 1, B)
            c == a \o D
            s == Front(stack)
<1>1. /\ InDir(vol, Top.dir) /\ Top.path \in Paths /\ ItemsHere = ItemsOf(vol, Top.dir)
      /\ n \in 1..MaxCalls /\ s \in Seq(AFrame) /\ Len(s) + 1 = n
  BY HereIs
<1>2. D = Added(ItemsOf(vol, Top.dir)[k + 1], k + 1, Top.path, B)
  BY <1>1 DEF Adds
<1>3. k \in 0..Len(ItemsOf(vol, Top.dir)) /\ k # Len(ItemsOf(vol, Top.dir))
  BY <1>1
<1>4. D \in Seq(AFile) /\ R \in Seq(AFile) /\ Rest(vol, Top.dir, Top.path, k, B) = D \o R
  <2>1. B = Listing(vol)[MaxCalls - n]
    OBVIOUS
  <2>. DEFINE d == Top.dir
              q == Top.path
              A == Added(ItemsOf(vol, d)[k + 1], k + 1, q, B)
  <2>2. InDir(vol, d)
    BY <1>1
  <2>3. q \in Paths
    BY <1>1
  <2>4. n \in 1..MaxCalls
    BY <1>1
  <2>5. k \in 0..Len(ItemsOf(vol, d)) /\ k # Len(ItemsOf(vol, d))
    BY <1>3
  <2>6. D = A /\ R = Rest(vol, d, q, k + 1, B)
    BY <1>2
  <2>. HIDE DEF B, D, n, d, q, R
  <2>7. A \in Seq(AFile)
    BY <2>1, <2>2, <2>3, <2>4, <2>5, RestOfNext
  <2>8. Rest(vol, d, q, k + 1, B) \in Seq(AFile)
    BY <2>1, <2>2, <2>3, <2>4, <2>5, RestOfNext
  <2>9. Rest(vol, d, q, k, B) = A \o Rest(vol, d, q, k + 1, B)
    BY <2>1, <2>2, <2>3, <2>4, <2>5, RestOfNext
  <2>10. /\ A \in Seq(AFile) /\ Rest(vol, d, q, k + 1, B) \in Seq(AFile)
         /\ Rest(vol, d, q, k, B) = A \o Rest(vol, d, q, k + 1, B)
    BY <2>7, <2>8, <2>9
  <2>. HIDE DEF A
  <2>. QED BY <2>6, <2>10 DEF d, q
<1>5. RestOf(vol, Top, k, n) = D \o R /\ RestOf(vol, f, k + 1, n) = R
  BY <1>4 DEF RestOf
<1>6. Owed(vol, s, a \o RestOf(vol, Top, k, n)) /\ k + 1 \in Nat
  BY DEF Below
<1>. HIDE DEF D, R, n, s, B
<1>7. a \o (D \o R) = (a \o D) \o R
  <2>1. D \in Seq(AFile) /\ R \in Seq(AFile)
    BY <1>4
  <2>. QED BY <2>1, FilesAssociate
<1>8. c \in Seq(AFile)
  BY <1>4, Concatenated
<1>9. Owed(vol, s, c \o RestOf(vol, f, k + 1, Len(s) + 1))
  BY <1>1, <1>5, <1>6, <1>7
<1>10. Len(Append(s, f)) = Len(s) + 1
  BY <1>1
<1>. HIDE DEF c
<1>11. Owed(vol, Append(s, f), c)
  BY <1>1, <1>6, <1>8, <1>9, OwedPush
<1>. QED BY <1>1, <1>4, <1>8, <1>10, <1>11 DEF s, D, c, n

\* Of the frames that the actions make.
LEMMA FrameMade ==
  ASSUME NEW t \in AFrame, NEW p, NEW l, NEW c, NEW b, NEW n
  PROVE  /\ Moved(t, p) = Fields(t.dir, t.path, t.next, t.buf, p, t.carry, t.lfn)
         /\ Named(t, p, l) = Fields(t.dir, t.path, t.next, t.buf, p, t.carry, l)
         /\ Unnamed(t, p) = Fields(t.dir, t.path, t.next, t.buf, p, t.carry, [t.lfn EXCEPT !.len = 0])
         /\ Carrying(t, p, c) = Fields(t.dir, t.path, t.next, t.buf, p, c, t.lfn)
         /\ Filled(t, b, c, p, n) = Fields(t.dir, t.path, n, b, p, c, t.lfn)
         /\ [t.lfn EXCEPT !.len = 0] \in Names /\ [t.lfn EXCEPT !.len = 0].len = 0
<1>. DEFINE u == Fields(t.dir, t.path, t.next, t.buf, t.pos, t.carry, t.lfn)
<1>1. t = u
  BY DEF AFrame, Fields
<1>2. /\ Moved(u, p) = Fields(t.dir, t.path, t.next, t.buf, p, t.carry, t.lfn)
      /\ Named(u, p, l) = Fields(t.dir, t.path, t.next, t.buf, p, t.carry, l)
      /\ Unnamed(u, p) = Fields(t.dir, t.path, t.next, t.buf, p, t.carry, [t.lfn EXCEPT !.len = 0])
      /\ Carrying(u, p, c) = Fields(t.dir, t.path, t.next, t.buf, p, c, t.lfn)
      /\ Filled(u, b, c, p, n) = Fields(t.dir, t.path, n, b, p, c, t.lfn)
  BY FieldsUpdated
<1>3. t.lfn \in Names
  BY DEF AFrame, Names
<1>4. [t.lfn EXCEPT !.len = 0] \in Names
  BY <1>3, NameOff
<1>5. [t.lfn EXCEPT !.len = 0].len = 0
  BY <1>3 DEF Names
<1>. HIDE DEF u
<1>. QED BY <1>1, <1>2, <1>4, <1>5

LEMMA StaysIs ==
  ASSUME NEW v, NEW d, NEW q, NEW n, NEW b, NEW p, NEW c, NEW l, NEW k,
         Stands(v, d, k, n * PerSector, b, p, c, l)
  PROVE  LET f == Fields(d, q, n, b, p, c, l) IN Stays(v, f, k) /\ f.dir = d /\ f.path = q
BY DEF Stays, Fields

LEMMA SectorIs ==
  ASSUME NEW v, NEW d, NEW n \in Nat
  PROVE  Sector(v, d, n + 1) = [i \in 1..PerSector |-> At(v, d, n * PerSector + i)]
<1>1. (n + 1) - 1 = n
  OBVIOUS
<1>. QED BY <1>1 DEF Sector, At, EndSlot

\* What the loader knows how to read is read to its end.
LEMMA SectorsHold ==
  ASSUME NEW v, NEW d, InDir(v, d), Regular(v)
  PROVE  Sectors(v, d) * PerSector >= Len(Slots(v, d))
<1>. DEFINE n == Len(Slots(v, d))
            C == Clusters(v, d)
            p == ClusterSlots
<1>1. PerSector \in Nat \ {0} /\ PerCluster \in Nat \ {0} /\ n \in Nat
  BY DirFacts, PartsFacts
<1>2. p \in Nat \ {0} /\ p = PerSector * PerCluster
  BY <1>1 DEF ClusterSlots
<1>3. C = IF n = 0 THEN 1 ELSE (n + p - 1) \div p
  BY DEF Clusters
<1>4. Sectors(v, d) = PerCluster * C
  BY DEF Sectors, Regular, InDir
<1>. HIDE DEF n, p, C
<1>5. (n + p - 1) \div p \in Nat /\ ((n + p - 1) \div p) * p >= n
  BY <1>1, <1>2, SectorsEnough
<1>6. C \in Nat /\ C * p >= n
  <2>1. CASE n = 0
    BY <1>2, <1>3, <2>1
  <2>2. CASE n # 0
    BY <1>3, <1>5, <2>2
  <2>. QED BY <2>1, <2>2
<1>7. (PerCluster * C) * PerSector = C * (PerSector * PerCluster)
  BY <1>1, <1>6
<1>. QED BY <1>2, <1>4, <1>6, <1>7 DEF n

\* Where the frames stand that the actions make.
LEMMA MadeStays ==
  ASSUME NEW v, NEW t \in AFrame, NEW k, NEW p
  PROVE  /\ Moved(t, p).dir = t.dir /\ Unnamed(t, p).dir = t.dir
         /\ Stands(v, t.dir, k, t.next * PerSector, t.buf, p, t.carry, t.lfn) => Stays(v, Moved(t, p), k)
         /\ LET off == [t.lfn EXCEPT !.len = 0]
            IN  Stands(v, t.dir, k, t.next * PerSector, t.buf, p, t.carry, off) => Stays(v, Unnamed(t, p), k)
         /\ \A l : /\ Named(t, p, l).dir = t.dir
                   /\ Stands(v, t.dir, k, t.next * PerSector, t.buf, p, t.carry, l) => Stays(v, Named(t, p, l), k)
         /\ \A c : /\ Carrying(t, p, c).dir = t.dir
                   /\ Stands(v, t.dir, k, t.next * PerSector, t.buf, p, c, t.lfn) => Stays(v, Carrying(t, p, c), k)
         /\ \A b, c, n : /\ Filled(t, b, c, p, n).dir = t.dir
                         /\ Stands(v, t.dir, k, n * PerSector, b, p, c, t.lfn) => Stays(v, Filled(t, b, c, p, n), k)
<1>. DEFINE off == [t.lfn EXCEPT !.len = 0]
            F(n, b, c, l) == Fields(t.dir, t.path, n, b, p, c, l)
<1>1. ASSUME NEW n, NEW b, NEW c, NEW l
      PROVE  /\ F(n, b, c, l).dir = t.dir
             /\ Stands(v, t.dir, k, n * PerSector, b, p, c, l) => Stays(v, F(n, b, c, l), k)
  <2>1. F(n, b, c, l).dir = t.dir
    BY DEF Fields
  <2>. QED BY <2>1, StaysIs
<1>2. /\ Moved(t, p) = F(t.next, t.buf, t.carry, t.lfn) /\ Unnamed(t, p) = F(t.next, t.buf, t.carry, off)
      /\ \A l : Named(t, p, l) = F(t.next, t.buf, t.carry, l)
      /\ \A c : Carrying(t, p, c) = F(t.next, t.buf, c, t.lfn)
      /\ \A b, c, n : Filled(t, b, c, p, n) = F(n, b, c, t.lfn)
  BY FrameMade
<1>. HIDE DEF F, off
<1>3. Moved(t, p).dir = t.dir /\ Unnamed(t, p).dir = t.dir
  BY <1>1, <1>2
<1>4. Stands(v, t.dir, k, t.next * PerSector, t.buf, p, t.carry, t.lfn) => Stays(v, Moved(t, p), k)
  BY <1>1, <1>2
<1>5. Stands(v, t.dir, k, t.next * PerSector, t.buf, p, t.carry, off) => Stays(v, Unnamed(t, p), k)
  BY <1>1, <1>2
<1>6. \A l : /\ Named(t, p, l).dir = t.dir
             /\ Stands(v, t.dir, k, t.next * PerSector, t.buf, p, t.carry, l) => Stays(v, Named(t, p, l), k)
  BY <1>1, <1>2
<1>7. \A c : /\ Carrying(t, p, c).dir = t.dir
             /\ Stands(v, t.dir, k, t.next * PerSector, t.buf, p, c, t.lfn) => Stays(v, Carrying(t, p, c), k)
  BY <1>1, <1>2
<1>8. \A b, c, n : /\ Filled(t, b, c, p, n).dir = t.dir
                   /\ Stands(v, t.dir, k, n * PerSector, b, p, c, t.lfn) => Stays(v, Filled(t, b, c, p, n), k)
  BY <1>1, <1>2
<1>. QED BY <1>3, <1>4, <1>5, <1>6, <1>7, <1>8 DEF off

\* The call goes on, or passes an item that adds nothing.
LEMMA ListsOn ==
  ASSUME AtTop, Lists(vol, stack, files, errors), NEW a \in Seq(AFile), NEW k \in Nat,
         Below(a, k), Listed(vol, files, errors, a),
         NEW f, Searches(vol, f), f.dir = Top.dir, f.path = Top.path,
         stack' = Append(Front(stack), f), UNCHANGED <<files, errors>>,
         \/ Stays(vol, f, k)
         \/ /\ k \in 0..Len(ItemsHere) /\ k < Len(ItemsHere)
            /\ ItemsHere[k + 1].kind \in {"gone", "other", "broken", "orphan"}
            /\ Stays(vol, f, k + 1)
  PROVE  Lists(vol', stack', files', errors')
<1>1. Len(stack) <= MaxCalls /\ files \in Seq(AFile) /\ vol' = vol /\ f \in AFrame
  BY DEF Lists, AtTop, Searches
<1>2. CASE Stays(vol, f, k)
  <2>1. Owed(vol, stack', a) /\ Len(stack') = Len(stack)
    BY <1>1, <1>2, Replaced
  <2>. QED BY <1>1, <2>1 DEF Lists
<1>3. CASE /\ k \in 0..Len(ItemsHere) /\ k < Len(ItemsHere)
           /\ ItemsHere[k + 1].kind \in {"gone", "other", "broken", "orphan"}
           /\ Stays(vol, f, k + 1)
  <2>0. k # Len(ItemsHere)
    BY <1>3
  <2>1. Owed(vol, stack', a \o Adds(k)) /\ Len(stack') = Len(stack)
    BY <1>1, <1>3, <2>0, Passed
  <2>2. Adds(k) = <<>>
    BY <1>3 DEF Adds, Added
  <2>3. a \o <<>> = a
    BY EmptyAround
  <2>. QED BY <1>1, <2>1, <2>2, <2>3 DEF Lists
<1>. QED BY <1>2, <1>3

\* What the search stands at, of the call on top.
LEMMA TopStands ==
  ASSUME AtTop, Lists(vol, stack, files, errors)
  PROVE  \E a \in Seq(AFile), k \in Nat :
           /\ Stands(vol, Top.dir, k, Top.next * PerSector, Top.buf, Top.pos, Top.carry, Top.lfn)
           /\ Below(a, k) /\ Listed(vol, files, errors, a)
BY AtWork DEF Stays

LEMMA ReadLists ==
  ASSUME AtTop, Lists(vol, stack, files, errors), ReadSector
  PROVE  Lists(vol', stack', files', errors')
<1>. DEFINE d == Top.dir
            n == Top.next
            t == Sector(vol, d, n + 1)
            b == Top.carry \o t
            f == Filled(Top, b, <<>>, 1, n + 1)
<1>1. PICK a \in Seq(AFile), k \in Nat :
        /\ Stands(vol, d, k, n * PerSector, Top.buf, Top.pos, Top.carry, Top.lfn)
        /\ Below(a, k) /\ Listed(vol, files, errors, a)
  BY TopStands
<1>2. InDir(vol, d)
  BY HereIs DEF Lists
<1>3. stack' = Append(Front(stack), f) /\ UNCHANGED <<files, errors>> /\ ~(Top.pos <= Len(Top.buf))
  BY DEF ReadSector, SetTop, Filled, More
<1>4. n \in Nat /\ Top \in AFrame /\ PerSector \in Nat
  BY TopFrame, ScanAssumption DEF AFrame
<1>5. Searches(vol, f) /\ f.path = Top.path
  <2>1. t \in Seq(SlotsIn(ItemsHere)) /\ Top.carry \in Seq(SlotsIn(ItemsHere))
    BY <1>4, TopFrame, SectorTyped DEF ItemsHere, AtTop
  <2>2. b \in Seq(SlotsIn(ItemsHere)) /\ <<>> \in Seq(SlotsIn(ItemsHere))
    <3>. HIDE DEF t
    <3>. QED BY <2>1, Concatenated
  <2>3. n + 1 \in Nat /\ 1 \in Nat \ {0}
    BY <1>4
  <2>. HIDE DEF b
  <2>. QED BY <2>2, <2>3, TopUpdated
<1>6. t = [i \in 1..PerSector |-> At(vol, d, n * PerSector + i)]
  BY <1>4, SectorIs
<1>7. Stands(vol, d, k, (n + 1) * PerSector, b, 1, <<>>, Top.lfn)
  <2>1. Stands(vol, d, k, n * PerSector + PerSector,
               Top.carry \o [i \in 1..PerSector |-> At(vol, d, n * PerSector + i)], 1, <<>>, Top.lfn)
    BY <1>1, <1>2, <1>3, ReadStep
  <2>2. (n + 1) * PerSector = n * PerSector + PerSector
    BY <1>4
  <2>. QED BY <1>6, <2>1, <2>2
<1>8. Stays(vol, f, k) /\ f.dir = d
  <2>. HIDE DEF b
  <2>1. \A x, y, z : /\ Filled(Top, x, y, 1, z).dir = Top.dir
                     /\ Stands(vol, Top.dir, k, z * PerSector, x, 1, y, Top.lfn) => Stays(vol, Filled(Top, x, y, 1, z), k)
    BY <1>4, MadeStays
  <2>. QED BY <1>7, <2>1
<1>. HIDE DEF f
<1>. QED BY <1>1, <1>3, <1>5, <1>8, ListsOn

LEMMA CarryLists ==
  ASSUME AtTop, Lists(vol, stack, files, errors), CarryOver
  PROVE  Lists(vol', stack', files', errors')
<1>. DEFINE d == Top.dir
            b == Top.buf
            c == Keep(SubSeq(b, Top.pos, Len(b)))
            p == Len(b) + 1
            f == Carrying(Top, p, c)
<1>1. PICK a \in Seq(AFile), k \in Nat :
        /\ Stands(vol, d, k, Top.next * PerSector, b, Top.pos, Top.carry, Top.lfn)
        /\ Below(a, k) /\ Listed(vol, files, errors, a)
  BY TopStands
<1>2. InDir(vol, d)
  BY HereIs DEF Lists
<1>3. stack' = Append(Front(stack), f) /\ UNCHANGED <<files, errors>>
  BY DEF CarryOver, SetTop, Carrying
<1>4. Top \in AFrame /\ Top.lfn \in Names /\ b \in Seq(SlotsIn(ItemsHere)) /\ Top.pos \in Nat \ {0}
  BY TopFrame DEF AFrame, Names
<1>5. c \in Seq(SlotsIn(ItemsHere)) /\ p \in Nat \ {0}
  <2>. DEFINE S == SlotsIn(ItemsHere)
  <2>. HIDE DEF b, S
  <2>1. \A i \in Top.pos..Len(b) : b[i] \in S
    BY <1>4 DEF S
  <2>2. SubSeq(b, Top.pos, Len(b)) \in Seq(S) /\ <<>> \in Seq(S)
    BY <1>4, <2>1
  <2>3. p \in Nat \ {0}
    BY <1>4
  <2>. QED BY <2>2, <2>3 DEF Keep, S
<1>6. Searches(vol, f) /\ f.path = Top.path
  <2>. HIDE DEF c, p
  <2>. QED BY <1>5, TopUpdated
<1>7. Stands(vol, d, k, Top.next * PerSector, b, p, c, Top.lfn)
  <2>1. Top.pos <= Len(b) /\ b[Top.pos].kind = "set" /\ ~(Top.pos + b[Top.pos].n <= Len(b))
    BY DEF CarryOver, More, Here, SetFits
  <2>. HIDE DEF b, d
  <2>. QED BY <1>1, <1>2, <1>4, <2>1, CarryStep
<1>8. Stays(vol, f, k) /\ f.dir = d
  <2>. HIDE DEF c, p
  <2>1. \A x : /\ Carrying(Top, p, x).dir = Top.dir
               /\ Stands(vol, Top.dir, k, Top.next * PerSector, Top.buf, p, x, Top.lfn) => Stays(vol, Carrying(Top, p, x), k)
    BY <1>4, MadeStays
  <2>. QED BY <1>7, <2>1
<1>. HIDE DEF f
<1>. QED BY <1>1, <1>3, <1>6, <1>8, ListsOn

LEMMA SkipLists ==
  ASSUME AtTop, Lists(vol, stack, files, errors), SkipSlot
  PROVE  Lists(vol', stack', files', errors')
<1>. DEFINE d == Top.dir
            p == Top.pos + 1
            off == [Top.lfn EXCEPT !.len = 0]
            f == Unnamed(Top, p)
<1>1. PICK a \in Seq(AFile), k \in Nat :
        /\ Stands(vol, d, k, Top.next * PerSector, Top.buf, Top.pos, Top.carry, Top.lfn)
        /\ Below(a, k) /\ Listed(vol, files, errors, a)
  BY TopStands
<1>2. InDir(vol, d) /\ ItemsHere = ItemsOf(vol, d)
  BY HereIs DEF Lists
<1>3. stack' = Append(Front(stack), f) /\ UNCHANGED <<files, errors>>
  BY DEF SkipSlot, SetTop, Unnamed
<1>4. Top \in AFrame /\ p \in Nat \ {0} /\ off.len = 0
  <2>1. Top \in AFrame /\ Top.pos \in Nat \ {0} /\ Top.lfn \in Names
    BY TopFrame DEF AFrame, Names
  <2>. QED BY <2>1 DEF Names
<1>5. Searches(vol, f) /\ f.path = Top.path
  <2>. HIDE DEF p
  <2>. QED BY <1>4, TopUpdated
<1>6. /\ k \in 0..Len(ItemsOf(vol, d)) /\ k < Len(ItemsOf(vol, d))
      /\ \/ Stands(vol, d, k, Top.next * PerSector, Top.buf, p, Top.carry, off)
         \/ /\ ItemsOf(vol, d)[k + 1].kind \in {"gone", "other"}
            /\ Stands(vol, d, k + 1, Top.next * PerSector, Top.buf, p, Top.carry, off)
  <2>1. Top.pos <= Len(Top.buf) /\ Top.buf[Top.pos].kind \in {"free", "label"}
    BY DEF SkipSlot, More, Here
  <2>2. InDir(vol, d)
    BY <1>2
  <2>3. off.len = 0
    BY <1>4
  <2>. HIDE DEF d, off
  <2>. QED BY <1>1, <2>1, <2>2, <2>3, SkipStep
<1>7. f.dir = d /\ \A k1 : Stands(vol, d, k1, Top.next * PerSector, Top.buf, p, Top.carry, off) => Stays(vol, f, k1)
  <2>. HIDE DEF p
  <2>. QED BY <1>4, MadeStays
<1>. HIDE DEF f, off, p
<1>8. \/ Stays(vol, f, k)
      \/ /\ k \in 0..Len(ItemsHere) /\ k < Len(ItemsHere)
         /\ ItemsHere[k + 1].kind \in {"gone", "other", "broken", "orphan"}
         /\ Stays(vol, f, k + 1)
  BY <1>2, <1>6, <1>7
<1>. QED BY <1>1, <1>3, <1>5, <1>7, <1>8, ListsOn

LEMMA PieceLists ==
  ASSUME AtTop, Lists(vol, stack, files, errors), TakePiece
  PROVE  Lists(vol', stack', files', errors')
<1>. DEFINE d == Top.dir
            h == Here
            p == Top.pos + 1
            l == LongAfter(Top.lfn, h)
            f == Named(Top, p, l)
<1>1. PICK a \in Seq(AFile), k \in Nat :
        /\ Stands(vol, d, k, Top.next * PerSector, Top.buf, Top.pos, Top.carry, Top.lfn)
        /\ Below(a, k) /\ Listed(vol, files, errors, a)
  BY TopStands
<1>2. InDir(vol, d) /\ ItemsHere = ItemsOf(vol, d)
  BY HereIs DEF Lists
<1>3. stack' = Append(Front(stack), f) /\ UNCHANGED <<files, errors>>
  BY DEF TakePiece, SetTop, Named, LongAfter, Begun, Continued
<1>4. Top \in AFrame /\ p \in Nat \ {0} /\ Top.lfn \in Names
  <2>1. Top \in AFrame /\ Top.pos \in Nat \ {0} /\ Top.lfn \in Names
    BY TopFrame DEF AFrame, Names
  <2>. QED BY <2>1
<1>5. Belongs(l, ItemsHere)
  <2>. DEFINE name == IF h.kind = "last" THEN Begun(Top.lfn, h) ELSE Top.lfn
  <2>1. /\ h.n \in Nat /\ h.item \in DOMAIN ItemsHere /\ h.item \in Nat
        /\ Belongs(Top.lfn, ItemsHere)
    <3>1. More /\ Here.kind # "end"
      BY DEF TakePiece
    <3>. QED BY <3>1, TopFrame DEF AFrame, Names, Belongs
  <2>2. l = IF h.n = name.seq /\ h.item = name.of THEN Continued(name, h) ELSE name
    BY DEF LongAfter
  <2>. HIDE DEF h, l
  <2>3. Belongs(name, ItemsHere)
    BY <2>1, NameBegun
  <2>. HIDE DEF name
  <2>. QED BY <2>1, <2>2, <2>3, NameContinued
<1>6. Searches(vol, f) /\ f.path = Top.path
  <2>1. l \in Names /\ (l.len > 0 => l.of \in DOMAIN ItemsHere)
    BY <1>5 DEF Belongs
  <2>. HIDE DEF p, l
  <2>. QED BY <1>4, <2>1, TopUpdated
<1>7. /\ k \in 0..Len(ItemsOf(vol, d)) /\ k < Len(ItemsOf(vol, d))
      /\ \/ Stands(vol, d, k, Top.next * PerSector, Top.buf, p, Top.carry, l)
         \/ /\ ItemsOf(vol, d)[k + 1].kind = "orphan"
            /\ Stands(vol, d, k + 1, Top.next * PerSector, Top.buf, p, Top.carry, l)
  <2>1. Top.pos <= Len(Top.buf) /\ Top.buf[Top.pos].kind \in {"last", "piece"} /\ h = Top.buf[Top.pos]
    BY DEF TakePiece, More, Here
  <2>2. InDir(vol, d)
    BY <1>2
  <2>3. l = LongAfter(Top.lfn, Top.buf[Top.pos])
    BY <2>1
  <2>. HIDE DEF d, l
  <2>. QED BY <1>1, <1>4, <2>1, <2>2, <2>3, PieceStep
<1>8. f.dir = d /\ \A k1 : Stands(vol, d, k1, Top.next * PerSector, Top.buf, p, Top.carry, l) => Stays(vol, f, k1)
  <2>. HIDE DEF p, l
  <2>1. \A k1 : \A x : /\ Named(Top, p, x).dir = Top.dir
                       /\ Stands(vol, Top.dir, k1, Top.next * PerSector, Top.buf, p, Top.carry, x) => Stays(vol, Named(Top, p, x), k1)
    BY <1>4, MadeStays
  <2>. QED BY <2>1
<1>. HIDE DEF f, l, p
<1>9. \/ Stays(vol, f, k)
      \/ /\ k \in 0..Len(ItemsHere) /\ k < Len(ItemsHere)
         /\ ItemsHere[k + 1].kind \in {"gone", "other", "broken", "orphan"}
         /\ Stays(vol, f, k + 1)
  BY <1>2, <1>7, <1>8
<1>. QED BY <1>1, <1>3, <1>6, <1>8, <1>9, ListsOn

\* An entry the call on top looks at is its item's, and behind it comes the next item.
LEMMA EntryFacts ==
  ASSUME AtTop, Lists(vol, stack, files, errors), More, Here.kind \in {"set", "short"}, SetFits,
         NEW k, Stands(vol, Top.dir, k, Top.next * PerSector, Top.buf, Top.pos, Top.carry, Top.lfn)
  PROVE  /\ k \in 0..Len(ItemsHere) /\ k < Len(ItemsHere) /\ Here.item = k + 1
         /\ Item = ItemsHere[k + 1] /\ Items = ItemsHere
         /\ ItemsHere[k + 1].kind \in {"file", "dir", "dots", "broken"}
         /\ \A l1 : l1.len = 0 =>
              Stands(vol, Top.dir, k + 1, Top.next * PerSector, Top.buf, Top.pos + 1 + Here.n, Top.carry, l1)
         /\ Here.kind = "set" => Top.lfn.len = 0
         /\ Here.kind = "short" => vol.fs = "fat32"
         /\ NamesOwn(vol) /\ Top.lfn.len > 0 => Top.lfn.of = k + 1
<1>. DEFINE d == Top.dir
            b == Top.buf
            l == Top.lfn
            r == Top.next * PerSector
<1>1. InDir(vol, d)
  BY HereIs DEF Lists
<1>2. ItemsHere = ItemsOf(vol, d) /\ l \in Names
  BY HereIs DEF Lists
<1>3. Top.pos <= Len(b) /\ Here = b[Top.pos] /\ Top.pos + b[Top.pos].n <= Len(b)
  BY DEF More, Here, SetFits
<1>4. Items = ItemsHere /\ Item = ItemsHere[Here.item]
  BY DEF Items, ItemsHere, Item
<1>. HIDE DEF d, b, l, r
<1>5. Stands(vol, d, k, r, b, Top.pos, Top.carry, l)
  BY DEF d, b, l, r
<1>6. b[Top.pos].kind \in {"set", "short"}
  BY <1>3
<1>7. /\ k \in 0..Len(ItemsOf(vol, d)) /\ k < Len(ItemsOf(vol, d)) /\ b[Top.pos].item = k + 1
      /\ ItemsOf(vol, d)[k + 1].kind \in {"file", "dir", "dots", "broken"}
      /\ b[Top.pos].kind = "set" => l.len = 0
      /\ b[Top.pos].kind = "short" => vol.fs = "fat32"
      /\ NamesOwn(vol) /\ l.len > 0 => l.of = k + 1
  BY <1>1, <1>2, <1>3, <1>5, <1>6, AtItsEntry
<1>8. \A l1 : l1.len = 0 => Stands(vol, d, k + 1, r, b, (Top.pos + 1) + b[Top.pos].n, Top.carry, l1)
  BY <1>1, <1>2, <1>3, <1>5, <1>6, PassStep
<1>. QED BY <1>2, <1>3, <1>4, <1>7, <1>8 DEF d, b, l, r

LEMMA BrokenLists ==
  ASSUME AtTop, Lists(vol, stack, files, errors), SkipBroken
  PROVE  Lists(vol', stack', files', errors')
<1>. DEFINE p == Top.pos + 1 + Here.n
            f == Moved(Top, p)
<1>1. PICK a \in Seq(AFile), k \in Nat :
        /\ Stands(vol, Top.dir, k, Top.next * PerSector, Top.buf, Top.pos, Top.carry, Top.lfn)
        /\ Below(a, k) /\ Listed(vol, files, errors, a)
  BY TopStands
<1>2. /\ k \in 0..Len(ItemsHere) /\ k < Len(ItemsHere) /\ Item = ItemsHere[k + 1]
      /\ \A l1 : l1.len = 0 =>
              Stands(vol, Top.dir, k + 1, Top.next * PerSector, Top.buf, p, Top.carry, l1)
      /\ Here.kind = "set" => Top.lfn.len = 0
  BY <1>1, EntryFacts DEF SkipBroken
<1>3. /\ stack' = Append(Front(stack), f) /\ UNCHANGED <<files, errors>>
      /\ Here.kind = "set" /\ Item.kind = "broken"
  BY DEF SkipBroken, SetTop, Moved
<1>4. p \in Nat \ {0} /\ Top \in AFrame
  BY PassPosition, TopFrame DEF SkipBroken
<1>. HIDE DEF p
<1>5. Searches(vol, f) /\ f.path = Top.path
  BY <1>4, TopUpdated
<1>6. \A k1 : /\ f.dir = Top.dir
              /\ Stands(vol, Top.dir, k1, Top.next * PerSector, Top.buf, p, Top.carry, Top.lfn) => Stays(vol, f, k1)
  BY <1>4, MadeStays
<1>. HIDE DEF f
<1>7. Stays(vol, f, k + 1) /\ f.dir = Top.dir
  BY <1>2, <1>3, <1>6
<1>8. ItemsHere[k + 1].kind \in {"gone", "other", "broken", "orphan"}
  BY <1>2, <1>3
<1>. QED BY <1>1, <1>2, <1>3, <1>5, <1>7, <1>8, ListsOn

\* The frame behind an entry.
LEMMA BehindStays ==
  ASSUME AtTop, Lists(vol, stack, files, errors), AtEntry,
         NEW k, Stands(vol, Top.dir, k, Top.next * PerSector, Top.buf, Top.pos, Top.carry, Top.lfn)
  PROVE  /\ Behind \in AFrame /\ Behind.dir = Top.dir /\ Behind.path = Top.path /\ Stays(vol, Behind, k + 1)
         /\ k \in 0..Len(ItemsHere) /\ k < Len(ItemsHere) /\ k # Len(ItemsHere) /\ k + 1 \in 1..Len(ItemsHere)
         /\ Here.item = k + 1 /\ Item = ItemsHere[k + 1] /\ Items = ItemsHere
         /\ ItemsHere[k + 1].kind \in {"file", "dir", "dots"}
         /\ NamesOwn(vol) => Owner = k + 1 /\ Name = ItemsHere[k + 1]
<1>. DEFINE p == Top.pos + 1 + Here.n
            off == [Top.lfn EXCEPT !.len = 0]
<1>1. More /\ Here.kind \in {"set", "short"} /\ SetFits /\ Item.kind # "broken"
  BY DEF AtEntry
<1>2. /\ k \in 0..Len(ItemsHere) /\ k < Len(ItemsHere) /\ Here.item = k + 1
      /\ Item = ItemsHere[k + 1] /\ Items = ItemsHere
      /\ ItemsHere[k + 1].kind \in {"file", "dir", "dots", "broken"}
      /\ \A l1 : l1.len = 0 =>
              Stands(vol, Top.dir, k + 1, Top.next * PerSector, Top.buf, p, Top.carry, l1)
      /\ NamesOwn(vol) /\ Top.lfn.len > 0 => Top.lfn.of = k + 1
  BY <1>1, EntryFacts
<1>3. NamesOwn(vol) => Owner = k + 1 /\ Name = ItemsHere[k + 1]
  BY <1>2 DEF Owner, Name, LongName
<1>4. Searches(vol, Behind) /\ Behind.path = Top.path
  BY <1>1, BehindSearches
<1>5. Behind = Unnamed(Top, p) /\ Top \in AFrame /\ Top.lfn \in Names
  BY TopFrame DEF Behind, Unnamed, AFrame, Names
<1>6. off.len = 0
  BY <1>5 DEF Names
<1>. HIDE DEF p
<1>7. /\ Unnamed(Top, p).dir = Top.dir
      /\ Stands(vol, Top.dir, k + 1, Top.next * PerSector, Top.buf, p, Top.carry, off) => Stays(vol, Unnamed(Top, p), k + 1)
  BY <1>5, MadeStays
<1>. HIDE DEF off
<1>8. Stays(vol, Behind, k + 1) /\ Behind.dir = Top.dir
  BY <1>2, <1>5, <1>6, <1>7
<1>9. k # Len(ItemsHere) /\ k + 1 \in 1..Len(ItemsHere)
  <2>1. Len(ItemsHere) \in Nat
    BY HereIs, DirFacts DEF Lists
  <2>. QED BY <1>2, <2>1
<1>10. Behind \in AFrame
  BY <1>4 DEF Searches
<1>11. ItemsHere[k + 1].kind \in {"file", "dir", "dots"}
  BY <1>1, <1>2
<1>. QED BY <1>2, <1>3, <1>4, <1>8, <1>9, <1>10, <1>11

\* The lists that the calls put together below this one.
LEMMA BelowHere ==
  ASSUME AtTop, Len(stack) <= MaxCalls, NEW k \in 0..Len(ItemsHere), k # Len(ItemsHere),
         NEW B, B = Listing(vol)[MaxCalls - Len(stack)]
  PROVE  B \in Levels(vol) /\ Adds(k) = Added(ItemsHere[k + 1], k + 1, Top.path, B)
<1>1. InDir(vol, Top.dir)
  BY HereIs
<1>2. Top.path \in Paths /\ ItemsHere = ItemsOf(vol, Top.dir) /\ Len(stack) \in 1..MaxCalls
  BY HereIs
<1>. DEFINE d == Top.dir
            n == Len(stack)
<1>3. B = Listing(vol)[MaxCalls - n] /\ n \in 1..MaxCalls
  BY <1>2
<1>4. k \in 0..Len(ItemsOf(vol, d)) /\ k # Len(ItemsOf(vol, d))
  BY <1>2
<1>. HIDE DEF d, n
<1>5. B \in Levels(vol)
  BY <1>1, <1>2, <1>3, <1>4, RestOfNext DEF d
<1>. QED BY <1>5 DEF Adds

LEMMA TakeLists ==
  ASSUME AtTop, Lists(vol, stack, files, errors), NamesOwn(vol), Take
  PROVE  Lists(vol', stack', files', errors')
<1>1. PICK a \in Seq(AFile), k \in Nat :
        /\ Stands(vol, Top.dir, k, Top.next * PerSector, Top.buf, Top.pos, Top.carry, Top.lfn)
        /\ Below(a, k) /\ Listed(vol, files, errors, a)
  BY TopStands
<1>. DEFINE d == Top.dir
            i == k + 1
            it == ItemsHere[i]
            p == Top.path
            B == Listing(vol)[MaxCalls - Len(stack)]
            x == [path |-> Join(p, i, it.bytes), item |-> i, type |-> it.name]
<1>2. /\ AtEntry /\ ~Descends /\ stack' = Append(Front(stack), Behind) /\ errors' = errors
      /\ files' = IF Bootable /\ Len(files) < MaxFiles
                    THEN Append(files, [path |-> Join(Top.path, Owner, Name.bytes),
                                        item |-> Here.item, type |-> Name.name])
                    ELSE files
  BY DEF Take, SetTop
<1>3. /\ Behind \in AFrame /\ Behind.dir = Top.dir /\ Behind.path = Top.path /\ Stays(vol, Behind, k + 1)
      /\ k \in 0..Len(ItemsHere) /\ k # Len(ItemsHere) /\ i \in 1..Len(ItemsHere)
      /\ Here.item = i /\ Item = it /\ Items = ItemsHere
      /\ it.kind \in {"file", "dir", "dots"}
      /\ Owner = i /\ Name = it
  BY <1>1, <1>2, BehindStays
<1>4. /\ Len(stack) <= MaxCalls /\ files \in Seq(AFile)
  BY DEF Lists
<1>5. InDir(vol, d)
  BY <1>4, HereIs
<1>6. p \in Paths /\ ItemsHere = ItemsOf(vol, d) /\ vol' = vol /\ d \in DOMAIN vol.dirs
  BY <1>4, HereIs, TopFrame DEF AtTop
<1>7. B \in Levels(vol) /\ Adds(k) = Added(it, i, p, B)
  <2>1. k \in 0..Len(ItemsHere) /\ k # Len(ItemsHere)
    BY <1>3
  <2>2. B = Listing(vol)[MaxCalls - Len(stack)]
    OBVIOUS
  <2>. HIDE DEF B
  <2>. QED BY <1>4, <2>1, <2>2, BelowHere
<1>8. ~(it.kind = "dir" /\ Len(files) < MaxFiles /\ p.slashes < MaxDepth)
  BY <1>2, <1>3 DEF Descends
<1>9. Bootable <=> it.name \in Payloads /\ ~(LongName /\ it.cut)
  BY <1>3 DEF Bootable
<1>10. Regular(vol) => ~it.cut
  <2>1. i \in DOMAIN vol.dirs[d].items /\ it = vol.dirs[d].items[i]
    BY <1>3, <1>5, <1>6, DirFacts DEF ItemsOf
  <2>. QED BY <1>6, <2>1 DEF Regular
<1>11. \/ files' = Append(files, x) /\ Len(files) < MaxFiles /\ it.name \in Payloads
       \/ files' = files /\ (Regular(vol) /\ it.name \in Payloads => ~(Len(files) < MaxFiles))
  <2>1. x = [path |-> Join(Top.path, Owner, Name.bytes), item |-> Here.item, type |-> Name.name]
    BY <1>3
  <2>. HIDE DEF x
  <2>2. files' = IF Bootable /\ Len(files) < MaxFiles THEN Append(files, x) ELSE files
    BY <1>2, <2>1
  <2>3. Regular(vol) /\ it.name \in Payloads => Bootable
    BY <1>9, <1>10
  <2>4. Bootable => it.name \in Payloads
    BY <1>9
  <2>. HIDE DEF it
  <2>5. CASE Bootable /\ Len(files) < MaxFiles
    BY <2>2, <2>4, <2>5
  <2>6. CASE ~(Bootable /\ Len(files) < MaxFiles)
    BY <2>2, <2>3, <2>6
  <2>. QED BY <2>5, <2>6
<1>12. files' \in Seq(AFile) /\ Listed(vol, files', errors, a \o Adds(k))
  <2>1. i \in 1..Len(ItemsOf(vol, d)) /\ it = ItemsOf(vol, d)[i]
    BY <1>3, <1>6
  <2>2. Adding(vol, d, i, p, files, files')
    <3>1. it.kind \in {"file", "dir", "dots"}
      BY <1>3
    <3>. QED BY <1>8, <1>11, <2>1, <3>1 DEF Adding
  <2>3. Listed(vol, files, errors, a)
    BY <1>1
  <2>4. B \in Levels(vol)
    BY <1>7
  <2>5. InDir(vol, d)
    BY <1>5
  <2>6. files \in Seq(AFile) /\ p \in Paths
    BY <1>4, <1>6
  <2>7. i \in 1..Len(ItemsOf(vol, d))
    BY <2>1
  <2>. DEFINE t1 == files'
  <2>8. Adding(vol, d, i, p, files, t1)
    BY <2>2
  <2>. HIDE DEF x, i, p, B, d, t1
  <2>9. t1 \in Seq(AFile) /\ Listed(vol, t1, errors, a \o Added(ItemsOf(vol, d)[i], i, p, B))
    BY <2>3, <2>4, <2>5, <2>6, <2>7, <2>8, TakenListed
  <2>. QED BY <1>7, <2>1, <2>9 DEF t1
<1>13. a \o Adds(k) \in Seq(AFile) /\ Owed(vol, stack', a \o Adds(k)) /\ Len(stack') = Len(stack)
  <2>1. Below(a, k)
    BY <1>1
  <2>2. Stays(vol, Behind, k + 1)
    BY <1>3
  <2>. QED BY <1>2, <1>3, <1>4, <2>1, <2>2, Passed
<1>. HIDE DEF B, x
<1>. QED BY <1>2, <1>4, <1>6, <1>12, <1>13 DEF Lists

\* The call on top is over: it has come to its end, or the list is not in question.
LEMMA Popped ==
  ASSUME AtTop, Lists(vol, stack, files, errors), NEW a \in Seq(AFile), NEW k \in Nat,
         Below(a, k), Stays(vol, Top, k), Listed(vol, files, errors, a),
         stack' = Front(stack), files' = files,
         Regular(vol) /\ errors' = 0 => errors = 0 /\ k = Len(ItemsHere)
  PROVE  Lists(vol', stack', files', errors')
<1>. DEFINE n == Len(stack)
            R == RestOf(vol, Top, k, n)
            m == (MaxCalls - n) + 1
<1>1. n <= MaxCalls /\ files \in Seq(AFile) /\ vol' = vol
  BY DEF Lists, AtTop
<1>2. /\ n \in 1..MaxCalls /\ MaxCalls \in Nat /\ Len(Front(stack)) + 1 = n /\ Front(stack) \in Seq(AFrame)
      /\ Top.path \in Paths /\ ItemsHere = ItemsOf(vol, Top.dir)
  BY <1>1, HereIs
<1>3. R \in Seq(AFile)
  <2>1. Searches(vol, Top) /\ IsVolume(vol)
    BY <1>1, HereIs
  <2>2. n \in 1..MaxCalls
    BY <1>2
  <2>. HIDE DEF n
  <2>. QED BY <2>1, <2>2, RestOfTyped
<1>4. k = Len(ItemsHere) => R = <<>>
  <2>1. m \in 1..MaxCalls /\ m - 1 = MaxCalls - n
    BY <1>2
  <2>2. InDir(vol, Top.dir)
    BY <1>1, HereIs
  <2>. DEFINE d == Top.dir
              q == Top.path
              B == Listing(vol)[m - 1]
  <2>3. q \in Paths
    BY <1>2
  <2>. HIDE DEF m, d, q
  <2>4. Rest(vol, d, q, Len(ItemsOf(vol, d)), B) = <<>>
    <3>1. InDir(vol, d)
      BY <2>2 DEF d
    <3>2. m \in 1..MaxCalls
      BY <2>1
    <3>. QED BY <2>3, <3>1, <3>2, RestFacts
  <2>5. B = Listing(vol)[MaxCalls - n]
    BY <2>1
  <2>. QED BY <1>2, <2>4, <2>5 DEF RestOf, d, q
<1>. DEFINE c == a \o R
<1>5. Owed(vol, stack', c)
  BY DEF Below
<1>. HIDE DEF R
<1>6. c \in Seq(AFile)
  BY <1>3, Concatenated
<1>7. Thinned(files, c)
  BY <1>1, <1>3, ThinnedMore DEF Listed
<1>8. Regular(vol) /\ errors' = 0 => Exactly(files, c)
  <2>1. SUFFICES ASSUME Regular(vol) /\ errors' = 0 PROVE Exactly(files, c)
    OBVIOUS
  <2>2. c = a
    BY <1>4, <2>1, EmptyAround
  <2>3. Exactly(files, a)
    BY <2>1 DEF Listed
  <2>. QED BY <2>2, <2>3
<1>9. Len(stack') <= MaxCalls
  <2>1. Len(Front(stack)) \in Nat
    BY <1>2
  <2>. HIDE DEF n
  <2>. QED BY <1>2, <2>1
<1>. HIDE DEF c
<1>10. Listed(vol', files', errors', c)
  BY <1>1, <1>7, <1>8 DEF Listed
<1>. QED BY <1>1, <1>5, <1>6, <1>9, <1>10 DEF Lists

LEMMA ReturnLists ==
  ASSUME AtTop, Lists(vol, stack, files, errors), Return
  PROVE  Lists(vol', stack', files', errors')
<1>1. PICK a \in Seq(AFile), k \in Nat :
        Stays(vol, Top, k) /\ Below(a, k) /\ Listed(vol, files, errors, a)
  BY AtWork
<1>2. stack' = Front(stack) /\ UNCHANGED <<files, errors>>
  BY DEF Return
<1>3. Regular(vol) => k = Len(ItemsHere)
  <2>. DEFINE d == Top.dir
              b == Top.buf
              r == Top.next * PerSector
  <2>1. SUFFICES ASSUME Regular(vol) PROVE k = Len(ItemsHere)
    OBVIOUS
  <2>2. InDir(vol, d)
    BY HereIs DEF Lists
  <2>3. ItemsHere = ItemsOf(vol, d)
    BY HereIs DEF Lists
  <2>4. Stands(vol, d, k, r, b, Top.pos, Top.carry, Top.lfn)
    BY <1>1 DEF Stays
  <2>5. \/ Top.pos <= Len(b) /\ b[Top.pos].kind = "end"
        \/ ~(Top.pos <= Len(b)) /\ r = Sectors(vol, d) * PerSector
    BY DEF Return, More, Here
  <2>6. Sectors(vol, d) * PerSector >= Len(Slots(vol, d))
    BY <2>1, <2>2, SectorsHold
  <2>. HIDE DEF d, b, r
  <2>7. \/ Top.pos <= Len(b) /\ b[Top.pos].kind = "end"
        \/ ~(Top.pos <= Len(b)) /\ r >= Len(Slots(vol, d))
    BY <2>5, <2>6
  <2>8. k = Len(ItemsOf(vol, d))
    BY <2>2, <2>4, <2>7, AtEnd
  <2>. QED BY <2>3, <2>8
<1>. QED BY <1>1, <1>2, <1>3, Popped

LEMMA FailLists ==
  ASSUME AtTop, Lists(vol, stack, files, errors), errors \in Nat, ReadFails
  PROVE  Lists(vol', stack', files', errors')
<1>1. PICK a \in Seq(AFile), k \in Nat :
        Stays(vol, Top, k) /\ Below(a, k) /\ Listed(vol, files, errors, a)
  BY AtWork
<1>2. stack' = Front(stack) /\ files' = files /\ errors' # 0
  BY DEF ReadFails
<1>. QED BY <1>1, <1>2, Popped

\* A call on a directory owes what the level below lists for it.
LEMMA NewStays ==
  ASSUME NEW v, NEW d, InDir(v, d), NEW q \in Paths, NEW n \in Nat, n < MaxCalls
  PROVE  /\ Frame(d, q) \in AFrame /\ Stays(v, Frame(d, q), 0)
         /\ RestOf(v, Frame(d, q), 0, n + 1) = Listing(v)[MaxCalls - n][d][q]
<1>. DEFINE m == MaxCalls - n
            f == Frame(d, q)
<1>1. m \in 1..MaxCalls /\ m - 1 = MaxCalls - (n + 1) /\ PerSector \in Nat
  BY ScanAssumption
<1>2. NoName.len = 0
  BY DEF NoName
<1>3. Stands(v, d, 0, 0, <<>>, 1, <<>>, NoName)
  BY <1>2, FirstPlace
<1>4. Stays(v, f, 0)
  <2>1. 0 * PerSector = 0
    BY <1>1
  <2>. QED BY <1>3, <2>1 DEF Stays, Frame
<1>5. f \in AFrame
  <2>1. d \in DOMAIN v.dirs /\ d \in Nat
    BY DirFacts DEF InDir
  <2>. QED BY <2>1, NewFrame DEF Searches
<1>6. f.dir = d /\ f.path = q
  BY DEF Frame
<1>. HIDE DEF m, f
<1>7. Rest(v, d, q, 0, Listing(v)[m - 1]) = Listing(v)[m][d][q]
  BY <1>1, RestFacts
<1>8. RestOf(v, f, 0, n + 1) = Listing(v)[m][d][q]
  BY <1>1, <1>6, <1>7 DEF RestOf
<1>. QED BY <1>4, <1>5, <1>8 DEF f, m

LEMMA DescendLists ==
  ASSUME AtTop, Lists(vol, stack, files, errors), NamesOwn(vol), Descend
  PROVE  Lists(vol', stack', files', errors')
<1>1. PICK a \in Seq(AFile), k \in Nat :
        /\ Stands(vol, Top.dir, k, Top.next * PerSector, Top.buf, Top.pos, Top.carry, Top.lfn)
        /\ Below(a, k) /\ Listed(vol, files, errors, a)
  BY TopStands
<1>. DEFINE n == Len(stack)
            s == Append(Front(stack), Behind)
            it == ItemsHere[k + 1]
            d == it.sub
            q == Join(Top.path, k + 1, it.bytes)
            f == Frame(d, q)
            B == Listing(vol)[MaxCalls - n]
<1>2. /\ AtEntry /\ Item.kind = "dir" /\ Top.path.slashes < MaxDepth /\ n < MaxCalls
      /\ stack' = Front(stack) \o <<Behind, Frame(Item.sub, Join(Top.path, Owner, Name.bytes))>>
      /\ UNCHANGED <<files, errors>>
  BY DEF Descend, Descends, StackHolds
<1>3. /\ Behind \in AFrame /\ Behind.dir = Top.dir /\ Behind.path = Top.path /\ Stays(vol, Behind, k + 1)
      /\ k \in 0..Len(ItemsHere) /\ k # Len(ItemsHere) /\ k + 1 \in 1..Len(ItemsHere) /\ Item = it
      /\ Owner = k + 1 /\ Name = it
  BY <1>1, <1>2, BehindStays
<1>4. n <= MaxCalls /\ files \in Seq(AFile) /\ vol' = vol
  BY DEF Lists, AtTop
<1>5. /\ Front(stack) \in Seq(AFrame) /\ Len(Front(stack)) + 1 = n /\ Top.path \in Paths
      /\ ItemsHere = ItemsOf(vol, Top.dir) /\ n \in 1..MaxCalls /\ MaxCalls \in Nat
  BY <1>4, HereIs
<1>6. InDir(vol, Top.dir)
  BY <1>4, HereIs
<1>7. d \in DOMAIN vol.dirs /\ it.bytes \in Nat /\ k + 1 \in Nat
  <2>1. it \in AnItem /\ (it.kind = "dir" => it.sub \in DOMAIN vol.dirs)
    BY <1>3, <1>5, <1>6, ItemFacts
  <2>. QED BY <1>2, <1>3, <2>1 DEF AnItem
<1>8. InDir(vol, d)
  BY <1>7 DEF InDir, AtTop
<1>9. q \in Paths
  BY <1>5, <1>7, JoinTyped
<1>10. Adds(k) = B[d][q]
  BY <1>2, <1>3 DEF Adds, Added
<1>11. Owed(vol, s, a \o Adds(k)) /\ Len(s) = n
  <2>1. Below(a, k)
    BY <1>1
  <2>2. Stays(vol, Behind, k + 1)
    BY <1>3
  <2>. QED BY <1>3, <1>4, <2>1, <2>2, Passed
<1>12. stack' = Append(s, f)
  <2>. DEFINE t == Front(stack)
              g == Behind
  <2>1. stack' = t \o <<g, f>>
    BY <1>2, <1>3
  <2>2. t \in Seq(AFrame) /\ g \in AFrame
    BY <1>3, <1>5
  <2>. HIDE DEF t, g, f
  <2>3. t \o <<g, f>> = Append(Append(t, g), f)
    BY <2>2
  <2>. QED BY <2>1, <2>3 DEF t, g
<1>13. s \in Seq(AFrame)
  BY <1>3, <1>5
<1>14. f \in AFrame
  <2>. HIDE DEF d, q, n
  <2>. QED BY <1>2, <1>5, <1>8, <1>9, NewStays
<1>15. Stays(vol, f, 0)
  <2>. HIDE DEF d, q, n
  <2>. QED BY <1>2, <1>5, <1>8, <1>9, NewStays
<1>16. RestOf(vol, f, 0, n + 1) = B[d][q]
  <2>. HIDE DEF d, q, n
  <2>. QED BY <1>2, <1>5, <1>8, <1>9, NewStays
<1>17. Owed(vol, s, a \o RestOf(vol, f, 0, Len(s) + 1))
  BY <1>10, <1>11, <1>16
<1>. HIDE DEF s, f
<1>18. Owed(vol, Append(s, f), a)
  BY <1>13, <1>14, <1>15, <1>17, OwedPush
<1>19. Len(stack') <= MaxCalls
  <2>1. Len(stack') = Len(s) + 1
    BY <1>12, <1>13
  <2>. HIDE DEF n
  <2>. QED BY <1>2, <1>5, <1>11, <2>1
<1>. QED BY <1>1, <1>2, <1>4, <1>12, <1>18, <1>19 DEF Lists

\* A search begins with nothing listed and all of it owed.
LEMMA SearchLists ==
  ASSUME NEW v, IsVolume(v), StartScan(v), NEW er
  PROVE  vol' = v /\ Lists(v, stack', files', er)
<1>1. /\ vol' = v /\ files' = <<>> /\ stack' = IF v.fs = "ntfs" THEN <<>> ELSE <<Frame(1, Root)>>
  BY DEF StartScan
<1>2. MaxCalls \in Nat /\ MaxCalls >= 1 /\ MaxFiles \in Nat
  BY ScanAssumption
<1>3. <<>> \in Seq(AFile) /\ Len(<<>>) = 0
  OBVIOUS
<1>4. Expected(v) \in Seq(AFile)
  BY ExpectedIs
<1>5. Thinned(<<>>, Expected(v)) /\ Thinned(<<>>, <<>>)
  BY ThinnedNothing
<1>6. Exactly(<<>>, <<>>)
  BY <1>2, <1>3 DEF Exactly, First
<1>7. Listed(v, <<>>, er, <<>>)
  BY <1>5, <1>6 DEF Listed
<1>8. CASE v.fs = "ntfs"
  <2>1. v.dirs = <<>>
    BY <1>8, VolumeFacts
  <2>2. Expected(v) = <<>>
    BY <2>1 DEF Expected
  <2>3. Owed(v, <<>>, <<>>)
    BY <1>3, <2>2, OwedNothing
  <2>4. Lists(v, <<>>, <<>>, er)
    <3>. DEFINE e == <<>>
    <3>1. e \in Seq(AFile) /\ Len(e) <= MaxCalls
      BY <1>2, <1>3
    <3>2. Owed(v, e, e)
      BY <2>3
    <3>3. Listed(v, e, er, e)
      BY <1>7
    <3>. HIDE DEF e
    <3>4. Lists(v, e, e, er)
      BY <3>1, <3>2, <3>3 DEF Lists
    <3>. QED BY <3>4 DEF e
  <2>. QED BY <1>1, <1>8, <2>4
<1>9. CASE v.fs # "ntfs"
  <2>. DEFINE f == Frame(1, Root)
              s == Append(<<>>, f)
  <2>1. 1 \in DOMAIN v.dirs /\ v.dirs # <<>>
    BY <1>9, VolumeFacts
  <2>2. InDir(v, 1)
    BY <2>1 DEF InDir
  <2>3. Root \in Paths
    BY DEF Root, Paths
  <2>4. 0 \in Nat /\ 0 < MaxCalls /\ MaxCalls - 0 = MaxCalls /\ 0 + 1 = 1
    BY <1>2
  <2>5. Expected(v) = Listing(v)[MaxCalls][1][Root]
    BY <2>1, ExpectedIs
  <2>6. f \in AFrame /\ RestOf(v, f, 0, 1) = Expected(v)
    <3>1. f \in AFrame /\ RestOf(v, f, 0, 0 + 1) = Listing(v)[MaxCalls - 0][1][Root]
      BY <2>2, <2>3, <2>4, NewStays
    <3>. QED BY <2>4, <2>5, <3>1
  <2>7. Stays(v, f, 0)
    BY <2>2, <2>3, <2>4, NewStays
  <2>8. Owed(v, <<>>, Expected(v))
    BY <1>4, OwedNothing
  <2>9. <<>> \o Expected(v) = Expected(v)
    BY <1>4, EmptyAround
  <2>10. Owed(v, <<>>, <<>> \o RestOf(v, f, 0, Len(<<>>) + 1))
    <3>1. RestOf(v, f, 0, Len(<<>>) + 1) = Expected(v)
      BY <1>3, <2>4, <2>6
    <3>. QED BY <2>8, <2>9, <3>1
  <2>. HIDE DEF f
  <2>11. <<>> \in Seq(AFrame) /\ 0 \in Nat
    OBVIOUS
  <2>12. Owed(v, s, <<>>)
    BY <1>3, <2>6, <2>7, <2>10, <2>11, OwedPush
  <2>13. stack' = s /\ Len(s) = 1
    <3>1. stack' = <<f>>
      BY <1>1, <1>9 DEF f
    <3>. QED BY <3>1
  <2>. HIDE DEF s
  <2>. QED BY <1>1, <1>2, <1>3, <1>7, <2>12, <2>13 DEF Lists
<1>. QED BY <1>8, <1>9

LEMMA ScanLists ==
  ASSUME AtTop, ScanStep, Lists(vol, stack, files, errors), NamesOwn(vol), errors \in Nat
  PROVE  Lists(vol', stack', files', errors')
BY ReadLists, ReturnLists, FailLists, SkipLists, PieceLists, CarryLists, BrokenLists, DescendLists,
   TakeLists DEF ScanStep

\* More read errors take payloads away.
LEMMA ListsLess ==
  ASSUME NEW v, NEW s, NEW t, NEW e \in Nat, NEW er, er = e \/ er = e + 1, Lists(v, s, t, e)
  PROVE  Lists(v, s, t, er)
<1>1. er = 0 => e = 0
  OBVIOUS
<1>2. \A a : Listed(v, t, e, a) => Listed(v, t, er, a)
  BY <1>1 DEF Listed
<1>. QED BY <1>2 DEF Lists

EfiList ==
  /\ EfiStack /\ errors \in Nat
  /\ NamesOwn(vol) => Lists(vol, stack, files, errors)

LEMMA ListKept ==
  ASSUME EfiList, [Next]_vars
  PROVE  EfiList'
<1>1. EfiStack' /\ EfiStack
  BY StackKept DEF EfiList
<1>2. errors' \in Nat
  BY <1>1 DEF EfiStack, Located
<1>3. SUFFICES ASSUME NamesOwn(vol') PROVE Lists(vol', stack', files', errors')
  BY <1>1, <1>2 DEF EfiList
<1>4. CASE Scan
  <2>1. pc = "scan" /\ stack # <<>> /\ vol' = vol /\ ScanStep
    BY <1>4 DEF Scan, ScanStep, ReadSector, Return, ReadFails, SkipSlot, TakePiece,
                CarryOver, SkipBroken, Descend, Take, AtEntry, Scanning
  <2>2. AtTop
    BY <1>1, <2>1 DEF EfiStack, AtTop
  <2>. QED BY <1>3, <2>1, <2>2, ScanLists DEF EfiList
<1>5. CASE MountFilesystem
  <2>. DEFINE v == disks[disk].at[part.lba]
  <2>1. pc = "mount" /\ StartScan(v)
    BY <1>5 DEF MountFilesystem
  <2>2. disks \in Machines /\ disk \in DOMAIN disks /\ part.lba \in DOMAIN disks[disk].at
    BY <1>1, <2>1 DEF EfiStack, Located
  <2>3. IsVolume(v)
    BY <2>2, BootAssumption
  <2>. HIDE DEF v
  <2>. QED BY <2>1, <2>3, SearchLists
<1>6. CASE PressRefresh
  <2>1. pc = "menu" /\ StartScan(vol)
    BY <1>6 DEF PressRefresh, Key
  <2>2. IsVolume(vol)
    BY <1>1, <2>1 DEF EfiStack
  <2>. QED BY <2>1, <2>2, SearchLists
<1>7. CASE UNCHANGED <<vol, stack, files>> /\ (errors' = errors \/ errors' = errors + 1)
  <2>1. Lists(vol, stack, files, errors) /\ errors \in Nat
    BY <1>3, <1>7 DEF EfiList
  <2>. QED BY <1>7, <2>1, ListsLess
<1>8. CASE DiscoverPayload \/ DiscoverDisk \/ DiscoverPartition \/ StageFails
  BY <1>7, <1>8 DEF DiscoverPayload, DiscoverDisk, DiscoverPartition, StageFails, scanVars
<1>9. CASE NextPage \/ PreviousPage \/ Backspace \/ TypeDigit \/ Enter \/ KeyboardFails
  BY <1>7, <1>9 DEF NextPage, PreviousPage, Backspace, TypeDigit, Enter, KeyboardFails, Typing, Key
<1>10. CASE UNCHANGED vars
  BY <1>7, <1>10 DEF vars, scanVars
<1>. QED BY <1>4, <1>5, <1>6, <1>8, <1>9, <1>10 DEF Next, Stage, Menu

\* What is owed says what the list is.
LEMMA ListsExact ==
  ASSUME EfiList
  PROVE  ScanExact
<1>1. SUFFICES ASSUME NamesOwn(vol)
               PROVE  /\ Thinned(files, Expected(vol))
                      /\ Regular(vol) /\ errors = 0 =>
                           /\ IsPrefix(files, Expected(vol))
                           /\ Searched => Len(files) = Min({Len(Expected(vol)), MaxFiles})
  BY DEF ScanExact
<1>2. PICK a \in Seq(AFile) : Owed(vol, stack, a) /\ Listed(vol, files, errors, a)
  BY <1>1 DEF EfiList, Lists
<1>3. files \in Seq(AFile) /\ Len(stack) <= MaxCalls /\ MaxFiles \in Nat
  BY <1>1, ScanAssumption DEF EfiList, Lists
<1>4. \E b \in Seq(AFile) : Expected(vol) = a \o b /\ (stack = <<>> => a = Expected(vol))
  <2>1. CASE stack = <<>>
    <3>1. a = Expected(vol)
      BY <1>2, <2>1, OwedNothing
    <3>2. a \o <<>> = a /\ <<>> \in Seq(AFile)
      BY EmptyAround
    <3>. QED BY <3>1, <3>2
  <2>2. CASE stack # <<>>
    <3>1. Nested(vol, stack) /\ IsVolume(vol)
      BY <2>2 DEF EfiList, EfiStack
    <3>. QED BY <1>2, <1>3, <2>2, <3>1, OwedPrefix
  <2>. QED BY <2>1, <2>2
<1>5. PICK b \in Seq(AFile) : Expected(vol) = a \o b /\ (stack = <<>> => a = Expected(vol))
  BY <1>4
<1>6. Thinned(files, a \o b)
  BY <1>2, <1>3, ThinnedMore DEF Listed
<1>7. ASSUME Regular(vol), errors = 0
      PROVE  /\ IsPrefix(files, a \o b)
             /\ Searched => Len(files) = Min({Len(Expected(vol)), MaxFiles})
  <2>1. Exactly(files, a)
    BY <1>2, <1>7 DEF Listed
  <2>2. IsPrefix(files, a \o b)
    BY <1>3, <2>1, ExactlyPrefix
  <2>3. Searched => stack = <<>>
    BY DEF Searched, EfiList, EfiStack
  <2>4. stack = <<>> => Len(files) = First(Len(Expected(vol)))
    BY <1>5, <2>1 DEF Exactly
  <2>5. a = Expected(vol) => Min({Len(Expected(vol)), MaxFiles}) = First(Len(Expected(vol)))
    <3>1. Len(a) \in Nat
      OBVIOUS
    <3>2. Min({Len(a), MaxFiles}) = First(Len(a))
      BY <1>3, <3>1, MinOfTwo DEF First
    <3>. QED BY <3>2
  <2>. QED BY <1>5, <2>2, <2>3, <2>4, <2>5
<1>. QED BY <1>5, <1>6, <1>7

\* The search of scan_fat32_dir and scan_exfat_dir, its recursion and its
\* buffers: wherever the entries of an item break across sectors and those of a
\* directory across clusters, the list is a prefix of the payloads of the volume
\* in their order, the first MAX_FILES of them at the end of a search in which
\* every sector could be read, and never anything else.
THEOREM PayloadsListed == Spec => []ScanExact
<1>1. Init => EfiList
  <2>1. SUFFICES ASSUME Init PROVE EfiList
    OBVIOUS
  <2>2. /\ stack = <<>> /\ pc = "disk" /\ Located /\ files = <<>> /\ errors = 0
        /\ vol = [fs |-> "none", dirs |-> <<>>]
    BY <2>1 DEF Init, Located, NoPartition
  <2>3. EfiStack
    BY <2>2, NoneNested DEF EfiStack
  <2>4. Expected(vol) = <<>>
    BY <2>2 DEF Expected
  <2>. DEFINE e == <<>>
  <2>5. e \in Seq(AFile) /\ Len(e) = 0 /\ Len(e) <= MaxCalls /\ MaxFiles \in Nat
    BY ScanAssumption
  <2>6. Owed(vol, e, e)
    BY <2>4, <2>5, OwedNothing
  <2>7. Listed(vol, e, errors, e)
    <3>1. Thinned(e, e)
      BY ThinnedNothing
    <3>2. Exactly(e, e)
      BY <2>5 DEF Exactly, First
    <3>. QED BY <3>1, <3>2 DEF Listed
  <2>8. stack = e /\ files = e
    BY <2>2
  <2>. HIDE DEF e
  <2>9. \E a \in Seq(AFile) : Owed(vol, e, a) /\ Listed(vol, e, errors, a)
    BY <2>5, <2>6, <2>7
  <2>10. Lists(vol, e, e, errors)
    BY <2>5, <2>9 DEF Lists
  <2>. QED BY <2>2, <2>3, <2>8, <2>10 DEF EfiList
<1>2. EfiList => ScanExact
  BY ListsExact
<1>3. EfiList /\ [Next]_vars => EfiList'
  BY ListKept
<1>. QED BY <1>1, <1>2, <1>3, PTL DEF Spec

=============================================================================
