---------------------------- MODULE BiosBootProofs ----------------------------
(***************************************************************************)
(* For every disk and directory: the BIOS loader takes the partition the   *)
(* UEFI loader takes, its scan lists the images of the directory, its menu *)
(* never shows a page behind its list, and the code jumped into is the     *)
(* first the catalog has for the BIOS.                                     *)
(***************************************************************************)
EXTENDS BiosBoot, LoaderFacts

-----------------------------------------------------------------------------
(* That partition is kept for good once it is found.                       *)

Found == drive \in Drives /\ (lba # 0 => lba = BiosLba(drive))

LEMMA FoundKept == Found /\ [Next]_allVars => Found'
<1> SUFFICES ASSUME Found, [Next]_allVars PROVE Found'
  OBVIOUS
<1>1. CASE UNCHANGED bootVars
  BY <1>1 DEF Found, bootVars
<1>2. CASE FindPartition
  BY <1>2 DEF Found, FindPartition
<1>3. CASE ReadStops
  BY <1>1, <1>3 DEF ReadStops
<1>4. CASE ParseElTorito
  BY <1>4 DEF Found, ParseElTorito
<1>5. CASE LoadBootImage
  BY <1>1, <1>5 DEF LoadBootImage
<1>6. CASE UNCHANGED allVars
  BY <1>1, <1>6 DEF allVars
<1> QED BY <1>1, <1>2, <1>3, <1>4, <1>5, <1>6 DEF Next, Stage

\* The partition whose images the BIOS lists is the one the UEFI loader lists
\* and the data partition, on every disk as the installer leaves it.
THEOREM LoadersCorrect == Spec => []LoadersAgree
<1>1. Init => Found
  BY DEF Init, Found
<1>2. Found => LoadersAgree
  <2>1. SUFFICES ASSUME Found, lba # 0, AsInstalled(drive)
                 PROVE  /\ lba = DataPartition(drive).lba
                        /\ EfiPartition(drive).lba = lba
    BY DEF LoadersAgree
  <2>2. IsDisk(drive) /\ lba = BiosLba(drive)
    BY <2>1, DriveAssumption DEF Found
  <2> QED BY <2>1, <2>2, InstalledAgree
<1> QED BY <1>1, <1>2, FoundKept, PTL DEF Spec

-----------------------------------------------------------------------------
(* Pages.                                                                  *)

\* The page is the first until the list is complete; a rescan starts with a
\* list that has an image already, so the test for an empty one is not missed.
Paging ==
  /\ page \in Nat /\ \E S : files \in Seq(S)
  /\ pc = "part" => rescans = 0
  /\ pc \in {"part", "scan"} => page = 0
  /\ pc = "scan" /\ rescans # 0 => files # <<>>
  /\ pc = "menu" => page < Len(files) /\ page % MENU_PAGE_SIZE = 0

LEMMA ScanPaging ==
  ASSUME Paging, Scan
  PROVE  Paging'
<1>1. pc = "scan" /\ UNCHANGED <<page, rescans>> /\ page = 0
  BY DEF Paging, Scan, Scanning, ReadSector, EndOfDirectory, ReadFails, SkipEntry, CarryOver, TakeSet
<1>2. (\E S : files' \in Seq(S)) /\ (files # <<>> => files' # <<>>)
  <2>1. CASE UNCHANGED files
    BY <2>1 DEF Paging
  <2>2. CASE TakeSet
    <3>1. files' = files \/ files' = Append(files, buf[pos].item)
      BY <2>2 DEF TakeSet, List
    <3> QED BY <2>1, <3>1, AppendGrows DEF Paging
  <2> QED BY <2>1, <2>2 DEF Scan, ReadSector, EndOfDirectory, ReadFails, SkipEntry, CarryOver
<1>3. \/ pc' = "scan"
      \/ UNCHANGED files /\ AfterScan
  BY <1>1 DEF Scan, ReadSector, EndOfDirectory, ReadFails, SkipEntry, CarryOver, TakeSet
<1>4. 0 % MENU_PAGE_SIZE = 0
  <2>1. MENU_PAGE_SIZE \in Nat \ {0}
    BY BiosAssumption
  <2> QED BY <2>1
<1>5. CASE pc' = "scan"
  BY <1>1, <1>2, <1>5 DEF Paging
<1>6. CASE UNCHANGED files /\ AfterScan
  <2>1. pc' = "halted" \/ (pc' = "menu" /\ files' # <<>>)
    BY <1>1, <1>6 DEF AfterScan, Paging
  <2>2. pc' = "menu" => Len(files') > 0
    BY <1>2, <2>1, EmptyOrShown
  <2> QED BY <1>1, <1>2, <1>4, <2>1, <2>2 DEF Paging
<1> QED BY <1>3, <1>5, <1>6

LEMMA MenuPaging ==
  ASSUME Paging, Menu
  PROVE  Paging'
<1>1. MENU_PAGE_SIZE \in Nat \ {0}
  BY BiosAssumption
<1>2. pc = "menu" /\ page < Len(files) /\ page % MENU_PAGE_SIZE = 0 /\ page \in Nat /\ UNCHANGED files
  BY DEF Paging, Menu, Key, Typing, PressRefresh, NextPage, PreviousPage, Backspace, TypeDigit, Enter
<1>3. Len(files) \in Nat /\ files # <<>>
  BY <1>2, EmptyOrShown DEF Paging
<1>4. CASE PressRefresh
  BY <1>2, <1>3, <1>4 DEF Paging, PressRefresh
<1>5. CASE UNCHANGED page /\ pc' \in {"menu", "booted"}
  BY <1>2, <1>5 DEF Paging
<1>6. CASE NextPage
  <2>1. pc' = "menu"
    BY <1>2, <1>6 DEF NextPage
  <2>2. page' \in Nat /\ page' < Len(files) /\ page' % MENU_PAGE_SIZE = 0
    <3>1. CASE page + MENU_PAGE_SIZE < Len(files)
      <4>1. page' = page + MENU_PAGE_SIZE
        BY <1>6, <3>1 DEF NextPage
      <4>2. page' \in Nat /\ page' < Len(files)
        BY <1>1, <1>2, <1>3, <3>1, <4>1
      <4>3. page' % MENU_PAGE_SIZE = 0
        BY <1>1, <1>2, <4>1, <4>2, MultipleOf
      <4> QED BY <4>2, <4>3
    <3>2. CASE ~ (page + MENU_PAGE_SIZE < Len(files))
      BY <1>2, <1>6, <3>2 DEF NextPage
    <3> QED BY <3>1, <3>2
  <2> QED BY <1>2, <2>1, <2>2 DEF Paging
<1>7. CASE PreviousPage
  <2>1. pc' = "menu"
    BY <1>2, <1>7 DEF PreviousPage
  <2>2. page' \in Nat /\ page' < Len(files) /\ page' % MENU_PAGE_SIZE = 0
    <3>1. CASE page > MENU_PAGE_SIZE
      <4>1. page' = page - MENU_PAGE_SIZE
        BY <1>7, <3>1 DEF PreviousPage
      <4>2. page' \in Nat /\ page = page' + MENU_PAGE_SIZE /\ page' < Len(files)
        BY <1>1, <1>2, <1>3, <3>1, <4>1
      <4>3. page' % MENU_PAGE_SIZE = 0
        BY <1>1, <1>2, <4>2, MultipleOf
      <4> QED BY <4>2, <4>3
    <3>2. CASE ~ (page > MENU_PAGE_SIZE)
      BY <1>1, <1>2, <1>3, <1>7, <3>2 DEF PreviousPage
    <3> QED BY <3>1, <3>2
  <2> QED BY <1>2, <2>1, <2>2 DEF Paging
<1>8. CASE Backspace \/ TypeDigit \/ Enter
  BY <1>2, <1>5, <1>8 DEF Backspace, TypeDigit, Enter
<1> QED BY <1>4, <1>6, <1>7, <1>8 DEF Menu

\* Every page of the BIOS menu shows at least one image, whatever keys are
\* pressed and wherever a rescan stops.
THEOREM PageCorrect == Spec => []PageInRange
<1>1. Init => Paging
  <2>1. SUFFICES ASSUME Init PROVE Paging
    OBVIOUS
  <2>2. <<>> \in Seq({})
    OBVIOUS
  <2> QED BY <2>1, <2>2 DEF Init, Paging
<1>2. Paging /\ [Next]_allVars => Paging'
  <2>1. SUFFICES ASSUME Paging, [Next]_allVars PROVE Paging'
    OBVIOUS
  <2>2. CASE Stage
    <3>1. UNCHANGED <<page, files, rescans>>
      BY <2>2 DEF Stage, FindPartition, ReadStops, ParseElTorito, LoadBootImage
    <3>2. \/ pc = "part" /\ pc' \in {"scan", "halted"}
          \/ pc' \in {"load", "halted", "jumped"}
      BY <2>2 DEF Stage, FindPartition, ReadStops, ParseElTorito, LoadBootImage
    <3> QED BY <2>1, <3>1, <3>2 DEF Paging
  <2>3. CASE Scan
    BY <2>1, <2>3, ScanPaging
  <2>4. CASE Menu
    BY <2>1, <2>4, MenuPaging
  <2>5. CASE UNCHANGED allVars
    BY <2>1, <2>5 DEF allVars, vars, Paging
  <2> QED BY <2>1, <2>2, <2>3, <2>4, <2>5 DEF Next
<1>3. Paging => PageInRange
  BY DEF Paging, PageInRange
<1> QED BY <1>1, <1>2, <1>3, PTL DEF Spec

-----------------------------------------------------------------------------
(* The scan.                                                               *)

AnEntry == [kind : {"file", "part", "short", "other", "end"}, more : Nat, item : Nat]

OnVolume == IsVolume([fs |-> fs, dir |-> dir])

Parts == [i \in DOMAIN dir |-> Entries(i)]
Shown == [i \in DOMAIN dir |-> IF dir[i].kind = "iso" THEN <<i>> ELSE <<>>]

\* Entries of an item, and its j-th.
Length(i) == IF fs = "exfat" THEN dir[i].names + 2 ELSE dir[i].names + 1

EntryAt(i, j) ==
  IF dir[i].kind = "gone" THEN Other
  ELSE IF fs = "exfat" THEN (IF j = 1 THEN Entry("file", dir[i].names + 1, i) ELSE Entry("part", 0, i))
  ELSE (IF j = dir[i].names + 1 THEN Entry("short", 0, i) ELSE Other)

LEMMA DirFacts ==
  ASSUME OnVolume
  PROVE  /\ fs \in {"exfat", "fat32"}
         /\ dir \in Seq([kind : {"iso", "plain", "gone"}, names : Nat])
         /\ Len(dir) \in Nat /\ DOMAIN dir = 1..Len(dir)
         /\ \A i \in 1..Len(dir) : dir[i].kind \in {"iso", "plain", "gone"} /\ dir[i].names \in Nat
         /\ fs = "exfat" => \A i \in 1..Len(dir) : dir[i].names + 2 <= CarryEntries
         /\ PerSector \in Nat \ {0} /\ CarryEntries \in Nat /\ MaxFiles \in Nat
<1>1. /\ fs \in {"exfat", "fat32"}
      /\ dir \in Seq([kind : {"iso", "plain", "gone"}, names : Nat])
      /\ fs = "exfat" => \A i \in DOMAIN dir : dir[i].names + 2 <= CarryEntries
  BY DEF OnVolume, IsVolume
<1>2. Len(dir) \in Nat /\ DOMAIN dir = 1..Len(dir)
  BY <1>1
<1>3. \A i \in DOMAIN dir : dir[i] \in [kind : {"iso", "plain", "gone"}, names : Nat]
  BY <1>1, ElementsTyped
<1>. QED BY <1>1, <1>2, <1>3, BiosAssumption

\* An item has an entry.
LEMMA LengthPositive ==
  ASSUME OnVolume, NEW d \in 1..Len(dir)
  PROVE  Length(d) \in Nat /\ Length(d) >= 1
<1>1. dir[d].names \in Nat
  BY DirFacts
<1>. QED BY <1>1 DEF Length

LEMMA CopiesAre ==
  ASSUME NEW S, NEW n \in Nat, NEW e \in S
  PROVE  /\ Copies(n, e) \in Seq(S) /\ Len(Copies(n, e)) = n
         /\ \A j \in 1..n : Copies(n, e)[j] = e
BY DEF Copies

LEMMA EntriesAre ==
  ASSUME OnVolume, NEW i \in 1..Len(dir)
  PROVE  /\ Entries(i) \in Seq(AnEntry) /\ Len(Entries(i)) = Length(i)
         /\ \A j \in 1..Length(i) : Entries(i)[j] = EntryAt(i, j)
<1>. DEFINE n == dir[i].names
<1>1. n \in Nat /\ dir[i].kind \in {"iso", "plain", "gone"} /\ fs \in {"exfat", "fat32"} /\ i \in Nat
  BY DirFacts
<1>2. Other \in AnEntry
  BY DEF Other, Entry, AnEntry
<1>3. CASE dir[i].kind = "gone"
  <2>1. Entries(i) = Copies(Length(i), Other)
    BY <1>1, <1>3 DEF Entries, Length
  <2>2. Length(i) \in Nat
    BY LengthPositive
  <2>3. /\ Copies(Length(i), Other) \in Seq(AnEntry) /\ Len(Copies(Length(i), Other)) = Length(i)
        /\ \A j \in 1..Length(i) : Copies(Length(i), Other)[j] = Other
    BY <1>2, <2>2, CopiesAre
  <2>. QED BY <1>3, <2>1, <2>3 DEF EntryAt
<1>4. CASE dir[i].kind # "gone" /\ fs = "exfat"
  <2>. DEFINE c == Copies(n + 1, Entry("part", 0, i))
              e == Entry("file", n + 1, i)
  <2>1. Entries(i) = <<e>> \o c /\ Length(i) = n + 2
    BY <1>1, <1>4 DEF Entries, Length
  <2>2. Entry("part", 0, i) \in AnEntry /\ e \in AnEntry /\ n + 1 \in Nat
    BY <1>1 DEF Entry, AnEntry
  <2>3. c \in Seq(AnEntry) /\ Len(c) = n + 1 /\ \A j \in 1..n + 1 : c[j] = Entry("part", 0, i)
    BY <2>2, CopiesAre
  <2>4. \A j \in 1..Length(i) : EntryAt(i, j) = IF j = 1 THEN e ELSE Entry("part", 0, i)
    BY <1>4 DEF EntryAt
  <2>. HIDE DEF c, e
  <2>5. <<e>> \o c \in Seq(AnEntry) /\ Len(<<e>> \o c) = n + 2
    BY <1>1, <2>2, <2>3
  <2>6. ASSUME NEW j \in 1..n + 2 PROVE (<<e>> \o c)[j] = IF j = 1 THEN e ELSE Entry("part", 0, i)
    <3>1. CASE j = 1
      BY <2>2, <2>3, <3>1
    <3>2. CASE j # 1
      <4>1. j - 1 \in 1..n + 1
        BY <1>1, <3>2
      <4>2. (<<e>> \o c)[j] = c[j - 1]
        BY <1>1, <2>2, <2>3, <3>2
      <4>. QED BY <2>3, <3>2, <4>1, <4>2
    <3>. QED BY <3>1, <3>2
  <2>. QED BY <2>1, <2>4, <2>5, <2>6
<1>5. CASE dir[i].kind # "gone" /\ fs = "fat32"
  <2>. DEFINE c == Copies(n, Other)
              e == Entry("short", 0, i)
  <2>1. Entries(i) = Append(c, e) /\ Length(i) = n + 1
    BY <1>1, <1>5 DEF Entries, Length
  <2>2. e \in AnEntry
    BY <1>1 DEF Entry, AnEntry
  <2>3. c \in Seq(AnEntry) /\ Len(c) = n /\ \A j \in 1..n : c[j] = Other
    BY <1>1, <1>2, CopiesAre
  <2>4. \A j \in 1..Length(i) : EntryAt(i, j) = IF j = n + 1 THEN e ELSE Other
    BY <1>5 DEF EntryAt
  <2>. HIDE DEF c, e
  <2>5. Append(c, e) \in Seq(AnEntry) /\ Len(Append(c, e)) = n + 1
    BY <1>1, <2>2, <2>3
  <2>6. \A j \in 1..n + 1 : Append(c, e)[j] = IF j = n + 1 THEN e ELSE Other
    BY <1>1, <2>2, <2>3
  <2>. QED BY <2>1, <2>4, <2>5, <2>6
<1>. QED BY <1>1, <1>3, <1>4, <1>5

\* Where the entries of the items begin and end, and how many of the items so
\* far are images.
Upto(d) == Ends(Parts)[d]
Count(d) == Ends(Shown)[d]

LEMMA PartsFacts ==
  ASSUME OnVolume
  PROVE  /\ Len(Flat) \in Nat /\ Len(Flat) = Upto(Len(dir)) /\ Upto(0) = 0
         /\ \A d \in 0..Len(dir) : Upto(d) \in Nat /\ Upto(d) <= Len(Flat)
         /\ \A d \in 1..Len(dir) : Upto(d) = Upto(d - 1) + Length(d)
         /\ \A d \in 1..Len(dir) : \A j \in 1..Length(d) : Flat[Upto(d - 1) + j] = EntryAt(d, j)
         /\ Flat \in Seq(AnEntry)
<1>1. Len(dir) \in Nat /\ DOMAIN dir = 1..Len(dir)
  BY DirFacts
<1>2. /\ Parts \in Seq(Seq(AnEntry)) /\ Len(Parts) = Len(dir)
      /\ \A d \in 1..Len(dir) : Parts[d] = Entries(d)
  BY <1>1, EntriesAre DEF Parts
<1>3. /\ Ends(Parts) \in [0..Len(Parts) -> Nat] /\ Ends(Parts)[0] = 0
      /\ \A i \in 1..Len(Parts) : Ends(Parts)[i] = Ends(Parts)[i - 1] + Len(Parts[i])
  BY <1>2, EndsDefined
<1>4. Flat \in Seq(AnEntry) /\ Joined(Parts, Flat, Len(Parts))
  <2>1. Flat = FlattenSeq(Parts)
    BY DEF Flat, Parts
  <2>2. FlattenSeq(Parts) \in Seq(AnEntry) /\ Joined(Parts, FlattenSeq(Parts), Len(Parts))
    BY <1>2, Flattened
  <2>. QED BY <2>1, <2>2
<1>5. Len(Flat) = Upto(Len(dir)) /\ Len(Flat) \in Nat
  BY <1>2, <1>4 DEF Joined, Upto
<1>6. ASSUME NEW d \in 0..Len(dir) PROVE Upto(d) \in Nat /\ Upto(d) <= Len(Flat)
  <2>1. d \in 0..Len(Parts) /\ Len(Parts) \in d..Len(Parts)
    BY <1>1, <1>2
  <2>2. Ends(Parts)[d] <= Ends(Parts)[Len(Parts)]
    BY <1>2, <2>1, EndsGrow
  <2>. QED BY <1>2, <1>3, <1>5, <2>1, <2>2 DEF Upto
<1>7. ASSUME NEW d \in 1..Len(dir) PROVE Upto(d) = Upto(d - 1) + Length(d)
  BY <1>2, <1>3, EntriesAre DEF Upto
<1>8. ASSUME NEW d \in 1..Len(dir), NEW j \in 1..Length(d) PROVE Flat[Upto(d - 1) + j] = EntryAt(d, j)
  <2>1. j \in 1..Len(Parts[d]) /\ Entries(d)[j] = EntryAt(d, j)
    BY <1>2, EntriesAre
  <2>. QED BY <1>2, <1>4, <2>1 DEF Joined, Upto
<1>. QED BY <1>3, <1>4, <1>5, <1>6, <1>7, <1>8 DEF Upto

LEMMA CountFacts ==
  ASSUME OnVolume
  PROVE  /\ Len(Images) \in Nat /\ Len(Images) = Count(Len(dir)) /\ Count(0) = 0
         /\ \A d \in 0..Len(dir) : Count(d) \in Nat /\ Count(d) <= Len(Images)
         /\ \A d \in 1..Len(dir) :
              Count(d) = Count(d - 1) + (IF dir[d].kind = "iso" THEN 1 ELSE 0)
         /\ \A d \in 1..Len(dir) : dir[d].kind = "iso" => Images[Count(d)] = d
         /\ Images \in Seq(Nat)
<1>1. Len(dir) \in Nat /\ DOMAIN dir = 1..Len(dir)
  BY DirFacts
<1>2. /\ Shown \in Seq(Seq(Nat)) /\ Len(Shown) = Len(dir)
      /\ \A d \in 1..Len(dir) : Shown[d] = IF dir[d].kind = "iso" THEN <<d>> ELSE <<>>
  BY <1>1 DEF Shown
<1>3. /\ Ends(Shown) \in [0..Len(Shown) -> Nat] /\ Ends(Shown)[0] = 0
      /\ \A i \in 1..Len(Shown) : Ends(Shown)[i] = Ends(Shown)[i - 1] + Len(Shown[i])
  BY <1>2, EndsDefined
<1>4. Images \in Seq(Nat) /\ Joined(Shown, Images, Len(Shown))
  <2>1. Images = FlattenSeq(Shown)
    BY DEF Images, Shown
  <2>2. FlattenSeq(Shown) \in Seq(Nat) /\ Joined(Shown, FlattenSeq(Shown), Len(Shown))
    BY <1>2, Flattened
  <2>. QED BY <2>1, <2>2
<1>5. Len(Images) = Count(Len(dir)) /\ Len(Images) \in Nat
  BY <1>2, <1>4 DEF Joined, Count
<1>6. ASSUME NEW d \in 0..Len(dir) PROVE Count(d) \in Nat /\ Count(d) <= Len(Images)
  <2>1. d \in 0..Len(Shown) /\ Len(Shown) \in d..Len(Shown)
    BY <1>1, <1>2
  <2>2. Ends(Shown)[d] <= Ends(Shown)[Len(Shown)]
    BY <1>2, <2>1, EndsGrow
  <2>. QED BY <1>2, <1>3, <1>5, <2>1, <2>2 DEF Count
<1>7. ASSUME NEW d \in 1..Len(dir)
      PROVE  Count(d) = Count(d - 1) + (IF dir[d].kind = "iso" THEN 1 ELSE 0)
  <2>1. Shown[d] = IF dir[d].kind = "iso" THEN <<d>> ELSE <<>>
    BY <1>2
  <2>2. Len(<<d>>) = 1 /\ Len(<<>>) = 0
    OBVIOUS
  <2>3. Len(Shown[d]) = IF dir[d].kind = "iso" THEN 1 ELSE 0
    BY <2>1, <2>2
  <2>. QED BY <1>2, <1>3, <2>3 DEF Count
<1>8. ASSUME NEW d \in 1..Len(dir), dir[d].kind = "iso" PROVE Images[Count(d)] = d
  <2>0. Shown[d] = <<d>>
    BY <1>2, <1>8
  <2>4. Len(<<d>>) = 1 /\ <<d>>[1] = d
    OBVIOUS
  <2>1. Shown[d][1] = d /\ 1 \in 1..Len(Shown[d]) /\ Count(d) = Count(d - 1) + 1
    BY <1>7, <1>8, <2>0, <2>4
  <2>2. d \in 1..Len(Shown)
    BY <1>2
  <2>3. Images[Ends(Shown)[d - 1] + 1] = Shown[d][1]
    BY <1>4, <2>1, <2>2 DEF Joined
  <2>. QED BY <2>1, <2>3 DEF Count
<1>. QED BY <1>3, <1>4, <1>5, <1>6, <1>7, <1>8 DEF Count

(* The loop, as a place in the stream of entries: r entries have been read, *)
(* b, p and c are the buffer, the position in it and what is carried over.  *)
At(k) == IF k <= Len(Flat) THEN Flat[k] ELSE EndMark

Place(r, b, p, c) == ((r - Len(c)) - (Len(b) + 1)) + p

Streams(r, b, p, c) ==
  /\ r \in Nat /\ b \in Seq(AnEntry) /\ c \in Seq(AnEntry) /\ p \in 1..Len(b) + 1
  /\ Len(b) <= r /\ Len(c) <= r
  /\ \A q \in 1..Len(b) : b[q] = At((r - Len(b)) + q)
  /\ \A q \in 1..Len(c) : c[q] = At((r - Len(c)) + q)
  /\ c # <<>> => p = Len(b) + 1

\* The loop is in item d + 1: at its first entry, or at one that is skipped.  A
\* set carried over ends behind what has been read.
Inside(d, r, b, p, c) ==
  /\ Upto(d) <= Place(r, b, p, c)
  /\ d < Len(dir) =>
       /\ Place(r, b, p, c) < Upto(d + 1)
       /\ Upto(d) < Place(r, b, p, c) => fs = "fat32" \/ dir[d + 1].kind = "gone"
  /\ c # <<>> => d < Len(dir) /\ r < Upto(d + 1)

First(k) == IF k < MaxFiles THEN k ELSE MaxFiles

\* The images among the first d items are listed.
Lists(f, d) ==
  /\ f \in Seq(Nat) /\ Len(f) = First(Count(d))
  /\ \A i \in 1..Len(f) : f[i] = Images[i]

Loop(r, b, p, c, f) ==
  Streams(r, b, p, c) /\ \E d \in 0..Len(dir) : Inside(d, r, b, p, c) /\ Lists(f, d)

LEMMA AtTyped == ASSUME OnVolume, NEW k \in Nat \ {0} PROVE At(k) \in AnEntry
<1>1. Flat \in Seq(AnEntry) /\ EndMark \in AnEntry
  BY PartsFacts DEF EndMark, Entry, AnEntry
<1>. QED BY <1>1 DEF At

LEMMA ReadStep ==
  ASSUME OnVolume, NEW r, NEW b, NEW p, NEW c, NEW f, Loop(r, b, p, c, f), ~(p <= Len(b))
  PROVE  Loop(r + PerSector, c \o [k \in 1..PerSector |-> At(r + k)], 1, <<>>, f)
<1>. DEFINE s == [k \in 1..PerSector |-> At(r + k)]
<1>1. PICK d \in 0..Len(dir) : Inside(d, r, b, p, c) /\ Lists(f, d)
  BY DEF Loop
<1>2. /\ r \in Nat /\ b \in Seq(AnEntry) /\ c \in Seq(AnEntry) /\ p = Len(b) + 1
      /\ Len(b) \in Nat /\ Len(c) \in Nat /\ Len(c) <= r
      /\ \A q \in 1..Len(c) : c[q] = At((r - Len(c)) + q)
  BY DEF Loop, Streams
<1>3. PerSector \in Nat /\ PerSector > 0
  BY DirFacts
<1>4. s \in Seq(AnEntry) /\ Len(s) = PerSector /\ \A k \in 1..PerSector : s[k] = At(r + k)
  <2>1. \A k \in 1..PerSector : At(r + k) \in AnEntry
    BY <1>2, <1>3, AtTyped
  <2>. QED BY <1>3, <2>1
<1>. HIDE DEF s
<1>. DEFINE t == c \o s
<1>5. t \in Seq(AnEntry) /\ Len(t) = Len(c) + PerSector
  <2>1. c \in Seq(AnEntry) /\ s \in Seq(AnEntry)
    BY <1>2, <1>4
  <2>. QED BY <1>4, <2>1
<1>6. ASSUME NEW q \in 1..Len(t) PROVE t[q] = At(((r + PerSector) - Len(t)) + q)
  <2>1. q \in Nat /\ q >= 1 /\ q <= Len(c) + PerSector
    BY <1>2, <1>3, <1>5
  <2>2. ((r + PerSector) - Len(t)) + q = (r - Len(c)) + q
    BY <1>2, <1>3, <1>5, <2>1
  <2>3. CASE q <= Len(c)
    <3>1. q \in 1..Len(c)
      BY <1>2, <2>1, <2>3
    <3>2. t[q] = c[q]
      BY <1>2, <1>4, <3>1
    <3>. QED BY <1>2, <2>2, <3>1, <3>2
  <2>4. CASE ~(q <= Len(c))
    <3>1. q - Len(c) \in 1..PerSector
      BY <1>2, <1>3, <2>1, <2>4
    <3>2. t[q] = s[q - Len(c)]
      BY <1>2, <1>3, <1>4, <2>1, <2>4
    <3>3. r + (q - Len(c)) = (r - Len(c)) + q
      BY <1>2, <2>1
    <3>. QED BY <1>4, <2>2, <3>1, <3>2, <3>3
  <2>. QED BY <2>3, <2>4
<1>. HIDE DEF t
<1>7. Place(r + PerSector, t, 1, <<>>) = Place(r, b, p, c)
  <2>1. Len(<<>>) = 0
    OBVIOUS
  <2>. QED BY <1>2, <1>3, <1>5, <2>1 DEF Place
<1>8. Streams(r + PerSector, t, 1, <<>>)
  <2>1. <<>> \in Seq(AnEntry) /\ Len(<<>>) = 0
    OBVIOUS
  <2>. QED BY <1>2, <1>3, <1>5, <1>6, <2>1 DEF Streams
<1>9. Inside(d, r + PerSector, t, 1, <<>>)
  BY <1>1, <1>7 DEF Inside
<1>. QED BY <1>1, <1>8, <1>9 DEF Loop, t, s

\* The entry the loop looks at.
LEMMA Looking ==
  ASSUME OnVolume, NEW r, NEW b, NEW p, NEW c, NEW d \in 0..Len(dir),
         Streams(r, b, p, c), Inside(d, r, b, p, c), p <= Len(b)
  PROVE  LET m == Place(r, b, p, c)
         IN  /\ c = <<>> /\ m \in Nat /\ m = (r - (Len(b) + 1)) + p
             /\ d = Len(dir) => b[p] = EndMark
             /\ d < Len(dir) => /\ (m + 1) - Upto(d) \in 1..Length(d + 1)
                                /\ b[p] = EntryAt(d + 1, (m + 1) - Upto(d))
<1>. DEFINE m == Place(r, b, p, c)
<1>1. /\ r \in Nat /\ b \in Seq(AnEntry) /\ p \in 1..Len(b) /\ Len(b) \in Nat /\ Len(b) <= r
      /\ c = <<>> /\ \A q \in 1..Len(b) : b[q] = At((r - Len(b)) + q)
  BY DEF Streams
<1>2. Len(c) = 0
  BY <1>1
<1>3. m \in Nat /\ m = (r - (Len(b) + 1)) + p /\ (r - Len(b)) + p = m + 1
  BY <1>1, <1>2 DEF Place
<1>4. b[p] = At(m + 1)
  BY <1>1, <1>3
<1>5. /\ Len(dir) \in Nat /\ d \in Nat /\ Upto(d) \in Nat /\ Len(Flat) = Upto(Len(dir)) /\ Len(Flat) \in Nat
      /\ Upto(d) <= m
  BY PartsFacts, DirFacts DEF Inside
<1>6. CASE d = Len(dir)
  <2>1. ~(m + 1 <= Len(Flat))
    BY <1>3, <1>5, <1>6
  <2>. QED BY <1>1, <1>3, <1>4, <1>6, <2>1 DEF At
<1>7. CASE d < Len(dir)
  <2>1. d + 1 \in 1..Len(dir) /\ d + 1 \in 0..Len(dir) /\ (d + 1) - 1 = d
    BY <1>5, <1>7
  <2>2. /\ Upto(d + 1) = Upto(d) + Length(d + 1) /\ Upto(d + 1) \in Nat /\ Upto(d + 1) <= Len(Flat)
        /\ \A j \in 1..Length(d + 1) : Flat[Upto(d) + j] = EntryAt(d + 1, j)
    BY <2>1, PartsFacts
  <2>3. m < Upto(d + 1)
    BY <1>7 DEF Inside
  <2>4. Length(d + 1) \in Nat
    BY <2>1, LengthPositive
  <2>. DEFINE j == (m + 1) - Upto(d)
  <2>5. j \in 1..Length(d + 1) /\ Upto(d) + j = m + 1 /\ m + 1 <= Len(Flat)
    BY <1>3, <1>5, <2>2, <2>3, <2>4
  <2>6. At(m + 1) = EntryAt(d + 1, j)
    BY <2>2, <2>5 DEF At
  <2>. QED BY <1>1, <1>3, <1>4, <1>7, <2>5, <2>6
<1>. QED BY <1>5, <1>6, <1>7

\* The loop goes on at place m.
LEMMA Advance ==
  ASSUME OnVolume, NEW r, NEW b, NEW p, NEW q \in Nat, NEW f, NEW d \in 0..Len(dir),
         Streams(r, b, p, <<>>), p <= q, q <= Len(b) + 1, Lists(f, d),
         Upto(d) <= (r - (Len(b) + 1)) + q,
         d < Len(dir) => /\ (r - (Len(b) + 1)) + q < Upto(d + 1)
                         /\ Upto(d) < (r - (Len(b) + 1)) + q => fs = "fat32" \/ dir[d + 1].kind = "gone"
  PROVE  Loop(r, b, q, <<>>, f)
<1>1. r \in Nat /\ Len(b) \in Nat /\ p \in 1..Len(b) + 1 /\ Len(<<>>) = 0
  BY DEF Streams
<1>2. Place(r, b, q, <<>>) = (r - (Len(b) + 1)) + q
  BY <1>1 DEF Place
<1>3. Inside(d, r, b, q, <<>>)
  BY <1>2 DEF Inside
<1>4. q \in 1..Len(b) + 1
  BY <1>1
<1>5. Streams(r, b, q, <<>>)
  BY <1>4 DEF Streams
<1>. QED BY <1>3, <1>5 DEF Loop

LEMMA NextItem ==
  ASSUME OnVolume, NEW d \in 0..Len(dir), d < Len(dir)
  PROVE  /\ d + 1 \in 0..Len(dir) /\ d + 1 \in 1..Len(dir) /\ Upto(d) \in Nat /\ Upto(d + 1) \in Nat
         /\ Upto(d + 1) = Upto(d) + Length(d + 1)
         /\ d + 1 < Len(dir) => Upto(d + 1) < Upto((d + 1) + 1)
<1>1. Len(dir) \in Nat
  BY DirFacts
<1>2. d + 1 \in 1..Len(dir) /\ d + 1 \in 0..Len(dir) /\ (d + 1) - 1 = d
  BY <1>1
<1>3. Upto(d) \in Nat /\ Upto(d + 1) \in Nat /\ Upto(d + 1) = Upto(d) + Length(d + 1)
  BY <1>2, PartsFacts
<1>4. ASSUME d + 1 < Len(dir) PROVE Upto(d + 1) < Upto((d + 1) + 1)
  <2>1. (d + 1) + 1 \in 1..Len(dir) /\ ((d + 1) + 1) - 1 = d + 1
    BY <1>1, <1>4
  <2>2. Upto((d + 1) + 1) = Upto(d + 1) + Length((d + 1) + 1)
    BY <2>1, PartsFacts
  <2>3. Length((d + 1) + 1) \in Nat /\ Length((d + 1) + 1) >= 1
    BY <2>1, LengthPositive
  <2>. QED BY <1>3, <2>2, <2>3
<1>. QED BY <1>2, <1>3, <1>4

LEMMA SkipStep ==
  ASSUME OnVolume, NEW r, NEW b, NEW p, NEW c, NEW f, Loop(r, b, p, c, f), p <= Len(b),
         b[p].kind \in {"other", "part"}
  PROVE  Loop(r, b, p + 1, c, f)
<1>1. PICK d \in 0..Len(dir) : Inside(d, r, b, p, c) /\ Lists(f, d)
  BY DEF Loop
<1>2. Streams(r, b, p, c)
  BY DEF Loop
<1>. DEFINE m == Place(r, b, p, c)
            j == (m + 1) - Upto(d)
<1>3. /\ c = <<>> /\ m \in Nat /\ m = (r - (Len(b) + 1)) + p
      /\ d = Len(dir) => b[p] = EndMark
      /\ d < Len(dir) => j \in 1..Length(d + 1) /\ b[p] = EntryAt(d + 1, j)
  BY <1>1, <1>2, Looking
<1>4. r \in Nat /\ Len(b) \in Nat /\ p \in Nat /\ p + 1 \in Nat /\ p <= p + 1 /\ p + 1 <= Len(b) + 1
  BY <1>2 DEF Streams
<1>5. (r - (Len(b) + 1)) + (p + 1) = m + 1
  BY <1>3, <1>4
<1>6. d < Len(dir) /\ Len(dir) \in Nat
  <2>1. EndMark.kind = "end"
    BY DEF EndMark, Entry
  <2>2. d # Len(dir)
    BY <1>3, <2>1
  <2>3. Len(dir) \in Nat
    BY DirFacts
  <2>. QED BY <2>2, <2>3
<1>7. /\ d + 1 \in 0..Len(dir) /\ d + 1 \in 1..Len(dir) /\ Upto(d) \in Nat /\ Upto(d + 1) \in Nat
      /\ Upto(d + 1) = Upto(d) + Length(d + 1)
      /\ d + 1 < Len(dir) => Upto(d + 1) < Upto((d + 1) + 1)
  BY <1>6, NextItem
<1>8. /\ Upto(d) <= m /\ m < Upto(d + 1)
      /\ Upto(d) < m => fs = "fat32" \/ dir[d + 1].kind = "gone"
  BY <1>1, <1>6 DEF Inside
<1>9. fs \in {"exfat", "fat32"} /\ dir[d + 1].names \in Nat
  BY <1>7, DirFacts
<1>10. fs = "fat32" \/ dir[d + 1].kind = "gone"
  <2>1. SUFFICES ASSUME fs = "exfat", dir[d + 1].kind # "gone" PROVE FALSE
    BY <1>9
  <2>2. j = 1
    BY <1>3, <1>7, <1>8, <2>1
  <2>3. EntryAt(d + 1, j).kind = "file"
    BY <2>1, <2>2 DEF EntryAt, Entry
  <2>. QED BY <1>3, <1>6, <2>3
<1>. HIDE DEF m, j
<1>11. CASE m + 1 < Upto(d + 1)
  <2>1. Streams(r, b, p, <<>>)
    BY <1>2, <1>3
  <2>2. Upto(d) <= (r - (Len(b) + 1)) + (p + 1) /\ (r - (Len(b) + 1)) + (p + 1) < Upto(d + 1)
    BY <1>3, <1>5, <1>7, <1>8, <1>11
  <2>3. Loop(r, b, p + 1, <<>>, f)
    BY <1>1, <1>4, <1>10, <2>1, <2>2, Advance
  <2>. QED BY <1>3, <2>3
<1>12. CASE ~(m + 1 < Upto(d + 1))
  <2>1. m + 1 = Upto(d + 1)
    BY <1>3, <1>7, <1>8, <1>12
  <2>2. dir[d + 1].kind = "gone"
    <3>1. SUFFICES ASSUME dir[d + 1].kind # "gone" PROVE FALSE
      OBVIOUS
    <3>2. fs = "fat32"
      BY <1>10, <3>1
    <3>3. j = dir[d + 1].names + 1
      BY <1>3, <1>7, <1>9, <2>1, <3>2 DEF j, Length
    <3>4. EntryAt(d + 1, j).kind = "short"
      BY <3>1, <3>2, <3>3 DEF EntryAt, Entry
    <3>. QED BY <1>3, <1>6, <3>4
  <2>3. Count(d + 1) = Count(d)
    <3>1. d + 1 \in 1..Len(dir) /\ d \in 0..Len(dir) /\ (d + 1) - 1 = d
      BY <1>7
    <3>2. dir[d + 1].kind # "iso"
      BY <2>2
    <3>3. Count(d) \in Nat
      BY <3>1, CountFacts
    <3>4. Count(d + 1) = Count((d + 1) - 1) + (IF dir[d + 1].kind = "iso" THEN 1 ELSE 0)
      BY <3>1, CountFacts
    <3>. QED BY <3>1, <3>2, <3>3, <3>4
  <2>4. Lists(f, d + 1)
    BY <1>1, <2>3 DEF Lists
  <2>5. Upto(d + 1) <= m + 1 /\ ~(Upto(d + 1) < m + 1)
    BY <1>7, <2>1
  <2>6. d + 1 < Len(dir) => m + 1 < Upto((d + 1) + 1)
    BY <1>7, <2>1
  <2>7. Streams(r, b, p, <<>>)
    BY <1>2, <1>3
  <2>8. Loop(r, b, p + 1, <<>>, f)
    BY <1>4, <1>5, <1>7, <2>4, <2>5, <2>6, <2>7, Advance
  <2>. QED BY <1>3, <2>8
<1>. QED BY <1>11, <1>12

\* The list after an item has been added.
Taken(f, i) == IF dir[i].kind = "iso" /\ Len(f) < MaxFiles THEN Append(f, i) ELSE f

LEMMA ListGrows ==
  ASSUME OnVolume, NEW d \in 0..Len(dir), d < Len(dir), NEW f, Lists(f, d)
  PROVE  Lists(Taken(f, d + 1), d + 1)
<1>1. /\ d + 1 \in 1..Len(dir) /\ d + 1 \in 0..Len(dir) /\ (d + 1) - 1 = d /\ d + 1 \in Nat
      /\ MaxFiles \in Nat
  BY DirFacts
<1>2. /\ Count(d) \in Nat /\ Count(d + 1) \in Nat
      /\ Count(d + 1) = Count(d) + (IF dir[d + 1].kind = "iso" THEN 1 ELSE 0)
      /\ dir[d + 1].kind = "iso" => Images[Count(d + 1)] = d + 1
  BY <1>1, CountFacts
<1>3. /\ f \in Seq(Nat) /\ Len(f) \in Nat /\ Len(f) = First(Count(d))
      /\ \A i \in 1..Len(f) : f[i] = Images[i]
  BY DEF Lists
<1>4. CASE dir[d + 1].kind = "iso" /\ Len(f) < MaxFiles
  <2>1. Len(f) = Count(d) /\ Count(d + 1) = Len(f) + 1 /\ First(Count(d + 1)) = Len(f) + 1
    BY <1>1, <1>2, <1>3, <1>4 DEF First
  <2>. DEFINE g == Append(f, d + 1)
  <2>2. /\ g \in Seq(Nat) /\ Len(g) = Len(f) + 1 /\ g[Len(f) + 1] = d + 1
        /\ \A i \in 1..Len(f) : g[i] = f[i]
    BY <1>1, <1>3
  <2>. HIDE DEF g
  <2>3. \A i \in 1..Len(g) : g[i] = Images[i]
    <3>1. \A i \in 1..Len(g) : i \in 1..Len(f) \/ i = Len(f) + 1
      BY <1>3, <2>2
    <3>. QED BY <1>2, <1>3, <1>4, <2>1, <2>2, <3>1
  <2>. QED BY <1>4, <2>1, <2>2, <2>3 DEF Lists, Taken, g
<1>5. CASE ~(dir[d + 1].kind = "iso" /\ Len(f) < MaxFiles)
  <2>1. First(Count(d + 1)) = First(Count(d))
    BY <1>1, <1>2, <1>3, <1>5 DEF First
  <2>. QED BY <1>3, <1>5, <2>1 DEF Lists, Taken
<1>. QED BY <1>4, <1>5

\* At the beginning of an entry set, or at a short entry.
LEMMA AtSet ==
  ASSUME OnVolume, NEW r, NEW b, NEW p, NEW c, NEW d \in 0..Len(dir),
         Streams(r, b, p, c), Inside(d, r, b, p, c), p <= Len(b), b[p].kind \in {"file", "short"}
  PROVE  /\ d < Len(dir) /\ c = <<>> /\ b[p].item = d + 1 /\ b[p].more \in Nat
         /\ (r - (Len(b) + 1)) + p \in Nat
         /\ ((r - (Len(b) + 1)) + p) + (1 + b[p].more) = Upto(d + 1)
         /\ b[p].kind = "file" => /\ fs = "exfat" /\ b[p].more = dir[d + 1].names + 1
                                  /\ (r - (Len(b) + 1)) + p = Upto(d)
<1>. DEFINE m == Place(r, b, p, c)
            j == (m + 1) - Upto(d)
<1>3. /\ c = <<>> /\ m \in Nat /\ m = (r - (Len(b) + 1)) + p
      /\ d = Len(dir) => b[p] = EndMark
      /\ d < Len(dir) => j \in 1..Length(d + 1) /\ b[p] = EntryAt(d + 1, j)
  BY Looking
<1>6. d < Len(dir) /\ Len(dir) \in Nat
  <2>1. EndMark.kind = "end"
    BY DEF EndMark, Entry
  <2>2. d # Len(dir)
    BY <1>3, <2>1
  <2>3. Len(dir) \in Nat
    BY DirFacts
  <2>. QED BY <2>2, <2>3
<1>7. /\ d + 1 \in 1..Len(dir) /\ Upto(d) \in Nat /\ Upto(d + 1) \in Nat
      /\ Upto(d + 1) = Upto(d) + Length(d + 1)
  BY <1>6, NextItem
<1>8. /\ Upto(d) <= m /\ m < Upto(d + 1)
      /\ Upto(d) < m => fs = "fat32" \/ dir[d + 1].kind = "gone"
  BY <1>6 DEF Inside
<1>9. fs \in {"exfat", "fat32"} /\ dir[d + 1].names \in Nat
  BY <1>7, DirFacts
<1>10. dir[d + 1].kind # "gone"
  BY <1>3, <1>6 DEF EntryAt, Other, Entry
<1>. HIDE DEF m
<1>11. CASE fs = "exfat"
  <2>1. m = Upto(d) /\ j = 1
    BY <1>3, <1>7, <1>8, <1>10, <1>11
  <2>2. b[p] = Entry("file", dir[d + 1].names + 1, d + 1)
    BY <1>3, <1>6, <1>10, <1>11, <2>1 DEF EntryAt
  <2>3. b[p].item = d + 1 /\ b[p].more = dir[d + 1].names + 1
    BY <2>2 DEF Entry
  <2>4. Length(d + 1) = dir[d + 1].names + 2
    BY <1>11 DEF Length
  <2>5. m + (1 + b[p].more) = Upto(d + 1)
    BY <1>3, <1>7, <1>9, <2>1, <2>3, <2>4
  <2>6. b[p].more \in Nat
    BY <1>9, <2>3
  <2>. QED BY <1>3, <1>6, <1>11, <2>1, <2>3, <2>5, <2>6
<1>12. CASE fs = "fat32"
  <2>1. j = dir[d + 1].names + 1
    BY <1>3, <1>6, <1>10, <1>12 DEF EntryAt, Other, Entry
  <2>2. b[p] = Entry("short", 0, d + 1)
    BY <1>3, <1>6, <1>10, <1>12, <2>1 DEF EntryAt
  <2>3. b[p].item = d + 1 /\ b[p].more = 0 /\ b[p].kind = "short"
    BY <2>2 DEF Entry
  <2>4. Length(d + 1) = dir[d + 1].names + 1
    BY <1>12 DEF Length
  <2>5. m + 1 = Upto(d + 1)
    BY <1>3, <1>7, <1>9, <2>1, <2>4
  <2>. QED BY <1>3, <1>6, <1>7, <1>12, <2>3, <2>5
<1>. QED BY <1>9, <1>11, <1>12

LEMMA TakeStep ==
  ASSUME OnVolume, NEW r, NEW b, NEW p, NEW c, NEW f, Loop(r, b, p, c, f), p <= Len(b),
         b[p].kind \in {"file", "short"}, p + b[p].more <= Len(b)
  PROVE  Loop(r, b, (p + 1) + b[p].more, c, Taken(f, b[p].item))
<1>1. PICK d \in 0..Len(dir) : Inside(d, r, b, p, c) /\ Lists(f, d)
  BY DEF Loop
<1>2. Streams(r, b, p, c)
  BY DEF Loop
<1>3. /\ d < Len(dir) /\ c = <<>> /\ b[p].item = d + 1 /\ b[p].more \in Nat
      /\ ((r - (Len(b) + 1)) + p) + (1 + b[p].more) = Upto(d + 1)
  BY <1>1, <1>2, AtSet
<1>4. r \in Nat /\ Len(b) \in Nat /\ p \in Nat
  BY <1>2 DEF Streams
<1>. DEFINE q == (p + 1) + b[p].more
<1>5. /\ q \in Nat /\ p <= q /\ q <= Len(b) + 1 /\ (r - (Len(b) + 1)) + q = Upto(d + 1)
  <2>. DEFINE n == Len(b)
              k == b[p].more
  <2>1. /\ n \in Nat /\ k \in Nat /\ r \in Nat /\ p \in Nat /\ p + k <= n
        /\ ((r - (n + 1)) + p) + (1 + k) = Upto(d + 1)
    BY <1>3, <1>4
  <2>. HIDE DEF n, k
  <2>2. /\ (p + 1) + k \in Nat /\ p <= (p + 1) + k /\ (p + 1) + k <= n + 1
        /\ (r - (n + 1)) + ((p + 1) + k) = ((r - (n + 1)) + p) + (1 + k)
    BY <2>1
  <2>. QED BY <2>1, <2>2 DEF n, k
<1>6. Lists(Taken(f, b[p].item), d + 1)
  BY <1>1, <1>3, ListGrows
<1>7. /\ d + 1 \in 0..Len(dir) /\ Upto(d + 1) \in Nat
      /\ d + 1 < Len(dir) => Upto(d + 1) < Upto((d + 1) + 1)
  BY <1>3, NextItem
<1>. HIDE DEF q
<1>8. Upto(d + 1) <= (r - (Len(b) + 1)) + q /\ ~(Upto(d + 1) < (r - (Len(b) + 1)) + q)
  BY <1>5, <1>7
<1>9. Streams(r, b, p, <<>>)
  BY <1>2, <1>3
<1>10. Loop(r, b, q, <<>>, Taken(f, b[p].item))
  BY <1>5, <1>6, <1>7, <1>8, <1>9, Advance
<1>. QED BY <1>3, <1>10 DEF q

LEMMA CarryStep ==
  ASSUME OnVolume, NEW r, NEW b, NEW p, NEW c, NEW f, Loop(r, b, p, c, f), p <= Len(b),
         b[p].kind = "file", ~(p + b[p].more <= Len(b))
  PROVE  Loop(r, b, Len(b) + 1, Keep(SubSeq(b, p, Len(b))), f)
<1>1. PICK d \in 0..Len(dir) : Inside(d, r, b, p, c) /\ Lists(f, d)
  BY DEF Loop
<1>2. Streams(r, b, p, c)
  BY DEF Loop
<1>3. /\ d < Len(dir) /\ c = <<>> /\ b[p].more \in Nat
      /\ ((r - (Len(b) + 1)) + p) + (1 + b[p].more) = Upto(d + 1)
      /\ fs = "exfat" /\ b[p].more = dir[d + 1].names + 1
      /\ (r - (Len(b) + 1)) + p = Upto(d)
  BY <1>1, <1>2, AtSet
<1>4. /\ r \in Nat /\ Len(b) \in Nat /\ p \in 1..Len(b) /\ b \in Seq(AnEntry) /\ Len(b) <= r
      /\ \A q \in 1..Len(b) : b[q] = At((r - Len(b)) + q)
  BY <1>2 DEF Streams
<1>. DEFINE rest == SubSeq(b, p, Len(b))
<1>5. /\ rest \in Seq(AnEntry) /\ Len(rest) = (Len(b) + 1) - p
      /\ \A q \in 1..Len(rest) : rest[q] = b[(p + q) - 1]
  BY <1>4
<1>6. Keep(rest) = rest
  <2>1. d + 1 \in 1..Len(dir)
    BY <1>3, NextItem
  <2>2. dir[d + 1].names + 2 <= CarryEntries /\ dir[d + 1].names \in Nat /\ CarryEntries \in Nat
    BY <1>3, <2>1, DirFacts
  <2>4. (Len(b) + 1) - p <= CarryEntries
    <3>. DEFINE n == Len(b)
                k == b[p].more
                i == dir[d + 1].names
    <3>1. /\ n \in Nat /\ p \in Nat /\ k \in Nat /\ i \in Nat /\ CarryEntries \in Nat
          /\ k = i + 1 /\ i + 2 <= CarryEntries /\ ~(p + k <= n)
      BY <1>3, <1>4, <2>2
    <3>. HIDE DEF n, k, i
    <3>2. (n + 1) - p <= CarryEntries
      BY <3>1
    <3>. QED BY <3>2 DEF n
  <2>5. Len(rest) <= CarryEntries
    BY <1>5, <2>4
  <2>. QED BY <2>5 DEF Keep
<1>. HIDE DEF rest
<1>7. Place(r, b, Len(b) + 1, rest) = Upto(d)
  BY <1>3, <1>4, <1>5 DEF Place
<1>8. /\ Upto(d) \in Nat /\ Upto(d) < Upto(d + 1) /\ r < Upto(d + 1)
  <2>1. Upto(d) \in Nat /\ Upto(d + 1) \in Nat
    BY <1>3, NextItem
  <2>. QED BY <1>3, <1>4, <2>1
<1>9. Inside(d, r, b, Len(b) + 1, rest)
  BY <1>3, <1>7, <1>8 DEF Inside
<1>10. ASSUME NEW q \in 1..Len(rest) PROVE rest[q] = At((r - Len(rest)) + q)
  <2>1. (p + q) - 1 \in 1..Len(b) /\ (r - Len(b)) + ((p + q) - 1) = (r - Len(rest)) + q
    BY <1>4, <1>5
  <2>. QED BY <1>4, <1>5, <2>1
<1>11. Len(rest) <= r /\ Len(b) + 1 \in 1..Len(b) + 1
  BY <1>4, <1>5
<1>12. Streams(r, b, Len(b) + 1, rest)
  BY <1>4, <1>5, <1>10, <1>11 DEF Streams
<1>. QED BY <1>1, <1>6, <1>9, <1>12 DEF Loop, rest

\* At the end of the directory all images have been listed.
LEMMA AtEnd ==
  ASSUME OnVolume, NEW r, NEW b, NEW p, NEW c, NEW f, Loop(r, b, p, c, f),
         \/ p <= Len(b) /\ b[p].kind = "end"
         \/ ~(p <= Len(b)) /\ r >= Len(Flat)
  PROVE  Lists(f, Len(dir))
<1>1. PICK d \in 0..Len(dir) : Inside(d, r, b, p, c) /\ Lists(f, d)
  BY DEF Loop
<1>2. Streams(r, b, p, c)
  BY DEF Loop
<1>3. SUFFICES ASSUME d # Len(dir) PROVE FALSE
  BY <1>1
<1>4. d < Len(dir) /\ d + 1 \in 1..Len(dir)
  <2>1. Len(dir) \in Nat
    BY DirFacts
  <2>. QED BY <1>3, <2>1
<1>5. CASE p <= Len(b) /\ b[p].kind = "end"
  <2>. DEFINE j == (Place(r, b, p, c) + 1) - Upto(d)
  <2>1. b[p] = EntryAt(d + 1, j)
    BY <1>1, <1>2, <1>4, <1>5, Looking
  <2>2. EntryAt(d + 1, j).kind # "end"
    BY DEF EntryAt, Entry, Other
  <2>. QED BY <1>5, <2>1, <2>2
<1>6. CASE ~(p <= Len(b)) /\ r >= Len(Flat)
  <2>1. /\ r \in Nat /\ p = Len(b) + 1 /\ Len(b) \in Nat /\ Len(c) \in Nat /\ c \in Seq(AnEntry)
    BY <1>2, <1>6 DEF Streams
  <2>2. Upto(d + 1) \in Nat /\ Upto(d + 1) <= Len(Flat) /\ Len(Flat) \in Nat
    BY <1>4, PartsFacts
  <2>3. c = <<>>
    BY <1>1, <1>6, <2>1, <2>2 DEF Inside
  <2>4. Place(r, b, p, c) = r
    <3>1. Len(c) = 0
      BY <2>3
    <3>. QED BY <2>1, <3>1 DEF Place
  <2>. QED BY <1>1, <1>4, <1>6, <2>1, <2>2, <2>4 DEF Inside
<1>. QED BY <1>5, <1>6

LEMMA PrefixListed ==
  ASSUME OnVolume, NEW d \in 0..Len(dir), NEW f, Lists(f, d)
  PROVE  IsPrefix(f, Images)
<1>1. /\ Count(d) \in Nat /\ Count(d) <= Len(Images) /\ Len(Images) \in Nat /\ Images \in Seq(Nat)
      /\ MaxFiles \in Nat
  BY CountFacts, DirFacts
<1>2. /\ f \in Seq(Nat) /\ Len(f) \in Nat /\ Len(f) = First(Count(d))
      /\ \A i \in 1..Len(f) : f[i] = Images[i]
  BY DEF Lists
<1>3. Len(f) <= Len(Images)
  BY <1>1, <1>2 DEF First
<1>4. SubSeq(f, 1, Len(f)) = SubSeq(Images, 1, Len(f))
  BY <1>1, <1>2, <1>3
<1>. QED BY <1>3, <1>4 DEF IsPrefix

\* A step that leaves the volume alone leaves alone what is to be listed.
LEMMA SameVolume ==
  ASSUME fs' = fs, dir' = dir
  PROVE  /\ OnVolume' = OnVolume /\ Flat' = Flat /\ Images' = Images /\ Sectors' = Sectors
         /\ \A d : Upto(d)' = Upto(d) /\ Count(d)' = Count(d)
<1>1. OnVolume' = OnVolume
  BY DEF OnVolume, IsVolume
<1>2. \A i : Entries(i)' = Entries(i)
  BY DEF Entries
<1>3. Parts' = Parts
  BY <1>2 DEF Parts
<1>4. Flat' = Flat
  BY <1>2 DEF Flat
<1>5. Shown' = Shown
  BY DEF Shown
<1>6. Images' = Images
  BY DEF Images
<1>7. Sectors' = Sectors
  BY <1>4 DEF Sectors
<1>8. ASSUME NEW d PROVE Upto(d)' = Upto(d) /\ Count(d)' = Count(d)
  BY <1>3, <1>5 DEF Upto, Count
<1>. QED BY <1>1, <1>4, <1>6, <1>7, <1>8


Scanned == Loop(next * PerSector, buf, pos, carry, files)
Listed == \E d \in 0..Len(dir) : Lists(files, d)
AllListed == Lists(files, Len(dir))

LEMMA SameLoop ==
  ASSUME fs' = fs, dir' = dir, Loop(next' * PerSector, buf', pos', carry', files')
  PROVE  Scanned'
BY SameVolume DEF Scanned, Loop, Streams, At, Inside, Place, Lists, First

LEMMA SameList ==
  ASSUME dir' = dir, fs' = fs
  PROVE  /\ (\E d \in 0..Len(dir) : Lists(files', d)) => Listed'
         /\ Lists(files', Len(dir)) => AllListed'
BY SameVolume DEF Listed, AllListed, Lists, First

\* The first scan, stage by stage.
FirstScan ==
  rescans = 0 =>
    CASE pc = "part" -> next = 0 /\ buf = <<>> /\ pos = 1 /\ carry = <<>> /\ files = <<>> /\ dir = <<>>
      [] pc = "scan" -> OnVolume /\ next \in 0..Sectors /\ Scanned
      [] OTHER -> \/ dir = <<>> /\ files = <<>>
                  \/ OnVolume /\ Listed /\ (errors = 0 => AllListed)

ScanInv == rescans \in Nat /\ errors \in Nat /\ drive \in Drives /\ FirstScan

LEMMA LoopLists ==
  ASSUME OnVolume, Scanned
  PROVE  Listed
BY DEF Scanned, Loop, Listed

LEMMA SectorIs ==
  ASSUME next \in Nat, PerSector \in Nat
  PROVE  Sector(next + 1) = [k \in 1..PerSector |-> At(next * PerSector + k)]
<1>1. (next + 1) - 1 = next
  OBVIOUS
<1>. QED BY <1>1 DEF Sector, At

LEMMA ReadScan ==
  ASSUME OnVolume, next \in 0..Sectors, Scanned, ReadSector
  PROVE  next' \in 0..Sectors /\ Scanned'
<1>1. PerSector \in Nat /\ Len(Flat) \in Nat /\ PerSector \in Nat \ {0}
  BY DirFacts, PartsFacts
<1>2. Sectors \in Nat
  BY <1>1, SectorsEnough DEF Sectors
<1>3. next \in Nat /\ next < Sectors /\ next' = next + 1 /\ next' \in 0..Sectors
  BY <1>2 DEF ReadSector
<1>4. (next + 1) * PerSector = next * PerSector + PerSector
  BY <1>1, <1>3
<1>5. /\ buf' = carry \o Sector(next + 1) /\ carry' = <<>> /\ pos' = 1 /\ files' = files
      /\ ~(pos <= Len(buf)) /\ fs' = fs /\ dir' = dir
  BY DEF ReadSector, Scanning, More
<1>6. Loop(next * PerSector + PerSector, carry \o [k \in 1..PerSector |-> At(next * PerSector + k)],
           1, <<>>, files)
  <2>1. Loop(next * PerSector, buf, pos, carry, files)
    BY DEF Scanned
  <2>. QED BY <1>5, <2>1, ReadStep
<1>7. Loop(next' * PerSector, buf', pos', carry', files')
  BY <1>1, <1>3, <1>4, <1>5, <1>6, SectorIs
<1>. QED BY <1>3, <1>5, <1>7, SameLoop

LEMMA SkipScan ==
  ASSUME OnVolume, Scanned, SkipEntry
  PROVE  Scanned'
<1>1. /\ UNCHANGED <<fs, dir, next, buf, carry, files>> /\ pos' = pos + 1
      /\ pos <= Len(buf) /\ buf[pos].kind \in {"other", "part"}
  BY DEF SkipEntry, Scanning, More
<1>2. Loop(next * PerSector, buf, pos + 1, carry, files)
  <2>1. Loop(next * PerSector, buf, pos, carry, files)
    BY DEF Scanned
  <2>. QED BY <1>1, <2>1, SkipStep
<1>. QED BY <1>1, <1>2, SameLoop

LEMMA CarryScan ==
  ASSUME OnVolume, Scanned, CarryOver
  PROVE  Scanned'
<1>1. /\ UNCHANGED <<fs, dir, next, buf, files>> /\ pos' = Len(buf) + 1
      /\ carry' = Keep(SubSeq(buf, pos, Len(buf)))
      /\ pos <= Len(buf) /\ buf[pos].kind = "file" /\ ~(pos + buf[pos].more <= Len(buf))
  BY DEF CarryOver, Scanning, More, SetFits
<1>2. Loop(next * PerSector, buf, Len(buf) + 1, Keep(SubSeq(buf, pos, Len(buf))), files)
  <2>1. Loop(next * PerSector, buf, pos, carry, files)
    BY DEF Scanned
  <2>. QED BY <1>1, <2>1, CarryStep
<1>. QED BY <1>1, <1>2, SameLoop

LEMMA TakeScan ==
  ASSUME OnVolume, Scanned, TakeSet
  PROVE  Scanned'
<1>1. /\ UNCHANGED <<fs, dir, next, buf, carry>> /\ pos' = (pos + 1) + buf[pos].more
      /\ files' = Taken(files, buf[pos].item)
      /\ pos <= Len(buf) /\ buf[pos].kind \in {"file", "short"} /\ pos + buf[pos].more <= Len(buf)
  BY DEF TakeSet, Scanning, More, SetFits, List, Taken
<1>2. Loop(next * PerSector, buf, (pos + 1) + buf[pos].more, carry, Taken(files, buf[pos].item))
  <2>1. Loop(next * PerSector, buf, pos, carry, files)
    BY DEF Scanned
  <2>. QED BY <1>1, <2>1, TakeStep
<1>. QED BY <1>1, <1>2, SameLoop

LEMMA EndScan ==
  ASSUME OnVolume, next \in 0..Sectors, Scanned, EndOfDirectory
  PROVE  Listed' /\ AllListed'
<1>1. /\ UNCHANGED <<fs, dir, files>>
      /\ \/ ~(pos <= Len(buf)) /\ next = Sectors
         \/ pos <= Len(buf) /\ buf[pos].kind = "end"
  BY DEF EndOfDirectory, Scanning, More
<1>2. next = Sectors => next * PerSector >= Len(Flat)
  BY DirFacts, PartsFacts, SectorsEnough DEF Sectors
<1>3. Loop(next * PerSector, buf, pos, carry, files)
  BY DEF Scanned
<1>4. Lists(files, Len(dir))
  BY <1>1, <1>2, <1>3, AtEnd
<1>5. Listed
  BY LoopLists
<1>. QED BY <1>1, <1>4, <1>5, SameList DEF Listed

Starts == Sectors \in Nat /\ Loop(0 * PerSector, <<>>, 1, <<>>, <<>>)

LEMMA StartScan == OnVolume => Starts
<1>. SUFFICES ASSUME OnVolume PROVE Starts
  OBVIOUS
<1>1. /\ Len(Flat) \in Nat /\ PerSector \in Nat \ {0} /\ Len(dir) \in Nat /\ MaxFiles \in Nat
      /\ Count(0) = 0 /\ Upto(0) = 0
  BY DirFacts, PartsFacts, CountFacts
<1>2. Sectors \in Nat
  BY <1>1, SectorsEnough DEF Sectors
<1>3. 0 * PerSector = 0
  BY <1>1
<1>4. <<>> \in Seq(AnEntry) /\ <<>> \in Seq(Nat) /\ Len(<<>>) = 0
  OBVIOUS
<1>5. Streams(0, <<>>, 1, <<>>)
  BY <1>4 DEF Streams
<1>6. Place(0, <<>>, 1, <<>>) = 0
  <2>1. Place(0, <<>>, 1, <<>>) = ((0 - Len(<<>>)) - (Len(<<>>) + 1)) + 1
    BY DEF Place
  <2>2. ((0 - 0) - (0 + 1)) + 1 = 0
    OBVIOUS
  <2>. QED BY <1>4, <2>1, <2>2
<1>7. 0 < Len(dir) => 0 < Upto(0 + 1)
  <2>1. SUFFICES ASSUME 0 < Len(dir) PROVE 0 < Upto(1)
    OBVIOUS
  <2>2. 0 \in 0..Len(dir) /\ 1 \in 1..Len(dir) /\ 1 - 1 = 0
    BY <1>1, <2>1
  <2>3. Upto(1) = Upto(0) + Length(1) /\ Length(1) \in Nat /\ Length(1) >= 1
    BY <2>2, PartsFacts, LengthPositive
  <2>. QED BY <1>1, <2>3
<1>8. Inside(0, 0, <<>>, 1, <<>>)
  BY <1>1, <1>6, <1>7 DEF Inside
<1>9. Lists(<<>>, 0)
  BY <1>1, <1>4 DEF Lists, First
<1>10. 0 \in 0..Len(dir)
  BY <1>1
<1>11. Loop(0, <<>>, 1, <<>>, <<>>)
  BY <1>5, <1>8, <1>9, <1>10 DEF Loop
<1>. QED BY <1>2, <1>3, <1>11 DEF Starts

LEMMA NothingListed ==
  ASSUME dir = <<>>, files = <<>>
  PROVE  IsPrefix(files, Images) /\ Len(files) = 0 /\ Len(Images) = 0
<1>. DEFINE ss == [i \in DOMAIN dir |-> IF dir[i].kind = "iso" THEN <<i>> ELSE <<>>]
<1>1. ss \in Seq(Seq(Nat)) /\ Len(ss) = 0 /\ Images = FlattenSeq(ss)
  BY DEF Images
<1>. HIDE DEF ss
<1>2. Images \in Seq(Nat) /\ Len(Images) = 0
  BY <1>1, Flattened, EndsDefined DEF Joined
<1>3. Len(files) = 0 /\ SubSeq(files, 1, Len(files)) = SubSeq(Images, 1, Len(files))
  BY <1>2
<1>. QED BY <1>2, <1>3 DEF IsPrefix

LEMMA FirstScanExact ==
  ASSUME ScanInv
  PROVE  ScanExact
<1>1. SUFFICES ASSUME rescans = 0
      PROVE /\ IsPrefix(files, Images)
            /\ pc \in {"menu", "halted", "booted"} /\ errors = 0 =>
                 Len(files) = First(Len(Images))
  BY DEF ScanExact, First
<1>2. \/ dir = <<>> /\ files = <<>>
      \/ /\ OnVolume /\ Listed
         /\ pc \in {"menu", "halted", "booted"} /\ errors = 0 => AllListed
  BY <1>1, LoopLists DEF ScanInv, FirstScan
<1>3. CASE dir = <<>> /\ files = <<>>
  <2>1. MaxFiles \in Nat
    BY BiosAssumption
  <2>. QED BY <1>3, <2>1, NothingListed DEF First
<1>4. CASE /\ OnVolume /\ Listed
           /\ pc \in {"menu", "halted", "booted"} /\ errors = 0 => AllListed
  <2>1. IsPrefix(files, Images)
    BY <1>4, PrefixListed DEF Listed
  <2>2. AllListed => Len(files) = First(Len(Images))
    BY <1>4, CountFacts DEF AllListed, Lists
  <2>. QED BY <1>4, <2>1, <2>2
<1>. QED BY <1>2, <1>3, <1>4

LEMMA SameScan ==
  ASSUME ScanInv, UNCHANGED <<drive, fs, dir, next, buf, pos, carry, files, rescans, errors, pc>>
  PROVE  ScanInv'
<1>1. Scanned => Scanned'
  BY SameLoop DEF Scanned
<1>2. (Listed => Listed') /\ (AllListed => AllListed')
  BY SameList DEF Listed, AllListed
<1>3. OnVolume' = OnVolume /\ Sectors' = Sectors
  BY SameVolume
<1>. QED BY <1>1, <1>2, <1>3 DEF ScanInv, FirstScan

\* A step after the scan.
LEMMA AfterFirst ==
  ASSUME ScanInv, UNCHANGED <<drive, fs, dir, files, rescans>>, errors' \in Nat, errors' = 0 => errors = 0,
         pc \notin {"part", "scan"}, pc' \notin {"part", "scan"}
  PROVE  ScanInv'
<1>1. (Listed => Listed') /\ (AllListed => AllListed')
  BY SameList DEF Listed, AllListed
<1>2. OnVolume' = OnVolume
  BY SameVolume
<1>. QED BY <1>1, <1>2 DEF ScanInv, FirstScan

LEMMA StepScan ==
  ASSUME ScanInv, Scan, UNCHANGED bootVars
  PROVE  ScanInv'
<1>0. /\ UNCHANGED <<drive, fs, dir, rescans>> /\ pc = "scan" /\ rescans \in Nat /\ errors \in Nat
      /\ drive \in Drives
  BY DEF Scan, ReadSector, EndOfDirectory, ReadFails, SkipEntry, CarryOver, TakeSet, Scanning, ScanInv,
         bootVars
<1>1. errors' \in Nat
  BY <1>0 DEF Scan, ReadSector, EndOfDirectory, ReadFails, SkipEntry, CarryOver, TakeSet
<1>2. SUFFICES ASSUME rescans = 0 PROVE FirstScan'
  BY <1>0, <1>1 DEF ScanInv, FirstScan
<1>3. OnVolume /\ next \in 0..Sectors /\ Scanned
  BY <1>0, <1>2 DEF ScanInv, FirstScan
<1>4. OnVolume' /\ Sectors' = Sectors
  BY <1>0, <1>3, SameVolume
<1>5. CASE ReadSector
  BY <1>0, <1>3, <1>4, <1>5, ReadScan DEF FirstScan, ReadSector
<1>6. CASE EndOfDirectory
  <2>1. pc' \in {"menu", "halted"}
    BY <1>6 DEF EndOfDirectory, AfterScan
  <2>. QED BY <1>3, <1>4, <1>6, <2>1, EndScan DEF FirstScan
<1>7. CASE ReadFails
  <2>1. pc' \in {"menu", "halted"} /\ UNCHANGED files /\ errors' = errors + 1
    BY <1>7 DEF ReadFails, AfterScan
  <2>2. Listed'
    BY <1>0, <1>3, <2>1, LoopLists, SameList DEF Listed
  <2>. QED BY <1>0, <1>4, <2>1, <2>2 DEF FirstScan
<1>8. CASE SkipEntry
  BY <1>0, <1>3, <1>4, <1>8, SkipScan DEF FirstScan, SkipEntry
<1>9. CASE CarryOver
  BY <1>0, <1>3, <1>4, <1>9, CarryScan DEF FirstScan, CarryOver
<1>10. CASE TakeSet
  BY <1>0, <1>3, <1>4, <1>10, TakeScan DEF FirstScan, TakeSet
<1>. QED BY <1>5, <1>6, <1>7, <1>8, <1>9, <1>10 DEF Scan

LEMMA StepMenu ==
  ASSUME ScanInv, Menu, UNCHANGED bootVars
  PROVE  ScanInv'
<1>1. pc = "menu" /\ UNCHANGED <<drive, fs, dir, errors>> /\ rescans \in Nat /\ errors \in Nat /\ drive \in Drives
  BY DEF Menu, Key, Typing, PressRefresh, NextPage, PreviousPage, Backspace, TypeDigit, Enter, ScanInv,
         bootVars
<1>2. CASE PressRefresh
  <2>1. rescans' = rescans + 1
    BY <1>2 DEF PressRefresh
  <2>. QED BY <1>1, <2>1 DEF ScanInv, FirstScan
<1>3. CASE ~PressRefresh
  <2>1. UNCHANGED <<files, rescans>> /\ pc' \in {"menu", "booted"}
    BY <1>1, <1>3 DEF Menu, Typing, NextPage, PreviousPage, Backspace, TypeDigit, Enter
  <2>. QED BY <1>1, <2>1, AfterFirst
<1>. QED BY <1>2, <1>3

LEMMA StepStage ==
  ASSUME ScanInv, Stage
  PROVE  ScanInv'
<1>1. rescans \in Nat /\ errors \in Nat /\ drive \in Drives /\ UNCHANGED <<drive, files, rescans>>
  BY DEF ScanInv, Stage, FindPartition, ReadStops, ParseElTorito, LoadBootImage, bootVars
<1>2. CASE FindPartition
  <2>. DEFINE first == BiosLba(drive)
  <2>1. pc = "part" /\ UNCHANGED <<next, buf, pos, carry, errors>>
    BY <1>2 DEF FindPartition
  <2>2. SUFFICES ASSUME rescans = 0 PROVE FirstScan'
    BY <1>1, <2>1 DEF ScanInv, FirstScan
  <2>3. next = 0 /\ buf = <<>> /\ pos = 1 /\ carry = <<>> /\ files = <<>> /\ dir = <<>>
    BY <2>1, <2>2 DEF ScanInv, FirstScan
  <2>. HIDE DEF first
  <2>4. CASE first \in DOMAIN drive.at
    <3>1. pc' = "scan" /\ fs' = drive.at[first].fs /\ dir' = drive.at[first].dir
      BY <1>2, <2>4 DEF FindPartition, first
    <3>2. IsVolume(drive.at[first])
      BY <1>1, <2>4, DriveAssumption
    <3>3. OnVolume'
      BY <3>1, <3>2 DEF OnVolume, IsVolume
    <3>4. Starts'
      BY <3>3, StartScan, PTL
    <3>5. Scanned'
      BY <1>1, <2>1, <2>3, <3>4 DEF Scanned, Starts
    <3>6. next' \in 0..Sectors'
      BY <2>1, <2>3, <3>4 DEF Starts
    <3>. QED BY <3>1, <3>3, <3>5, <3>6 DEF FirstScan
  <2>5. CASE first \notin DOMAIN drive.at
    <3>1. pc' = "halted" /\ dir' = dir
      BY <1>2, <2>5 DEF FindPartition, first
    <3>. QED BY <1>1, <2>3, <3>1 DEF FirstScan
  <2>. QED BY <2>4, <2>5
<1>3. CASE pc = "part" /\ ReadStops
  <2>1. pc' = "halted" /\ dir' = dir /\ errors' = errors + 1
    BY <1>3 DEF ReadStops
  <2>. QED BY <1>1, <1>3, <2>1 DEF ScanInv, FirstScan
<1>4. CASE pc # "part" /\ (ReadStops \/ ParseElTorito \/ LoadBootImage)
  <2>1. /\ pc \notin {"part", "scan"} /\ pc' \notin {"part", "scan"} /\ UNCHANGED <<fs, dir>>
        /\ errors' = errors \/ errors' = errors + 1
    BY <1>4 DEF ReadStops, ParseElTorito, LoadBootImage
  <2>. QED BY <1>1, <2>1, AfterFirst
<1>5. pc = "part" => ~ParseElTorito /\ ~LoadBootImage
  BY DEF ParseElTorito, LoadBootImage
<1>. QED BY <1>2, <1>3, <1>4, <1>5 DEF Stage

\* Whatever the directory and the size of sectors, the first scan lists its
\* images in their order wherever entry sets break across sectors, and all that
\* the list has room for unless a sector cannot be read.
THEOREM ImagesListed == Spec => []ScanExact
<1>1. Init => ScanInv
  BY DEF Init, ScanInv, FirstScan
<1>2. ScanInv /\ [Next]_allVars => ScanInv'
  <2>1. SUFFICES ASSUME ScanInv, [Next]_allVars PROVE ScanInv'
    OBVIOUS
  <2>2. CASE UNCHANGED allVars
    BY <2>1, <2>2, SameScan DEF allVars, vars, bootVars
  <2>. QED BY <2>1, <2>2, StepScan, StepMenu, StepStage DEF Next
<1>. QED BY <1>1, <1>2, FirstScanExact, PTL DEF Spec

-----------------------------------------------------------------------------
(* The boot catalog.                                                       *)

FirstPlatform(c) == IF c[1].type = "validation" THEN c[1].platform ELSE Unknown

\* The loop of parse_el_torito computes a platform for every entry.
LEMMA PlatformsDefined ==
  ASSUME NEW c \in Seq(CatalogEntry)
  PROVE  /\ Platforms(c)[0] = FirstPlatform(c)
         /\ \A i \in 1..Len(c) : Platforms(c)[i] = PlatformAfter(Platforms(c)[i - 1], c[i])
<1>. DEFINE P == {FirstPlatform(c)} \cup {c[j].platform : j \in DOMAIN c}
            step == [i \in 1..Len(c) |-> [p \in P |-> PlatformAfter(p, c[i])]]
<1>1. \A i \in 1..Len(c) : \A p \in P : PlatformAfter(p, c[i]) \in P
  BY DEF PlatformAfter
<1>2. FirstPlatform(c) \in P /\ Len(c) \in Nat
  OBVIOUS
<1>. HIDE DEF P
<1>3. step \in [1..Len(c) -> [P -> P]]
  BY <1>1
<1>4. PICK f \in [0..Len(c) -> P] :
        f[0] = FirstPlatform(c) /\ \A i \in 1..Len(c) : f[i] = step[i][f[i - 1]]
  <2>. HIDE DEF step
  <2>1. Obeying(P, FirstPlatform(c), Len(c), step) # {}
    BY <1>2, <1>3, Recursion
  <2>. QED BY <2>1 DEF Obeying
<1>5. ASSUME NEW i \in 1..Len(c) PROVE f[i] = PlatformAfter(f[i - 1], c[i])
  <2>1. i - 1 \in 0..Len(c)
    BY <1>2
  <2>2. f[i - 1] \in P
    BY <1>4, <2>1
  <2>. QED BY <1>4, <2>2
<1>. DEFINE Step(h) == [i \in 0..Len(c) |-> IF i > 0 THEN PlatformAfter(h[i - 1], c[i])
                                           ELSE IF c[1].type = "validation" THEN c[1].platform
                                           ELSE Unknown]
<1>6. f = Step(f)
  <2>1. \A i \in 0..Len(c) : f[i] = Step(f)[i]
    BY <1>4, <1>5 DEF FirstPlatform
  <2>. QED BY <1>4, <2>1
<1>7. Platforms(c) = CHOOSE h : h = Step(h)
  BY DEF Platforms
<1>8. ASSUME NEW h, h = Step(h)
      PROVE  h[0] = FirstPlatform(c) /\ \A i \in 1..Len(c) : h[i] = PlatformAfter(h[i - 1], c[i])
  <2>1. \A i \in 0..Len(c) : h[i] = Step(h)[i]
    <3>. HIDE DEF Step
    <3>. QED BY <1>8
  <2>2. Step(h)[0] = FirstPlatform(c)
    BY <1>2 DEF FirstPlatform
  <2>3. \A i \in 1..Len(c) : Step(h)[i] = PlatformAfter(h[i - 1], c[i])
    OBVIOUS
  <2>. HIDE DEF Step
  <2>. QED BY <1>2, <2>1, <2>2, <2>3
<1>9. Platforms(c) = Step(Platforms(c))
  <2>. HIDE DEF Step
  <2>. QED BY <1>6, <1>7
<1>. QED
  <2>. HIDE DEF Step
  <2>. QED BY <1>8, <1>9

Headers(c, i) ==
  {j \in 1..i : c[j].type = "section" \/ (j = 1 /\ c[j].type = "validation")}

LEMMA LastIsMax ==
  ASSUME NEW S, NEW n \in Nat, S \subseteq 1..n, n \in S
  PROVE  Max(S) = n
<1>1. \A y \in S : n >= y
  OBVIOUS
<1>2. \A x \in S : (\A y \in S : x >= y) => x = n
  OBVIOUS
<1>. QED BY <1>1, <1>2 DEF Max

\* The platform the loop has at an entry is that of the last header before it.
LEMMA PlatformOfHeaders ==
  ASSUME NEW c \in Seq(CatalogEntry)
  PROVE  \A i \in 1..Len(c) :
           Platforms(c)[i] = IF Headers(c, i) = {} THEN Unknown ELSE c[Max(Headers(c, i))].platform
<1>. DEFINE Right(i) == Platforms(c)[i] = IF Headers(c, i) = {} THEN Unknown
                                        ELSE c[Max(Headers(c, i))].platform
            S == {i \in Nat : i \in 1..Len(c) => Right(i)}
<1>1. 0 \in S
  OBVIOUS
<1>2. ASSUME NEW i \in Nat, i \in S PROVE i + 1 \in S
  <2>1. SUFFICES ASSUME i + 1 \in 1..Len(c) PROVE Right(i + 1)
    OBVIOUS
  <2>2. Platforms(c)[i + 1] = PlatformAfter(Platforms(c)[i], c[i + 1])
    BY <2>1, PlatformsDefined
  <2>3. Headers(c, i + 1) \subseteq 1..i + 1 /\ i + 1 \in Nat
    BY DEF Headers
  <2>4. CASE c[i + 1].type = "section"
    <3>1. i + 1 \in Headers(c, i + 1)
      BY <2>4 DEF Headers
    <3>2. Max(Headers(c, i + 1)) = i + 1
      BY <2>3, <3>1, LastIsMax
    <3>. QED BY <2>2, <2>4, <3>1, <3>2 DEF PlatformAfter
  <2>5. CASE c[i + 1].type # "section" /\ i # 0
    <3>1. Headers(c, i + 1) = Headers(c, i)
      BY <2>5 DEF Headers
    <3>2. Right(i)
      BY <1>2, <2>1, <2>5
    <3>. QED BY <2>2, <2>5, <3>1, <3>2 DEF PlatformAfter
  <2>6. CASE c[i + 1].type # "section" /\ i = 0
    <3>1. Platforms(c)[1] = FirstPlatform(c)
      BY <2>2, <2>6, PlatformsDefined DEF PlatformAfter
    <3>2. CASE c[1].type = "validation"
      <4>1. 1 \in Headers(c, 1) /\ Headers(c, 1) \subseteq 1..1
        BY <3>2 DEF Headers
      <4>2. Max(Headers(c, 1)) = 1
        BY <4>1, LastIsMax
      <4>. QED BY <2>6, <3>1, <3>2, <4>1, <4>2 DEF FirstPlatform
    <3>3. CASE c[1].type # "validation"
      <4>1. Headers(c, 1) = {}
        BY <2>6, <3>3 DEF Headers
      <4>. QED BY <2>6, <3>1, <3>3, <4>1 DEF FirstPlatform
    <3>. QED BY <3>2, <3>3
  <2>. QED BY <2>4, <2>5, <2>6
<1>3. Nat \subseteq S
  <2>. HIDE DEF S
  <2>. QED BY <1>1, <1>2, AllNumbers
<1>. QED BY <1>3

\* The boot image it takes is the first one that is the BIOS's.
LEMMA OwnEntries ==
  ASSUME NEW c \in Seq(CatalogEntry)
  PROVE  {i \in DOMAIN c : c[i].type = "boot" /\ Platforms(c)[i - 1] = BIOS}
           = {i \in DOMAIN c : c[i].type = "boot" /\ ForBios(c, i)}
<1>1. SUFFICES ASSUME NEW i \in 1..Len(c), c[i].type = "boot"
               PROVE  Platforms(c)[i - 1] = BIOS <=> ForBios(c, i)
  OBVIOUS
<1>2. ForBios(c, i) <=> Headers(c, i - 1) # {} /\ c[Max(Headers(c, i - 1))].platform = BIOS
  BY DEF ForBios, Headers
<1>3. CASE i = 1
  <2>1. Platforms(c)[0] = Unknown
    BY <1>1, <1>3, PlatformsDefined DEF FirstPlatform
  <2>2. Headers(c, 0) = {}
    BY DEF Headers
  <2>. QED BY <1>2, <1>3, <2>1, <2>2 DEF Unknown, BIOS
<1>4. CASE i # 1
  <2>1. i - 1 \in 1..Len(c)
    BY <1>1, <1>4
  <2>. QED BY <1>2, <2>1, PlatformOfHeaders DEF Unknown, BIOS
<1>. QED BY <1>3, <1>4

FromOwnCatalog ==
  pc \in {"load", "jumped"} => \E other \in Strangers :
    LET record == ReadFrom(BOOT_RECORD_LBA_OFFSET, other)
        source == ReadFrom(record.where, other)
        entry == BootEntry(source.catalog)
    IN  /\ record.signed /\ entry # <<>>
        /\ loaded = [lba |-> entry[1].lba,
                     count |-> IF entry[1].count = 0 THEN 4 ELSE entry[1].count]

\* The machine never jumps into a boot image for another platform, whatever
\* headers and entries the catalog has and in which order.
THEOREM BiosImageCorrect == Spec => []BootsBiosImage
<1>1. Init => Found /\ FromOwnCatalog
  BY DEF Init, Found, FromOwnCatalog
<1>2. FromOwnCatalog /\ [Next]_allVars => FromOwnCatalog'
  <2>1. SUFFICES ASSUME FromOwnCatalog, [Next]_allVars PROVE FromOwnCatalog'
    OBVIOUS
  <2>2. CASE ParseElTorito
    <3>1. drive' = drive /\ pc' \in {"load", "halted"}
      BY <2>2 DEF ParseElTorito
    <3>2. CASE pc' = "halted"
      BY <3>2 DEF FromOwnCatalog
    <3>3. CASE pc' = "load"
      BY <2>2, <3>1, <3>3 DEF ParseElTorito, FromOwnCatalog, ReadFrom, Image
    <3>. QED BY <3>1, <3>2, <3>3
  <2>3. CASE pc' \notin {"load", "jumped"}
    BY <2>3 DEF FromOwnCatalog
  <2>4. CASE pc \in {"load", "jumped"} /\ UNCHANGED <<drive, loaded>>
    BY <2>1, <2>4 DEF FromOwnCatalog, ReadFrom, Image
  <2>5. CASE FindPartition \/ ReadStops \/ LoadBootImage
    BY <2>3, <2>4, <2>5 DEF FindPartition, ReadStops, LoadBootImage, bootVars
  <2>6. CASE Scan \/ Menu
    <3>1. pc' \in {"scan", "menu", "halted", "booted"}
      BY <2>6 DEF Scan, Scanning, ReadSector, EndOfDirectory, ReadFails, SkipEntry, CarryOver,
                  TakeSet, AfterScan, Menu, Key, Typing, PressRefresh, NextPage, PreviousPage,
                  Backspace, TypeDigit, Enter
    <3>. QED BY <2>3, <3>1
  <2>7. CASE UNCHANGED allVars
    BY <2>3, <2>4, <2>7 DEF allVars, vars, bootVars
  <2>. QED BY <2>1, <2>2, <2>5, <2>6, <2>7 DEF Next, Stage
<1>3. Found /\ FromOwnCatalog => BootsBiosImage
  <2>. DEFINE c == Image.catalog
              own == {i \in DOMAIN c : c[i].type = "boot" /\ ForBios(c, i)}
  <2>1. SUFFICES ASSUME Found, FromOwnCatalog, pc \in {"load", "jumped"},
                        Max({Image.where, BOOT_RECORD_LBA_OFFSET}) < Image.piece
                 PROVE  /\ Image.signed /\ own # {}
                        /\ loaded.lba = c[Min(own)].lba /\ loaded.count > 0
    BY DEF BootsBiosImage
  <2>2. IsImage(Image)
    BY <2>1, DriveAssumption DEF Found, Image
  <2>3. Image.where < Image.piece /\ BOOT_RECORD_LBA_OFFSET < Image.piece
    <3>. DEFINE T == {Image.where, BOOT_RECORD_LBA_OFFSET}
    <3>1. /\ Image.where \in Nat /\ Image.piece \in Nat /\ BOOT_RECORD_LBA_OFFSET \in Nat
      BY <2>2 DEF IsImage, BOOT_RECORD_LBA_OFFSET
    <3>2. \E x \in T : \A y \in T : x >= y
      BY <3>1
    <3>3. Max(T) \in T /\ \A y \in T : Max(T) >= y
      BY <3>2 DEF Max
    <3>. QED BY <2>1, <3>1, <3>3
  <2>4. /\ Image.signed /\ BootEntry(c) # <<>>
        /\ loaded = [lba |-> BootEntry(c)[1].lba,
                     count |-> IF BootEntry(c)[1].count = 0 THEN 4 ELSE BootEntry(c)[1].count]
    BY <2>1, <2>3 DEF FromOwnCatalog, ReadFrom
  <2>5. own = {i \in DOMAIN c : c[i].type = "boot" /\ Platforms(c)[i - 1] = BIOS}
    BY <2>2, OwnEntries DEF IsImage
  <2>. HIDE DEF own
  <2>6. own # {} /\ BootEntry(c) = <<c[Min(own)]>>
    BY <2>4, <2>5 DEF BootEntry
  <2>7. Min(own) \in DOMAIN c
    <3>1. own \subseteq DOMAIN c /\ DOMAIN c \subseteq Nat
      BY <2>2 DEF own, IsImage
    <3>2. \E x \in own : \A y \in own : x <= y
      BY <2>6, <3>1, LeastNumber
    <3>3. Min(own) \in own
      BY <3>2 DEF Min
    <3>. QED BY <3>1, <3>3
  <2>8. c[Min(own)] \in CatalogEntry
    BY <2>2, <2>7 DEF IsImage
  <2>9. c[Min(own)].count \in Nat
    BY <2>8 DEF CatalogEntry
  <2>. QED
    BY <2>4, <2>6, <2>9 DEF own
<1>. QED
  BY <1>1, <1>2, <1>3, FoundKept, PTL DEF Spec

=============================================================================
