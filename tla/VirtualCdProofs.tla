--------------------------- MODULE VirtualCdProofs ---------------------------
(***************************************************************************)
(* For every image, menu and archive and any number of failing calls: the  *)
(* memory of the virtual CD-ROM is never given back while it is reachable  *)
(* or twice, the device path has the length of the media, and a reader     *)
(* finds the image with nothing lost but a spare file.  The filesystem on  *)
(* it has the same files, and gives the names of a directory in order      *)
(* however they are asked for.                                             *)
(***************************************************************************)
EXTENDS IsoFs, LoaderFacts, FiniteSetTheorems

Creating == {"path", "cd", "publish"}
Final == {"running", "stopped", "halted"}
Stages == Creating \cup {"publishPath", "fs", "scan", "bundle", "expose", "menus", "menu",
                         "rewrite", "append", "find", "load", "loaded"} \cup Final

\* The fields of cd and loaded that EXCEPT changes are there.
Shape ==
  /\ pc \in Stages
  /\ pool \in [Blocks -> {"none", "live", "freed", "twice"}]
  /\ published \subseteq {"cd", "path", "fs"}
  /\ cd = [last |-> cd.last, bundle |-> cd.bundle, entry |-> cd.entry, how |-> cd.how,
           rootSlots |-> cd.rootSlots, menu |-> cd.menu, menuEntry |-> cd.menuEntry]
  /\ fs = [bound |-> fs.bound, bundle |-> fs.bundle, rootSlots |-> fs.rootSlots]
  /\ loaded = [device |-> loaded.device, filePath |-> loaded.filePath, starts |-> loaded.starts]
  /\ loaded.filePath \in BOOLEAN /\ fs.bound \in BOOLEAN /\ fs.bundle \in BOOLEAN

\* What create_virtual_cdrom has allocated and published so far.
Protocols ==
  /\ pc = "path" => pool["path"] = "none" /\ pool["cd"] = "none"
  /\ pc = "cd" => pool["path"] = "live" /\ pool["cd"] = "none"
  /\ pc = "publish" \/ published # {} => pool["path"] = "live" /\ pool["cd"] = "live"
  /\ pc \in Creating => published = {}
  /\ pc \in Stages \ Creating => pc = "halted" \/ "cd" \in published
  /\ pc \in Creating \cup {"publishPath", "fs"} => pool["fs"] = "none" /\ "fs" \notin published
  /\ "fs" \in published => pool["fs"] = "live"
  /\ pool["fs"] # "twice" /\ pool["path"] # "twice" /\ pool["cd"] # "twice"

\* The archive and the menu's new text stay for good.
Areas ==
  /\ pool["bundle"] \in {"none", "live"} /\ pool["area"] \in {"none", "live"}
  /\ pc = "expose" \/ cd.bundle # NoArea \/ fs.bundle => pool["bundle"] = "live"
  /\ cd.menu # NoArea => pool["area"] = "live"

\* Each scratch buffer lives in one stage only.
Scratch ==
  /\ (pool["text"] = "live") = (pc = "rewrite") /\ pool["text"] # "twice"
  /\ (pool["rewritten"] = "live") = (pc = "append") /\ pool["rewritten"] # "twice"
  /\ (pool["loader"] = "live") = (pc = "load") /\ pool["loader"] # "twice"
  /\ pool["cdromPath"] # "twice"

\* The child's path is given back only when no child was loaded.
ChildPath ==
  /\ pool["filePath"] # "twice"
  /\ pc # "halted" => pool["filePath"] # "freed"
  /\ loaded.filePath => pc \in Final /\ pool["filePath"] = "live"

IInv == Shape /\ Protocols /\ Areas /\ Scratch /\ ChildPath

-----------------------------------------------------------------------------
LEMMA InitShape == Init => IInv
BY DEF Init, IInv, Shape, Protocols, Areas, Scratch, ChildPath, Blocks, Stages, Creating, Final,
       NewCd, NoArea

LEMMA StepInv == IInv /\ [Next]_vars => IInv'
<1> SUFFICES ASSUME IInv, [Next]_vars PROVE IInv'
    OBVIOUS
<1> USE DEF IInv, Shape, Protocols, Areas, Scratch, ChildPath, Blocks, Stages, Creating, Final,
            At, Goto
<1>1. CASE CreatePath
  BY <1>1 DEF CreatePath, Got, Freed, NewCd, NoArea, WithBundle
<1>2. CASE CreateCd
  BY <1>2 DEF CreateCd, Got, Freed, NewCd, NoArea, WithBundle
<1>3. CASE PublishCd
  BY <1>3 DEF PublishCd, Got, Freed, NewCd, NoArea, WithBundle
<1>4. CASE CreateFails
  BY <1>4 DEF CreateFails, Got, Freed, NewCd, NoArea, WithBundle
<1>5. CASE PublishPath
  BY <1>5 DEF PublishPath, Got, Freed, NewCd, NoArea, WithBundle
<1>6. CASE PublishFs
  BY <1>6 DEF PublishFs, Got, Freed, NewCd, NoArea, WithBundle
<1>7. CASE NoFs
  BY <1>7 DEF NoFs, Got, Freed, NewCd, NoArea, WithBundle
<1>8. CASE ScanIso
  BY <1>8 DEF ScanIso, Got, Freed, NewCd, NoArea, WithBundle
<1>9. CASE BuildBundle
  BY <1>9 DEF BuildBundle, Got, Freed, NewCd, NoArea, WithBundle
<1>10. CASE NoBundle
  BY <1>10 DEF NoBundle, Got, Freed, NewCd, NoArea, WithBundle
<1>11. CASE Inject
  BY <1>11 DEF Inject, Got, Freed, NewCd, NoArea, WithBundle
<1>12. CASE Rename
  BY <1>12 DEF Rename, Got, Freed, NewCd, NoArea, WithBundle
<1>13. CASE NoEntry
  BY <1>13 DEF NoEntry, Got, Freed, NewCd, NoArea, WithBundle
<1>14. CASE NoDescriptor
  BY <1>14 DEF NoDescriptor, Got, Freed, NewCd, NoArea, WithBundle
<1>15. CASE CollectMenus
  BY <1>15 DEF CollectMenus, Got, Freed, NewCd, NoArea, WithBundle
<1>16. CASE ReadMenu
  BY <1>16 DEF ReadMenu, Got, Freed, NewCd, NoArea, WithBundle
<1>17. CASE SkipMenu
  BY <1>17 DEF SkipMenu, Got, Freed, NewCd, NoArea, WithBundle
<1>18. CASE RewriteMenu
  BY <1>18 DEF RewriteMenu, Got, Freed, NewCd, NoArea, WithBundle
<1>19. CASE LeaveMenu
  BY <1>19 DEF LeaveMenu, Got, Freed, NewCd, NoArea, WithBundle
<1>20. CASE AppendMenu
  BY <1>20 DEF AppendMenu, Got, Freed, NewCd, NoArea, WithBundle
<1>21. CASE AppendFails
  BY <1>21 DEF AppendFails, Got, Freed, NewCd, NoArea, WithBundle
<1>22. CASE SyncPath
  BY <1>22 DEF SyncPath, Got, Freed, NewCd, NoArea, WithBundle
<1>23. CASE ReadLoader
  BY <1>23 DEF ReadLoader, Got, Freed, NewCd, NoArea, WithBundle
<1>24. CASE NoLoader
  BY <1>24 DEF NoLoader, Got, Freed, NewCd, NoArea, WithBundle
<1>25. CASE LoadImage
  BY <1>25 DEF LoadImage, Got, Freed, NewCd, NoArea, WithBundle
<1>26. CASE LoadRefused
  BY <1>26 DEF LoadRefused, Got, Freed, NewCd, NoArea, WithBundle
<1>27. CASE LoadFails
  BY <1>27 DEF LoadFails, Got, Freed, NewCd, NoArea, WithBundle
<1>28. CASE StartImage
  <2>1. pool["filePath"] \in {"none", "live"}
    BY <1>28 DEF StartImage
  <2>2. /\ pc' = "running" /\ pc = "loaded"
        /\ UNCHANGED <<pool, published, cd, fs>>
    BY <1>28 DEF StartImage
  <2>3. loaded' = [device |-> loaded'.device, filePath |-> loaded'.filePath,
                   starts |-> loaded'.starts]
    BY <1>28 DEF StartImage
  <2>4. loaded'.filePath \in BOOLEAN /\ (loaded'.filePath => pool["filePath"] = "live")
    <3>1. CASE loaded' = [loaded EXCEPT !.starts = 1]
      BY <3>1, <2>2
    <3>2. CASE loaded' = [device |-> TRUE, filePath |-> pool["filePath"] # "none", starts |-> 1]
      <4>1. loaded'.filePath = (pool["filePath"] # "none")
        BY <3>2
      <4>. QED
        BY <4>1, <2>1
    <3>. QED
      BY <3>1, <3>2, <1>28 DEF StartImage
  <2>. QED
    BY <2>1, <2>2, <2>3, <2>4
<1>29. CASE StartAgain
  BY <1>29 DEF StartAgain, Got, Freed, NewCd, NoArea, WithBundle
<1>30. CASE Return
  BY <1>30 DEF Return, Got, Freed, NewCd, NoArea, WithBundle
<1>31. CASE UNCHANGED vars
  BY <1>31 DEF vars
<1>. QED
  BY <1>1, <1>2, <1>3, <1>4, <1>5, <1>6, <1>7, <1>8, <1>9, <1>10, <1>11, <1>12, <1>13, <1>14, <1>15, <1>16, <1>17, <1>18, <1>19, <1>20, <1>21, <1>22, <1>23, <1>24, <1>25, <1>26, <1>27, <1>28, <1>29, <1>30, <1>31 DEF Next

-----------------------------------------------------------------------------
LEMMA Invariant == Spec => []IInv
<1>1. Init => IInv
  BY InitShape
<1>2. IInv /\ [Next]_vars => IInv'
  BY StepInv
<1>. QED
  BY <1>1, <1>2, PTL DEF Spec

\* Reachable blocks are live and no block is freed twice, whatever fails
\* between publishing the CD-ROM and starting its loader.
THEOREM PoolCorrect == Spec => []PoolSafe
<1>1. IInv => PoolSafe
  BY DEF IInv, Shape, Protocols, Areas, Scratch, ChildPath, PoolSafe, InUse, Blocks, Stages,
         Creating, Final
<1>. QED
  BY <1>1, Invariant, PTL

-----------------------------------------------------------------------------
\* What TypeOK adds to Shape.
Rest ==
  /\ image \in Images
  /\ cd.how \in {"none", "injected", "renamed"}
  /\ kind \in {"fedora", "arch", "windows", "unknown"}
  /\ loads \in 0 .. 4 /\ failures \in 0 .. MaxFailures

\* LoadImage is attempted at most four times in a row, and the kind of the
\* image is one scan_iso_structure knows, whatever is on the stick.
THEOREM TypeCorrect == Spec => []TypeOK
<1>1. Init => Rest
  BY ImageAssumption DEF ImageAssumption, Init, Rest, NewCd
<1>2. IInv /\ Rest /\ [Next]_vars => Rest'
  <2>. SUFFICES ASSUME IInv, Rest, [Next]_vars PROVE Rest'
    OBVIOUS
  <2>. USE ImageAssumption DEF ImageAssumption, IInv, Shape, Rest, At, Goto, Works, Fails
  <2>1. CASE CreateCd
    BY <2>1 DEF CreateCd, NewCd
  <2>2. CASE Inject
    <3>1. cd'.how = "injected"
      BY <2>2 DEF Inject, WithBundle
    <3>. QED BY <2>2, <3>1 DEF Inject
  <2>3. CASE Rename
    <3>1. cd'.how = "renamed"
      BY <2>3 DEF Rename, WithBundle
    <3>. QED BY <2>3, <3>1 DEF Rename
  <2>4. CASE NoEntry
    <3>1. cd'.how = cd.how
      BY <2>4 DEF NoEntry, WithBundle
    <3>. QED BY <2>4, <3>1 DEF NoEntry
  <2>5. CASE AppendMenu
    <3>1. cd'.how = cd.how
      BY <2>5 DEF AppendMenu
    <3>. QED BY <2>5, <3>1 DEF AppendMenu
  <2>6. CASE ScanIso
    BY <2>6 DEF ScanIso
  <2>7. CASE \/ CreatePath \/ PublishCd \/ CreateFails \/ PublishPath \/ PublishFs \/ NoFs
             \/ BuildBundle \/ NoBundle \/ NoDescriptor
    BY <2>7 DEF CreatePath, PublishCd, CreateFails, PublishPath, PublishFs, NoFs, BuildBundle,
                NoBundle, NoDescriptor
  <2>8. CASE \/ CollectMenus \/ ReadMenu \/ SkipMenu \/ RewriteMenu \/ LeaveMenu \/ AppendFails
             \/ SyncPath \/ ReadLoader \/ NoLoader
    BY <2>8 DEF CollectMenus, ReadMenu, SkipMenu, RewriteMenu, LeaveMenu, AppendFails, SyncPath,
                ReadLoader, NoLoader
  <2>9. CASE \/ LoadImage \/ LoadRefused \/ LoadFails \/ StartImage \/ StartAgain \/ Return
    BY <2>9 DEF LoadImage, LoadRefused, LoadFails, StartImage, StartAgain, Return
  <2>10. CASE UNCHANGED vars
    BY <2>10 DEF vars
  <2>. QED BY <2>1, <2>2, <2>3, <2>4, <2>5, <2>6, <2>7, <2>8, <2>9, <2>10 DEF Next
<1>3. IInv /\ Rest => TypeOK
  BY DEF IInv, Shape, Rest, TypeOK
<1>. QED
  BY <1>1, <1>2, <1>3, Invariant, PTL DEF Spec

\* Nothing lengthens the CD-ROM once its device path has been corrected.
LInv == pc \in {"find", "load", "loaded", "running"} => path = cd.last + 1

\* The length that uefi_chainload_iso writes into the device path is the media's
\* until the loader is through, for every image, archive and menu.
THEOREM LengthsCorrect == Spec => []LengthsAgree
<1>1. Init => LInv
  BY DEF Init, LInv
<1>2. LInv /\ [Next]_vars => LInv'
  BY DEF LInv, Next, vars, At, Goto, CreatePath, CreateCd, PublishCd, CreateFails, PublishPath,
         PublishFs, NoFs, ScanIso, BuildBundle, NoBundle, Inject, Rename, NoEntry, NoDescriptor,
         CollectMenus, ReadMenu, SkipMenu, RewriteMenu, LeaveMenu, AppendMenu, AppendFails,
         SyncPath, ReadLoader, NoLoader, LoadImage, LoadRefused, LoadFails, StartImage,
         StartAgain, Return
<1>3. LInv => LengthsAgree
  BY DEF LInv, LengthsAgree
<1>. QED
  BY <1>1, <1>2, <1>3, PTL DEF Spec
-----------------------------------------------------------------------------
(* What a reader of the CD-ROM finds.                                      *)

\* Where patch_grub_cfg_blockio may find a menu.
MenuPlaces ==
  {p \in Places(DirSectors(image)) : IsRecord(p) /\ RecordOf(p).class \in {"menu", "cfg", "conf"}}

\* An area added to the CD-ROM is behind the image and not behind the media.
Added(area) ==
  /\ area.first \in Nat /\ area.sectors \in Nat \ {0}
  /\ area.first >= SectorsIn(image) /\ area.first + area.sectors <= cd.last + 1

HasBundle == /\ Added(cd.bundle) /\ cd.bundle.sectors = BundleSectors
             /\ cd.bundle.first # 0

MenuInv ==
  \/ cd.menuEntry = Nowhere /\ cd.menu = NoArea
  \/ /\ cd.menuEntry \in MenuPlaces /\ Added(cd.menu)
     /\ cd.bundle = NoArea \/ cd.bundle.first + cd.bundle.sectors <= cd.menu.first

EntryInv ==
  /\ cd.how \in {"none", "injected", "renamed"}
  /\ cd.how # "none" => HasBundle
  /\ cd.how = "injected" =>
       /\ HasRoom /\ cd.rootSlots = Walked + 1
       /\ cd.entry = [lba |-> LastRootLba, slot |-> Len(RecordsAt(image, LastRootLba)) + 1]
  /\ cd.how = "renamed" => cd.entry \in Spares

Early == {"publish", "publishPath", "fs", "scan", "bundle", "expose"}

CdInv ==
  image.valid =>
    /\ pc \in Early => cd = NewCd(SectorsIn(image))
    /\ pc \in {"rewrite", "append"} => menu \in MenuPlaces
    /\ todo \subseteq MenuPlaces
    /\ pc = "publish" \/ "cd" \in published =>
         /\ cd.last \in Nat /\ SectorsIn(image) <= cd.last + 1
         /\ cd.bundle = NoArea \/ HasBundle
         /\ MenuInv /\ EntryInv

LEMMA ImageFacts ==
  ASSUME image \in Images, image.valid
  PROVE  /\ SectorsIn(image) \in Nat /\ BootLba(image) \in Nat /\ LastRootLba \in Nat
         /\ Len(image.root) \in Nat \ {0} /\ BootLba(image) = 2 + Len(image.root)
         /\ LastRootLba + 1 = BootLba(image) /\ BootLba(image) < SectorsIn(image)
         /\ RootSectors(image) = 2 .. LastRootLba /\ DirSectors(image) = 2 .. BootLba(image)
         /\ Slots \in Nat \ {0} /\ BundleSectors \in Nat \ {0}
BY ImageAssumption, Slots \in Nat
   DEF ImageAssumption, SectorsIn, BootLba, LastRootLba, RootLba, RootSectors, DirSectors

LEMMA RecordFacts ==
  ASSUME image \in Images, image.valid, NEW lba \in DirSectors(image)
  PROVE  /\ RecordsAt(image, lba) \in Seq(RecordType)
         /\ Len(RecordsAt(image, lba)) \in 1 .. Slots
         /\ \A k \in DOMAIN RecordsAt(image, lba) :
              LET r == RecordsAt(image, lba)[k]
              IN  /\ r.first + r.sectors <= SectorsIn(image)
                  /\ r.class # "dir" => r.first > BootLba(image)
<1>1. lba = BootLba(image) \/ lba - RootLba + 1 \in 1 .. Len(image.root)
  BY ImageFacts DEF RootLba
<1>2. image.root \in Seq(Seq(RecordType)) /\ image.boot \in Seq(RecordType)
  BY ImageAssumption DEF ImageAssumption
<1>3. RecordsAt(image, lba) \in Seq(RecordType)
  BY <1>1, <1>2 DEF RecordsAt
<1>. QED
  BY <1>3, ImageAssumption DEF ImageAssumption

-----------------------------------------------------------------------------
LEMMA SameImage ==
  ASSUME image' = image
  PROVE  /\ MenuPlaces' = MenuPlaces /\ Spares' = Spares
         /\ Walked' = Walked /\ HasRoom' = HasRoom /\ LastRootLba' = LastRootLba
BY DEF MenuPlaces, Spares, Walked, HasRoom, LastRootLba, IsRecord, RecordOf

LEMMA CandidatesAreMenus ==
  ASSUME image \in Images, image.valid PROVE Candidates \subseteq MenuPlaces
<1>1. Candidates \subseteq Listed
  BY DEF Candidates
<1>2. \A class : Files(class, DirSectors(image)) \subseteq Places(DirSectors(image))
  BY DEF Files
<1>3. Places({BootLba(image)}) \subseteq Places(DirSectors(image))
  BY ImageFacts DEF Places
<1>4. Files("conf", {BootLba(image)}) \subseteq MenuPlaces
  BY <1>3 DEF Files, MenuPlaces
<1>5. /\ Files("menu", DirSectors(image)) \subseteq MenuPlaces
      /\ Files("cfg", DirSectors(image)) \subseteq MenuPlaces
  BY DEF Files, MenuPlaces
<1>6. Listed \subseteq Files("conf", {BootLba(image)}) \cup Files("menu", DirSectors(image))
                       \cup Files("cfg", DirSectors(image))
  BY DEF Listed
<1>. QED
  BY <1>1, <1>4, <1>5, <1>6

\* A step that leaves the CD-ROM as it is.
LEMMA CdKept ==
  ASSUME CdInv, UNCHANGED <<image, cd>>,
         pc' \in Early => pc \in Early,
         pc' \in {"rewrite", "append"} => menu' \in MenuPlaces \/ ~image.valid,
         todo' \subseteq MenuPlaces \/ ~image.valid,
         pc' = "publish" \/ "cd" \in published' => pc = "publish" \/ "cd" \in published
  PROVE  CdInv'
<1>1. SUFFICES ASSUME image.valid PROVE CdInv'
  BY DEF CdInv
<1>2. MenuInv => MenuInv'
  BY SameImage DEF MenuInv, Added
<1>3. EntryInv => EntryInv'
  BY SameImage DEF EntryInv, HasBundle, Added
<1>4. HasBundle => HasBundle'
  BY DEF HasBundle, Added
<1>. QED
  BY <1>1, <1>2, <1>3, <1>4, SameImage DEF CdInv

\* prepare_premount_iso_file: the archive is added before there is a menu.
LEMMA BundleAdded ==
  ASSUME image \in Images, image.valid, cd = NewCd(SectorsIn(image)), image' = image,
         NEW c, c.bundle = WithBundle(cd).bundle, c.last = WithBundle(cd).last,
         c.menu = cd.menu, c.menuEntry = cd.menuEntry, cd' = c
  PROVE  /\ cd'.last \in Nat /\ SectorsIn(image) <= cd'.last + 1
         /\ HasBundle' /\ MenuInv'
<1>1. /\ cd.last = SectorsIn(image) - 1 /\ cd.last \in Nat
      /\ cd.menu = NoArea /\ cd.menuEntry = Nowhere
  BY ImageFacts DEF NewCd
<1>2. /\ cd'.bundle = [first |-> SectorsIn(image), sectors |-> BundleSectors]
      /\ cd'.last = cd.last + BundleSectors
  BY <1>1, ImageFacts DEF WithBundle, NewCd
<1>3. HasBundle'
  BY <1>1, <1>2, ImageFacts DEF HasBundle, Added
<1>. QED
  BY <1>1, <1>2, <1>3, ImageFacts DEF MenuInv

LEMMA ExposeStep ==
  ASSUME IInv, CdInv, image \in Images, Inject \/ Rename \/ NoEntry
  PROVE  CdInv'
<1>1. /\ pc = "expose" /\ pc' = "menus" /\ image.valid /\ image' = image
      /\ todo' = todo /\ "cd" \in published
  BY DEF Inject, Rename, NoEntry, At, Goto, IInv, Protocols, Stages, Creating, Final
<1>2. cd = NewCd(SectorsIn(image)) /\ todo \subseteq MenuPlaces
  BY <1>1 DEF CdInv, Early
<1>3. cd.how = "none"
  BY <1>2 DEF NewCd
<1>4. SUFFICES /\ cd'.last \in Nat /\ SectorsIn(image) <= cd'.last + 1
               /\ HasBundle' /\ MenuInv' /\ EntryInv'
  BY <1>1, <1>2, SameImage DEF CdInv, Early
<1>5. CASE Inject
  <2>. DEFINE c == [WithBundle(cd) EXCEPT
                      !.how = "injected", !.rootSlots = Walked + 1,
                      !.entry = [lba |-> LastRootLba, slot |-> Len(RecordsAt(image, LastRootLba)) + 1]]
  <2>1. cd' = c /\ HasRoom
    BY <1>5 DEF Inject
  <2>2. /\ c.bundle = WithBundle(cd).bundle /\ c.last = WithBundle(cd).last
        /\ c.menu = cd.menu /\ c.menuEntry = cd.menuEntry
        /\ c.how = "injected" /\ c.rootSlots = Walked + 1
        /\ c.entry = [lba |-> LastRootLba, slot |-> Len(RecordsAt(image, LastRootLba)) + 1]
    BY <1>2 DEF WithBundle, NewCd
  <2>. HIDE DEF c
  <2>3. /\ cd'.last \in Nat /\ SectorsIn(image) <= cd'.last + 1
        /\ HasBundle' /\ MenuInv'
    BY <1>1, <1>2, <2>1, <2>2, BundleAdded
  <2>4. EntryInv'
    BY <1>1, <2>1, <2>2, <2>3, SameImage DEF EntryInv
  <2>. QED BY <2>3, <2>4
<1>6. CASE Rename
  <2>1. PICK p \in Spares : cd' = [WithBundle(cd) EXCEPT !.how = "renamed", !.entry = p]
    BY <1>6 DEF Rename
  <2>. DEFINE c == [WithBundle(cd) EXCEPT !.how = "renamed", !.entry = p]
  <2>2. /\ c.bundle = WithBundle(cd).bundle /\ c.last = WithBundle(cd).last
        /\ c.menu = cd.menu /\ c.menuEntry = cd.menuEntry
        /\ c.how = "renamed" /\ c.entry = p
    BY <1>2 DEF WithBundle, NewCd
  <2>3. cd' = c
    BY <2>1
  <2>. HIDE DEF c
  <2>4. /\ cd'.last \in Nat /\ SectorsIn(image) <= cd'.last + 1
        /\ HasBundle' /\ MenuInv'
    BY <1>1, <1>2, <2>2, <2>3, BundleAdded
  <2>5. EntryInv'
    BY <1>1, <2>2, <2>3, <2>4, SameImage DEF EntryInv
  <2>. QED BY <2>4, <2>5
<1>7. CASE NoEntry
  <2>. DEFINE c == WithBundle(cd)
  <2>1. cd' = c
    BY <1>7 DEF NoEntry
  <2>2. /\ c.menu = cd.menu /\ c.menuEntry = cd.menuEntry /\ c.how = "none"
    BY <1>2, <1>3 DEF WithBundle, NewCd
  <2>3. c.bundle = WithBundle(cd).bundle /\ c.last = WithBundle(cd).last
    OBVIOUS
  <2>. HIDE DEF c
  <2>4. /\ cd'.last \in Nat /\ SectorsIn(image) <= cd'.last + 1
        /\ HasBundle' /\ MenuInv'
    BY <1>1, <1>2, <2>1, <2>2, <2>3, BundleAdded
  <2>5. EntryInv'
    BY <2>1, <2>2, <2>4 DEF EntryInv
  <2>. QED BY <2>4, <2>5
<1>. QED BY <1>5, <1>6, <1>7

\* try_patch_candidate: the menu is added behind everything that is there.
LEMMA AppendStep ==
  ASSUME IInv, CdInv, image \in Images, AppendMenu
  PROVE  CdInv'
<1>1. SUFFICES ASSUME image.valid PROVE CdInv'
  BY DEF CdInv, AppendMenu, At
<1>2. /\ pc = "append" /\ pc' = "menu" /\ image' = image /\ todo' = {}
      /\ "cd" \in published
  BY DEF AppendMenu, At, Goto, IInv, Protocols, Stages, Creating, Final
<1>3. menu \in MenuPlaces /\ cd.last \in Nat /\ SectorsIn(image) <= cd.last + 1
  BY <1>1, <1>2 DEF CdInv
<1>4. RecordOf(menu).sectors \in Nat \ {0}
  <2>1. menu.lba \in DirSectors(image) /\ menu.slot \in DOMAIN RecordsAt(image, menu.lba)
    BY <1>3 DEF MenuPlaces, Places, IsRecord
  <2>2. RecordsAt(image, menu.lba) \in Seq(RecordType)
    BY <1>1, <2>1, RecordFacts
  <2>3. RecordOf(menu) \in RecordType
    BY <2>1, <2>2 DEF RecordOf
  <2>. QED BY <2>3 DEF RecordType
<1>5. PICK n \in Nat \ {0} :
        cd' = [cd EXCEPT !.menu = [first |-> cd.last + 1, sectors |-> n], !.menuEntry = menu,
                         !.last = cd.last + n]
  <2>1. PICK more \in 0 .. 1 :
          cd' = [cd EXCEPT !.menu = [first |-> cd.last + 1,
                                     sectors |-> RecordOf(menu).sectors + more],
                           !.menuEntry = menu,
                           !.last = cd.last + (RecordOf(menu).sectors + more)]
    BY DEF AppendMenu
  <2>2. RecordOf(menu).sectors + more \in Nat \ {0}
    BY <1>4
  <2>. QED BY <2>1, <2>2
<1>6. /\ cd'.menu = [first |-> cd.last + 1, sectors |-> n] /\ cd'.menuEntry = menu
      /\ cd'.last = cd.last + n /\ cd'.bundle = cd.bundle /\ cd'.how = cd.how
      /\ cd'.entry = cd.entry /\ cd'.rootSlots = cd.rootSlots
  BY <1>5 DEF IInv, Shape
<1>7. cd'.last \in Nat /\ SectorsIn(image) <= cd'.last + 1
  BY <1>3, <1>6, ImageFacts, <1>1
<1>8. cd.bundle = NoArea \/ HasBundle
  BY <1>1, <1>2 DEF CdInv
<1>9. HasBundle => HasBundle'
  BY <1>2, <1>3, <1>6, <1>7 DEF HasBundle, Added
<1>10. MenuInv'
  <2>1. Added(cd.menu)'
    BY <1>1, <1>2, <1>3, <1>6, <1>7, ImageFacts DEF Added
  <2>2. cd.bundle = NoArea \/ cd.bundle.first + cd.bundle.sectors <= cd.last + 1
    BY <1>8 DEF HasBundle, Added
  <2>. QED
    BY <1>2, <1>3, <1>6, <2>1, <2>2, SameImage DEF MenuInv
<1>11. EntryInv'
  BY <1>1, <1>2, <1>6, <1>9, SameImage DEF EntryInv, CdInv
<1>. QED
  BY <1>2, <1>6, <1>7, <1>8, <1>9, <1>10, <1>11 DEF CdInv, Early

LEMMA CdStep ==
  ASSUME IInv, CdInv, image \in Images, [Next]_vars
  PROVE  CdInv'
<1>1. CASE CreateCd
  <2>1. /\ pc' = "publish" /\ cd' = NewCd(SectorsIn(image)) /\ image' = image
        /\ todo' = todo
    BY <1>1 DEF CreateCd, At, Goto
  <2>2. SUFFICES ASSUME image.valid PROVE CdInv'
    BY <2>1 DEF CdInv
  <2>3. /\ cd'.last = SectorsIn(image) - 1 /\ cd'.bundle = NoArea /\ cd'.menu = NoArea
        /\ cd'.menuEntry = Nowhere /\ cd'.how = "none"
    BY <2>1 DEF NewCd
  <2>4. MenuInv' /\ EntryInv'
    BY <2>3 DEF MenuInv, EntryInv
  <2>. QED
    BY <2>1, <2>2, <2>3, <2>4, ImageFacts, SameImage DEF CdInv
<1>2. CASE Inject \/ Rename \/ NoEntry
  BY <1>2, ExposeStep
<1>3. CASE AppendMenu
  BY <1>3, AppendStep
<1>4. CASE CollectMenus
  <2>1. image.valid => todo' \subseteq MenuPlaces
    BY <1>4, CandidatesAreMenus DEF CollectMenus
  <2>. QED
    BY <1>4, <2>1, CdKept DEF CollectMenus, At, Goto, Early
<1>5. CASE ReadMenu
  <2>1. menu' \in todo /\ todo' \subseteq todo
    BY <1>5 DEF ReadMenu, TryNext
  <2>2. image.valid => menu' \in MenuPlaces /\ todo' \subseteq MenuPlaces
    BY <2>1 DEF CdInv
  <2>. QED
    BY <1>5, <2>2, CdKept DEF ReadMenu, At, Goto, Early
<1>6. CASE SkipMenu
  <2>1. todo' \subseteq todo
    BY <1>6 DEF SkipMenu, TryNext
  <2>2. image.valid => todo' \subseteq MenuPlaces
    BY <2>1 DEF CdInv
  <2>. QED
    BY <1>6, <2>2, CdKept DEF SkipMenu, At, Early
<1>7. CASE RewriteMenu
  BY <1>7, CdKept DEF RewriteMenu, At, Goto, Early, CdInv
<1>8. CASE \/ CreatePath \/ PublishCd \/ CreateFails \/ PublishPath \/ PublishFs \/ NoFs
           \/ ScanIso \/ BuildBundle \/ NoBundle \/ NoDescriptor
  <2>1. /\ UNCHANGED <<image, cd, todo>>
        /\ pc' \in Early => pc \in Early
        /\ pc' \notin {"rewrite", "append"}
    BY <1>8 DEF CreatePath, PublishCd, CreateFails, PublishPath, PublishFs, NoFs, ScanIso,
                BuildBundle, NoBundle, NoDescriptor, At, Goto, Early
  <2>2. pc' = "publish" \/ "cd" \in published' => pc = "publish" \/ "cd" \in published
    BY <1>8 DEF CreatePath, PublishCd, CreateFails, PublishPath, PublishFs, NoFs, ScanIso,
                BuildBundle, NoBundle, NoDescriptor, At, Goto
  <2>. QED
    BY <2>1, <2>2, CdKept DEF CdInv
<1>9. CASE \/ LeaveMenu \/ AppendFails \/ SyncPath \/ ReadLoader \/ NoLoader \/ LoadImage
           \/ LoadRefused \/ LoadFails \/ StartImage \/ StartAgain \/ Return
  <2>1. /\ UNCHANGED <<image, cd, todo, published>>
        /\ pc' \notin Early /\ pc' \notin {"rewrite", "append"}
    BY <1>9 DEF LeaveMenu, AppendFails, SyncPath, ReadLoader, NoLoader, LoadImage, LoadRefused,
                LoadFails, StartImage, StartAgain, Return, At, Goto, Early
  <2>. QED
    BY <2>1, CdKept DEF CdInv, Early
<1>10. CASE UNCHANGED vars
  BY <1>10, CdKept DEF vars, CdInv
<1>. QED
  BY <1>1, <1>2, <1>3, <1>4, <1>5, <1>6, <1>7, <1>8, <1>9, <1>10 DEF Next

-----------------------------------------------------------------------------
\* A CD-ROM with an image on it, in a state the invariant allows.
OnCd == /\ image \in Images /\ image.valid
        /\ cd.last \in Nat /\ SectorsIn(image) <= cd.last + 1
        /\ cd.bundle = NoArea \/ HasBundle
        /\ MenuInv /\ EntryInv

\* The last sector of the root directory has the place where a record is added.
LEMMA Places2 ==
  ASSUME OnCd
  PROVE  /\ cd.how = "injected" => /\ cd.entry.lba = LastRootLba
                                   /\ cd.entry.slot = Len(RecordsAt(image, LastRootLba)) + 1
         /\ cd.how = "renamed" => /\ cd.entry.lba \in RootSectors(image)
                                  /\ cd.entry.slot \in DOMAIN RecordsAt(image, cd.entry.lba)
                                  /\ cd.entry = [lba |-> cd.entry.lba, slot |-> cd.entry.slot]
         /\ cd.menuEntry.lba # 0 =>
              /\ cd.menuEntry \in MenuPlaces /\ Added(cd.menu)
              /\ cd.menuEntry.lba \in DirSectors(image)
              /\ cd.menuEntry.slot \in DOMAIN RecordsAt(image, cd.menuEntry.lba)
              /\ cd.menuEntry = [lba |-> cd.menuEntry.lba, slot |-> cd.menuEntry.slot]
<1>1. cd.how = "injected" => /\ cd.entry.lba = LastRootLba
                            /\ cd.entry.slot = Len(RecordsAt(image, LastRootLba)) + 1
  BY DEF OnCd, EntryInv
<1>2. ASSUME cd.how = "renamed"
      PROVE  /\ cd.entry.lba \in RootSectors(image)
             /\ cd.entry.slot \in DOMAIN RecordsAt(image, cd.entry.lba)
             /\ cd.entry = [lba |-> cd.entry.lba, slot |-> cd.entry.slot]
  <2>1. cd.entry \in Places(RootSectors(image)) /\ IsRecord(cd.entry)
    BY <1>2 DEF OnCd, EntryInv, Spares
  <2>. QED BY <2>1 DEF Places, IsRecord
<1>3. ASSUME cd.menuEntry.lba # 0
      PROVE  /\ cd.menuEntry \in MenuPlaces /\ Added(cd.menu)
             /\ cd.menuEntry.lba \in DirSectors(image)
             /\ cd.menuEntry.slot \in DOMAIN RecordsAt(image, cd.menuEntry.lba)
             /\ cd.menuEntry = [lba |-> cd.menuEntry.lba, slot |-> cd.menuEntry.slot]
  <2>1. cd.menuEntry \in MenuPlaces /\ Added(cd.menu)
    BY <1>3 DEF OnCd, MenuInv, Nowhere
  <2>2. cd.menuEntry \in Places(DirSectors(image)) /\ IsRecord(cd.menuEntry)
    BY <2>1 DEF MenuPlaces
  <2>. QED BY <2>1, <2>2 DEF Places, IsRecord
<1>. QED BY <1>1, <1>2, <1>3

\* Nothing that is added covers a sector of the image.
LEMMA ImageSector ==
  ASSUME OnCd, NEW lba \in Nat, lba < SectorsIn(image)
  PROVE  ~Serves(cd.bundle, lba) /\ ~Serves(cd.menu, lba)
<1>1. \A area : area = NoArea \/ Added(area) => ~Serves(area, lba)
  BY ImageFacts DEF OnCd, Added, Serves, NoArea
<1>. QED
  BY <1>1 DEF OnCd, HasBundle, MenuInv

LEMMA ReadPvd ==
  ASSUME OnCd
  PROVE  Sector(PvdLba) = Descriptor
<1>1. PvdLba \notin DirSectors(image) /\ PvdLba \in Nat /\ PvdLba < SectorsIn(image)
  BY ImageFacts DEF OnCd, PvdLba
<1>. QED
  BY <1>1, ImageSector DEF Sector, OnCd

LEMMA DirectoryRead ==
  ASSUME OnCd, NEW lba \in DirSectors(image)
  PROVE  Sector(lba).records = WithPremount(WithMenu(RecordsAt(image, lba), lba), lba)
<1>1. /\ image.valid /\ lba \in Nat /\ lba < SectorsIn(image) /\ lba # PvdLba
  BY ImageFacts DEF OnCd, PvdLba
<1>2. CASE Patched(lba)
  BY <1>1, <1>2 DEF Sector
<1>3. CASE ~Patched(lba)
  <2>1. Sector(lba).records = RecordsAt(image, lba)
    BY <1>1, <1>3, ImageSector DEF Sector, RealSector
  <2>2. WithMenu(RecordsAt(image, lba), lba) = RecordsAt(image, lba)
    BY <1>3 DEF Patched, WithMenu
  <2>3. WithPremount(RecordsAt(image, lba), lba) = RecordsAt(image, lba)
    BY <1>3 DEF Patched, WithPremount
  <2>. QED BY <2>1, <2>2, <2>3
<1>. QED BY <1>2, <1>3

\* The record of the menu that was rewritten points at the new text.
NewMenuRecord(r) == [r EXCEPT !.first = cd.menu.first, !.sectors = cd.menu.sectors]

LEMMA MenuWritten ==
  ASSUME OnCd, NEW lba \in DirSectors(image)
  PROVE  LET rs == RecordsAt(image, lba)
             ms == WithMenu(rs, lba)
         IN  /\ ms \in Seq(RecordType) /\ Len(ms) = Len(rs) /\ DOMAIN ms = 1 .. Len(rs)
             /\ \A k \in 1 .. Len(rs) :
                  ms[k] = IF cd.menuEntry = [lba |-> lba, slot |-> k] THEN NewMenuRecord(rs[k])
                          ELSE rs[k]
<1>. DEFINE rs == RecordsAt(image, lba)
            ms == WithMenu(rs, lba)
            e == cd.menuEntry
<1>1. rs \in Seq(RecordType) /\ DOMAIN rs = 1 .. Len(rs) /\ Len(rs) \in Nat
  BY RecordFacts DEF OnCd
<1>2. CASE e.lba # lba
  <2>1. ms = rs
    BY <1>2 DEF WithMenu
  <2>. QED BY <1>1, <1>2, <2>1
<1>3. CASE e.lba = lba
  <2>1. lba # 0
    BY ImageFacts DEF OnCd
  <2>2. e.slot \in 1 .. Len(rs) /\ e = [lba |-> lba, slot |-> e.slot] /\ Added(cd.menu)
    BY <1>1, <1>3, <2>1, Places2
  <2>3. ms = [rs EXCEPT ![e.slot].first = cd.menu.first, ![e.slot].sectors = cd.menu.sectors]
    BY <1>3 DEF WithMenu
  <2>4. rs[e.slot] \in RecordType
    BY <1>1, <2>2
  <2>5. \A k \in 1 .. Len(rs) : ms[k] = IF k = e.slot THEN NewMenuRecord(rs[k]) ELSE rs[k]
    BY <1>1, <2>2, <2>3, <2>4 DEF NewMenuRecord, RecordType
  <2>6. DOMAIN ms = 1 .. Len(rs)
    BY <1>1, <2>3
  <2>7. \A k \in 1 .. Len(rs) : e = [lba |-> lba, slot |-> k] <=> k = e.slot
    BY <2>2
  <2>8. /\ cd.menu.first \in Nat /\ cd.menu.sectors \in Nat \ {0}
    BY <2>2 DEF Added
  <2>9. ms \in Seq(RecordType) /\ Len(ms) = Len(rs)
    <3>1. NewMenuRecord(rs[e.slot]) \in RecordType
      BY <2>4, <2>8 DEF NewMenuRecord, RecordType
    <3>2. \A k \in 1 .. Len(rs) : ms[k] \in RecordType
      BY <1>1, <2>5, <3>1
    <3>3. ms \in [1 .. Len(rs) -> RecordType]
      BY <1>1, <2>3, <2>6, <3>2
    <3>. QED BY <1>1, <3>3
  <2>10. \A k \in 1 .. Len(rs) :
           ms[k] = IF e = [lba |-> lba, slot |-> k] THEN NewMenuRecord(rs[k]) ELSE rs[k]
    BY <2>5, <2>7
  <2>. HIDE DEF rs, ms
  <2>. QED
    BY <1>1, <2>6, <2>9, <2>10 DEF rs, ms
<1>. QED BY <1>2, <1>3

\* The records a directory of the CD-ROM has, one by one.
Here(lba) == cd.how # "none" /\ cd.entry.lba = lba
RecordsThere(lba) == Len(RecordsAt(image, lba)) + (IF cd.how = "injected" /\ lba = LastRootLba
                                                   THEN 1 ELSE 0)

LEMMA DirRecords ==
  ASSUME OnCd, NEW lba \in DirSectors(image)
  PROVE  /\ DOMAIN Sector(lba).records = 1 .. RecordsThere(lba)
         /\ Here(lba) => cd.entry.slot \in 1 .. RecordsThere(lba)
         /\ \A k \in 1 .. RecordsThere(lba) :
              LET r == Sector(lba).records[k]
                  p == [lba |-> lba, slot |-> k]
              IN  IF Here(lba) /\ k = cd.entry.slot THEN p = cd.entry /\ r = PremountRecord
                  ELSE /\ k \in DOMAIN RecordsAt(image, lba) /\ (cd.how # "none" => p # cd.entry)
                       /\ r = IF p = cd.menuEntry THEN NewMenuRecord(RecordsAt(image, lba)[k])
                              ELSE RecordsAt(image, lba)[k]
<1>. DEFINE rs == RecordsAt(image, lba)
            ms == WithMenu(rs, lba)
            ps == WithPremount(ms, lba)
<1>1. /\ ms \in Seq(RecordType) /\ Len(ms) = Len(rs) /\ DOMAIN ms = 1 .. Len(rs)
      /\ \A k \in 1 .. Len(rs) :
           ms[k] = IF cd.menuEntry = [lba |-> lba, slot |-> k] THEN NewMenuRecord(rs[k])
                   ELSE rs[k]
  BY MenuWritten
<1>2. Sector(lba).records = ps
  BY DirectoryRead
<1>3. /\ DOMAIN rs = 1 .. Len(rs) /\ Len(rs) \in Nat
      /\ cd.how \in {"none", "injected", "renamed"}
  BY RecordFacts DEF OnCd, EntryInv
<1>4. CASE ~Here(lba)
  <2>1. ps = ms
    BY <1>4 DEF Here, WithPremount
  <2>2. RecordsThere(lba) = Len(rs)
    <3>1. ~(cd.how = "injected" /\ lba = LastRootLba)
      BY <1>4, Places2 DEF Here
    <3>2. RecordsThere(lba) = Len(rs) + 0
      BY <3>1 DEF RecordsThere
    <3>. HIDE DEF rs
    <3>. QED BY <1>3, <3>2
  <2>3. cd.how # "none" => \A k : [lba |-> lba, slot |-> k] # cd.entry
    BY <1>4 DEF Here
  <2>. HIDE DEF rs, ms, ps
  <2>. QED
    BY <1>1, <1>2, <1>3, <1>4, <2>1, <2>2, <2>3 DEF rs, ms, ps
<1>5. CASE cd.how = "injected" /\ cd.entry.lba = lba
  <2>1. lba = LastRootLba /\ cd.entry = [lba |-> lba, slot |-> Len(rs) + 1]
    BY <1>5 DEF OnCd, EntryInv
  <2>2. RecordsThere(lba) = Len(rs) + 1 /\ Here(lba) /\ cd.entry.slot = Len(rs) + 1
    BY <1>5, <2>1 DEF RecordsThere, Here
  <2>3. ps = Append(SubSeq(ms, 1, Len(rs)), PremountRecord)
    BY <1>3, <1>5, <2>2 DEF WithPremount
  <2>4. SubSeq(ms, 1, Len(rs)) = ms
    BY <1>1, <1>3
  <2>5. ps = Append(ms, PremountRecord)
    BY <2>3, <2>4
  <2>. HIDE DEF rs, ms, ps
  <2>6. /\ DOMAIN ps = 1 .. Len(rs) + 1 /\ ps[Len(rs) + 1] = PremountRecord
        /\ \A k \in 1 .. Len(rs) : ps[k] = ms[k]
    BY <1>1, <1>3, <2>5
  <2>7. \A k \in 1 .. Len(rs) + 1 : k = Len(rs) + 1 \/ k \in 1 .. Len(rs)
    BY <1>3
  <2>. QED
    BY <1>1, <1>2, <1>3, <2>1, <2>2, <2>6, <2>7 DEF rs, ms, ps
<1>6. CASE cd.how = "renamed" /\ cd.entry.lba = lba
  <2>1. /\ cd.entry.slot \in 1 .. Len(rs) /\ Here(lba)
        /\ cd.entry = [lba |-> lba, slot |-> cd.entry.slot]
    BY <1>3, <1>6, Places2 DEF Here
  <2>2. RecordsThere(lba) = Len(rs)
    BY <1>3, <1>6 DEF RecordsThere
  <2>3. ps = [ms EXCEPT ![cd.entry.slot] = PremountRecord]
    BY <1>6 DEF WithPremount
  <2>. HIDE DEF rs, ms, ps
  <2>4. /\ DOMAIN ps = 1 .. Len(rs)
        /\ \A k \in 1 .. Len(rs) : ps[k] = IF k = cd.entry.slot THEN PremountRecord ELSE ms[k]
    BY <1>1, <2>3
  <2>5. \A k : [lba |-> lba, slot |-> k] = cd.entry <=> k = cd.entry.slot
    BY <2>1
  <2>. QED
    BY <1>1, <1>2, <1>3, <2>1, <2>2, <2>4, <2>5 DEF rs, ms, ps
<1>. QED
  BY <1>3, <1>4, <1>5, <1>6 DEF Here

\* The size of the root directory covers all of its records, the new one too.
LEMMA AllVisible ==
  ASSUME OnCd, NEW lba \in DirSectors(image)
  PROVE  Visible(lba) = 1 .. RecordsThere(lba)
<1>1. SUFFICES /\ RecordsThere(lba) <= SizeOf(lba) /\ SizeOf(lba) \in Nat
               /\ RecordsThere(lba) \in Nat
  BY DirRecords DEF Visible
<1>2. /\ Len(RecordsAt(image, lba)) \in 1 .. Slots /\ Slots \in Nat \ {0}
      /\ RecordsThere(lba) \in Nat
  BY RecordFacts, ImageFacts DEF OnCd, RecordsThere
<1>3. CASE lba = BootLba(image)
  <2>1. RecordsThere(lba) = Len(RecordsAt(image, lba))
    BY <1>2, <1>3, ImageFacts DEF OnCd, RecordsThere
  <2>. QED
    BY <1>2, <1>3, <2>1 DEF SizeOf
<1>4. CASE lba # BootLba(image)
  <2>. DEFINE n == Len(image.root)
              i == lba - RootLba
  <2>1. /\ n \in Nat \ {0} /\ i \in 0 .. n - 1 /\ LastRootLba = n + 1
        /\ lba = LastRootLba <=> i = n - 1
    <3>1. /\ n \in Nat \ {0} /\ BootLba(image) = 2 + n /\ LastRootLba + 1 = BootLba(image)
          /\ LastRootLba \in Nat /\ lba \in 2 .. BootLba(image) /\ i = lba - 2
      BY ImageFacts DEF OnCd, RootLba
    <3>. HIDE DEF n, i
    <3>. QED BY <1>4, <3>1
  <2>2. SizeOf(lba) = Descriptor.rootSlots - i * Slots
    BY <1>4, ReadPvd DEF SizeOf
  <2>3. RealSector(PvdLba).rootSlots = n * Slots
    <3>1. PvdLba \notin DirSectors(image)
      BY ImageFacts DEF OnCd, PvdLba
    <3>. QED BY <3>1 DEF RealSector, OnCd
  <2>4. i < n - 1 => (n - 1) * Slots - i * Slots >= Slots
    <3>1. SUFFICES ASSUME i < n - 1 PROVE (n - 1) * Slots - i * Slots >= Slots
      OBVIOUS
    <3>2. (n - 1) * Slots - i * Slots = (n - 1 - i) * Slots
      BY <1>2, <2>1
    <3>. DEFINE d == n - 2 - i
    <3>3. d \in Nat /\ n - 1 - i = d + 1
      <4>. HIDE DEF n, i
      <4>. QED BY <2>1, <3>1
    <3>. HIDE DEF d
    <3>4. (d + 1) * Slots = d * Slots + Slots /\ d * Slots \in Nat
      BY <1>2, <3>3
    <3>. HIDE DEF n, i
    <3>. QED BY <3>2, <3>3, <3>4, <1>2
  <2>5. n * Slots = (n - 1) * Slots + Slots /\ (n - 1) * Slots \in Nat /\ i * Slots \in Nat
    BY <1>2, <2>1
  <2>. HIDE DEF n, i
  <2>6. CASE cd.how = "injected"
    <3>1. /\ SizeOf(lba) = (Walked + 1) - i * Slots
          /\ Walked = (n - 1) * Slots + Len(RecordsAt(image, LastRootLba))
      <4>1. cd.rootSlots = Walked + 1
        BY <2>6 DEF OnCd, EntryInv
      <4>2. Descriptor.rootSlots = cd.rootSlots
        BY <2>6 DEF Descriptor
      <4>3. Walked = (n - 1) * Slots + Len(RecordsAt(image, LastRootLba))
        BY DEF Walked, n
      <4>4. SizeOf(lba) = cd.rootSlots - i * Slots
        BY <2>2, <4>2 DEF i
      <4>5. SizeOf(lba) = (Walked + 1) - i * Slots
        BY <4>1, <4>4
      <4>. QED BY <4>3, <4>5
    <3>2. Len(RecordsAt(image, LastRootLba)) \in 1 .. Slots
      BY ImageFacts, RecordFacts, LastRootLba \in DirSectors(image) DEF OnCd
    <3>3. CASE lba = LastRootLba
      <4>1. RecordsThere(lba) = Len(RecordsAt(image, LastRootLba)) + 1
        BY <2>6, <3>3 DEF RecordsThere
      <4>2. i * Slots = (n - 1) * Slots
        BY <2>1, <3>3
      <4>3. SizeOf(lba) = Len(RecordsAt(image, LastRootLba)) + 1
        BY <3>1, <3>2, <4>2, <2>5
      <4>. QED BY <4>1, <4>3, <3>2, <1>2
    <3>4. CASE lba # LastRootLba
      <4>1. RecordsThere(lba) = Len(RecordsAt(image, lba))
        BY <1>2, <3>4 DEF RecordsThere
      <4>2. i < n - 1
        BY <2>1, <3>4
      <4>. QED BY <1>2, <2>4, <2>5, <3>1, <3>2, <4>1, <4>2
    <3>. QED BY <3>3, <3>4
  <2>7. CASE cd.how # "injected"
    <3>1. SizeOf(lba) = n * Slots - i * Slots
      BY <2>2, <2>3, <2>7 DEF Descriptor
    <3>2. RecordsThere(lba) = Len(RecordsAt(image, lba))
      BY <1>2, <2>7 DEF RecordsThere
    <3>3. i < n - 1 \/ i * Slots = (n - 1) * Slots
      BY <2>1
    <3>. QED BY <1>2, <2>4, <2>5, <3>1, <3>2, <3>3
  <2>. QED BY <2>6, <2>7
<1>. QED BY <1>3, <1>4

\* What the sectors of the image, of the archive and of the menu hold.
LEMMA DataRead ==
  ASSUME OnCd, NEW lba \in Nat, BootLba(image) < lba, lba < SectorsIn(image)
  PROVE  Sector(lba) = [what |-> "data", lba |-> lba]
<1>1. lba \notin DirSectors(image) /\ lba # PvdLba
  BY ImageFacts DEF OnCd, PvdLba
<1>. QED
  BY <1>1, ImageSector DEF Sector, RealSector

LEMMA BundleRead ==
  ASSUME OnCd, HasBundle, NEW i \in 1 .. BundleSectors
  PROVE  Sector(cd.bundle.first + i - 1) = [what |-> "bundle", at |-> i - 1]
<1>. DEFINE lba == cd.bundle.first + i - 1
<1>1. /\ cd.bundle.first \in Nat /\ SectorsIn(image) <= cd.bundle.first
      /\ cd.bundle.sectors = BundleSectors /\ BundleSectors \in Nat
  BY ImageFacts DEF OnCd, HasBundle, Added
<1>2. Serves(cd.bundle, lba) /\ lba - cd.bundle.first = i - 1 /\ lba \notin DirSectors(image)
  BY <1>1, ImageFacts DEF OnCd, Serves
<1>. HIDE DEF lba
<1>3. Sector(lba) = [what |-> "bundle", at |-> lba - cd.bundle.first]
  BY <1>2 DEF Sector
<1>. QED
  BY <1>2, <1>3 DEF lba

LEMMA MenuRead ==
  ASSUME OnCd, cd.menuEntry.lba # 0, NEW i \in 1 .. cd.menu.sectors
  PROVE  Sector(cd.menu.first + i - 1) = [what |-> "menu", at |-> i - 1]
<1>. DEFINE lba == cd.menu.first + i - 1
<1>1. Added(cd.menu)
  BY Places2
<1>2. cd.bundle = NoArea \/ (Added(cd.bundle)
                             /\ cd.bundle.first + cd.bundle.sectors <= cd.menu.first)
  BY DEF OnCd, MenuInv, HasBundle, Nowhere
<1>3. Serves(cd.menu, lba) /\ lba - cd.menu.first = i - 1 /\ lba \notin DirSectors(image)
  <2>1. /\ cd.menu.first \in Nat /\ SectorsIn(image) <= cd.menu.first
        /\ cd.menu.sectors \in Nat
    BY <1>1 DEF Added
  <2>2. /\ DirSectors(image) = 2 .. BootLba(image) /\ BootLba(image) < SectorsIn(image)
        /\ BootLba(image) \in Nat /\ SectorsIn(image) \in Nat
    BY ImageFacts DEF OnCd
  <2>3. i \in Nat /\ 1 <= i /\ i <= cd.menu.sectors
    BY <2>1
  <2>. QED
    BY <2>1, <2>2, <2>3 DEF Serves
<1>4. ~Serves(cd.bundle, lba)
  BY <1>1, <1>2 DEF Serves, Added, NoArea
<1>. HIDE DEF lba
<1>5. Sector(lba) = [what |-> "menu", at |-> lba - cd.menu.first]
  BY <1>3, <1>4 DEF Sector
<1>. QED
  BY <1>3, <1>5 DEF lba

\* A record that was not touched has the contents it had.
LEMMA OldContents ==
  ASSUME OnCd, NEW lba \in DirSectors(image), NEW k \in DOMAIN RecordsAt(image, lba)
  PROVE  LET r == RecordsAt(image, lba)[k]
         IN  Contents(r) = Original(r) /\ r.first + r.sectors <= cd.last + 1
<1>. DEFINE r == RecordsAt(image, lba)[k]
<1>1. /\ r \in RecordType /\ r.first + r.sectors <= SectorsIn(image)
      /\ r.class # "dir" => r.first > BootLba(image)
  BY RecordFacts DEF OnCd
<1>2. /\ r.first \in Nat /\ r.sectors \in Nat \ {0}
      /\ SectorsIn(image) \in Nat /\ BootLba(image) \in Nat /\ cd.last \in Nat
      /\ SectorsIn(image) <= cd.last + 1
  BY <1>1, ImageFacts DEF OnCd, RecordType
<1>. HIDE DEF r
<1>3. ASSUME r.class # "dir", NEW i \in 1 .. r.sectors
      PROVE  Sector(r.first + i - 1) = [what |-> "data", lba |-> r.first + i - 1]
  <2>1. /\ r.first + i - 1 \in Nat /\ BootLba(image) < r.first + i - 1
        /\ r.first + i - 1 < SectorsIn(image)
    BY <1>1, <1>2, <1>3
  <2>. QED BY <2>1, DataRead
<1>4. Contents(r) = Original(r)
  BY <1>3 DEF Contents, Original
<1>5. r.first + r.sectors <= cd.last + 1
  BY <1>1, <1>2
<1>. QED BY <1>4, <1>5 DEF r

LEMMA RecordHolds ==
  ASSUME OnCd, NEW lba \in DirSectors(image), NEW k \in 1 .. RecordsThere(lba)
  PROVE  LET r == Sector(lba).records[k]
         IN  Holds([lba |-> lba, slot |-> k], r) /\ r.first + r.sectors <= cd.last + 1
<1>. DEFINE r == Sector(lba).records[k]
            p == [lba |-> lba, slot |-> k]
            old == RecordsAt(image, lba)[k]
<1>1. CASE Here(lba) /\ k = cd.entry.slot
  <2>1. p = cd.entry /\ r = PremountRecord /\ HasBundle /\ cd.how # "none"
    BY <1>1, DirRecords DEF Here, OnCd, EntryInv
  <2>2. /\ r.name = "PREMOUNT" /\ r.class = "vital" /\ r.first = cd.bundle.first
        /\ r.sectors = BundleSectors
    BY <2>1 DEF PremountRecord, HasBundle
  <2>. HIDE DEF r, p
  <2>3. Contents(r) = Whole("bundle", BundleSectors)
    BY <2>1, <2>2, BundleRead DEF Contents, Whole
  <2>4. r.first + r.sectors <= cd.last + 1
    BY <2>1, <2>2 DEF HasBundle, Added
  <2>5. Holds(p, r)
    BY <2>1, <2>2, <2>3 DEF Holds
  <2>. QED BY <2>4, <2>5 DEF r, p
<1>2. CASE ~(Here(lba) /\ k = cd.entry.slot)
  <2>1. /\ k \in DOMAIN RecordsAt(image, lba) /\ (cd.how # "none" => p # cd.entry)
        /\ r = IF p = cd.menuEntry THEN NewMenuRecord(old) ELSE old
    BY <1>2, DirRecords
  <2>2. IsRecord(p) /\ RecordOf(p) = old
    BY <2>1 DEF IsRecord, RecordOf
  <2>3. CASE p = cd.menuEntry
    <3>1. /\ cd.menuEntry.lba # 0 /\ cd.menuEntry \in MenuPlaces /\ Added(cd.menu)
      BY <2>3, ImageFacts, Places2 DEF OnCd
    <3>2. old.class # "dir" /\ old \in RecordType
      BY <2>1, <2>2, <2>3, <3>1, RecordFacts DEF MenuPlaces, OnCd
    <3>3. /\ r.name = old.name /\ r.class = old.class /\ r.first = cd.menu.first
          /\ r.sectors = cd.menu.sectors
      BY <2>1, <2>3, <3>2 DEF NewMenuRecord, RecordType
    <3>. HIDE DEF r, p, old
    <3>4. Contents(r) = Whole("menu", cd.menu.sectors)
      BY <3>1, <3>2, <3>3, MenuRead DEF Contents, Whole
    <3>5. r.first + r.sectors <= cd.last + 1
      BY <3>1, <3>3 DEF Added
    <3>6. Holds(p, r)
      BY <2>1, <2>2, <2>3, <3>3, <3>4 DEF Holds
    <3>. QED BY <3>5, <3>6 DEF r, p
  <2>4. CASE p # cd.menuEntry
    <3>1. r = old
      BY <2>1, <2>4
    <3>2. Contents(old) = Original(old) /\ old.first + old.sectors <= cd.last + 1
      BY <2>1, OldContents
    <3>. HIDE DEF r, p, old
    <3>3. Holds(p, r)
      BY <2>1, <2>2, <2>4, <3>1, <3>2 DEF Holds
    <3>. QED BY <3>1, <3>2, <3>3 DEF r, p
  <2>. QED BY <2>3, <2>4
<1>. QED BY <1>1, <1>2

StickInv == image \in Images /\ CdInv

LEMMA StickStep == IInv /\ StickInv /\ [Next]_vars => StickInv'
<1>1. [Next]_vars => image' = image
  BY DEF Next, vars, At, CreatePath, CreateCd, PublishCd, CreateFails, PublishPath,
         PublishFs, NoFs, ScanIso, BuildBundle, NoBundle, Inject, Rename, NoEntry, NoDescriptor,
         CollectMenus, ReadMenu, SkipMenu, RewriteMenu, LeaveMenu, AppendMenu, AppendFails,
         SyncPath, ReadLoader, NoLoader, LoadImage, LoadRefused, LoadFails, StartImage,
         StartAgain, Return
<1>. QED BY <1>1, CdStep DEF StickInv

\* Whatever image is on the stick, however long its root directory, the archive
\* and the menu are, and whatever fails: a reader of the CD-ROM finds every file
\* of the image but one sacrificed and one menu replaced, and the archive.
THEOREM ImageKept == Spec => []ImageIntact
<1>1. Init => StickInv
  BY DEF Init, StickInv, CdInv, Early
<1>2. IInv /\ StickInv /\ [Next]_vars => StickInv'
  BY StickStep
<1>3. StickInv => ImageIntact
  <2>1. SUFFICES ASSUME CdInv, image \in Images, "cd" \in published, image.valid
                 PROVE  ImageIntact
    BY DEF ImageIntact, StickInv
  <2>2. OnCd
    BY <2>1 DEF CdInv, OnCd
  <2>3. Sector(PvdLba).sectors = cd.last + 1
    BY <2>2, ReadPvd DEF Descriptor
  <2>4. ASSUME NEW lba \in DirSectors(image)
        PROVE  /\ DOMAIN RecordsAt(image, lba) \subseteq Visible(lba)
               /\ cd.how # "none" /\ cd.entry.lba = lba => cd.entry.slot \in Visible(lba)
               /\ \A k \in Visible(lba) :
                    LET r == Sector(lba).records[k]
                    IN  /\ Holds([lba |-> lba, slot |-> k], r)
                        /\ r.first + r.sectors <= cd.last + 1
    <3>1. Visible(lba) = 1 .. RecordsThere(lba)
      BY <2>2, AllVisible
    <3>2. DOMAIN RecordsAt(image, lba) \subseteq 1 .. RecordsThere(lba)
      BY <2>1, <2>2, RecordFacts DEF RecordsThere
    <3>3. Here(lba) => cd.entry.slot \in 1 .. RecordsThere(lba)
      BY <2>2, DirRecords
    <3>. QED
      BY <2>2, <3>1, <3>2, <3>3, RecordHolds DEF Here
  <2>. QED
    BY <2>3, <2>4 DEF ImageIntact
<1>. QED
  BY <1>1, <1>2, <1>3, Invariant, PTL DEF Spec

-----------------------------------------------------------------------------
(* The records of a directory, in the order in which the filesystem reads  *)
(* them.                                                                   *)

\* A directory of the CD-ROM as the filesystem reads it.
Dirs == {"root", "boot"}
Readable == OnCd /\ fs.rootSlots = Len(image.root) * Slots

LEMMA DirectoryFacts ==
  ASSUME Readable, NEW d \in Dirs
  PROVE  /\ SectorsOf(d) \in Nat \ {0}
         /\ \A s \in 0 .. SectorsOf(d) - 1 :
              /\ LbaOf(d, s) \in DirSectors(image)
              /\ DOMAIN RecordsOf(d, s) = 1 .. RecordsThere(LbaOf(d, s))
              /\ RecordsThere(LbaOf(d, s)) \in Nat
         /\ \A s \in 0 .. SectorsOf(d) - 1 : \A t \in 0 .. SectorsOf(d) - 1 :
              LbaOf(d, s) = LbaOf(d, t) => s = t
         /\ {LbaOf(d, s) : s \in 0 .. SectorsOf(d) - 1}
              = IF d = "root" THEN RootSectors(image) ELSE {BootLba(image)}
<1>1. /\ Len(image.root) \in Nat \ {0} /\ Slots \in Nat \ {0} /\ BootLba(image) \in Nat
      /\ DirSectors(image) = 2 .. BootLba(image) /\ BootLba(image) = 2 + Len(image.root)
  BY ImageFacts DEF Readable, OnCd
<1>2. SectorsOf(d) = IF d = "root" THEN Len(image.root) ELSE 1
  <2>. DEFINE n == Len(image.root)
              m == n * Slots + (Slots - 1)
  <2>1. n \in Nat /\ Slots \in Nat /\ Slots > 0
    BY <1>1
  <2>. HIDE DEF n
  <2>2. m \div Slots = n
    <3>1. m = Slots * n + (Slots - 1) /\ m \in Nat /\ Slots - 1 \in 0 .. Slots - 1
      BY <2>1
    <3>. DEFINE q == m \div Slots
                r == m % Slots
    <3>2. m = Slots * q + r /\ q \in Int /\ r \in 0 .. Slots - 1
      BY <2>1, <3>1
    <3>. HIDE DEF m, q, r
    <3>3. q = n
      <4>1. Slots * (q - n) = (Slots - 1) - r
        BY <2>1, <3>1, <3>2
      <4>2. ~(q - n >= 1)
        <5>1. q - n >= 1 => Slots * (q - n) >= Slots
          BY <2>1, <3>2
        <5>. QED BY <2>1, <3>2, <4>1, <5>1
      <4>3. ~(q - n <= -1)
        <5>1. q - n <= -1 => Slots * (q - n) <= -Slots
          BY <2>1, <3>2
        <5>. QED BY <2>1, <3>2, <4>1, <5>1
      <4>. QED BY <2>1, <3>2, <4>2, <4>3
    <3>. QED BY <3>3 DEF q
  <2>3. n * Slots + Slots - 1 = m
    BY <2>1
  <2>4. d = "root" => SectorsOf(d) = (n * Slots + Slots - 1) \div Slots
    BY DEF SectorsOf, Readable, n
  <2>5. d # "root" => SectorsOf(d) = 1
    BY DEF SectorsOf
  <2>. QED BY <2>2, <2>3, <2>4, <2>5 DEF n
<1>3. SectorsOf(d) \in Nat \ {0}
  BY <1>1, <1>2
<1>4. ASSUME NEW s \in 0 .. SectorsOf(d) - 1
      PROVE  LbaOf(d, s) \in DirSectors(image)
  BY <1>1, <1>2 DEF LbaOf, RootLba
<1>5. ASSUME NEW s \in 0 .. SectorsOf(d) - 1
      PROVE  /\ DOMAIN RecordsOf(d, s) = 1 .. RecordsThere(LbaOf(d, s))
             /\ RecordsThere(LbaOf(d, s)) \in Nat
  <2>. DEFINE l == LbaOf(d, s)
  <2>1. l \in DirSectors(image)
    BY <1>4
  <2>. HIDE DEF l
  <2>2. DOMAIN Sector(l).records = 1 .. RecordsThere(l)
    BY <2>1, DirRecords DEF Readable
  <2>3. RecordsThere(l) \in Nat
    BY <2>1, RecordFacts DEF Readable, OnCd, RecordsThere
  <2>. QED BY <2>2, <2>3 DEF RecordsOf, l
<1>6. /\ \A s \in 0 .. SectorsOf(d) - 1 : \A t \in 0 .. SectorsOf(d) - 1 :
           LbaOf(d, s) = LbaOf(d, t) => s = t
      /\ {LbaOf(d, s) : s \in 0 .. SectorsOf(d) - 1}
           = IF d = "root" THEN RootSectors(image) ELSE {BootLba(image)}
  <2>. DEFINE n == Len(image.root)
  <2>1. n \in Nat \ {0} /\ RootSectors(image) = 2 .. n + 1
    BY ImageFacts DEF Readable, OnCd
  <2>2. CASE d = "root"
    <3>1. SectorsOf(d) = n /\ \A s : LbaOf(d, s) = 2 + s
      BY <1>2, <2>2 DEF LbaOf, RootLba
    <3>. HIDE DEF n
    <3>2. \A s \in 0 .. n - 1 : \A t \in 0 .. n - 1 : 2 + s = 2 + t => s = t
      BY <2>1
    <3>3. {2 + s : s \in 0 .. n - 1} = 2 .. n + 1
      <4>1. ASSUME NEW x \in 2 .. n + 1 PROVE x \in {2 + s : s \in 0 .. n - 1}
        <5>1. x - 2 \in 0 .. n - 1 /\ x = 2 + (x - 2)
          BY <2>1
        <5>. QED BY <5>1
      <4>2. ASSUME NEW s \in 0 .. n - 1 PROVE 2 + s \in 2 .. n + 1
        BY <2>1
      <4>. QED BY <4>1, <4>2
    <3>4. {LbaOf(d, s) : s \in 0 .. n - 1} = {2 + s : s \in 0 .. n - 1}
      BY <3>1
    <3>5. \A s \in 0 .. n - 1 : \A t \in 0 .. n - 1 : LbaOf(d, s) = LbaOf(d, t) => s = t
      BY <3>1, <3>2
    <3>. QED BY <2>1, <2>2, <3>1, <3>3, <3>4, <3>5
  <2>3. CASE d # "root"
    <3>1. SectorsOf(d) = 1 /\ \A s : LbaOf(d, s) = BootLba(image)
      BY <1>2, <2>3 DEF LbaOf
    <3>2. 0 .. 1 - 1 = {0}
      OBVIOUS
    <3>. QED BY <2>3, <3>1, <3>2
  <2>. QED BY <2>2, <2>3
<1>. QED BY <1>3, <1>4, <1>5, <1>6

\* Its records in order, sector by sector.
PlaceType == [sector : Nat, slot : Nat \ {0}]
PartsOf(d) == [i \in 1 .. SectorsOf(d) |->
                 [k \in DOMAIN RecordsOf(d, i - 1) |-> [sector |-> i - 1, slot |-> k]]]

LEMMA PartFacts ==
  ASSUME Readable, NEW d \in Dirs
  PROVE  /\ PartsOf(d) \in Seq(Seq(PlaceType)) /\ Len(PartsOf(d)) = SectorsOf(d)
         /\ \A i \in 1 .. SectorsOf(d) :
              /\ Len(PartsOf(d)[i]) \in Nat
              /\ DOMAIN RecordsOf(d, i - 1) = 1 .. Len(PartsOf(d)[i])
              /\ \A k \in 1 .. Len(PartsOf(d)[i]) :
                   PartsOf(d)[i][k] = [sector |-> i - 1, slot |-> k]
<1>1. SectorsOf(d) \in Nat
  BY DirectoryFacts
<1>2. ASSUME NEW i \in 1 .. SectorsOf(d)
      PROVE  /\ PartsOf(d)[i] \in Seq(PlaceType)
             /\ Len(PartsOf(d)[i]) \in Nat
             /\ DOMAIN RecordsOf(d, i - 1) = 1 .. Len(PartsOf(d)[i])
             /\ \A k \in 1 .. Len(PartsOf(d)[i]) :
                  PartsOf(d)[i][k] = [sector |-> i - 1, slot |-> k]
  <2>. DEFINE n == RecordsThere(LbaOf(d, i - 1))
              p == [k \in 1 .. n |-> [sector |-> i - 1, slot |-> k]]
  <2>1. i - 1 \in 0 .. SectorsOf(d) - 1 /\ i - 1 \in Nat
    BY <1>1
  <2>2. DOMAIN RecordsOf(d, i - 1) = 1 .. n /\ n \in Nat
    BY <2>1, DirectoryFacts
  <2>3. PartsOf(d)[i] = [k \in DOMAIN RecordsOf(d, i - 1) |-> [sector |-> i - 1, slot |-> k]]
    BY DEF PartsOf
  <2>4. PartsOf(d)[i] = p
    BY <2>2, <2>3
  <2>. HIDE DEF n
  <2>5. /\ p \in Seq(PlaceType) /\ Len(p) = n
        /\ \A k \in 1 .. n : p[k] = [sector |-> i - 1, slot |-> k]
    <3>1. \A k \in 1 .. n : [sector |-> i - 1, slot |-> k] \in PlaceType
      BY <2>1, <2>2 DEF PlaceType
    <3>. QED BY <2>2, <3>1
  <2>. HIDE DEF p
  <2>. QED BY <2>2, <2>4, <2>5
<1>3. PartsOf(d) \in Seq(Seq(PlaceType)) /\ Len(PartsOf(d)) = SectorsOf(d)
  <2>1. DOMAIN PartsOf(d) = 1 .. SectorsOf(d)
    BY DEF PartsOf
  <2>2. PartsOf(d) \in [1 .. SectorsOf(d) -> Seq(PlaceType)]
    <3>1. PartsOf(d) = [i \in 1 .. SectorsOf(d) |-> PartsOf(d)[i]]
      BY DEF PartsOf
    <3>. QED BY <1>2, <3>1
  <2>. QED BY <1>1, <2>2
<1>. QED BY <1>2, <1>3

LEMMA PositionFacts ==
  ASSUME Readable, NEW d \in Dirs
  PROVE  /\ Positions(d) \in Seq(PlaceType) /\ Positions(d) = FlattenSeq(PartsOf(d))
         /\ \A m \in 1 .. Len(Positions(d)) :
              LET p == Positions(d)[m]
              IN  /\ p = [sector |-> p.sector, slot |-> p.slot]
                  /\ p.sector \in 0 .. SectorsOf(d) - 1 /\ p.slot \in DOMAIN RecordsOf(d, p.sector)
                  /\ p.slot \in Nat \ {0}
                  /\ p.slot <= Len(PartsOf(d)[p.sector + 1])
                  /\ m = Ends(PartsOf(d))[p.sector] + p.slot
         /\ \A s \in 0 .. SectorsOf(d) - 1 : \A k \in DOMAIN RecordsOf(d, s) :
              \E m \in 1 .. Len(Positions(d)) : Positions(d)[m] = [sector |-> s, slot |-> k]
<1>. DEFINE ss == PartsOf(d)
<1>1. /\ ss \in Seq(Seq(PlaceType)) /\ Len(ss) = SectorsOf(d) /\ SectorsOf(d) \in Nat
      /\ \A i \in 1 .. Len(ss) :
           /\ Len(ss[i]) \in Nat
           /\ DOMAIN RecordsOf(d, i - 1) = 1 .. Len(ss[i])
           /\ \A k \in 1 .. Len(ss[i]) : ss[i][k] = [sector |-> i - 1, slot |-> k]
  <2>1. /\ ss \in Seq(Seq(PlaceType)) /\ Len(ss) = SectorsOf(d)
        /\ \A i \in 1 .. SectorsOf(d) :
             /\ Len(ss[i]) \in Nat
             /\ DOMAIN RecordsOf(d, i - 1) = 1 .. Len(ss[i])
             /\ \A k \in 1 .. Len(ss[i]) : ss[i][k] = [sector |-> i - 1, slot |-> k]
    BY PartFacts
  <2>2. SectorsOf(d) \in Nat
    BY DirectoryFacts
  <2>. HIDE DEF ss
  <2>. QED BY <2>1, <2>2
<1>2. Positions(d) = FlattenSeq(ss)
  BY DEF Positions, PartsOf
<1>. HIDE DEF ss
<1>3. Positions(d) \in Seq(PlaceType)
  BY <1>1, <1>2, Flattened
<1>4. ASSUME NEW m \in 1 .. Len(Positions(d))
      PROVE  LET p == Positions(d)[m]
             IN  /\ p = [sector |-> p.sector, slot |-> p.slot]
                 /\ p.sector \in 0 .. SectorsOf(d) - 1 /\ p.slot \in DOMAIN RecordsOf(d, p.sector)
                 /\ p.slot \in Nat \ {0}
                 /\ p.slot <= Len(ss[p.sector + 1])
                 /\ m = Ends(ss)[p.sector] + p.slot
  <2>1. PICK i \in 1 .. Len(ss) : \E j \in 1 .. Len(ss[i]) :
               m = Ends(ss)[i - 1] + j /\ FlattenSeq(ss)[m] = ss[i][j]
    BY <1>1, <1>2, PartOf
  <2>2. PICK j \in 1 .. Len(ss[i]) : m = Ends(ss)[i - 1] + j /\ FlattenSeq(ss)[m] = ss[i][j]
    BY <2>1
  <2>3. Positions(d)[m] = [sector |-> i - 1, slot |-> j]
    BY <1>1, <1>2, <2>2
  <2>4. i - 1 \in 0 .. SectorsOf(d) - 1 /\ (i - 1) + 1 = i /\ j \in Nat \ {0} /\ j <= Len(ss[i])
    BY <1>1
  <2>5. j \in DOMAIN RecordsOf(d, i - 1)
    BY <1>1
  <2>. DEFINE p == Positions(d)[m]
  <2>6. p = [sector |-> p.sector, slot |-> p.slot] /\ p.sector = i - 1 /\ p.slot = j
    BY <2>3
  <2>. HIDE DEF p
  <2>. QED BY <2>2, <2>4, <2>5, <2>6 DEF p
<1>5. ASSUME NEW s \in 0 .. SectorsOf(d) - 1, NEW k \in DOMAIN RecordsOf(d, s)
      PROVE  \E m \in 1 .. Len(Positions(d)) : Positions(d)[m] = [sector |-> s, slot |-> k]
  <2>. DEFINE i == s + 1
  <2>1. i \in 1 .. Len(ss) /\ i - 1 = s
    BY <1>1
  <2>. HIDE DEF i
  <2>2. k \in 1 .. Len(ss[i])
    BY <1>1, <2>1
  <2>3. /\ Ends(ss)[i - 1] + k \in 1 .. Len(FlattenSeq(ss))
        /\ FlattenSeq(ss)[Ends(ss)[i - 1] + k] = ss[i][k]
    BY <1>1, <2>1, <2>2, PlaceOfPart
  <2>4. ss[i][k] = [sector |-> s, slot |-> k]
    BY <1>1, <2>1, <2>2
  <2>. QED BY <1>2, <2>3, <2>4
<1>. QED BY <1>2, <1>3, <1>4, <1>5 DEF ss

LEMMA PositionsOrdered ==
  ASSUME Readable, NEW d \in Dirs,
         NEW m \in 1 .. Len(Positions(d)), NEW n \in 1 .. Len(Positions(d)), m < n
  PROVE  LET p == Positions(d)[m]
             q == Positions(d)[n]
         IN  q.sector > p.sector \/ (q.sector = p.sector /\ q.slot > p.slot)
<1>. DEFINE ss == PartsOf(d)
            p == Positions(d)[m]
            q == Positions(d)[n]
            e == Ends(ss)
<1>1. /\ p.sector \in 0 .. SectorsOf(d) - 1 /\ p.slot \in Nat \ {0}
      /\ m = e[p.sector] + p.slot
  BY PositionFacts
<1>2. /\ q.sector \in 0 .. SectorsOf(d) - 1 /\ q.slot \in Nat \ {0}
      /\ q.slot <= Len(ss[q.sector + 1])
      /\ n = e[q.sector] + q.slot
  BY PositionFacts
<1>3. ss \in Seq(Seq(PlaceType)) /\ Len(ss) = SectorsOf(d) /\ SectorsOf(d) \in Nat
  BY PartFacts, DirectoryFacts
<1>. HIDE DEF p, q, ss
<1>4. /\ e \in [0..Len(ss) -> Nat]
      /\ \A i \in 1..Len(ss) : e[i] = e[i - 1] + Len(ss[i])
  BY <1>3, EndsDefined
<1>5. /\ q.sector + 1 \in 1 .. Len(ss) /\ q.sector + 1 \in 0 .. Len(ss)
      /\ (q.sector + 1) - 1 = q.sector /\ p.sector \in 0 .. Len(ss) /\ q.sector \in 0 .. Len(ss)
  <2>. DEFINE a == q.sector
              b == p.sector
              n0 == Len(ss)
  <2>1. n0 \in Nat /\ a \in 0 .. n0 - 1 /\ b \in 0 .. n0 - 1
    BY <1>1, <1>2, <1>3
  <2>. HIDE DEF a, b, n0
  <2>2. /\ a + 1 \in 1 .. n0 /\ a + 1 \in 0 .. n0
        /\ (a + 1) - 1 = a /\ b \in 0 .. n0 /\ a \in 0 .. n0
    BY <2>1
  <2>. QED BY <2>2 DEF a, b, n0
<1>6. /\ e[q.sector + 1] = e[q.sector] + Len(ss[q.sector + 1])
      /\ Len(ss[q.sector + 1]) \in Nat
      /\ e[q.sector] \in Nat /\ e[p.sector] \in Nat /\ e[q.sector + 1] \in Nat
  <2>1. Len(ss[q.sector + 1]) \in Nat
    BY <1>3, <1>5
  <2>. QED BY <1>4, <1>5, <2>1
<1>7. q.sector < p.sector => e[q.sector + 1] <= e[p.sector]
  <2>1. SUFFICES ASSUME q.sector < p.sector PROVE e[q.sector + 1] <= e[p.sector]
    OBVIOUS
  <2>2. p.sector \in q.sector + 1 .. Len(ss)
    BY <1>1, <1>2, <1>3, <2>1
  <2>. HIDE DEF e
  <2>. QED BY <1>3, <1>5, <2>2, EndsGrow DEF e
<1>. HIDE DEF e
<1>8. q.sector > p.sector \/ (q.sector = p.sector /\ q.slot > p.slot)
  <2>1. CASE q.sector < p.sector
    <3>. DEFINE a == e[q.sector]
                l == Len(ss[q.sector + 1])
                b == e[q.sector + 1]
                c == e[p.sector]
                u == q.slot
                v == p.slot
    <3>1. /\ n = a + u /\ u <= l /\ b = a + l /\ m = c + v /\ v \in Nat \ {0} /\ b <= c
          /\ a \in Nat /\ l \in Nat /\ c \in Nat /\ u \in Nat
      BY <1>1, <1>2, <1>6, <1>7, <2>1
    <3>. HIDE DEF a, l, b, c, u, v
    <3>2. n < m
      BY <3>1
    <3>. QED BY <3>2
  <2>2. CASE q.sector = p.sector
    <3>1. m = e[p.sector] + p.slot /\ n = e[p.sector] + q.slot
      BY <1>1, <1>2, <2>2
    <3>. QED BY <1>1, <1>2, <1>6, <2>2, <3>1
  <2>. QED BY <1>1, <1>2, <2>1, <2>2
<1>. QED BY <1>8 DEF p, q

-----------------------------------------------------------------------------
(* Reading a directory piece by piece.                                     *)

LEMMA SameDirectories ==
  ASSUME UNCHANGED <<image, cd, fs>>
  PROVE  /\ \A d : SectorsOf(d)' = SectorsOf(d)
         /\ \A d : Positions(d)' = Positions(d)
         /\ \A d : Names(d)' = Names(d)
         /\ Readable' = Readable
<1>1. \A d : SectorsOf(d)' = SectorsOf(d)
  BY DEF SectorsOf
<1>2. \A lba : Sector(lba)' = Sector(lba)
  BY DEF Sector, Patched, WithPremount, WithMenu, PremountRecord, Descriptor, RealSector, Serves
<1>3. \A d, s : RecordsOf(d, s)' = RecordsOf(d, s)
  BY <1>2 DEF RecordsOf, LbaOf
<1>4. \A d : Positions(d)' = Positions(d)
  BY <1>1, <1>3 DEF Positions
<1>5. \A d, p : NameAt(d, p)' = NameAt(d, p)
  BY <1>3 DEF NameAt
<1>6. \A d : Names(d)' = Names(d)
  BY <1>4, <1>5 DEF Names
<1>7. Readable' = Readable
  BY DEF Readable, OnCd, HasBundle, MenuInv, EntryInv, Added, MenuPlaces, IsRecord, RecordOf,
         HasRoom, Walked, LastRootLba, Spares
<1>. QED BY <1>1, <1>4, <1>6, <1>7

LEMMA FirstGrow ==
  ASSUME NEW T, NEW s \in Seq(T), NEW j \in Nat, NEW n \in Nat, j + n <= Len(s)
  PROVE  [i \in 1 .. j |-> s[i]] \o [i \in 1 .. n |-> s[j + i]] = [i \in 1 .. j + n |-> s[i]]
<1>. DEFINE a == [i \in 1 .. j |-> s[i]]
            b == [i \in 1 .. n |-> s[j + i]]
            c == [i \in 1 .. j + n |-> s[i]]
<1>1. Len(s) \in Nat /\ DOMAIN s = 1 .. Len(s)
  OBVIOUS
<1>2. a \in Seq(T) /\ Len(a) = j /\ \A i \in 1 .. j : a[i] = s[i]
  <2>1. \A i \in 1 .. j : s[i] \in T
    BY <1>1
  <2>. QED BY <2>1
<1>3. b \in Seq(T) /\ Len(b) = n /\ \A i \in 1 .. n : b[i] = s[j + i]
  <2>1. \A i \in 1 .. n : j + i \in 1 .. Len(s)
    BY <1>1
  <2>2. \A i \in 1 .. n : s[j + i] \in T
    BY <2>1
  <2>. QED BY <2>2
<1>4. c \in Seq(T) /\ Len(c) = j + n /\ \A i \in 1 .. j + n : c[i] = s[i]
  <2>1. \A i \in 1 .. j + n : s[i] \in T
    BY <1>1
  <2>. QED BY <2>1
<1>. HIDE DEF a, b, c
<1>5. /\ a \o b \in Seq(T) /\ Len(a \o b) = j + n
      /\ \A i \in 1 .. j : (a \o b)[i] = a[i]
      /\ \A i \in 1 .. n : (a \o b)[j + i] = b[i]
  <2>1. /\ a \o b \in Seq(T) /\ Len(a \o b) = Len(a) + Len(b)
        /\ \A i \in 1 .. Len(a) : (a \o b)[i] = a[i]
        /\ \A i \in 1 .. Len(b) : (a \o b)[Len(a) + i] = b[i]
    <3>1. a \in Seq(T) /\ b \in Seq(T)
      BY <1>2, <1>3
    <3>. QED BY <3>1, Concatenated
  <2>. QED BY <1>2, <1>3, <2>1
<1>6. ASSUME NEW i \in 1 .. j + n PROVE (a \o b)[i] = c[i]
  <2>1. CASE i <= j
    BY <1>2, <1>4, <1>5, <2>1
  <2>2. CASE ~(i <= j)
    <3>1. i - j \in 1 .. n /\ j + (i - j) = i
      BY <2>2
    <3>2. (a \o b)[j + (i - j)] = b[i - j] /\ b[i - j] = s[j + (i - j)]
      BY <1>3, <1>5, <3>1
    <3>. QED BY <1>4, <3>1, <3>2
  <2>. QED BY <2>1, <2>2
<1>7. a \o b = c
  <2>. DEFINE w == a \o b
  <2>1. w \in Seq(T) /\ Len(w) = j + n /\ \A i \in 1 .. j + n : w[i] = c[i]
    BY <1>5, <1>6
  <2>. HIDE DEF w
  <2>2. w = c
    BY <1>4, <2>1
  <2>. QED BY <2>2 DEF w
<1>. QED BY <1>7 DEF a, b, c

\* The first j names of a directory.
First(d, j) == [i \in 1 .. j |-> Names(d)[i]]

LEMMA NameFacts ==
  ASSUME Readable, NEW d \in Dirs
  PROVE  /\ \E S : Names(d) \in Seq(S) /\ "PREMOUNT" \in S
         /\ Len(Names(d)) = Len(Positions(d)) /\ Len(Names(d)) \in Nat
         /\ \A i \in 1 .. Len(Positions(d)) : Names(d)[i] = NameAt(d, Positions(d)[i])
         /\ First(d, Len(Positions(d))) = Names(d)
<1>1. /\ Positions(d) \in Seq(PlaceType) /\ Len(Positions(d)) \in Nat
      /\ DOMAIN Positions(d) = 1 .. Len(Positions(d))
  BY PositionFacts
<1>. DEFINE n == Len(Positions(d))
            S == {NameAt(d, Positions(d)[i]) : i \in 1 .. n} \cup {"PREMOUNT"}
<1>2. Names(d) = [i \in 1 .. n |-> NameAt(d, Positions(d)[i])]
  BY <1>1 DEF Names
<1>3. \A i \in 1 .. n : NameAt(d, Positions(d)[i]) \in S
  OBVIOUS
<1>. HIDE DEF n, S
<1>4. /\ Names(d) \in Seq(S) /\ Len(Names(d)) = n
      /\ \A i \in 1 .. n : Names(d)[i] = NameAt(d, Positions(d)[i])
  BY <1>1, <1>2, <1>3 DEF n
<1>5. First(d, n) = Names(d)
  BY <1>2, <1>4 DEF First
<1>6. "PREMOUNT" \in S
  BY DEF S
<1>. QED BY <1>1, <1>4, <1>5, <1>6 DEF n

\* The position is behind the j-th record.
Behind(j) ==
  /\ j = 0 => AtStart
  /\ j # 0 => /\ dir.sector = Positions(dir.of)[j].sector
              /\ dir.slot = Positions(dir.of)[j].slot

LEMMA Remainder ==
  ASSUME NEW T, NEW s \in Seq(T), NEW j \in 0 .. Len(s)
  PROVE  /\ SubSeq(s, j + 1, Len(s)) \in Seq(T) /\ Len(SubSeq(s, j + 1, Len(s))) = Len(s) - j
         /\ \A i \in 1 .. Len(s) - j : SubSeq(s, j + 1, Len(s))[i] = s[j + i]
<1>1. Len(s) \in Nat /\ j \in Nat /\ j <= Len(s)
  OBVIOUS
<1>2. \A i \in j + 1 .. Len(s) : s[i] \in T
  BY <1>1
<1>. QED BY <1>1, <1>2

\* What is left is what comes after it.
LEMMA LeftBehind ==
  ASSUME Readable, dir.of \in Dirs, NEW j \in 0 .. Len(Positions(dir.of)), Behind(j)
  PROVE  /\ Left \in Seq(PlaceType) /\ Len(Left) = Len(Positions(dir.of)) - j
         /\ \A i \in 1 .. Len(Left) : Left[i] = Positions(dir.of)[j + i]
<1>. DEFINE d == dir.of
            P == Positions(d)
<1>1. /\ P \in Seq(PlaceType) /\ Len(P) \in Nat /\ DOMAIN P = 1 .. Len(P)
      /\ \A m \in 1 .. Len(P) : P[m].sector \in Nat /\ P[m].slot \in Nat \ {0}
  <2>1. P \in Seq(PlaceType)
    BY PositionFacts
  <2>. HIDE DEF P
  <2>2. \A m \in 1 .. Len(P) : P[m] \in PlaceType
    BY <2>1
  <2>. QED BY <2>1, <2>2 DEF PlaceType
<1>2. \A m \in 1 .. Len(P) : \A n \in 1 .. Len(P) :
         m < n => P[n].sector > P[m].sector \/ (P[n].sector = P[m].sector /\ P[n].slot > P[m].slot)
  BY PositionsOrdered
<1>. HIDE DEF P
<1>3. ASSUME NEW i \in 1 .. Len(P) PROVE IsBehind(P[i]) <=> i > j
  <2>1. CASE j = 0
    BY <1>1, <2>1 DEF Behind, AtStart, IsBehind
  <2>2. CASE j # 0
    <3>1. j \in 1 .. Len(P) /\ dir.sector = P[j].sector /\ dir.slot = P[j].slot
      BY <2>2 DEF Behind, P
    <3>2. IsBehind(P[i]) <=> P[i].sector > P[j].sector
                             \/ (P[i].sector = P[j].sector /\ P[i].slot > P[j].slot)
      BY <3>1 DEF IsBehind
    <3>3. /\ P[i].sector \in Nat /\ P[j].sector \in Nat
          /\ P[i].slot \in Nat /\ P[j].slot \in Nat
      BY <1>1, <3>1
    <3>4. CASE i > j
      BY <1>2, <3>1, <3>2, <3>4
    <3>5. CASE i = j
      BY <3>2, <3>3, <3>5
    <3>6. CASE i < j
      <4>1. P[j].sector > P[i].sector \/ (P[j].sector = P[i].sector /\ P[j].slot > P[i].slot)
        BY <1>2, <3>1, <3>6
      <4>. QED BY <3>2, <3>3, <3>6, <4>1
    <3>. QED BY <1>1, <3>4, <3>5, <3>6
  <2>. QED BY <2>1, <2>2
<1>. DEFINE passed == {i \in DOMAIN P : ~IsBehind(P[i])}
<1>4. passed = 1 .. j
  <2>2. j <= Len(P) /\ j \in Nat
    BY <1>1 DEF P
  <2>. QED BY <1>1, <1>3, <2>2
<1>. HIDE DEF passed
<1>5. Cardinality(passed) = j
  BY <1>4, FS_Interval, 1 \in Int
<1>6. Left = SubSeq(P, j + 1, Len(P))
  BY <1>5 DEF Left, P, passed
<1>7. j \in Nat /\ j <= Len(P)
  BY <1>1 DEF P
<1>8. /\ Left \in Seq(PlaceType) /\ Len(Left) = Len(P) - j
      /\ \A i \in 1 .. Len(P) - j : Left[i] = P[j + i]
  BY <1>1, <1>6, <1>7, Remainder
<1>. QED BY <1>8 DEF P

-----------------------------------------------------------------------------
(* What the users of the filesystem rely on.                               *)

\* What the filesystem was told of the CD-ROM.
FsInv ==
  /\ pc \in Creating => ~fs.bundle
  /\ fs.bundle /\ image.valid => cd.how # "none"
  /\ "fs" \in published =>
       /\ image.valid /\ fs.rootSlots = Len(image.root) * Slots /\ fs.bound
       /\ cd.how # "none" => fs.bundle

LEMMA FsStep ==
  ASSUME IInv, StickInv, FsInv, [Next]_vars
  PROVE  FsInv'
<1>1. CASE PublishFs
  <2>1. /\ image.valid /\ UNCHANGED <<image, cd>> /\ pc = "fs" /\ pc' = "scan"
        /\ fs' = [fs EXCEPT !.bound = TRUE, !.rootSlots = Sector(PvdLba).rootSlots]
    BY <1>1 DEF PublishFs, At, Goto
  <2>2. cd = NewCd(SectorsIn(image)) /\ "cd" \in published
    BY <2>1 DEF StickInv, CdInv, IInv, Protocols, Stages, Creating, Early
  <2>3. cd.how = "none"
    BY <2>2 DEF NewCd
  <2>4. Sector(PvdLba) = Descriptor
    <3>1. OnCd
      BY <2>1, <2>2 DEF StickInv, CdInv, OnCd
    <3>. QED BY <3>1, ReadPvd
  <2>5. RealSector(PvdLba).rootSlots = Len(image.root) * Slots
    <3>1. PvdLba \notin DirSectors(image)
      BY <2>1, ImageFacts DEF StickInv, PvdLba
    <3>. QED BY <2>1, <3>1 DEF RealSector
  <2>6. Sector(PvdLba).rootSlots = Len(image.root) * Slots
    BY <2>3, <2>4, <2>5 DEF Descriptor
  <2>7. fs'.bundle = fs.bundle /\ fs'.bound /\ fs'.rootSlots = Sector(PvdLba).rootSlots
    BY <2>1 DEF IInv, Shape
  <2>. QED BY <2>1, <2>3, <2>6, <2>7 DEF FsInv, Creating
<1>2. CASE Inject \/ Rename
  <2>1. /\ image.valid /\ UNCHANGED <<image, published>> /\ pc' = "menus"
        /\ cd'.how # "none"
        /\ fs' = [fs EXCEPT !.bundle = fs.bound]
    <3>1. CASE Inject
      BY <3>1 DEF Inject, At, Goto, WithBundle
    <3>2. CASE Rename
      BY <3>2 DEF Rename, At, Goto, WithBundle
    <3>. QED BY <1>2, <3>1, <3>2
  <2>2. fs'.bundle = fs.bound /\ fs'.bound = fs.bound /\ fs'.rootSlots = fs.rootSlots
    BY <2>1 DEF IInv, Shape
  <2>. QED BY <2>1, <2>2 DEF FsInv, Creating
<1>3. CASE NoEntry
  <2>1. UNCHANGED <<image, fs, published>> /\ pc' = "menus" /\ cd' = WithBundle(cd)
    BY <1>3 DEF NoEntry, At, Goto
  <2>2. cd'.how = cd.how
    BY <2>1 DEF WithBundle, IInv, Shape
  <2>. QED BY <2>1, <2>2 DEF FsInv, Creating
<1>4. CASE AppendMenu
  <2>1. UNCHANGED <<image, fs, published>> /\ pc' = "menu" /\ cd'.how = cd.how
    BY <1>4 DEF AppendMenu, At, Goto, IInv, Shape
  <2>. QED BY <2>1 DEF FsInv, Creating
<1>5. CASE CreateCd
  <2>1. UNCHANGED <<image, fs, published>> /\ pc = "cd" /\ pc' = "publish"
    BY <1>5 DEF CreateCd, At, Goto
  <2>2. "fs" \notin published /\ ~fs.bundle
    BY <2>1 DEF FsInv, Creating, IInv, Protocols
  <2>. QED BY <2>1, <2>2 DEF FsInv
<1>6. CASE \/ CreatePath \/ PublishCd \/ CreateFails \/ PublishPath \/ NoFs
           \/ ScanIso \/ BuildBundle \/ NoBundle \/ NoDescriptor
  <2>1. /\ UNCHANGED <<image, cd, fs>> /\ (pc' \in Creating => pc \in Creating)
        /\ "fs" \in published' => "fs" \in published
    BY <1>6 DEF CreatePath, PublishCd, CreateFails, PublishPath, NoFs, ScanIso,
                BuildBundle, NoBundle, NoDescriptor, At, Goto, Creating
  <2>. QED BY <2>1 DEF FsInv
<1>7. CASE \/ CollectMenus \/ ReadMenu \/ SkipMenu \/ RewriteMenu \/ LeaveMenu \/ AppendFails
           \/ SyncPath \/ ReadLoader \/ NoLoader \/ LoadImage
           \/ LoadRefused \/ LoadFails \/ StartImage \/ StartAgain \/ Return \/ UNCHANGED vars
  <2>1. /\ UNCHANGED <<image, cd, fs, published>> /\ (pc' \in Creating => pc \in Creating)
    BY <1>7 DEF CollectMenus, ReadMenu, SkipMenu, RewriteMenu, LeaveMenu, AppendFails, SyncPath,
                ReadLoader, NoLoader, LoadImage, LoadRefused,
                LoadFails, StartImage, StartAgain, Return, At, Goto, Creating, vars
  <2>. QED BY <2>1 DEF FsInv
<1>. QED
  BY <1>1, <1>2, <1>3, <1>4, <1>5, <1>6, <1>7 DEF Next

Reading ==
  \E j \in 0 .. Len(Positions(dir.of)) :
    Behind(j) /\ got = First(dir.of, j) /\ ~ended /\ dir.sector < SectorsOf(dir.of)
AllRead ==
  /\ dir.sector \in Nat /\ dir.sector >= SectorsOf(dir.of)
  /\ \/ got = Names(dir.of)
     \/ fs.bundle /\ dir.injected /\ got = Append(Names(dir.of), "PREMOUNT")

FileInv ==
  /\ dir = [of |-> dir.of, sector |-> dir.sector, slot |-> dir.slot, injected |-> dir.injected]
  /\ dir = Closed => got = <<>> /\ ~ended /\ ~trouble
  /\ dir # Closed =>
       /\ dir.of \in Dirs /\ pc \in Final /\ "fs" \in published /\ "cd" \in published
       /\ trouble \/ Reading \/ AllRead

LEMMA OpenReadable ==
  ASSUME StickInv, FsInv, "fs" \in published, "cd" \in published PROVE Readable
BY DEF StickInv, CdInv, FsInv, OnCd, Readable

LEMMA RunningStays ==
  ASSUME [Next]_vars, pc \in Final
  PROVE  pc' \in Final /\ UNCHANGED <<image, cd, fs, published>>
BY DEF Next, vars, At, CreatePath, CreateCd, PublishCd, CreateFails, PublishPath,
       PublishFs, NoFs, ScanIso, BuildBundle, NoBundle, Inject, Rename, NoEntry, NoDescriptor,
       CollectMenus, ReadMenu, SkipMenu, RewriteMenu, LeaveMenu, AppendMenu, AppendFails,
       SyncPath, ReadLoader, NoLoader, LoadImage, LoadRefused, LoadFails, StartImage,
       StartAgain, Return, Final, Goto

LEMMA FileKept ==
  ASSUME FileInv, UNCHANGED fileVars, dir # Closed => pc' \in Final,
         dir # Closed => UNCHANGED <<image, cd, fs, published>>
  PROVE  FileInv'
<1>0. UNCHANGED <<dir, got, ended, trouble>>
  BY DEF fileVars
<1>1. CASE dir = Closed
  BY <1>0, <1>1 DEF FileInv, Closed
<1>2. CASE dir # Closed
  <2>1. UNCHANGED <<image, cd, fs>>
    BY <1>2
  <2>2. /\ Positions(dir.of)' = Positions(dir.of) /\ Names(dir.of)' = Names(dir.of)
        /\ SectorsOf(dir.of)' = SectorsOf(dir.of)
    <3>1. /\ \A d : SectorsOf(d)' = SectorsOf(d)
          /\ \A d : Positions(d)' = Positions(d)
          /\ \A d : Names(d)' = Names(d)
      BY <2>1, SameDirectories
    <3>. QED BY <1>0, <3>1 DEF SectorsOf
  <2>3. Reading' = Reading
    BY <1>0, <2>2 DEF Reading, Behind, First, AtStart
  <2>4. AllRead' = AllRead
    BY <1>0, <2>1, <2>2 DEF AllRead
  <2>. QED BY <1>0, <1>2, <2>3, <2>4 DEF FileInv
<1>. QED BY <1>1, <1>2

LEMMA SameDirectory ==
  ASSUME UNCHANGED vars, dir'.of = dir.of
  PROVE  /\ Positions(dir.of)' = Positions(dir.of) /\ Names(dir.of)' = Names(dir.of)
         /\ SectorsOf(dir.of)' = SectorsOf(dir.of)
<1>1. /\ \A d : SectorsOf(d)' = SectorsOf(d)
      /\ \A d : Positions(d)' = Positions(d)
      /\ \A d : Names(d)' = Names(d)
  BY SameDirectories DEF vars
<1>. QED BY <1>1 DEF SectorsOf

LEMMA NowReading ==
  ASSUME UNCHANGED vars, dir'.of = dir.of, NEW j \in 0 .. Len(Positions(dir.of)),
         j = 0 => dir'.sector = 0 /\ dir'.slot = 0,
         j # 0 => /\ dir'.sector = Positions(dir.of)[j].sector
                  /\ dir'.slot = Positions(dir.of)[j].slot,
         got' = First(dir.of, j), ~ended', dir'.sector < SectorsOf(dir.of)
  PROVE  Reading'
<1>1. /\ Positions(dir.of)' = Positions(dir.of) /\ Names(dir.of)' = Names(dir.of)
      /\ SectorsOf(dir.of)' = SectorsOf(dir.of)
  BY SameDirectory
<1>2. Behind(j)'
  BY <1>1 DEF Behind, AtStart
<1>3. got' = First(dir.of, j)'
  BY <1>1 DEF First
<1>. QED BY <1>1, <1>2, <1>3 DEF Reading

LEMMA NowAllRead ==
  ASSUME UNCHANGED vars, dir'.of = dir.of, dir'.sector \in Nat, dir'.sector >= SectorsOf(dir.of),
         \/ got' = Names(dir.of)
         \/ fs.bundle /\ dir'.injected /\ got' = Append(Names(dir.of), "PREMOUNT")
  PROVE  AllRead'
<1>1. /\ Names(dir.of)' = Names(dir.of)
      /\ SectorsOf(dir.of)' = SectorsOf(dir.of)
  BY SameDirectory
<1>2. fs' = fs
  BY DEF vars
<1>. QED BY <1>1, <1>2 DEF AllRead

\* A step of the reader on an open directory.
LEMMA FileMoved ==
  ASSUME FileInv, Running, dir # Closed, dir'.of = dir.of,
         dir' = [of |-> dir'.of, sector |-> dir'.sector, slot |-> dir'.slot,
                 injected |-> dir'.injected],
         trouble' \/ Reading' \/ AllRead'
  PROVE  FileInv'
<1>1. UNCHANGED <<pc, published>>
  BY DEF Running, vars
<1>2. /\ dir.of \in Dirs /\ pc \in Final /\ "fs" \in published /\ "cd" \in published
  BY DEF FileInv
<1>3. dir' # Closed
  BY <1>2 DEF Dirs, Closed
<1>. QED BY <1>1, <1>2, <1>3 DEF FileInv

LEMMA Beyond ==
  ASSUME NEW n \in Nat
  PROVE  Through(n) >= n /\ Through(n) \in Nat /\ End(n) >= n /\ End(n) \in Nat
BY DEF Through, End

LEMMA ReadStep ==
  ASSUME FileInv, Readable, NEW entries \in Nat, NEW slack \in BOOLEAN,
         ReadRecords(entries, slack)
  PROVE  FileInv'
<1>. DEFINE d == dir.of
            P == Positions(dir.of)
            n == IF Len(Left) < entries THEN Len(Left) ELSE entries
            through == n = Len(Left) /\ (n < entries \/ slack)
<1>1. /\ Running /\ dir # Closed /\ ~ended /\ dir.sector < SectorsOf(d)
      /\ n > 0 \/ through
      /\ got' = got \o [i \in 1 .. n |-> NameAt(d, Left[i])]
      /\ ended' = (n = 0)
      /\ dir' = [dir EXCEPT
                   !.injected = ~AtStart /\ @,
                   !.sector = IF through THEN Through(SectorsOf(d)) ELSE Left[n].sector,
                   !.slot = IF through THEN 0 ELSE Left[n].slot]
      /\ trouble' = trouble
  BY DEF ReadRecords
<1>2. UNCHANGED vars /\ d \in Dirs
  BY <1>1 DEF Running, FileInv
<1>3. /\ dir'.of = d
      /\ dir'.sector = IF through THEN Through(SectorsOf(d)) ELSE Left[n].sector
      /\ dir'.slot = IF through THEN 0 ELSE Left[n].slot
      /\ dir' = [of |-> dir'.of, sector |-> dir'.sector, slot |-> dir'.slot,
                 injected |-> dir'.injected]
  <2>. HIDE DEF n, through
  <2>1. dir = [of |-> dir.of, sector |-> dir.sector, slot |-> dir.slot, injected |-> dir.injected]
    BY DEF FileInv
  <2>. QED BY <1>1, <2>1
<1>. HIDE DEF n, through, P
<1>4. CASE trouble
  <2>1. trouble'
    BY <1>1, <1>4
  <2>. QED BY <1>1, <1>3, <2>1, FileMoved
<1>5. CASE ~trouble
  <2>1. SectorsOf(d) \in Nat
    BY <1>2, DirectoryFacts
  <2>2. Reading
    BY <1>1, <1>5, <2>1 DEF FileInv, AllRead
  <2>3. PICK j \in 0 .. Len(P) : Behind(j) /\ got = First(d, j)
    BY <2>2 DEF Reading, P
  <2>4. /\ Left \in Seq(PlaceType) /\ Len(Left) = Len(P) - j
        /\ \A i \in 1 .. Len(Left) : Left[i] = P[j + i]
    BY <1>2, <2>3, LeftBehind DEF P
  <2>5. PICK S : Names(d) \in Seq(S) /\ "PREMOUNT" \in S
    BY <1>2, NameFacts
  <2>6. /\ Len(Names(d)) = Len(P) /\ Len(P) \in Nat
        /\ \A i \in 1 .. Len(P) : Names(d)[i] = NameAt(d, P[i])
        /\ First(d, Len(P)) = Names(d)
    BY <1>2, NameFacts DEF P
  <2>7. /\ n \in Nat /\ j \in Nat /\ n <= Len(Left) /\ j + n \in 0 .. Len(P)
        /\ through => n = Len(Left)
    BY <2>3, <2>4, <2>6 DEF n, through
  <2>8. got' = First(d, j + n)
    <3>1. \A i \in 1 .. n : i \in 1 .. Len(Left) /\ j + i \in 1 .. Len(P)
      BY <2>4, <2>6, <2>7
    <3>2. \A i \in 1 .. n : NameAt(d, Left[i]) = Names(d)[j + i]
      BY <2>4, <2>6, <3>1
    <3>3. [i \in 1 .. n |-> NameAt(d, Left[i])] = [i \in 1 .. n |-> Names(d)[j + i]]
      BY <3>2
    <3>4. First(d, j) \o [i \in 1 .. n |-> Names(d)[j + i]] = First(d, j + n)
      BY <2>5, <2>6, <2>7, FirstGrow DEF First
    <3>. QED BY <1>1, <2>3, <3>3, <3>4
  <2>9. CASE through
    <3>1. n = Len(Left) /\ j + n = Len(P)
      BY <2>3, <2>4, <2>6, <2>7, <2>9
    <3>2. got' = Names(d)
      BY <2>6, <2>8, <3>1
    <3>3. dir'.sector \in Nat /\ dir'.sector >= SectorsOf(d)
      BY <1>3, <2>1, <2>9, Beyond
    <3>4. AllRead'
      BY <1>2, <1>3, <3>2, <3>3, NowAllRead
    <3>. QED BY <1>1, <1>3, <3>4, FileMoved
  <2>10. CASE ~through
    <3>1. n > 0 /\ n \in 1 .. Len(Left) /\ j + n \in 1 .. Len(P) /\ j + n # 0
      BY <1>1, <2>3, <2>4, <2>7, <2>10
    <3>2. dir'.sector = P[j + n].sector /\ dir'.slot = P[j + n].slot
      BY <1>3, <2>4, <2>10, <3>1
    <3>3. P[j + n].sector \in 0 .. SectorsOf(d) - 1
      BY <1>2, <3>1, PositionFacts DEF P
    <3>4. dir'.sector < SectorsOf(d)
      BY <2>1, <3>2, <3>3
    <3>5. ~ended'
      <4>1. n # 0
        BY <2>7, <3>1
      <4>2. ended' = (n = 0)
        BY <1>1
      <4>. QED BY <4>1, <4>2
    <3>6. j + n \in 0 .. Len(P)
      BY <2>7
    <3>. DEFINE m == j + n
    <3>7. /\ m \in 0 .. Len(P) /\ m # 0 /\ got' = First(d, m)
          /\ dir'.sector = P[m].sector /\ dir'.slot = P[m].slot
      BY <2>8, <3>1, <3>2, <3>6
    <3>. HIDE DEF m
    <3>8. Reading'
      BY <1>2, <1>3, <3>4, <3>5, <3>7, NowReading DEF P
    <3>. QED BY <1>1, <1>3, <3>8, FileMoved
  <2>. QED BY <2>9, <2>10
<1>. QED BY <1>4, <1>5

LEMMA BundleStep ==
  ASSUME FileInv, Readable, NEW entries \in Nat, ReadBundle(entries)
  PROVE  FileInv'
<1>. DEFINE d == dir.of
<1>1. /\ Running /\ dir # Closed /\ dir.sector >= SectorsOf(d) /\ ~dir.injected /\ fs.bundle
      /\ got' = Append(got, "PREMOUNT") /\ trouble' = trouble
      /\ dir' = [dir EXCEPT !.injected = TRUE, !.sector = End(SectorsOf(d)), !.slot = 0]
  BY DEF ReadBundle, AtBundle
<1>2. UNCHANGED vars /\ d \in Dirs
  BY <1>1 DEF Running, FileInv
<1>3. /\ dir'.of = d /\ dir'.injected /\ dir'.sector = End(SectorsOf(d))
      /\ dir' = [of |-> dir'.of, sector |-> dir'.sector, slot |-> dir'.slot,
                 injected |-> dir'.injected]
  <2>1. dir = [of |-> dir.of, sector |-> dir.sector, slot |-> dir.slot, injected |-> dir.injected]
    BY DEF FileInv
  <2>. QED BY <1>1, <2>1
<1>4. SectorsOf(d) \in Nat
  BY <1>2, DirectoryFacts
<1>5. dir'.sector \in Nat /\ dir'.sector >= SectorsOf(d)
  BY <1>3, <1>4, Beyond
<1>6. ASSUME ~trouble PROVE AllRead'
  <2>1. ~Reading
    <3>1. SUFFICES ASSUME Reading PROVE FALSE
      OBVIOUS
    <3>2. PICK j \in 0 .. Len(Positions(d)) : Behind(j) /\ dir.sector < SectorsOf(d)
      BY <3>1 DEF Reading
    <3>3. j # 0 => Positions(d)[j].sector \in 0 .. SectorsOf(d) - 1
      <4>1. Len(Positions(d)) \in Nat
        BY <1>2, NameFacts
      <4>2. j # 0 => j \in 1 .. Len(Positions(d))
        BY <4>1
      <4>. QED BY <1>2, <4>2, PositionFacts
    <3>4. dir.sector \in Nat
      BY <1>4, <3>2, <3>3 DEF Behind, AtStart
    <3>. QED BY <1>1, <1>4, <3>2, <3>4
  <2>2. got = Names(d)
    BY <1>1, <1>6, <2>1 DEF FileInv, AllRead
  <2>. QED BY <1>1, <1>2, <1>3, <1>5, <2>2, NowAllRead
<1>. QED BY <1>1, <1>3, <1>6, FileMoved

LEMMA EndStep ==
  ASSUME FileInv, Readable, ReadEnd
  PROVE  FileInv'
<1>. DEFINE d == dir.of
<1>1. /\ Running /\ dir # Closed /\ dir.sector >= SectorsOf(d)
      /\ got' = got /\ trouble' = trouble
      /\ dir' = IF AtBundle THEN [dir EXCEPT !.sector = End(SectorsOf(d)), !.slot = 0] ELSE dir
  BY DEF ReadEnd
<1>2. UNCHANGED vars /\ d \in Dirs
  BY <1>1 DEF Running, FileInv
<1>3. /\ dir'.of = d /\ dir'.injected = dir.injected
      /\ dir'.sector = End(SectorsOf(d)) \/ dir'.sector = dir.sector
      /\ dir' = [of |-> dir'.of, sector |-> dir'.sector, slot |-> dir'.slot,
                 injected |-> dir'.injected]
  <2>1. dir = [of |-> dir.of, sector |-> dir.sector, slot |-> dir.slot, injected |-> dir.injected]
    BY DEF FileInv
  <2>. QED BY <1>1, <2>1
<1>4. SectorsOf(d) \in Nat
  BY <1>2, DirectoryFacts
<1>6. ASSUME ~trouble PROVE AllRead'
  <2>1. AllRead
    <3>1. SUFFICES ASSUME Reading PROVE FALSE
      BY <1>1, <1>6 DEF FileInv
    <3>2. PICK j \in 0 .. Len(Positions(d)) : Behind(j) /\ dir.sector < SectorsOf(d)
      BY <3>1 DEF Reading
    <3>3. j # 0 => Positions(d)[j].sector \in 0 .. SectorsOf(d) - 1
      <4>1. Len(Positions(d)) \in Nat
        BY <1>2, NameFacts
      <4>2. j # 0 => j \in 1 .. Len(Positions(d))
        BY <4>1
      <4>. QED BY <1>2, <4>2, PositionFacts
    <3>4. dir.sector \in Nat
      BY <1>4, <3>2, <3>3 DEF Behind, AtStart
    <3>. QED BY <1>1, <1>4, <3>2, <3>4
  <2>2. dir'.sector \in Nat /\ dir'.sector >= SectorsOf(d)
    BY <1>1, <1>3, <1>4, <2>1, Beyond DEF AllRead
  <2>. QED BY <1>1, <1>2, <1>3, <2>1, <2>2, NowAllRead DEF AllRead
<1>. QED BY <1>1, <1>3, <1>6, FileMoved

LEMMA StartOver ==
  ASSUME Readable, UNCHANGED vars, NEW d \in Dirs, dir'.of = d,
         dir'.sector = 0, dir'.slot = 0, got' = <<>>, ~ended'
  PROVE  Reading'
<1>1. SectorsOf(d) \in Nat \ {0}
  BY DirectoryFacts
<1>2. Len(Positions(d)) \in Nat
  BY NameFacts
<1>3. SectorsOf(dir.of)' = SectorsOf(d) /\ Positions(dir.of)' = Positions(d)
  <2>1. (\A c : SectorsOf(c)' = SectorsOf(c)) /\ (\A c : Positions(c)' = Positions(c))
    BY SameDirectories DEF vars
  <2>. QED BY <2>1 DEF SectorsOf
<1>4. 0 \in 0 .. Len(Positions(dir.of)') /\ dir'.sector < SectorsOf(dir.of)'
  BY <1>1, <1>2, <1>3
<1>5. Behind(0)'
  BY DEF Behind, AtStart
<1>6. got' = First(dir.of, 0)'
  BY DEF First
<1>. QED BY <1>4, <1>5, <1>6 DEF Reading

LEMMA FileStep ==
  ASSUME IInv, FileInv, StickInv, FsInv, [FsNext]_fsVars
  PROVE  FileInv'
<1>1. dir # Closed => Readable /\ dir.of \in Dirs /\ pc \in Final
  BY OpenReadable DEF FileInv
<1>2. dir = [of |-> dir.of, sector |-> dir.sector, slot |-> dir.slot, injected |-> dir.injected]
  BY DEF FileInv
<1>3. CASE Next /\ UNCHANGED fileVars
  BY <1>1, <1>3, RunningStays, FileKept
<1>4. CASE UNCHANGED fsVars
  BY <1>1, <1>4, FileKept DEF fsVars, vars
<1>5. CASE OpenDir
  <2>1. /\ Running /\ dir = Closed /\ UNCHANGED <<got, ended, trouble>>
        /\ dir'.of \in Dirs /\ dir'.sector = 0 /\ dir'.slot = 0
        /\ dir' = [of |-> dir'.of, sector |-> dir'.sector, slot |-> dir'.slot,
                    injected |-> dir'.injected]
    BY <1>5 DEF OpenDir, Closed, Dirs
  <2>2. /\ got' = <<>> /\ ~ended' /\ dir' # Closed
    BY <2>1 DEF FileInv, Closed, Dirs
  <2>3. /\ pc = "running" /\ "fs" \in published /\ UNCHANGED vars
    BY <2>1 DEF Running
  <2>4. "cd" \in published
    BY <2>3 DEF IInv, Protocols, Stages, Creating, Final
  <2>5. Readable
    BY <2>3, <2>4, OpenReadable
  <2>6. PICK d \in Dirs : dir'.of = d
    BY <2>1
  <2>7. Reading'
    BY <2>1, <2>2, <2>3, <2>5, <2>6, StartOver
  <2>8. /\ pc' = "running" /\ "fs" \in published' /\ "cd" \in published'
    BY <2>3, <2>4 DEF vars
  <2>. QED BY <2>1, <2>2, <2>7, <2>8 DEF FileInv, Final
<1>6. CASE \E entries \in 0 .. MaxEntries, slack \in BOOLEAN : ReadRecords(entries, slack)
  <2>1. PICK entries \in 0 .. MaxEntries, slack \in BOOLEAN : ReadRecords(entries, slack)
    BY <1>6
  <2>2. entries \in Nat /\ dir # Closed
    BY <2>1 DEF ReadRecords
  <2>. QED BY <1>1, <2>1, <2>2, ReadStep
<1>7. CASE \E entries \in 0 .. MaxEntries : ReadBundle(entries)
  <2>1. PICK entries \in 0 .. MaxEntries : ReadBundle(entries)
    BY <1>7
  <2>2. entries \in Nat /\ dir # Closed
    BY <2>1 DEF ReadBundle
  <2>. QED BY <1>1, <2>1, <2>2, BundleStep
<1>8. CASE ReadEnd
  BY <1>1, <1>8, EndStep DEF ReadEnd
<1>9. CASE ReadBreaks
  <2>1. /\ Running /\ dir # Closed /\ trouble'
        /\ dir'.of = dir.of
        /\ dir' = [of |-> dir'.of, sector |-> dir'.sector, slot |-> dir'.slot,
                    injected |-> dir'.injected]
    BY <1>2, <1>9 DEF ReadBreaks
  <2>. QED BY <2>1, FileMoved
<1>10. CASE Rewind
  <2>1. /\ Running /\ dir # Closed /\ got' = <<>> /\ ~ended' /\ UNCHANGED vars
        /\ dir'.of = dir.of /\ dir'.sector = 0 /\ dir'.slot = 0
        /\ dir' = [of |-> dir'.of, sector |-> dir'.sector, slot |-> dir'.slot,
                    injected |-> dir'.injected]
    BY <1>2, <1>10 DEF Rewind, Running
  <2>2. PICK d \in Dirs : dir'.of = d
    BY <1>1, <2>1
  <2>3. Reading'
    BY <1>1, <2>1, <2>2, StartOver
  <2>. QED BY <2>1, <2>3, FileMoved
<1>11. CASE Close
  BY <1>11 DEF Close, FileInv, Closed
<1>. QED
  BY <1>3, <1>4, <1>5, <1>6, <1>7, <1>8, <1>9, <1>10, <1>11 DEF FsNext, ReadDir

\* All that the filesystem's users rely on.
FsIInv == IInv /\ StickInv /\ FsInv /\ FileInv

LEMMA FsInvariant == FsSpec => []FsIInv
<1>1. FsInit => FsIInv
  BY InitShape DEF FsInit, FsIInv, Init, StickInv, CdInv, Early, FsInv, FileInv, Closed, Creating
<1>2. FsIInv /\ [FsNext]_fsVars => FsIInv'
  <2>1. SUFFICES ASSUME FsIInv, [FsNext]_fsVars PROVE FsIInv'
    OBVIOUS
  <2>2. [Next]_vars
    BY <2>1 DEF FsNext, fsVars, OpenDir, ReadDir, ReadRecords, ReadBundle, ReadEnd, ReadBreaks,
                Rewind, Close, Running
  <2>. QED
    BY <2>1, <2>2, StepInv, StickStep, FsStep, FileStep DEF FsIInv
<1>. QED BY <1>1, <1>2, PTL DEF FsSpec

LEMMA Prefixed ==
  ASSUME NEW T, NEW s, NEW t, s \in Seq(T), t \in Seq(T), Len(s) <= Len(t),
         \A i \in 1 .. Len(s) : s[i] = t[i]
  PROVE  IsPrefix(s, t)
BY DEF IsPrefix

\* However a loader cuts its buffers, until a read fails file_read_dir has
\* returned the names of the directory in order, none left out, none twice but
\* the archive's, and all of them when it returns nothing.
THEOREM DirectoriesComplete == FsSpec => []NothingSkipped
<1>1. FsIInv => NothingSkipped
  <2>1. SUFFICES ASSUME FsIInv, dir # Closed, ~trouble PROVE NothingSkipped
    BY DEF NothingSkipped
  <2>. DEFINE d == dir.of
              more == IF fs.bundle THEN <<"PREMOUNT">> ELSE <<>>
              all == Names(d) \o more
  <2>2. Readable /\ d \in Dirs
    BY <2>1, OpenReadable DEF FsIInv, FileInv
  <2>9. Reading \/ AllRead
    BY <2>1 DEF FsIInv, FileInv
  <2>3. PICK S : Names(d) \in Seq(S) /\ "PREMOUNT" \in S
    BY <2>2, NameFacts
  <2>4. /\ Len(Names(d)) = Len(Positions(d)) /\ Len(Names(d)) \in Nat
    BY <2>2, NameFacts
  <2>5. more \in Seq(S) /\ Len(more) \in Nat
    BY <2>3
  <2>. DEFINE ns == Names(d)
  <2>. HIDE DEF more, ns, d
  <2>6. /\ ns \o more \in Seq(S) /\ Len(ns \o more) = Len(ns) + Len(more)
        /\ \A i \in 1 .. Len(ns) : (ns \o more)[i] = ns[i]
    BY <2>3, <2>5, Concatenated DEF ns
  <2>7. CASE Reading
    <3>1. PICK j \in 0 .. Len(Positions(d)) : got = First(d, j) /\ ~ended
      BY <2>7 DEF Reading, d
    <3>2. got = [i \in 1 .. j |-> ns[i]] /\ j \in Nat /\ j <= Len(ns) /\ ns \in Seq(S)
      BY <2>3, <2>4, <3>1 DEF First, ns
    <3>3. got \in Seq(S) /\ Len(got) = j /\ \A i \in 1 .. j : got[i] = ns[i]
      <4>1. \A i \in 1 .. j : ns[i] \in S
        BY <3>2
      <4>. QED BY <3>2, <4>1
    <3>4. /\ Len(got) <= Len(ns \o more)
          /\ \A i \in 1 .. Len(got) : got[i] = (ns \o more)[i]
      BY <2>4, <2>5, <2>6, <3>2, <3>3 DEF ns
    <3>5. IsPrefix(got, ns \o more)
      BY <2>6, <3>3, <3>4, Prefixed
    <3>. QED BY <2>1, <3>1, <3>5 DEF NothingSkipped, ns, more, d
  <2>8. CASE AllRead
    <3>1. CASE got = ns
      <4>1. /\ got \in Seq(S) /\ Len(got) <= Len(ns \o more) /\ Len(got) >= Len(ns)
            /\ \A i \in 1 .. Len(got) : got[i] = (ns \o more)[i]
        BY <2>3, <2>4, <2>5, <2>6, <3>1 DEF ns
      <4>2. IsPrefix(got, ns \o more)
        BY <2>6, <4>1, Prefixed
      <4>. QED BY <2>1, <4>1, <4>2 DEF NothingSkipped, ns, more, d
    <3>2. CASE fs.bundle /\ got = Append(ns, "PREMOUNT")
      <4>1. got = ns \o more
        <5>1. ns \in Seq(S) /\ more = <<"PREMOUNT">>
          BY <2>3, <3>2 DEF ns, more
        <5>. QED BY <3>2, <5>1
      <4>2. /\ got \in Seq(S) /\ Len(got) <= Len(ns \o more) /\ Len(got) >= Len(ns)
            /\ \A i \in 1 .. Len(got) : got[i] = (ns \o more)[i]
        <5>1. Len(got) = Len(ns) + Len(more) /\ got \in Seq(S) /\ Len(ns) \in Nat
          BY <2>4, <2>6, <4>1 DEF ns
        <5>. QED BY <2>5, <4>1, <5>1
      <4>3. IsPrefix(got, ns \o more)
        BY <2>6, <4>2, Prefixed
      <4>. QED BY <2>1, <4>2, <4>3 DEF NothingSkipped, ns, more, d
    <3>. QED BY <2>8, <3>1, <3>2 DEF AllRead, ns, d
  <2>. QED BY <2>7, <2>8, <2>9
<1>. QED BY <1>1, FsInvariant, PTL

-----------------------------------------------------------------------------
(* The files by their names.                                               *)

IsEntry(lba, k) == cd.how # "none" /\ cd.entry = [lba |-> lba, slot |-> k]

LEMMA NameThere ==
  ASSUME OnCd, NEW lba \in DirSectors(image), NEW k \in 1 .. RecordsThere(lba)
  PROVE  IF IsEntry(lba, k) THEN Sector(lba).records[k].name = "PREMOUNT"
         ELSE /\ k \in DOMAIN RecordsAt(image, lba)
              /\ Sector(lba).records[k].name = RecordsAt(image, lba)[k].name
<1>. DEFINE r == Sector(lba).records[k]
            old == RecordsAt(image, lba)[k]
            p == [lba |-> lba, slot |-> k]
<1>1. CASE Here(lba) /\ k = cd.entry.slot
  <2>1. p = cd.entry /\ r = PremountRecord
    BY <1>1, DirRecords
  <2>2. IsEntry(lba, k)
    BY <1>1, <2>1 DEF IsEntry, Here
  <2>3. r.name = "PREMOUNT"
    BY <2>1 DEF PremountRecord
  <2>. QED BY <2>2, <2>3
<1>2. CASE ~(Here(lba) /\ k = cd.entry.slot)
  <2>1. /\ k \in DOMAIN RecordsAt(image, lba) /\ (cd.how # "none" => p # cd.entry)
        /\ r = IF p = cd.menuEntry THEN NewMenuRecord(old) ELSE old
    BY <1>2, DirRecords
  <2>2. ~IsEntry(lba, k)
    BY <2>1 DEF IsEntry
  <2>3. old \in RecordType
    BY <2>1, RecordFacts DEF OnCd
  <2>4. NewMenuRecord(old).name = old.name
    BY <2>3 DEF NewMenuRecord, RecordType
  <2>5. r.name = old.name
    BY <2>1, <2>4
  <2>. QED BY <2>1, <2>2, <2>5
<1>. QED BY <1>1, <1>2

\* A name stands for one record.
LEMMA NamesUnique ==
  ASSUME NamesDistinct, Readable, NEW d \in Dirs,
         NEW s \in 0 .. SectorsOf(d) - 1, NEW i \in DOMAIN RecordsOf(d, s),
         NEW t \in 0 .. SectorsOf(d) - 1, NEW k \in DOMAIN RecordsOf(d, t),
         RecordsOf(d, s)[i].name = RecordsOf(d, t)[k].name
  PROVE  s = t /\ i = k
<1>. DEFINE l == LbaOf(d, s)
            m == LbaOf(d, t)
<1>1. /\ l \in DirSectors(image) /\ m \in DirSectors(image)
      /\ i \in 1 .. RecordsThere(l) /\ k \in 1 .. RecordsThere(m)
      /\ l = m => s = t
  BY DirectoryFacts
<1>2. (l = BootLba(image)) = (m = BootLba(image))
  <2>1. /\ BootLba(image) \notin RootSectors(image)
    BY ImageFacts DEF Readable, OnCd
  <2>2. {LbaOf(d, x) : x \in 0 .. SectorsOf(d) - 1}
           = IF d = "root" THEN RootSectors(image) ELSE {BootLba(image)}
    BY DirectoryFacts
  <2>3. /\ l \in {LbaOf(d, x) : x \in 0 .. SectorsOf(d) - 1}
        /\ m \in {LbaOf(d, x) : x \in 0 .. SectorsOf(d) - 1}
    OBVIOUS
  <2>. QED BY <2>1, <2>2, <2>3
<1>3. Sector(l).records[i].name = Sector(m).records[k].name
  BY DEF RecordsOf
<1>. HIDE DEF l, m
<1>4. OnCd /\ image \in Images /\ image.valid
  BY DEF Readable, OnCd
<1>5. IF IsEntry(l, i) THEN Sector(l).records[i].name = "PREMOUNT"
      ELSE /\ i \in DOMAIN RecordsAt(image, l)
           /\ Sector(l).records[i].name = RecordsAt(image, l)[i].name
  BY <1>1, <1>4, NameThere
<1>6. IF IsEntry(m, k) THEN Sector(m).records[k].name = "PREMOUNT"
      ELSE /\ k \in DOMAIN RecordsAt(image, m)
           /\ Sector(m).records[k].name = RecordsAt(image, m)[k].name
  BY <1>1, <1>4, NameThere
<1>7. l = m /\ i = k
  <2>1. CASE IsEntry(l, i) /\ IsEntry(m, k)
    BY <2>1 DEF IsEntry
  <2>2. CASE IsEntry(l, i) /\ ~IsEntry(m, k)
    BY <1>1, <1>3, <1>4, <1>5, <1>6, <2>2 DEF NamesDistinct
  <2>3. CASE ~IsEntry(l, i) /\ IsEntry(m, k)
    BY <1>1, <1>3, <1>4, <1>5, <1>6, <2>3 DEF NamesDistinct
  <2>4. CASE ~IsEntry(l, i) /\ ~IsEntry(m, k)
    BY <1>1, <1>2, <1>3, <1>4, <1>5, <1>6, <2>4 DEF NamesDistinct
  <2>. QED BY <2>1, <2>2, <2>3, <2>4
<1>. QED BY <1>1, <1>7

\* The records a directory of the CD-ROM shows are those the filesystem has.
LEMMA SameRecords ==
  ASSUME Readable, NEW d \in Dirs
  PROVE  /\ \A r \in Visibly(d) : \E s \in 0 .. SectorsOf(d) - 1 : \E k \in DOMAIN RecordsOf(d, s) :
                r = RecordsOf(d, s)[k]
         /\ \A s \in 0 .. SectorsOf(d) - 1 : \A k \in DOMAIN RecordsOf(d, s) :
              RecordsOf(d, s)[k] \in Visibly(d)
<1>. DEFINE shown(lba) == {Sector(lba).records[k] : k \in Visible(lba)}
            L == {LbaOf(d, s) : s \in 0 .. SectorsOf(d) - 1}
<1>1. L = IF d = "root" THEN RootSectors(image) ELSE {BootLba(image)}
  BY DirectoryFacts
<1>2. Visibly(d) = UNION {shown(lba) : lba \in L}
  BY <1>1 DEF Visibly
<1>3. ASSUME NEW s \in 0 .. SectorsOf(d) - 1
      PROVE  shown(LbaOf(d, s)) = {RecordsOf(d, s)[k] : k \in DOMAIN RecordsOf(d, s)}
  <2>1. LbaOf(d, s) \in DirSectors(image)
        /\ DOMAIN RecordsOf(d, s) = 1 .. RecordsThere(LbaOf(d, s))
    BY DirectoryFacts
  <2>2. Visible(LbaOf(d, s)) = 1 .. RecordsThere(LbaOf(d, s))
    BY <2>1, AllVisible DEF Readable
  <2>. QED BY <2>1, <2>2 DEF RecordsOf
<1>. HIDE DEF shown
<1>4. \A r \in Visibly(d) : \E s \in 0 .. SectorsOf(d) - 1 : r \in shown(LbaOf(d, s))
  BY <1>2
<1>5. \A s \in 0 .. SectorsOf(d) - 1 : \A r \in shown(LbaOf(d, s)) : r \in Visibly(d)
  BY <1>2
<1>. QED BY <1>3, <1>4, <1>5

\* It has them in its order.
Record(d, p) == RecordsOf(d, p.sector)[p.slot]

LEMMA PositionOf ==
  ASSUME Readable, NEW d \in Dirs
  PROVE  /\ \A r \in Visibly(d) : \E m \in 1 .. Len(Positions(d)) : r = Record(d, Positions(d)[m])
         /\ \A m \in 1 .. Len(Positions(d)) : Record(d, Positions(d)[m]) \in Visibly(d)
<1>1. ASSUME NEW r \in Visibly(d)
      PROVE  \E m \in 1 .. Len(Positions(d)) : r = Record(d, Positions(d)[m])
  <2>1. PICK s \in 0 .. SectorsOf(d) - 1 : \E k \in DOMAIN RecordsOf(d, s) : r = RecordsOf(d, s)[k]
    BY SameRecords
  <2>2. PICK k \in DOMAIN RecordsOf(d, s) : r = RecordsOf(d, s)[k]
    BY <2>1
  <2>3. PICK m \in 1 .. Len(Positions(d)) : Positions(d)[m] = [sector |-> s, slot |-> k]
    BY PositionFacts
  <2>. QED BY <2>2, <2>3 DEF Record
<1>2. ASSUME NEW m \in 1 .. Len(Positions(d))
      PROVE  Record(d, Positions(d)[m]) \in Visibly(d)
  <2>1. /\ Positions(d)[m].sector \in 0 .. SectorsOf(d) - 1
        /\ Positions(d)[m].slot \in DOMAIN RecordsOf(d, Positions(d)[m].sector)
    BY PositionFacts
  <2>. QED BY <2>1, SameRecords DEF Record
<1>. QED BY <1>1, <1>2

LEMMA SameName ==
  ASSUME NamesDistinct, Readable, NEW d \in Dirs,
         NEW m \in 1 .. Len(Positions(d)), NEW n \in 1 .. Len(Positions(d)),
         Record(d, Positions(d)[m]).name = Record(d, Positions(d)[n]).name
  PROVE  m = n
<1>. DEFINE p == Positions(d)[m]
            q == Positions(d)[n]
<1>1. /\ p.sector \in 0 .. SectorsOf(d) - 1 /\ p.slot \in DOMAIN RecordsOf(d, p.sector)
      /\ m = Ends(PartsOf(d))[p.sector] + p.slot
  BY PositionFacts
<1>2. /\ q.sector \in 0 .. SectorsOf(d) - 1 /\ q.slot \in DOMAIN RecordsOf(d, q.sector)
      /\ n = Ends(PartsOf(d))[q.sector] + q.slot
  BY PositionFacts
<1>3. RecordsOf(d, p.sector)[p.slot].name = RecordsOf(d, q.sector)[q.slot].name
  BY DEF Record
<1>. HIDE DEF p, q
<1>4. p.sector = q.sector /\ p.slot = q.slot
  BY <1>1, <1>2, <1>3, NamesUnique
<1>. QED BY <1>1, <1>2, <1>4

LEMMA ArchiveFile ==
  ASSUME NamesDistinct, Readable, NEW d \in Dirs, NEW r \in Visibly(d), r.name = "PREMOUNT"
  PROVE  Contents(r) = Whole("bundle", BundleSectors)
<1>1. PICK s \in 0 .. SectorsOf(d) - 1 : \E k \in DOMAIN RecordsOf(d, s) : r = RecordsOf(d, s)[k]
  BY SameRecords
<1>2. PICK k \in DOMAIN RecordsOf(d, s) : r = RecordsOf(d, s)[k]
  BY <1>1
<1>. DEFINE l == LbaOf(d, s)
<1>3. l \in DirSectors(image) /\ k \in 1 .. RecordsThere(l) /\ r = Sector(l).records[k]
  BY <1>2, DirectoryFacts DEF RecordsOf
<1>. HIDE DEF l
<1>4. OnCd /\ image \in Images /\ image.valid
  BY DEF Readable, OnCd
<1>5. IF IsEntry(l, k) THEN r.name = "PREMOUNT"
      ELSE /\ k \in DOMAIN RecordsAt(image, l)
           /\ r.name = RecordsAt(image, l)[k].name
  BY <1>3, <1>4, NameThere
<1>6. IsEntry(l, k)
  BY <1>3, <1>4, <1>5 DEF NamesDistinct
<1>7. Holds([lba |-> l, slot |-> k], r)
  BY <1>3, <1>4, RecordHolds
<1>. QED BY <1>6, <1>7 DEF Holds, IsEntry

LEMMA FileFound ==
  ASSUME NamesDistinct, Readable, NEW d \in Dirs, NEW r \in Visibly(d)
  PROVE  FileNamed(d, r.name) = Contents(r)
<1>1. CASE fs.bundle /\ r.name = "PREMOUNT"
  BY <1>1, ArchiveFile DEF FileNamed
<1>2. CASE ~(fs.bundle /\ r.name = "PREMOUNT")
  <2>1. PICK m \in 1 .. Len(Positions(d)) : r = Record(d, Positions(d)[m])
    BY PositionOf
  <2>2. /\ DOMAIN Names(d) = 1 .. Len(Positions(d)) /\ Len(Positions(d)) \in Nat
        /\ \A i \in 1 .. Len(Positions(d)) : Names(d)[i] = Record(d, Positions(d)[i]).name
    <3>1. /\ \E S : Names(d) \in Seq(S)
          /\ Len(Names(d)) = Len(Positions(d)) /\ Len(Names(d)) \in Nat
          /\ \A i \in 1 .. Len(Positions(d)) : Names(d)[i] = NameAt(d, Positions(d)[i])
      BY NameFacts
    <3>. QED BY <3>1 DEF NameAt, Record
  <2>3. \A i \in 1 .. Len(Positions(d)) : Names(d)[i] = r.name <=> i = m
    BY <2>1, <2>2, SameName
  <2>. DEFINE Is(i) == Names(d)[i] = r.name /\ \A j \in 1 .. i - 1 : Names(d)[j] # r.name
  <2>4. \A i \in DOMAIN Names(d) : Is(i) <=> i = m
    BY <2>1, <2>2, <2>3
  <2>. HIDE DEF Is
  <2>5. (CHOOSE i \in DOMAIN Names(d) : Is(i)) = m
    BY <2>1, <2>2, <2>4
  <2>6. FileNamed(d, r.name)
          = LET p == Positions(d)[CHOOSE i \in DOMAIN Names(d) : Is(i)]
            IN  Contents(RecordsOf(d, p.sector)[p.slot])
    BY <1>2 DEF FileNamed, Is
  <2>. QED BY <2>1, <2>5, <2>6 DEF Record
<1>. QED BY <1>1, <1>2

\* Where a directory has no name twice, the filesystem a loader is given finds
\* the files the CD-ROM itself has, with the same contents, although it read the
\* size of the root directory before the archive was added (iso_fs.rs,
\* virtual_blockio.rs).
THEOREM FilesystemAgrees == ASSUME NamesDistinct PROVE FsSpec => []FsAgrees
<1>1. FsIInv => FsAgrees
  <2>1. SUFFICES ASSUME FsIInv, pc = "running", "fs" \in published, NEW d \in Dirs
                 PROVE  /\ {r.name : r \in Visibly(d)} = ToSet(Names(d))
                        /\ \A r \in Visibly(d) : FileNamed(d, r.name) = Contents(r)
    BY DEF FsAgrees, Dirs
  <2>2. "cd" \in published
    BY <2>1 DEF FsIInv, IInv, Protocols, Stages, Creating, Final
  <2>3. Readable
    BY <2>1, <2>2, OpenReadable DEF FsIInv
  <2>4. /\ \E S : Names(d) \in Seq(S)
        /\ Len(Names(d)) = Len(Positions(d)) /\ Len(Names(d)) \in Nat
        /\ \A i \in 1 .. Len(Positions(d)) : Names(d)[i] = NameAt(d, Positions(d)[i])
    BY <2>3, NameFacts
  <2>5. ToSet(Names(d)) = {Record(d, Positions(d)[i]).name : i \in 1 .. Len(Positions(d))}
    <3>1. DOMAIN Names(d) = 1 .. Len(Positions(d))
      BY <2>4
    <3>2. \A i \in 1 .. Len(Positions(d)) : Names(d)[i] = Record(d, Positions(d)[i]).name
      BY <2>4 DEF NameAt, Record
    <3>. QED BY <3>1, <3>2 DEF ToSet
  <2>6. {r.name : r \in Visibly(d)}
          = {Record(d, Positions(d)[i]).name : i \in 1 .. Len(Positions(d))}
    BY <2>3, PositionOf
  <2>. QED BY <2>3, <2>5, <2>6, FileFound
<1>. QED BY <1>1, FsInvariant, PTL
=============================================================================
