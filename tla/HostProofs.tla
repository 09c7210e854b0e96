------------------------------ MODULE HostProofs ------------------------------
(***************************************************************************)
(* The host: of the installer, that the layout it computes is well formed  *)
(* for every size of disk, and what a run that ends in success has left on *)
(* the disk; of its window, that the selection stays inside the list for   *)
(* every user, and that a user who waits gets one task at a time, on what  *)
(* the window showed.                                                      *)
(***************************************************************************)
EXTENDS Install, Gui, FiniteSetTheorems, TLAPS

\* A number below the modulus is its own remainder: no wrap-around.
LEMMA NoWrap ==
  ASSUME NEW x \in Nat, NEW u \in Nat, x < u
  PROVE  x % u = x
  BY Z3

\* Rounding down to 8 sectors stays within 7 sectors and is aligned.
LEMMA AlignDown8Bounds ==
  ASSUME NEW s \in Nat
  PROVE  /\ AlignDown8(s) \in Nat
         /\ AlignDown8(s) <= s
         /\ s < AlignDown8(s) + 8
         /\ AlignDown8(s) % 8 = 0
  BY DEF AlignDown8

-----------------------------------------------------------------------------
\* The room write_gpt_f and write_mbr_f need behind `rs' reserved sectors for
\* partition 1 not to be empty.  The guards of install_choosable ask for less:
\* they leave out the first MiB of the disk and the backup GPT.
RoomNeeded(style, rs) ==
  rs + EFI_PART_SECTORS + CHOOSABLE_PART1_START_SECTOR + 8
     + (IF style = "gpt" THEN GPT_TAIL ELSE 0)

\* On every disk with that room the two writers make a well-formed table that
\* leaves the reserved sectors free.
THEOREM LayoutWellFormed ==
  ASSUME NEW size \in Nat, NEW rs \in Nat, NEW style \in {"mbr", "gpt"},
         size < U64, size >= RoomNeeded(style, rs)
  PROVE  LET lay == IF style = "gpt" THEN GptLayout(size, rs) ELSE MbrLayout(size, rs)
         IN  /\ WellFormed(lay, size)
             /\ EndOf(lay.p2) + rs <= size
<1>. USE U64Assumption DEF RoomNeeded, EFI_PART_SECTORS, CHOOSABLE_PART1_START_SECTOR, GPT_TAIL
<1>1. CASE style = "mbr"
  <2>. DEFINE x == size - EFI_PART_SECTORS - rs
  <2>1. x \in Nat /\ x >= 2056 /\ x < U64
    BY <1>1
  <2>2. x % U64 = x
    BY <2>1, NoWrap
  <2>3. /\ AlignDown8(x) \in Nat /\ AlignDown8(x) <= x
        /\ x < AlignDown8(x) + 8 /\ AlignDown8(x) % 8 = 0
    BY <2>1, AlignDown8Bounds
  <2>4. MbrLayout(size, rs) =
          [style |-> "mbr", p1 |-> Extent(2048, AlignDown8(x) - 2048),
           p2 |-> Extent(AlignDown8(x), 65536)]
    BY <2>2 DEF MbrLayout
  <2>. QED
    BY <1>1, <2>1, <2>3, <2>4 DEF WellFormed, EndOf, Extent, UsableEnd
<1>2. CASE style = "gpt"
  <2>. DEFINE x == size - GPT_TAIL - EFI_PART_SECTORS - rs
  <2>1. x \in Nat /\ x >= 2056 /\ x < U64
    BY <1>2
  <2>2. x % U64 = x
    BY <2>1, NoWrap
  <2>3. /\ AlignDown8(x) \in Nat /\ AlignDown8(x) <= x
        /\ x < AlignDown8(x) + 8 /\ AlignDown8(x) % 8 = 0
    BY <2>1, AlignDown8Bounds
  <2>4. GptLayout(size, rs) =
          [style |-> "gpt", p1 |-> Extent(2048, AlignDown8(x) - 2048),
           p2 |-> Extent(AlignDown8(x), 65536)]
    BY <2>2 DEF GptLayout
  <2>. QED
    BY <1>2, <2>1, <2>3, <2>4 DEF WellFormed, EndOf, Extent, UsableEnd
<1>. QED BY <1>1, <1>2

\* Without a reserve the size guard alone makes the table well-formed.
THEOREM NoReserveWellFormed ==
  ASSUME NEW size \in Nat, NEW style \in {"mbr", "gpt"},
         size < U64, LargeEnough(size)
  PROVE  WellFormed(Layout(style, size, 0), size)
<1>1. ReserveSectors(0) = 0
  BY U64Assumption, NoWrap DEF ReserveSectors, SECTORS_PER_MIB
<1>2. size >= RoomNeeded(style, 0)
  BY DEF LargeEnough, RoomNeeded, CHOOSABLE_PART1_START_SECTOR, CHOOSABLE_PART_SIZE_MB,
         SECTORS_PER_MIB, EFI_PART_SECTORS, GPT_TAIL
<1>. QED BY <1>1, <1>2, LayoutWellFormed DEF Layout

-----------------------------------------------------------------------------
(* The program.                                                            *)

\* The kernel's nodes, a table's layout and the layouts' extents fit together.
LEMMA NodeTypes ==
  ASSUME NEW lay \in Layouts \cup {NoLayout}, NEW i \in 1..2
  PROVE  NodeOf(lay, i) \in Extents
<1>1. CASE lay = NoLayout
  BY <1>1 DEF NodeOf, NoLayout, NoExtent, Extent, Extents
<1>2. CASE lay \in Layouts
  BY <1>2 DEF NodeOf, Extents
<1>. QED BY <1>1, <1>2

LEMMA TableTypes ==
  ASSUME NEW d \in DiskType
  PROVE  TableOf(d) \in Layouts \cup {NoLayout}
  BY DEF TableOf, DiskType

LEMMA LayType ==
  ASSUME TypeOK
  PROVE  Lay \in Layouts /\ Lay.p1 \in Extents /\ Lay.p2 \in Extents
  BY DEF TypeOK, Lay, Layouts, Extents, Options

\* Installation, however often run and however interrupted, keeps every
\* variable in its type.
THEOREM TypeCorrect == Spec => []TypeOK
<1>1. Init => TypeOK
  <2>. SUFFICES ASSUME Init PROVE TypeOK
    OBVIOUS
  <2>1. PICK k \in Foreign : disk = ForeignDisk(k)
    BY DEF Init
  <2>2. k \in {"foreign", "blank", "prot"}
    BY InstallAssumption
  <2>3. disk \in DiskType
    BY <2>1, <2>2 DEF ForeignDisk, DiskType, BootSector, NoData, NoEsp, Extents
  <2>. QED
    BY <2>3, InstallAssumption DEF Init, TypeOK, Extents
<1>2. TypeOK /\ [Next]_vars => TypeOK'
  <2>. SUFFICES ASSUME TypeOK, [Next]_vars PROVE TypeOK'
    OBVIOUS
  <2>. USE DEF TypeOK
  <2>a. total' = total
    BY DEF Next, vars, Process, Start, SizeGuards, CheckUmount, Detect, Answer, ZeroSectors,
           WriteMbrSector, WriteMbrCore, WriteGptCore, WriteProtectiveMbr, WriteGptHeader,
           WriteGptEntries, WriteGptBootCode, Sync, RemovePartitionNodes, AddPartitionNodes,
           WaitForPartitions, FormatPartition, FormatEfiPartition, WriteEfiBootloader,
           ResumeAndNotify, FailInWindow, Mount, CopyImages, Kill, PowerLoss, Step
  <2>b. Layouts' = Layouts
    BY <2>a DEF Layouts
  <2>0. total' = total /\ Layouts' = Layouts /\ Extents' = Extents /\ DiskType' = DiskType
    BY <2>a, <2>b DEF Extents, DiskType
  <2>1. CASE Start
    BY <2>0, <2>1, InstallAssumption DEF Start, Before
  <2>2. CASE SizeGuards
    BY <2>0, <2>2 DEF SizeGuards, Return, Before
  <2>3. CASE CheckUmount
    BY <2>0, <2>3 DEF CheckUmount, Return, Before
  <2>4. CASE Detect
    BY <2>0, <2>4 DEF Detect, Return, Before
  <2>5. CASE Answer
    BY <2>0, <2>5 DEF Answer, Return, Window
  <2>6. CASE ZeroSectors
    <3>1. disk' \in DiskType
      BY <2>6 DEF ZeroSectors, DiskType, BootSector
    <3>. QED BY <2>0, <2>6, <3>1 DEF ZeroSectors, Step, Window
  <2>7. CASE WriteMbrSector
    <3>1. disk' \in DiskType
      BY <2>7, LayType DEF WriteMbrSector, DiskType, BootSector
    <3>. QED BY <2>0, <2>7, <3>1 DEF WriteMbrSector, Step, Window
  <2>8. CASE WriteMbrCore
    <3>1. disk' \in DiskType
      BY <2>8 DEF WriteMbrCore, DiskType
    <3>. QED BY <2>0, <2>8, <3>1 DEF WriteMbrCore, Step, Window
  <2>9. CASE WriteGptCore
    <3>1. disk' \in DiskType
      BY <2>9 DEF WriteGptCore, DiskType
    <3>. QED BY <2>0, <2>9, <3>1 DEF WriteGptCore, Step, Window
  <2>10. CASE WriteProtectiveMbr
    <3>1. disk' \in DiskType
      BY <2>10 DEF WriteProtectiveMbr, DiskType, BootSector
    <3>. QED BY <2>0, <2>10, <3>1 DEF WriteProtectiveMbr, Step, Window
  <2>11. CASE WriteGptHeader
    <3>1. disk' \in DiskType
      BY <2>11 DEF WriteGptHeader, DiskType
    <3>. QED BY <2>0, <2>11, <3>1 DEF WriteGptHeader, Step, Window
  <2>12. CASE WriteGptEntries
    <3>1. disk' \in DiskType
      BY <2>12, LayType DEF WriteGptEntries, DiskType
    <3>. QED BY <2>0, <2>12, <3>1 DEF WriteGptEntries, Step, Window
  <2>13. CASE WriteGptBootCode
    <3>1. disk' \in DiskType
      BY <2>13 DEF WriteGptBootCode, DiskType
    <3>. QED BY <2>0, <2>13, <3>1 DEF WriteGptBootCode, Step, Window
  <2>14. CASE Sync
    BY <2>0, <2>14 DEF Sync, Window
  <2>15. CASE RemovePartitionNodes
    BY <2>0, <2>15 DEF RemovePartitionNodes, AfterDelete, Step, Window, Extents
  <2>16. CASE AddPartitionNodes
    <3>1. AfterAdd(TableOf(disk)) \in [1..2 -> Extents]
      BY NodeTypes, TableTypes DEF AfterAdd, Extents
    <3>. QED BY <2>0, <2>16, <3>1 DEF AddPartitionNodes, Step, Window
  <2>17. CASE WaitForPartitions
    <3>1. AfterAdd(TableOf(disk)) \in [1..2 -> Extents]
      BY NodeTypes, TableTypes DEF AfterAdd, Extents
    <3>. QED BY <2>0, <2>17, <3>1 DEF WaitForPartitions, Return, Window
  <2>18. CASE FormatPartition
    <3>1. Clobber(disk.esp, nodes[1], NoEsp) \in [at : Extents, loaded : BOOLEAN]
      BY DEF Clobber, NoEsp, Extents, DiskType
    <3>2. [at |-> nodes[1], images |-> FALSE] \in [at : Extents, images : BOOLEAN]
      OBVIOUS
    <3>3. disk' \in DiskType
      BY <2>18, <3>1, <3>2 DEF FormatPartition, DiskType
    <3>. QED BY <2>0, <2>18, <3>3 DEF FormatPartition, Step, Window
  <2>19. CASE FormatEfiPartition
    <3>1. Clobber(disk.data, nodes[2], NoData) \in [at : Extents, images : BOOLEAN]
      BY DEF Clobber, NoData, Extents, DiskType
    <3>2. [at |-> nodes[2], loaded |-> FALSE] \in [at : Extents, loaded : BOOLEAN]
      OBVIOUS
    <3>3. disk' \in DiskType
      BY <2>19, <3>1, <3>2 DEF FormatEfiPartition, DiskType
    <3>. QED BY <2>0, <2>19, <3>3 DEF FormatEfiPartition, Step, Window
  <2>20. CASE WriteEfiBootloader
    <3>1. disk' \in DiskType
      BY <2>20 DEF WriteEfiBootloader, DiskType
    <3>. QED BY <2>0, <2>20, <3>1 DEF WriteEfiBootloader, Step, Window
  <2>21. CASE ResumeAndNotify
    <3>1. AfterUpdate(TableOf(disk)) \in [1..2 -> Extents]
      BY NodeTypes, TableTypes DEF AfterUpdate, Extents
    <3>. QED BY <2>0, <2>21, <3>1 DEF ResumeAndNotify, Return
  <2>22. CASE FailInWindow
    BY <2>0, <2>22 DEF FailInWindow, Return
  <2>23. CASE Mount
    BY <2>0, <2>23 DEF Mount
  <2>24. CASE CopyImages
    <3>1. disk' \in DiskType /\ stable' \in DiskType
      BY <2>24 DEF CopyImages, DiskType
    <3>. QED BY <2>0, <2>24, <3>1 DEF CopyImages
  <2>25. CASE Kill
    <3>1. crashes' \in 0..MaxCrashes
      BY <2>25, InstallAssumption DEF Kill
    <3>. QED BY <2>0, <2>25, <3>1 DEF Kill, Return
  <2>26. CASE PowerLoss
    <3>1. PICK kept \in SUBSET Regions :
            disk' = [r \in Regions |-> IF r \in kept THEN disk[r] ELSE stable[r]]
      BY <2>26 DEF PowerLoss
    <3>2. disk' \in DiskType
      BY <3>1 DEF DiskType, Regions
    <3>3. Nodes(TableOf(disk')) \in [1..2 -> Extents]
      BY <3>2, NodeTypes, TableTypes DEF Nodes
    <3>4. crashes' \in 0..MaxCrashes
      BY <2>26, InstallAssumption DEF PowerLoss
    <3>. QED BY <2>0, <2>26, <3>2, <3>3, <3>4 DEF PowerLoss, Return
  <2>27. CASE UNCHANGED vars
    BY <2>0, <2>27 DEF vars
  <2>. QED
    BY <2>1, <2>2, <2>3, <2>4, <2>5, <2>6, <2>7, <2>8, <2>9, <2>10, <2>11, <2>12, <2>13,
       <2>14, <2>15, <2>16, <2>17, <2>18, <2>19, <2>20, <2>21, <2>22, <2>23, <2>24, <2>25,
       <2>26, <2>27 DEF Next, Process
<1>. QED BY <1>1, <1>2, PTL DEF Spec

-----------------------------------------------------------------------------
(* Nothing is written over images without -I.                              *)

\* Every layout the two writers compute is one detect_choosable recognises.
LEMMA LayoutShape ==
  ASSUME TypeOK, NEW lay \in Layouts
  PROVE  IsChoosable(lay) /\ ~Overlap(lay.p1, lay.p2) /\ lay.p2 # NoExtent
<1>1. PICK s \in Styles, m \in Reserves : lay = Layout(s, total, m)
  BY DEF Layouts
<1>2. total \in Nat /\ m \in Nat
  BY InstallAssumption DEF TypeOK
<1>3. ReserveSectors(m) \in Int
  BY <1>2, U64Assumption DEF ReserveSectors, SECTORS_PER_MIB
<1>. DEFINE x == (total - EFI_PART_SECTORS - ReserveSectors(m)) % U64
            y == (total - GPT_TAIL - EFI_PART_SECTORS - ReserveSectors(m)) % U64
<1>4. x \in Int /\ y \in Int
  BY <1>2, <1>3, U64Assumption DEF EFI_PART_SECTORS, GPT_TAIL
<1>5. AlignDown8(x) \in Int /\ AlignDown8(y) \in Int
  BY <1>4 DEF AlignDown8
<1>6. PICK p \in Int, st \in {"mbr", "gpt"} :
        lay = [style |-> st, p1 |-> Extent(2048, p - 2048), p2 |-> Extent(p, 65536)]
  BY <1>1, <1>5 DEF Layout, MbrLayout, GptLayout, CHOOSABLE_PART1_START_SECTOR, EFI_PART_SECTORS
<1>7. lay # NoLayout
  BY <1>6 DEF NoLayout
<1>. QED
  BY <1>6, <1>7 DEF IsChoosable, Overlap, EndOf, Extent, NoExtent,
                    CHOOSABLE_PART1_START_SECTOR, EFI_PART_SECTORS

\* Reachable images are on a disk that detect_choosable calls installed.
LEMMA ReachableDetected ==
  ASSUME TypeOK, ImagesReachable(disk)
  PROVE  DetectChoosable(disk) = "yes"
<1>1. TableOf(disk) \in Layouts
  BY TableTypes DEF TypeOK, ImagesReachable
<1>2. IsChoosable(TableOf(disk))
  BY <1>1, LayoutShape
<1>. QED
  BY <1>2 DEF DetectChoosable, TableOf, ImagesReachable

\* The inductive part: a run without -I that got as far as the prompt, or to
\* the first write, looks at a disk without reachable images.
Asked == pc \in {"ask", "zero"} /\ ImagesReachable(disk) => run.force

THEOREM AskedCorrect == Spec => []Asked
<1>1. Init => Asked
  BY DEF Init, Asked
<1>2. TypeOK /\ Asked /\ [Next]_vars => Asked'
  <2>. SUFFICES ASSUME TypeOK, Asked, [Next]_vars, pc' \in {"ask", "zero"},
                       ImagesReachable(disk') PROVE run'.force
    BY DEF Asked
  <2>. USE DEF Asked
  <2>1. CASE Detect
    BY <2>1, ReachableDetected DEF Detect, Return
  <2>2. CASE Answer
    BY <2>2 DEF Answer, Return
  <2>3. CASE Mount
    BY <2>3 DEF Mount
  <2>4. CASE UNCHANGED vars
    BY <2>4 DEF vars
  <2>5. CASE Start \/ SizeGuards \/ CheckUmount \/ WaitForPartitions \/ ResumeAndNotify
             \/ FailInWindow \/ CopyImages \/ Kill \/ PowerLoss \/ Sync
    BY <2>5 DEF Start, SizeGuards, CheckUmount, WaitForPartitions, ResumeAndNotify,
                FailInWindow, CopyImages, Kill, PowerLoss, Sync, Return
  <2>6. CASE ZeroSectors \/ WriteMbrSector \/ WriteMbrCore \/ WriteGptCore
             \/ WriteProtectiveMbr \/ WriteGptHeader \/ WriteGptEntries \/ WriteGptBootCode
             \/ RemovePartitionNodes \/ AddPartitionNodes \/ FormatPartition
             \/ FormatEfiPartition \/ WriteEfiBootloader
    BY <2>6 DEF ZeroSectors, WriteMbrSector, WriteMbrCore, WriteGptCore, WriteProtectiveMbr,
                WriteGptHeader, WriteGptEntries, WriteGptBootCode, RemovePartitionNodes,
                AddPartitionNodes, FormatPartition, FormatEfiPartition, WriteEfiBootloader, Step
  <2>. QED
    BY <2>1, <2>2, <2>3, <2>4, <2>5, <2>6 DEF Next, Process
<1>. QED BY <1>1, <1>2, TypeCorrect, PTL DEF Spec

\* Durable images survive every step of every run without -I up to its first
\* write, and every power loss.
THEOREM ImagesKept == Spec => ImagesLostOnlyByForce
<1>1. TypeOK /\ Asked /\ [Next]_vars =>
        [(pc \in {"idle", "zero"} \cup Before /\ ImagesReachable(disk) /\ Durable
         => ImagesReachable(disk') \/ run.force)]_vars
  <2>. SUFFICES ASSUME TypeOK, Asked, Next, pc \in {"idle", "zero"} \cup Before,
                       ImagesReachable(disk), Durable
                PROVE  ImagesReachable(disk') \/ run.force
    BY DEF vars
  <2>1. CASE pc = "zero"
    BY <2>1 DEF Asked
  <2>2. CASE CopyImages
    <3>1. TableOf(disk') = TableOf(disk)
      BY <2>2 DEF CopyImages, TableOf, TypeOK, DiskType
    <3>. QED BY <2>2, <3>1 DEF CopyImages, ImagesReachable, TypeOK, DiskType
  <2>3. CASE PowerLoss
    <3>1. PICK kept \in SUBSET Regions :
            disk' = [r \in Regions |-> IF r \in kept THEN disk[r] ELSE stable[r]]
      BY <2>3 DEF PowerLoss
    <3>2. \A r \in {"boot", "hdr", "tab", "data"} : disk'[r] = disk[r]
      BY <3>1 DEF Durable, Regions
    <3>3. disk'.boot = disk.boot /\ disk'.hdr = disk.hdr /\ disk'.tab = disk.tab
          /\ disk'.data = disk.data
      BY <3>2
    <3>. QED BY <3>3 DEF ImagesReachable, TableOf
  <2>4. CASE pc # "zero" /\ ~CopyImages /\ ~PowerLoss
    <3>1. disk' = disk
      BY <2>4 DEF Next, Process, Before, Start, SizeGuards, CheckUmount, Detect, Answer,
           ZeroSectors, WriteMbrSector, WriteMbrCore, WriteGptCore, WriteProtectiveMbr,
           WriteGptHeader, WriteGptEntries, WriteGptBootCode, Sync, RemovePartitionNodes,
           AddPartitionNodes, WaitForPartitions, FormatPartition, FormatEfiPartition,
           WriteEfiBootloader, ResumeAndNotify, FailInWindow, Mount, Kill, Step
    <3>. QED BY <3>1
  <2>. QED BY <2>1, <2>2, <2>3, <2>4
<1>. QED BY <1>1, TypeCorrect, AskedCorrect, PTL DEF Spec, ImagesLostOnlyByForce

-----------------------------------------------------------------------------
(* The tables on the disk are well-formed.                                 *)

\* Whatever the size guards let through has the room the layout needs.
RoomForAll ==
  \A t \in Sizes, m \in Reserves, s \in Styles :
    LargeEnough(t) /\ ReserveFits(t, m) =>
      /\ t < U64 /\ m * SECTORS_PER_MIB < U64
      /\ t >= RoomNeeded(s, m * SECTORS_PER_MIB)

Good(lay) == WellFormed(lay, total)

TableGood(d) == /\ d.boot.lay # NoLayout => Good(d.boot.lay)
                /\ d.tab # NoLayout => Good(d.tab)

\* The inductive invariant: a run past the guards has passed them, and every
\* layout the disk or the medium holds is well-formed, in use or not.
RoomInv ==
  /\ pc \in (Before \cup Window) \ {"guards"} \/ result = "ok"
       => LargeEnough(total) /\ ReserveFits(total, run.mib)
  /\ TableGood(disk) /\ TableGood(stable)

\* A layout computed by a run that passed the guards is well-formed and
\* leaves the reserve free.
LEMMA GuardedLayout ==
  ASSUME TypeOK, RoomForAll, LargeEnough(total), ReserveFits(total, run.mib)
  PROVE  Good(Lay) /\ EndOf(Lay.p2) + run.mib * SECTORS_PER_MIB <= total
<1>. DEFINE rs == run.mib * SECTORS_PER_MIB
<1>1. /\ total \in Nat /\ run.mib \in Nat /\ run.style \in {"mbr", "gpt"}
      /\ total \in Sizes /\ run.mib \in Reserves /\ run.style \in Styles
  BY InstallAssumption DEF TypeOK, Options
<1>2. total < U64 /\ rs < U64 /\ total >= RoomNeeded(run.style, rs)
  BY <1>1 DEF RoomForAll
<1>3. rs \in Nat
  BY <1>1 DEF SECTORS_PER_MIB
<1>4. ReserveSectors(run.mib) = rs
  BY <1>2, <1>3, U64Assumption, NoWrap DEF ReserveSectors
<1>5. Lay = IF run.style = "gpt" THEN GptLayout(total, rs) ELSE MbrLayout(total, rs)
  BY <1>4 DEF Lay, Layout
<1>. HIDE DEF rs
<1>6. WellFormed(Lay, total) /\ EndOf(Lay.p2) + rs <= total
  BY <1>1, <1>2, <1>3, <1>5, LayoutWellFormed
<1>. QED BY <1>6 DEF Good, rs

THEOREM RoomCorrect == ASSUME RoomForAll PROVE Spec => []RoomInv
<1>1. Init => RoomInv
  <2>. SUFFICES ASSUME Init PROVE RoomInv
    OBVIOUS
  <2>1. PICK k \in Foreign : disk = ForeignDisk(k)
    BY DEF Init
  <2>. QED BY <2>1 DEF Init, RoomInv, TableGood, ForeignDisk, BootSector, Before, Window
<1>2. TypeOK /\ RoomInv /\ [Next]_vars => RoomInv'
  <2>. SUFFICES ASSUME TypeOK, RoomInv, [Next]_vars PROVE RoomInv'
    OBVIOUS
  <2>1. CASE PowerLoss
    <3>1. PICK kept \in SUBSET Regions :
            /\ disk' = [r \in Regions |-> IF r \in kept THEN disk[r] ELSE stable[r]]
            /\ stable' = disk' /\ pc' = "idle" /\ result' = "killed" /\ total' = total
      BY <2>1 DEF PowerLoss, Return
    <3>2. disk'.boot \in {disk.boot, stable.boot} /\ disk'.tab \in {disk.tab, stable.tab}
      BY <3>1 DEF Regions
    <3>. QED BY <3>1, <3>2 DEF RoomInv, TableGood, Good, Before, Window
  <2>2. CASE WriteMbrSector
    <3>1. Good(Lay)
      BY <2>2, GuardedLayout, RoomForAll DEF WriteMbrSector, Step, RoomInv, Window, Before
    <3>2. disk'.boot.lay = Lay /\ disk'.tab = disk.tab
      BY <2>2 DEF WriteMbrSector, BootSector, TypeOK, DiskType
    <3>. QED BY <2>2, <3>1, <3>2 DEF WriteMbrSector, Step, RoomInv, TableGood, Good, Window, Before
  <2>3. CASE WriteGptEntries
    <3>1. Good(Lay)
      BY <2>3, GuardedLayout, RoomForAll DEF WriteGptEntries, Step, RoomInv, Window, Before
    <3>2. disk'.boot.lay = disk.boot.lay /\ disk'.tab = Lay
      BY <2>3 DEF WriteGptEntries, TypeOK, DiskType
    <3>. QED BY <2>3, <3>1, <3>2 DEF WriteGptEntries, Step, RoomInv, TableGood, Good, Window, Before
  <2>4. CASE ZeroSectors \/ WriteMbrCore \/ WriteGptCore \/ WriteProtectiveMbr \/ WriteGptHeader
             \/ WriteGptBootCode \/ RemovePartitionNodes \/ AddPartitionNodes
             \/ FormatPartition \/ FormatEfiPartition \/ WriteEfiBootloader
    <3>1. /\ total' = total /\ stable' = stable /\ run' = run /\ result' = result
          /\ pc \in Window /\ pc' \in Window
      BY <2>4 DEF ZeroSectors, WriteMbrCore, WriteGptCore, WriteProtectiveMbr, WriteGptHeader,
           WriteGptBootCode, RemovePartitionNodes, AddPartitionNodes, FormatPartition,
           FormatEfiPartition, WriteEfiBootloader, Step, Window
    <3>2. CASE ZeroSectors
      BY <2>4, <3>1, <3>2 DEF ZeroSectors, BootSector, RoomInv, TableGood, Good, Window, Before,
                              TypeOK, DiskType
    <3>3. CASE WriteProtectiveMbr
      BY <2>4, <3>1, <3>3 DEF WriteProtectiveMbr, BootSector, RoomInv, TableGood, Good, Window,
                              Before, TypeOK, DiskType
    <3>4. CASE ~ZeroSectors /\ ~WriteProtectiveMbr
      <4>1. ASSUME WriteMbrCore \/ WriteGptCore \/ WriteGptHeader
            PROVE  disk'.boot.lay = disk.boot.lay /\ disk'.tab \in {disk.tab, NoLayout}
        BY <4>1 DEF WriteMbrCore, WriteGptCore, WriteGptHeader, TypeOK, DiskType
      <4>5. ASSUME WriteGptBootCode
            PROVE  disk'.boot.lay = disk.boot.lay /\ disk'.tab \in {disk.tab, NoLayout}
        BY <4>5 DEF WriteGptBootCode, TypeOK, DiskType
      <4>2. ASSUME RemovePartitionNodes \/ AddPartitionNodes
            PROVE  disk'.boot.lay = disk.boot.lay /\ disk'.tab \in {disk.tab, NoLayout}
        BY <4>2 DEF RemovePartitionNodes, AddPartitionNodes
      <4>3. ASSUME FormatPartition \/ FormatEfiPartition \/ WriteEfiBootloader
            PROVE  disk'.boot.lay = disk.boot.lay /\ disk'.tab \in {disk.tab, NoLayout}
        BY <4>3 DEF FormatPartition, FormatEfiPartition, WriteEfiBootloader, TypeOK, DiskType
      <4>4. disk'.boot.lay = disk.boot.lay /\ disk'.tab \in {disk.tab, NoLayout}
        BY <2>4, <3>4, <4>1, <4>2, <4>3, <4>5
      <4>. QED BY <3>1, <4>4 DEF RoomInv, TableGood, Good, Window, Before
    <3>. QED BY <3>2, <3>3, <3>4
  <2>5. CASE CopyImages
    <3>1. disk'.boot = disk.boot /\ disk'.tab = disk.tab
          /\ stable'.boot = stable.boot /\ stable'.tab = stable.tab
      BY <2>5 DEF CopyImages, TypeOK, DiskType
    <3>. QED BY <2>5, <3>1 DEF CopyImages, RoomInv, TableGood, Good, Window, Before
  <2>6. CASE Start \/ SizeGuards
    BY <2>6 DEF Start, SizeGuards, Return, RoomInv, TableGood, Good, Window, Before
  <2>7. CASE CheckUmount \/ Detect \/ Answer \/ Sync \/ WaitForPartitions
             \/ ResumeAndNotify \/ FailInWindow \/ Mount \/ Kill \/ UNCHANGED vars
    BY <2>7 DEF CheckUmount, Detect, Answer, Sync, WaitForPartitions, ResumeAndNotify,
         FailInWindow, Mount, Kill, vars, Return, RoomInv, TableGood, Good, Window, Before
  <2>. QED
    BY <2>1, <2>2, <2>3, <2>4, <2>5, <2>6, <2>7 DEF Next, Process
<1>. QED BY <1>1, <1>2, TypeCorrect, PTL DEF Spec

\* Every table on the disk that a reader would use is well-formed.
THEOREM TablesCorrect == ASSUME RoomForAll PROVE Spec => []TableWellFormed
<1>1. RoomInv => TableWellFormed
  BY DEF RoomInv, TableGood, Good, TableWellFormed, TableOf
<1>. QED BY <1>1, RoomCorrect, RoomForAll, PTL

\* The space asked for with -r is free on the disk whose table the run wrote.
THEOREM ReserveCorrect == ASSUME RoomForAll PROVE Spec => []ReserveHonoured
<1>1. TypeOK /\ RoomInv => ReserveHonoured
  <2>. SUFFICES ASSUME TypeOK, RoomInv, TableOf(disk) = Lay, pc \in Window \/ result = "ok"
                PROVE  EndOf(TableOf(disk).p2) + run.mib * SECTORS_PER_MIB <= total
    BY DEF ReserveHonoured
  <2>. QED BY GuardedLayout, RoomForAll DEF RoomInv, TypeOK, Before, Window
<1>. QED BY <1>1, TypeCorrect, RoomCorrect, RoomForAll, PTL

-----------------------------------------------------------------------------
(* What a reported success is worth when nothing mounts the partitions     *)
(* behind the installer's back.                                            *)

AfterTable == {"sync", "del", "add", "wait", "fmt1", "fmtefi", "writeefi", "resume"}
AfterSync == AfterTable \ {"sync"}

Installed ==
  /\ TableOf(disk) = Lay
  /\ disk.boot.kind = IF run.style = "gpt" THEN "protboot" ELSE "mbr"
  /\ disk.core = run.style

\* What the writes of the table have left on the disk so far.
Writing ==
  /\ pc = "core" /\ run.style = "mbr" => disk.boot = BootSector("mbr", Lay)
  /\ pc \in {"pmbr", "hdr", "tab"} => run.style = "gpt"
  /\ pc \in {"pmbr", "hdr", "tab", "boot"} /\ run.style = "gpt" => disk.core = "gpt"
  /\ pc \in {"hdr", "tab", "boot"} /\ run.style = "gpt" => disk.boot.kind = "prot"
  /\ pc \in {"tab", "boot"} /\ run.style = "gpt" => disk.hdr = "gpt"
  /\ pc = "boot" /\ run.style = "gpt" => disk.tab = Lay

\* What the later steps, which go through the kernel's nodes, find and leave.
Finishing ==
  /\ pc \in AfterTable => Installed
  /\ pc \in AfterSync => \A r \in {"boot", "hdr", "tab", "core"} : stable[r] = disk[r]
  /\ pc = "add" => \A i \in 1..2 : nodes[i] = NoExtent
  /\ pc = "wait" => \A i \in 1..2 : nodes[i] \in {NoExtent, NodeOf(Lay, i)}
  /\ pc \in {"fmt1", "fmtefi", "writeefi", "resume"} =>
        nodes[1] = Lay.p1 /\ nodes[2] = Lay.p2
  /\ pc \in {"fmtefi", "writeefi", "resume"} => disk.data.at = Lay.p1
  /\ pc \in {"writeefi", "resume"} => disk.esp.at = Lay.p2
  /\ pc = "resume" => disk.esp.loaded

\* The inductive invariant.
BootInv == Writing /\ Finishing /\ SuccessMeansBootable /\ mounted = {}

\* A node added by partx -a where there was none is the table's partition.
LEMMA AddedNodes ==
  ASSUME NEW lay \in Layouts \cup {NoLayout}, NEW i \in 1..2,
         nodes[1] \in {NoExtent, NodeOf(lay, 1)}, nodes[2] \in {NoExtent, NodeOf(lay, 2)}
  PROVE  AfterAdd(lay)[i] \in {NoExtent, NodeOf(lay, i)}
  BY DEF AfterAdd

LEMMA NonEmptyNode ==
  ASSUME TypeOK, NEW lay, NEW i \in 1..2, NodeOf(lay, i) # NoExtent
  PROVE  NodeOf(lay, i) = IF i = 1 THEN lay.p1 ELSE lay.p2
  BY DEF NodeOf

THEOREM BootCorrect == ASSUME Automounter = FALSE PROVE Spec => []BootInv
<1>1. Init => BootInv
  BY DEF Init, BootInv, Writing, Finishing, SuccessMeansBootable, AfterTable, AfterSync
<1>2. TypeOK /\ BootInv /\ [Next]_vars => BootInv'
  <2>. SUFFICES ASSUME TypeOK, BootInv, [Next]_vars PROVE BootInv'
    OBVIOUS
  <2>. USE DEF BootInv
  <2>t. run.style \in {"mbr", "gpt"}
    BY InstallAssumption DEF TypeOK, Options
  <2>l. Lay \in Layouts /\ ~Overlap(Lay.p1, Lay.p2) /\ Lay # NoLayout
    BY LayType, LayoutShape DEF IsChoosable
  <2>d. /\ disk.boot = [kind |-> disk.boot.kind, lay |-> disk.boot.lay]
        /\ disk = [boot |-> disk.boot, hdr |-> disk.hdr, tab |-> disk.tab,
                   core |-> disk.core, data |-> disk.data, esp |-> disk.esp]
        /\ disk.esp = [at |-> disk.esp.at, loaded |-> disk.esp.loaded]
        /\ disk.data = [at |-> disk.data.at, images |-> disk.data.images]
    BY DEF TypeOK, DiskType
  <2>1. CASE Start
    BY <2>1 DEF Start, Writing, Finishing, SuccessMeansBootable, AfterTable, AfterSync
  <2>2. CASE SizeGuards \/ CheckUmount \/ Detect \/ Answer \/ FailInWindow \/ Kill \/ PowerLoss
    <3>1. /\ mounted' = {}
          /\ pc' \in {"idle", "zero"} \cup Before
      BY <2>2 DEF SizeGuards, CheckUmount, Detect, Answer, FailInWindow, Kill, PowerLoss,
                  Return, Before
    <3>2. pc' = "idle" => result' # "ok"
      BY <2>2 DEF SizeGuards, CheckUmount, Detect, Answer, FailInWindow, Kill, PowerLoss, Return
    <3>. QED
      BY <3>1, <3>2 DEF Writing, Finishing, SuccessMeansBootable, AfterTable, AfterSync, Before
  <2>3. CASE ZeroSectors
    BY <2>3, <2>t DEF ZeroSectors, Step, Writing, Finishing, SuccessMeansBootable,
                      AfterTable, AfterSync
  <2>4. CASE WriteMbrSector
    BY <2>4, <2>d DEF WriteMbrSector, Step, Writing, Finishing, SuccessMeansBootable,
                 AfterTable, AfterSync, Lay
  <2>5. CASE WriteMbrCore
    <3>1. disk'.boot = BootSector("mbr", Lay) /\ disk'.core = "mbr" /\ Lay' = Lay
      BY <2>5, <2>d DEF WriteMbrCore, Step, Writing, Lay
    <3>2. Installed'
      BY <2>5, <3>1 DEF WriteMbrCore, Step, Installed, TableOf, BootSector
    <3>. QED BY <2>5, <3>2 DEF WriteMbrCore, Step, Writing, Finishing, SuccessMeansBootable,
                               AfterTable, AfterSync
  <2>6. CASE WriteGptCore \/ WriteProtectiveMbr \/ WriteGptHeader \/ WriteGptEntries
    <3>1. Lay' = Lay
      BY <2>6 DEF WriteGptCore, WriteProtectiveMbr, WriteGptHeader, WriteGptEntries, Step, Lay
    <3>. QED BY <2>6, <2>d, <3>1 DEF WriteGptCore, WriteProtectiveMbr, WriteGptHeader,
         WriteGptEntries, BootSector, Step, Writing, Finishing, SuccessMeansBootable,
         AfterTable, AfterSync
  <2>7. CASE WriteGptBootCode
    <3>1. /\ disk'.boot.kind = "protboot" /\ disk'.core = "gpt" /\ disk'.hdr = "gpt"
          /\ disk'.tab = Lay /\ Lay' = Lay /\ run' = run
      BY <2>7, <2>d DEF WriteGptBootCode, Step, Writing, Lay
    <3>2. Installed'
      BY <2>7, <3>1 DEF WriteGptBootCode, Step, Installed, TableOf
    <3>. QED BY <2>7, <3>2 DEF WriteGptBootCode, Step, Writing, Finishing, SuccessMeansBootable,
                               AfterTable, AfterSync
  <2>8. CASE Sync
    <3>1. Lay' = Lay /\ (Installed => Installed')
      BY <2>8 DEF Sync, Lay, Installed
    <3>. QED BY <2>8, <3>1 DEF Sync, Writing, Finishing, SuccessMeansBootable,
                               AfterTable, AfterSync
  <2>9. CASE RemovePartitionNodes
    <3>1. Lay' = Lay /\ (Installed => Installed') /\ \A i \in 1..2 : nodes'[i] = NoExtent
      BY <2>9 DEF RemovePartitionNodes, AfterDelete, Step, Lay, Installed
    <3>. QED BY <2>9, <3>1 DEF RemovePartitionNodes, Step, Writing, Finishing,
                               SuccessMeansBootable, AfterTable, AfterSync
  <2>10. CASE AddPartitionNodes
    <3>1. Lay' = Lay /\ Installed /\ Installed' /\ TableOf(disk) = Lay
      BY <2>10 DEF AddPartitionNodes, Step, Lay, Installed, Finishing, AfterTable
    <3>2. \A i \in 1..2 : nodes'[i] \in {NoExtent, NodeOf(Lay, i)}
      BY <2>10, <3>1, <2>l, AddedNodes DEF AddPartitionNodes, Step, Finishing
    <3>. QED BY <2>10, <3>1, <3>2 DEF AddPartitionNodes, Step, Writing, Finishing,
                               SuccessMeansBootable, AfterTable, AfterSync
  <2>11. CASE WaitForPartitions
    <3>1. Lay' = Lay /\ Installed /\ Installed' /\ TableOf(disk) = Lay
      BY <2>11 DEF WaitForPartitions, Lay, Installed, Finishing, AfterTable
    <3>2. \A i \in 1..2 : nodes'[i] \in {NoExtent, NodeOf(Lay, i)}
      BY <2>11, <3>1, <2>l, AddedNodes DEF WaitForPartitions, Finishing
    <3>3. CASE pc' = "fmt1"
      <4>1. nodes'[1] = Lay.p1 /\ nodes'[2] = Lay.p2
        BY <2>11, <3>2, <3>3, NonEmptyNode DEF WaitForPartitions, Return
      <4>. QED BY <2>11, <3>1, <3>3, <4>1 DEF WaitForPartitions, Writing, Finishing,
                                SuccessMeansBootable, AfterTable, AfterSync
    <3>4. CASE pc' # "fmt1"
      BY <2>11, <3>4 DEF WaitForPartitions, Return, Writing, Finishing,
                         SuccessMeansBootable, AfterTable, AfterSync
    <3>. QED BY <3>3, <3>4
  <2>12. CASE FormatPartition \/ FormatEfiPartition \/ WriteEfiBootloader
    <3>1. /\ Lay' = Lay /\ nodes' = nodes /\ mounted' = {}
          /\ nodes[1] = Lay.p1 /\ nodes[2] = Lay.p2
          /\ disk'.boot = disk.boot /\ disk'.hdr = disk.hdr /\ disk'.tab = disk.tab
          /\ disk'.core = disk.core
      BY <2>12, <2>d DEF FormatPartition, FormatEfiPartition, WriteEfiBootloader, Step, Lay,
                         Finishing
    <3>2. Installed /\ Installed'
      BY <2>12, <3>1 DEF FormatPartition, FormatEfiPartition, WriteEfiBootloader, Step,
                         Installed, TableOf, Finishing, AfterTable
    <3>3. \A r \in {"boot", "hdr", "tab", "core"} : stable'[r] = disk'[r]
      BY <2>12, <3>1 DEF FormatPartition, FormatEfiPartition, WriteEfiBootloader, Step,
                         Finishing, AfterSync, AfterTable
    <3>4. CASE FormatPartition
      <4>1. disk'.data.at = Lay.p1
        BY <3>1, <3>4, <2>d DEF FormatPartition
      <4>. QED BY <3>1, <3>2, <3>3, <3>4, <4>1 DEF FormatPartition, Step, Writing, Finishing,
                  SuccessMeansBootable, AfterTable, AfterSync
    <3>5. CASE FormatEfiPartition
      <4>1. disk.data.at = Lay.p1
        BY <3>5 DEF FormatEfiPartition, Step, Finishing
      <4>2. Clobber(disk.data, nodes[2], NoData) = disk.data
        BY <4>1, <3>1, <2>l DEF Clobber
      <4>3. disk'.data.at = Lay.p1 /\ disk'.esp.at = Lay.p2
        BY <3>1, <3>5, <4>1, <4>2, <2>d DEF FormatEfiPartition
      <4>. QED BY <3>1, <3>2, <3>3, <3>5, <4>3 DEF FormatEfiPartition, Step, Writing, Finishing,
                  SuccessMeansBootable, AfterTable, AfterSync
    <3>6. CASE WriteEfiBootloader
      <4>1. disk.data.at = Lay.p1 /\ disk.esp.at = Lay.p2
        BY <3>6 DEF WriteEfiBootloader, Step, Finishing
      <4>2. disk'.data.at = Lay.p1 /\ disk'.esp.at = Lay.p2 /\ disk'.esp.loaded
        BY <3>6, <4>1, <2>d DEF WriteEfiBootloader
      <4>. QED BY <3>1, <3>2, <3>3, <3>6, <4>2 DEF WriteEfiBootloader, Step, Writing, Finishing,
                  SuccessMeansBootable, AfterTable, AfterSync
    <3>. QED BY <2>12, <3>4, <3>5, <3>6
  <2>13. CASE ResumeAndNotify
    <3>1. Lay' = Lay /\ Installed /\ Installed' /\ TableOf(disk') = Lay'
      BY <2>13 DEF ResumeAndNotify, Lay, Installed, Finishing, AfterTable
    <3>2. /\ disk.data.at = Lay.p1 /\ disk.esp = [at |-> Lay.p2, loaded |-> TRUE]
          /\ disk' = disk /\ stable' = disk /\ run' = run /\ pc' = "idle" /\ mounted' = {}
      BY <2>13, <2>d DEF ResumeAndNotify, Return, Finishing, TypeOK, DiskType
    <3>3. SuccessMeansBootable'
      BY <3>1, <3>2 DEF SuccessMeansBootable, Installed
    <3>. QED BY <3>2, <3>3 DEF Writing, Finishing, AfterTable, AfterSync
  <2>14. CASE Mount
    BY <2>14, Automounter = FALSE DEF Mount
  <2>15. CASE CopyImages
    <3>1. /\ disk'.boot = disk.boot /\ disk'.hdr = disk.hdr /\ disk'.tab = disk.tab
          /\ disk'.core = disk.core /\ disk'.esp = disk.esp /\ disk'.data.at = disk.data.at
          /\ Lay' = Lay /\ run' = run /\ pc' = pc /\ pc = "idle" /\ result = "ok"
          /\ mounted' = mounted
      BY <2>15, <2>d DEF CopyImages, Lay
    <3>2. TableOf(disk') = TableOf(disk)
      BY <3>1 DEF TableOf
    <3>3. \A r \in Regions \ {"data"} : stable'[r] = disk'[r]
      <4>1. \A r \in Regions \ {"data"} : disk'[r] = disk[r] /\ stable'[r] = stable[r]
        BY <2>15, <2>d DEF CopyImages, Regions, TypeOK, DiskType
      <4>. QED BY <3>1, <4>1 DEF SuccessMeansBootable
    <3>4. SuccessMeansBootable'
      BY <3>1, <3>2, <3>3 DEF SuccessMeansBootable
    <3>. QED BY <3>1, <3>4 DEF Writing, Finishing, AfterTable, AfterSync
  <2>16. CASE UNCHANGED vars
    <3>1. Lay' = Lay /\ (Installed => Installed')
      BY <2>16 DEF vars, Lay, Installed
    <3>. QED BY <2>16, <3>1 DEF vars, Writing, Finishing, SuccessMeansBootable
  <2>. QED
    BY <2>1, <2>2, <2>3, <2>4, <2>5, <2>6, <2>7, <2>8, <2>9, <2>10, <2>11, <2>12, <2>13,
       <2>14, <2>15, <2>16 DEF Next, Process
<1>. QED BY <1>1, <1>2, TypeCorrect, PTL DEF Spec

\* With no automounter, whatever the sizes, styles and reserves and however
\* many runs were interrupted before, a reported success means a bootable disk.
THEOREM SuccessCorrect == ASSUME Automounter = FALSE PROVE Spec => []SuccessMeansBootable
<1>1. BootInv => SuccessMeansBootable
  BY DEF BootInv
<1>. QED BY <1>1, BootCorrect, Automounter = FALSE, PTL

-----------------------------------------------------------------------------
(* The window.                                                             *)

LEMMA ListsAreSequences == Lists \subseteq Seq(Paths)
  BY DEF Lists

Kinds == Operations \cup {"refresh", "select", "force", "loaded", "status"}

Messages == [kind : Kinds, path : Choices, list : Seq(Paths), force : BOOLEAN, id : Nat]

\* The lists in the window, on their way to it and in the world are lists.
IndexInv == /\ world \in Seq(Paths) /\ disks \in Seq(Paths)
            /\ inbox \in Seq(Messages)
            /\ force \in BOOLEAN /\ clicks \in Nat
            /\ IndexInRange

LEMMA InitIndex == GuiInit => IndexInv
<1> SUFFICES ASSUME GuiInit PROVE IndexInv
  OBVIOUS
<1>1. world \in Seq(Paths)
  BY ListsAreSequences DEF GuiInit
<1>2. disks \in Seq(Paths) /\ inbox \in Seq(Messages) /\ selected \in 0..Len(disks)
  BY DEF GuiInit
<1>3. force \in BOOLEAN /\ clicks \in Nat
  BY DEF GuiInit
<1>. QED
  BY <1>1, <1>2, <1>3 DEF IndexInv, IndexInRange

LEMMA HeadOfInbox ==
  ASSUME IndexInv, inbox # <<>>
  PROVE  /\ Head(inbox) \in Messages
         /\ Tail(inbox) \in Seq(Messages)
  BY DEF IndexInv

LEMMA ShownIsAChoice == IndexInv => Shown \in Choices
  BY DEF IndexInv, IndexInRange, Shown, Choices

LEMMA PostKeepsIndex ==
  ASSUME IndexInv, NEW kind \in Kinds, NEW path \in Choices, Post(Message(kind, path, <<>>))
  PROVE  IndexInv'
<1>1. Message(kind, path, <<>>) \in Messages
  BY DEF Message, Messages, IndexInv
<1>2. inbox' = Append(inbox, Message(kind, path, <<>>)) /\ clicks' = clicks + 1
      /\ UNCHANGED <<world, disks, selected, force>>
  BY DEF Post
<1>. QED
  BY <1>1, <1>2 DEF IndexInv, IndexInRange

LEMMA NextIndex == IndexInv /\ [GuiNext]_guiVars => IndexInv'
<1> SUFFICES ASSUME IndexInv, [GuiNext]_guiVars PROVE IndexInv'
  OBVIOUS
<1>1. CASE PressRefresh
  BY <1>1, PostKeepsIndex DEF PressRefresh, Choices, Kinds
<1>2. CASE PressOperation
  BY <1>2, PostKeepsIndex, ShownIsAChoice DEF PressOperation, Kinds
<1>3. CASE PickDisk
  <2>1. PICK i \in DOMAIN disks : Post(Message("select", disks[i], <<>>))
    BY <1>3 DEF PickDisk
  <2>2. disks[i] \in Choices
    BY <2>1 DEF IndexInv, Choices
  <2>. QED
    BY <2>1, <2>2, PostKeepsIndex DEF Kinds
<1>4. CASE PressForce
  BY <1>4, PostKeepsIndex DEF PressForce, Choices, Kinds
<1>5. CASE RefreshDisks
  BY <1>5, HeadOfInbox DEF RefreshDisks, Take, IndexInv, IndexInRange
<1>6. CASE DisksLoaded
  <2>1. disks' \in Seq(Paths)
    BY <1>6, HeadOfInbox DEF DisksLoaded, Take, Messages
  <2>2. selected' \in 0..Len(disks')
    BY <1>6, <2>1 DEF DisksLoaded, IndexAfter
  <2>. QED
    BY <1>6, <2>1, <2>2, HeadOfInbox DEF DisksLoaded, Take, IndexInv, IndexInRange
<1>7. CASE SelectDisk
  <2>1. selected' \in 0..Len(disks)
    BY <1>7 DEF SelectDisk, IndexInv
  <2>. QED
    BY <1>7, <2>1, HeadOfInbox DEF SelectDisk, Take, IndexInv, IndexInRange
<1>8. CASE ToggleForce
  BY <1>8, HeadOfInbox DEF ToggleForce, Take, IndexInv, IndexInRange
<1>9. CASE OperationClicked
  BY <1>9, HeadOfInbox DEF OperationClicked, Take, IndexInv, IndexInRange
<1>10. CASE StatusMessage
  BY <1>10, HeadOfInbox DEF StatusMessage, Take, IndexInv, IndexInRange
<1>11. CASE FinishTask
  <2>1. Message("loaded", Nobody, world) \in Messages
    BY DEF Message, Messages, Kinds, Choices, IndexInv
  <2>2. Message("status", Nobody, <<>>) \in Messages
    BY DEF Message, Messages, Kinds, Choices, IndexInv
  <2>3. UNCHANGED <<world, disks, selected, force, clicks>>
        /\ (\/ inbox' = Append(inbox, Message("loaded", Nobody, world))
            \/ inbox' = Append(inbox, Message("status", Nobody, <<>>)))
    BY <1>11 DEF FinishTask
  <2>4. PICK m \in Messages : inbox' = Append(inbox, m)
    BY <2>1, <2>2, <2>3, Zenon
  <2>5. inbox' \in Seq(Messages)
    BY <2>4 DEF IndexInv
  <2>. QED
    BY <2>3, <2>5 DEF IndexInv, IndexInRange
<1>12. CASE Replug
  BY <1>12, ListsAreSequences DEF Replug, IndexInv, IndexInRange
<1>13. CASE UNCHANGED guiVars
  BY <1>13 DEF guiVars, IndexInv, IndexInRange
<1>. QED
  BY <1>1, <1>2, <1>3, <1>4, <1>5, <1>6, <1>7, <1>8, <1>9, <1>10, <1>11, <1>12, <1>13
     DEF GuiNext, Update

\* disks[index] in `update' never panics: the index stays in the list through
\* every order of refreshes, selections and disks that go away.
THEOREM IndexCorrect == GuiSpec => []IndexInRange
<1>1. IndexInv => IndexInRange
  BY DEF IndexInv
<1>. QED
  BY InitIndex, NextIndex, <1>1, PTL DEF GuiSpec

-----------------------------------------------------------------------------
(* The user who waits.                                                     *)

ClickKinds == Operations \cup {"refresh", "select", "force"}

\* Nothing is under way; a click is; a task is; a task's answer is.
Idle == inbox = <<>> /\ tasks = {} /\ ~loading

AskedFor == /\ tasks = {} /\ ~loading
            /\ \E m : /\ inbox = <<m>> /\ m.kind \in ClickKinds
                      /\ m.kind \in Operations => m.path = Shown /\ m.force = force

AsShown(t) == t.kind \in Operations => t.path = t.shown.path /\ t.force = t.shown.force

Running == inbox = <<>> /\ loading /\ \E t : tasks = {t} /\ AsShown(t)

Told == /\ tasks = {} /\ loading
        /\ \E m : inbox = <<m>> /\ m.kind \in {"loaded", "status"}

PatientInv == patient => Idle \/ AskedFor \/ Running \/ Told

\* This user clicks only when nothing is under way.
LEMMA PatientPost ==
  ASSUME patient, PatientInv, NEW kind \in ClickKinds, NEW path, Post(Message(kind, path, <<>>)),
         kind \in Operations => path = Shown
  PROVE  AskedFor'
<1> DEFINE m == Message(kind, path, <<>>)
<1>1. Idle
  BY DEF PatientInv, Idle, AskedFor, Running, Told, Post
<1>2. inbox' = <<m>> /\ UNCHANGED <<disks, selected, force, loading, tasks>>
  BY <1>1 DEF Idle, Post
<1>3. m.kind = kind /\ m.path = path /\ m.force = force
  BY DEF Message
<1>4. Shown' = Shown
  BY <1>2 DEF Shown
<1> HIDE DEF m
<1>. QED
  BY <1>1, <1>2, <1>3, <1>4 DEF AskedFor, Idle

\* `update' takes the only message there is.
LEMMA PatientTake ==
  ASSUME patient, PatientInv, NEW kinds, kinds \subseteq ClickKinds, Take(kinds)
  PROVE  /\ inbox' = <<>> /\ tasks = {} /\ ~loading
         /\ Head(inbox).kind \in Operations =>
              Head(inbox).path = Shown /\ Head(inbox).force = force
<1>1. inbox # <<>> /\ Head(inbox).kind \in kinds /\ inbox' = Tail(inbox)
  BY DEF Take
<1>2. AskedFor
  BY <1>1 DEF PatientInv, Idle, AskedFor, Running, Told, ClickKinds, Operations
<1>. QED
  BY <1>1, <1>2 DEF AskedFor

LEMMA PatientAnswer ==
  ASSUME patient, PatientInv, NEW kind \in {"loaded", "status"}, Take({kind})
  PROVE  inbox' = <<>> /\ tasks = {}
<1>1. inbox # <<>> /\ Head(inbox).kind = kind /\ inbox' = Tail(inbox)
  BY DEF Take
<1>2. Told
  BY <1>1 DEF PatientInv, Idle, AskedFor, Running, Told, ClickKinds, Operations
<1>. QED
  BY <1>1, <1>2 DEF Told

\* A task started when there is none is the only one.
LEMMA SpawnOne ==
  ASSUME NEW path, NEW shown, Spawn(path, shown), tasks = {}
  PROVE  \E t : /\ tasks' = {t} /\ t.kind = Head(inbox).kind
               /\ t.path = path /\ t.force = force /\ t.shown = shown
<1> DEFINE t == [kind |-> Head(inbox).kind, id |-> Head(inbox).id, path |-> path,
                 force |-> force, shown |-> shown]
<1>1. tasks' = {t}
  BY Zenon DEF Spawn
<1>2. t.kind = Head(inbox).kind /\ t.path = path /\ t.force = force /\ t.shown = shown
  OBVIOUS
<1> HIDE DEF t
<1>. QED
  BY <1>1, <1>2

LEMMA NextPatient == PatientInv /\ [GuiNext]_guiVars => PatientInv'
<1> SUFFICES ASSUME PatientInv, [GuiNext]_guiVars, patient' PROVE (Idle \/ AskedFor \/ Running \/ Told)'
  BY DEF PatientInv
<1>0. patient
  BY DEF GuiNext, guiVars, PressRefresh, PressOperation, PickDisk, PressForce, Post, Update, Take,
         RefreshDisks, DisksLoaded, SelectDisk, ToggleForce, OperationClicked, StatusMessage,
         FinishTask, Replug
<1>1. CASE PressRefresh
  BY <1>0, <1>1, PatientPost DEF PressRefresh, ClickKinds, Operations
<1>2. CASE PressOperation
  BY <1>0, <1>2, PatientPost DEF PressOperation, ClickKinds
<1>3. CASE PickDisk
  BY <1>0, <1>3, PatientPost DEF PickDisk, ClickKinds, Operations
<1>4. CASE PressForce
  BY <1>0, <1>4, PatientPost DEF PressForce, ClickKinds, Operations
<1>5. CASE RefreshDisks
  <2>1. inbox' = <<>> /\ tasks = {}
    BY <1>0, <1>5, PatientTake DEF RefreshDisks, ClickKinds
  <2>2. PICK t : tasks' = {t} /\ t.kind = "refresh"
    <3>1. PICK t : tasks' = {t} /\ t.kind = Head(inbox).kind
      BY <1>5, <2>1, SpawnOne, Zenon DEF RefreshDisks
    <3>. QED
      BY <1>5, <3>1 DEF RefreshDisks, Take
  <2>. QED
    BY <1>5, <2>1, <2>2 DEF RefreshDisks, Running, AsShown, Operations
<1>6. CASE DisksLoaded
  BY <1>0, <1>6, PatientAnswer DEF DisksLoaded, Idle
<1>7. CASE SelectDisk
  BY <1>0, <1>7, PatientTake DEF SelectDisk, Idle, ClickKinds
<1>8. CASE ToggleForce
  BY <1>0, <1>8, PatientTake DEF ToggleForce, Idle, ClickKinds
<1>9. CASE OperationClicked
  <2>1. /\ inbox' = <<>> /\ tasks = {} /\ ~loading
        /\ Head(inbox).path = Shown /\ Head(inbox).force = force
    BY <1>0, <1>9, PatientTake DEF OperationClicked, Take, ClickKinds
  <2>2. CASE selected = 0
    BY <1>9, <2>1, <2>2 DEF OperationClicked, Idle
  <2>3. CASE selected # 0
    <3>1. Target = Shown /\ loading' = TRUE
      BY <1>9, <2>3 DEF OperationClicked, Target, Shown, Busy
    <3>2. PICK t : tasks' = {t} /\ t.path = Target /\ t.force = force
                   /\ t.shown.path = Head(inbox).path /\ t.shown.force = Head(inbox).force
      <4> DEFINE shown == [path |-> Head(inbox).path, force |-> Head(inbox).force]
      <4>1. Spawn(Target, shown)
        BY <1>9, <2>3 DEF OperationClicked
      <4>2. shown.path = Head(inbox).path /\ shown.force = Head(inbox).force
        OBVIOUS
      <4> HIDE DEF shown
      <4>3. PICK t : tasks' = {t} /\ t.path = Target /\ t.force = force /\ t.shown = shown
        BY <2>1, <4>1, SpawnOne
      <4>. QED
        BY <4>2, <4>3
    <3>. QED
      BY <2>1, <3>1, <3>2 DEF Running, AsShown
  <2>. QED
    BY <2>2, <2>3
<1>10. CASE StatusMessage
  BY <1>0, <1>10, PatientAnswer DEF StatusMessage, Idle
<1>11. CASE FinishTask
  <2>1. PICK t \in tasks :
          /\ tasks' = tasks \ {t}
          /\ inbox' = Append(inbox, IF t.kind = "refresh" THEN Message("loaded", Nobody, world)
                                                          ELSE Message("status", Nobody, <<>>))
          /\ loading' = loading
    BY <1>11 DEF FinishTask
  <2>2. Running
    BY <1>0, <2>1 DEF PatientInv, Idle, AskedFor, Told
  <2>3. tasks' = {} /\ loading'
    BY <2>1, <2>2 DEF Running
  <2>4. PICK m : inbox' = <<m>> /\ m.kind \in {"loaded", "status"}
    BY <2>1, <2>2 DEF Running, Message
  <2>. QED
    BY <2>3, <2>4 DEF Told
<1>12. CASE Replug
  <2>1. UNCHANGED <<inbox, tasks, loading, disks, selected, force>>
    BY <1>12 DEF Replug
  <2>. QED
    BY <1>0, <2>1 DEF PatientInv, Idle, AskedFor, Running, Told, Shown
<1>13. CASE UNCHANGED guiVars
  BY <1>0, <1>13 DEF guiVars, PatientInv, Idle, AskedFor, Running, Told, Shown
<1>. QED
  BY <1>1, <1>2, <1>3, <1>4, <1>5, <1>6, <1>7, <1>8, <1>9, <1>10, <1>11, <1>12, <1>13
     DEF GuiNext, Update

LEMMA PatientAlways == GuiSpec => []PatientInv
<1>1. GuiInit => PatientInv
  BY DEF GuiInit, PatientInv, Idle
<1>. QED
  BY <1>1, NextPatient, PTL DEF GuiSpec

\* A user who waits for the window to settle never has two scans or operations
\* running, and the buttons are disabled while one runs.
THEOREM OneAtATimeCorrect == GuiSpec => []OneAtATime
<1>1. PatientInv => OneAtATime
  <2> SUFFICES ASSUME PatientInv, patient PROVE Cardinality(tasks) <= 1 /\ (tasks # {} => loading)
    BY DEF OneAtATime
  <2>1. CASE tasks = {}
    BY <2>1, FS_EmptySet
  <2>2. CASE Running
    <3>1. PICK t : tasks = {t}
      BY <2>2 DEF Running
    <3>2. Cardinality(tasks) = 1
      BY <3>1, FS_Singleton
    <3>. QED
      BY <2>2, <3>2 DEF Running
  <2>. QED
    BY <2>1, <2>2 DEF PatientInv, Idle, AskedFor, Told
<1>. QED
  BY <1>1, PatientAlways, PTL

\* For that user every operation works on the disk and with the options that
\* the window showed.
THEOREM TargetCorrect == GuiSpec => []TargetWasShown
<1>1. PatientInv => TargetWasShown
  BY DEF PatientInv, Idle, AskedFor, Running, Told, AsShown, TargetWasShown
<1>. QED
  BY <1>1, PatientAlways, PTL
=============================================================================
