------------------------- MODULE NonDestructiveProofs -------------------------
(***************************************************************************)
(* The user's filesystem survives non_destructive_install, for every disk; *)
(* where slot 2 is free so do the other partitions, and success means a    *)
(* disk that boots.                                                        *)
(***************************************************************************)
EXTENDS NonDestructive, TLAPS

\* A number below the modulus is its own remainder: no wrap-around.
LEMMA NoWrap ==
  ASSUME NEW x \in Nat, NEW u \in Nat, x < u
  PROVE  x % u = x
  BY Z3

-----------------------------------------------------------------------------
(* The inductive invariant.                                                *)

\* Where shrinking would put the EFI partition, by the kernel's node.
ShrinkTo == align_to_4k(EndOf(nodes[1]) - EFI_PART_SECTORS)

\* The filesystem fits in partition 1 as the table and as the kernel see it;
\* the kernel may still see the partition of before an interrupted run, so the
\* table is never smaller than what that node would be shrunk to; and the
\* other partitions come behind it.
Geometry ==
  /\ table[1].start = d.table[1].start /\ nodes[1].start = d.table[1].start
  /\ fs > 0 /\ fs <= table[1].count /\ fs <= nodes[1].count
  /\ ShrinkTo <= EndOf(table[1])
  /\ EndOf(table[1]) <= d.total /\ EndOf(nodes[1]) <= d.total
  /\ \A i \in 2..4 : ~Empty(table[i]) => EndOf(table[1]) <= table[i].start

\* What a run under way has planned.
Planned ==
  /\ pc \in {"shrink", "stop", "table"} =>
       /\ d.table[1].start = CHOOSABLE_PART1_START_SECTOR
       /\ plan >= ShrinkTo /\ plan <= d.total /\ plan > CHOOSABLE_PART1_START_SECTOR
       /\ \A i \in 2..4 : ~Empty(table[i]) => plan <= table[i].start
  /\ pc = "shrink" => CanShrink
  /\ pc \in {"stop", "table"} => fs <= plan - CHOOSABLE_PART1_START_SECTOR
  /\ pc \in {"wait", "format"} => nodes = Nodes(table)

NoPartition == Empty(table[1]) /\ Empty(nodes[1]) /\ pc = "idle" /\ table[1].start = d.table[1].start

IInv == /\ TypeOK
        /\ d.fs > 0 => Geometry /\ Planned
        /\ d.fs = 0 => NoPartition

-----------------------------------------------------------------------------
(* The arithmetic.                                                         *)

\* Rounding up to 8 sectors, also of a negative number.
LEMMA AlignUpInt ==
  ASSUME NEW s \in Int
  PROVE  align_to_4k(s) \in Int /\ s <= align_to_4k(s) /\ align_to_4k(s) < s + 8
  BY DEF align_to_4k

\* A filesystem resized by either tool to 32 MiB less than a partition of at
\* least 33 MiB is not empty and leaves 32 MiB of the partition free.
LEMMA ResizedFits ==
  ASSUME NEW count \in Nat, NEW kind \in {"ntfs", "ext", "other"},
         count \div SECTORS_PER_MIB > EfiMb
  PROVE  LET size == FsSectors(kind, count \div SECTORS_PER_MIB - EfiMb)
         IN  size \in Nat /\ size > 0 /\ size + EFI_PART_SECTORS <= count
<1>1. EfiMb = 32
  BY DEF EfiMb, EFI_PART_SECTORS, SECTORS_PER_MIB
<1>. DEFINE q == count \div 2048
            m == q - 32
<1>2. q \in Nat /\ q * 2048 <= count /\ m \in Nat /\ m >= 1
  BY <1>1 DEF SECTORS_PER_MIB
<1>3. (m * 15625) \div 8 \in Nat /\ (m * 15625) \div 8 > 0 /\ (m * 15625) \div 8 <= m * 2048
  <2>. HIDE DEF m
  <2>. QED BY <1>2
<1>4. m * 2048 + 65536 <= count
  BY <1>2
<1>5. FsSectors(kind, m) \in Nat /\ FsSectors(kind, m) > 0 /\ FsSectors(kind, m) <= m * 2048
  BY <1>2, <1>3 DEF FsSectors, SECTORS_PER_MIB
<1>. QED BY <1>1, <1>2, <1>4, <1>5 DEF SECTORS_PER_MIB, EFI_PART_SECTORS

\* What the disk was handed over with.
LEMMA DiskFacts ==
  ASSUME d \in Disks
  PROVE  /\ d.total \in Nat /\ d.fs \in Nat /\ d.kind \in {"ntfs", "ext", "other"}
         /\ d.table \in [Slots -> ExtentType]
         /\ SoundDisk(d)
         /\ UsableEnd(d.style, d.total) <= d.total
  BY NonDestructiveAssumption DEF DiskType, UsableEnd, GPT_TAIL

-----------------------------------------------------------------------------
LEMMA InitIInv == Init => IInv
<1>. SUFFICES ASSUME Init PROVE IInv
  OBVIOUS
<1>. USE DEF Init
<1>1. TypeOK
  <2>1. d.table \in [Slots -> ExtentType] /\ d.fs \in Nat
    BY DiskFacts
  <2>2. NoEsp \in [at : ExtentType, loaded : BOOLEAN]
    BY DEF NoEsp, NoExtent, Extent, ExtentType
  <2>3. 0 \in 0..MaxRuns /\ 0 \in 0..MaxKills
    BY NonDestructiveAssumption
  <2>. QED BY <2>1, <2>2, <2>3 DEF TypeOK
<1>2. ASSUME d.fs > 0 PROVE Geometry /\ Planned
  <2>1. /\ d.table[1] \in ExtentType /\ d.total \in Nat /\ d.fs \in Nat
        /\ UsableEnd(d.style, d.total) <= d.total
    BY DiskFacts DEF Slots
  <2>2. d.fs <= d.table[1].count /\ EndOf(d.table[1]) <= d.total
    BY <2>1, DiskFacts DEF SoundDisk, Slots, EndOf, ExtentType, UsableEnd, GPT_TAIL
  <2>3. EndOf(d.table[1]) \in Int
    BY <2>1 DEF EndOf, ExtentType
  <2>4. ShrinkTo <= EndOf(table[1])
    BY <2>3, AlignUpInt DEF ShrinkTo, EFI_PART_SECTORS
  <2>5. \A i \in 2..4 : ~Empty(table[i]) => EndOf(table[1]) <= table[i].start
    BY DiskFacts DEF SoundDisk
  <2>. QED BY <1>2, <2>2, <2>4, <2>5 DEF Geometry, Planned
<1>3. ASSUME d.fs = 0 PROVE NoPartition
  BY <1>3, DiskFacts DEF SoundDisk, NoPartition
<1>. QED BY <1>1, <1>2, <1>3 DEF IInv

\* The steps that change the table, the filesystem or the kernel's nodes.
LEMMA MeasureStep == IInv /\ Measure => IInv'
<1>. SUFFICES ASSUME IInv, Measure PROVE IInv'
  OBVIOUS
<1>0. TypeOK /\ d.fs \in Nat
  BY DiskFacts DEF IInv, TypeOK
<1>1. d.fs > 0 /\ Geometry
  BY <1>0 DEF IInv, Measure, NoPartition
<1>2. /\ nodes[1] \in ExtentType /\ table[1] \in ExtentType /\ d.total \in Nat /\ fs \in Nat
      /\ \A i \in 2..4 : table[i] \in ExtentType
      /\ UsableEnd(d.style, d.total) <= d.total /\ UsableEnd(d.style, d.total) \in Int
  BY <1>0, DiskFacts DEF TypeOK, Slots, UsableEnd, GPT_TAIL
<1>3. CASE pc' = "idle"
  BY <1>0, <1>1, <1>3 DEF IInv, Measure, Return, TypeOK, Geometry, Planned, Window, ShrinkTo
<1>4. CASE pc' # "idle"
  <2>. DEFINE E == EndOf(nodes[1])
  <2>1. /\ nodes[1].start = 2048 /\ E \in Nat /\ E = 2048 + nodes[1].count /\ E > 2048 /\ plan' = Part2Start
        /\ d.table[1].start = 2048 /\ nodes[1].count > 0
    BY <1>1, <1>2, <1>4 DEF Measure, Return, Geometry, ExtentType, EndOf, CHOOSABLE_PART1_START_SECTOR
  <2>2. /\ align_to_4k(E) \in Int /\ E <= align_to_4k(E) /\ align_to_4k(E) < E + 8
        /\ ShrinkTo \in Int /\ E - 65536 <= ShrinkTo /\ ShrinkTo < E - 65536 + 8
    BY <2>1, AlignUpInt DEF ShrinkTo, EFI_PART_SECTORS
  <2>. HIDE DEF E
  <2>3. CASE EnoughFree
    <3>1. plan' = align_to_4k(E)
      BY <2>1, <2>3 DEF Part2Start, E
    <3>2. E + 65536 <= UsableEnd(d.style, d.total)
      BY <2>3 DEF EnoughFree, Limits, EFI_PART_SECTORS, E
    <3>3. \A i \in 2..4 : ~Empty(table[i]) => E + 65536 <= table[i].start
      BY <2>3 DEF EnoughFree, Limits, EFI_PART_SECTORS, E
    <3>4. plan' >= ShrinkTo /\ plan' <= d.total /\ plan' > 2048 /\ plan' \in Nat
      BY <1>2, <2>1, <2>2, <3>1, <3>2
    <3>5. \A i \in 2..4 : ~Empty(table[i]) => plan' <= table[i].start
      BY <1>2, <2>1, <2>2, <3>1, <3>3 DEF ExtentType
    <3>6. fs <= plan' - 2048
      BY <1>1, <1>2, <2>1, <2>2, <3>1 DEF Geometry, ExtentType
    <3>7. pc' = "stop" /\ UNCHANGED <<d, table, fs, nodes, result>>
      BY <1>4, <2>3 DEF Measure, Return
    <3>8. TypeOK'
      BY <1>0, <3>4, <3>7, <1>4 DEF Measure, TypeOK, Window
    <3>. QED
      BY <1>1, <2>1, <3>4, <3>5, <3>6, <3>7, <3>8
         DEF IInv, Geometry, Planned, ShrinkTo, CHOOSABLE_PART1_START_SECTOR
  <2>4. CASE ~EnoughFree
    <3>1. plan' = ShrinkTo /\ CanShrink
      BY <1>4, <2>1, <2>4 DEF Measure, Return, Part2Start, ShrinkTo, E
    <3>2. nodes[1].count >= 67584 /\ E >= 69632
      BY <2>1, <3>1, <1>2 DEF CanShrink, Part1Mb, EfiMb, SECTORS_PER_MIB, EFI_PART_SECTORS, ExtentType
    <3>3. EndOf(table[1]) \in Int /\ ShrinkTo <= EndOf(table[1]) /\ EndOf(table[1]) <= d.total
      BY <1>1, <1>2 DEF Geometry, EndOf, ExtentType
    <3>4. plan' >= ShrinkTo /\ plan' <= d.total /\ plan' > 2048 /\ plan' \in Nat
      BY <1>2, <2>1, <2>2, <3>1, <3>2, <3>3
    <3>5. \A i \in 2..4 : ~Empty(table[i]) => plan' <= table[i].start
      BY <1>1, <1>2, <2>2, <3>1, <3>3 DEF Geometry, ExtentType
    <3>6. pc' = "shrink" /\ UNCHANGED <<d, table, fs, nodes, result>>
      BY <1>4, <2>4 DEF Measure, Return
    <3>7. TypeOK'
      BY <1>0, <3>4, <3>6, <1>4 DEF Measure, TypeOK, Window
    <3>8. CanShrink'
      BY <3>1, <3>6 DEF CanShrink, Part1Mb
    <3>. QED
      BY <1>1, <2>1, <3>4, <3>5, <3>6, <3>7, <3>8
         DEF IInv, Geometry, Planned, ShrinkTo, CHOOSABLE_PART1_START_SECTOR
  <2>. QED BY <2>3, <2>4
<1>. QED BY <1>3, <1>4

LEMMA ShrinkStep == IInv /\ Shrink => IInv'
<1>. SUFFICES ASSUME IInv, Shrink PROVE IInv'
  OBVIOUS
<1>0. TypeOK /\ d.fs \in Nat
  BY DiskFacts DEF IInv, TypeOK
<1>1. d.fs > 0 /\ Geometry /\ Planned
  BY <1>0 DEF IInv, Shrink, NoPartition
<1>2. CASE pc' = "idle"
  BY <1>0, <1>1, <1>2 DEF IInv, Shrink, Return, TypeOK, Geometry, Planned, Window, ShrinkTo
<1>3. CASE pc' # "idle"
  <2>1. /\ nodes[1] \in ExtentType /\ table[1] \in ExtentType /\ d.kind \in {"ntfs", "ext", "other"}
        /\ d.table[1].start = 2048 /\ plan \in Nat /\ plan >= ShrinkTo
    BY <1>0, <1>1, DiskFacts DEF TypeOK, Slots, Shrink, Planned, CHOOSABLE_PART1_START_SECTOR
  <2>2. /\ fs' = FsSectors(d.kind, nodes[1].count \div SECTORS_PER_MIB - EfiMb)
        /\ pc' = "stop" /\ UNCHANGED <<d, table, nodes, plan, result>>
    BY <1>3 DEF Shrink, Return, NewPart1Mb, Part1Mb
  <2>3. nodes[1].count \in Nat /\ nodes[1].count \div SECTORS_PER_MIB > EfiMb
    BY <1>1, <2>1 DEF Planned, Shrink, CanShrink, Part1Mb, ExtentType
  <2>4. fs' \in Nat /\ fs' > 0 /\ fs' + EFI_PART_SECTORS <= nodes[1].count
    BY <2>1, <2>2, <2>3, ResizedFits
  <2>5. EndOf(nodes[1]) = 2048 + nodes[1].count /\ EndOf(table[1]) = 2048 + table[1].count
        /\ EndOf(nodes[1]) \in Int /\ table[1].count \in Nat
    BY <1>1, <2>1, <2>3 DEF Geometry, EndOf, ExtentType
  <2>6. EndOf(nodes[1]) - 65536 <= ShrinkTo /\ ShrinkTo \in Int
    BY <2>5, AlignUpInt DEF ShrinkTo, EFI_PART_SECTORS
  <2>7. ShrinkTo <= EndOf(table[1])
    BY <1>1 DEF Geometry
  <2>8. fs' <= nodes[1].count /\ fs' <= table[1].count /\ fs' <= plan - 2048
    BY <2>1, <2>3, <2>4, <2>5, <2>6, <2>7 DEF EFI_PART_SECTORS
  <2>9. TypeOK'
    BY <1>0, <2>2, <2>4 DEF Shrink, TypeOK, Window
  <2>. QED
    BY <1>1, <2>1, <2>2, <2>4, <2>8, <2>9
       DEF IInv, Geometry, Planned, Shrink, ShrinkTo, CHOOSABLE_PART1_START_SECTOR
<1>. QED BY <1>2, <1>3

\* What the new table holds: partition 1 up to the planned sector and the EFI
\* partition behind it, in the first free slot.
LEMMA TableWritten ==
  ASSUME IInv, UpdatePartitionTable
  PROVE  /\ FirstFree \in FreeSlots /\ (2 \in FreeSlots => FirstFree = 2)
         /\ plan \in Nat /\ plan > 2048 /\ d.table[1].start = 2048
         /\ plan <= d.total /\ plan >= ShrinkTo /\ fs <= plan - 2048
         /\ \A i \in 2..4 : ~Empty(table[i]) => plan <= table[i].start
         /\ table' \in [Slots -> ExtentType]
         /\ table'[1] = Extent(2048, plan - 2048) /\ EndOf(table'[1]) = plan
         /\ \A i \in 2..4 :
              table'[i] = IF i = FirstFree THEN Extent(plan, EFI_PART_SECTORS) ELSE table[i]
<1>. DEFINE f == FirstFree
<1>0. TypeOK /\ d.fs \in Nat /\ SoundDisk(d) /\ d.total \in Nat
  BY DiskFacts DEF IInv, TypeOK
<1>1. d.fs > 0 /\ Geometry /\ Planned
  BY <1>0 DEF IInv, UpdatePartitionTable, NoPartition
<1>2. f \in FreeSlots /\ f \in 2..4 /\ (2 \in FreeSlots => f = 2)
  <2>1. FreeSlots # {} /\ FreeSlots \subseteq 2..4
    BY DEF UpdatePartitionTable, FreeSlots
  <2>2. \E i \in FreeSlots : \A j \in FreeSlots : i <= j
    <3>1. FreeSlots \subseteq {2, 3, 4}
      BY <2>1
    <3>2. CASE 2 \in FreeSlots
      BY <3>1, <3>2
    <3>3. CASE 2 \notin FreeSlots /\ 3 \in FreeSlots
      BY <3>1, <3>3
    <3>4. CASE 2 \notin FreeSlots /\ 3 \notin FreeSlots
      <4>1. FreeSlots = {4}
        BY <2>1, <3>1, <3>4
      <4>. QED BY <4>1
    <3>. QED BY <3>2, <3>3, <3>4
  <2>3. f \in FreeSlots /\ \A j \in FreeSlots : f <= j
    BY <2>2 DEF FirstFree
  <2>. QED BY <2>1, <2>3
<1>3. /\ plan \in Nat /\ plan > 2048 /\ plan <= d.total /\ table[1].start = 2048
      /\ nodes[1].start = 2048 /\ d.table[1].start = 2048 /\ plan >= ShrinkTo /\ fs <= plan - 2048
      /\ \A i \in 2..4 : ~Empty(table[i]) => plan <= table[i].start
  BY <1>0, <1>1 DEF UpdatePartitionTable, Planned, Geometry, TypeOK, CHOOSABLE_PART1_START_SECTOR
<1>4. Stored(plan) = plan /\ Stored(plan - 2048) = plan - 2048
  <2>1. CASE d.style = "mbr"
    <3>1. d.total < U32 /\ U32 \in Nat
      BY <1>0, <2>1, NonDestructiveAssumption DEF SoundDisk
    <3>2. plan < U32 /\ plan - 2048 \in Nat /\ plan - 2048 < U32
      BY <1>0, <1>3, <3>1
    <3>3. plan % U32 = plan /\ (plan - 2048) % U32 = plan - 2048
      BY <1>3, <3>1, <3>2, NoWrap
    <3>. QED BY <2>1, <3>3 DEF Stored
  <2>. QED BY <2>1 DEF Stored
<1>5. /\ table' = [table EXCEPT ![1] = Extent(table[1].start, Stored(Stored(plan) - 2048)),
                               ![f] = Extent(Stored(plan), EFI_PART_SECTORS)]
      /\ pc' = "boot" /\ UNCHANGED <<d, fs, nodes, plan, result>>
  BY DEF UpdatePartitionTable, CHOOSABLE_PART1_START_SECTOR
<1>a. Extent(table[1].start, Stored(Stored(plan) - 2048)) = Extent(2048, plan - 2048)
  BY <1>3, <1>4
<1>b. Extent(Stored(plan), EFI_PART_SECTORS) = Extent(plan, EFI_PART_SECTORS)
  BY <1>4
<1>6. /\ table' \in [Slots -> ExtentType]
      /\ table'[1] = Extent(2048, plan - 2048) /\ EndOf(table'[1]) = plan
      /\ \A i \in 2..4 : table'[i] = IF i = f THEN Extent(plan, EFI_PART_SECTORS) ELSE table[i]
  <2>. DEFINE x == Extent(table[1].start, Stored(Stored(plan) - 2048))
              y == Extent(Stored(plan), EFI_PART_SECTORS)
  <2>1. table \in [Slots -> ExtentType]
    BY <1>0 DEF TypeOK
  <2>2. x = Extent(2048, plan - 2048) /\ y = Extent(plan, EFI_PART_SECTORS)
    BY <1>a, <1>b
  <2>3. table' = [table EXCEPT ![1] = x, ![f] = y]
    BY <1>5
  <2>4. x \in ExtentType /\ y \in ExtentType
    BY <1>3, <2>2 DEF Extent, ExtentType, EFI_PART_SECTORS
  <2>. HIDE DEF x, y, f
  <2>5. table' \in [Slots -> ExtentType]
    BY <1>2, <2>1, <2>3, <2>4 DEF Slots
  <2>6. table'[1] = x /\ \A i \in 2..4 : table'[i] = IF i = f THEN y ELSE table[i]
    BY <1>2, <2>1, <2>3 DEF Slots
  <2>7. EndOf(Extent(2048, plan - 2048)) = plan
    BY <1>3 DEF EndOf, Extent
  <2>. QED BY <2>2, <2>5, <2>6, <2>7
<1>. QED BY <1>2, <1>3, <1>6

LEMMA TableStep == IInv /\ UpdatePartitionTable => IInv'
<1>. SUFFICES ASSUME IInv, UpdatePartitionTable PROVE IInv'
  OBVIOUS
<1>0. TypeOK /\ d.fs > 0 /\ Geometry /\ Planned /\ d.fs \in Nat
  BY DiskFacts DEF IInv, TypeOK, UpdatePartitionTable, NoPartition
<1>1. /\ pc' = "boot" /\ UNCHANGED <<d, fs, nodes, plan, result>>
      /\ nodes[1].start = 2048 /\ d.table[1].start = 2048
  BY <1>0, TableWritten DEF UpdatePartitionTable, Geometry
<1>2. TypeOK'
  BY <1>0, <1>1, TableWritten DEF UpdatePartitionTable, TypeOK, Window
<1>3. Geometry'
  <2>1. \A i \in 2..4 : ~Empty(table'[i]) => plan <= table'[i].start
    BY TableWritten DEF Extent
  <2>2. table'[1].start = 2048 /\ table'[1].count = plan - 2048 /\ EndOf(table'[1]) = plan
    BY TableWritten DEF Extent
  <2>3. plan <= d.total /\ plan >= ShrinkTo /\ fs <= plan - 2048
    BY TableWritten
  <2>. QED
    BY <1>0, <1>1, <2>1, <2>2, <2>3 DEF Geometry, ShrinkTo
<1>. QED
  BY <1>0, <1>1, <1>2, <1>3 DEF IInv, Planned

\* Reading the table again, by partx or by plugging the disk in.
LEMMA ReloadStep == IInv /\ (ReloadNodes \/ Replug \/ ResumeAndNotify) => IInv'
<1>. SUFFICES ASSUME IInv, ReloadNodes \/ Replug \/ ResumeAndNotify PROVE IInv'
  OBVIOUS
<1>0. TypeOK /\ d.fs \in Nat
  BY DiskFacts DEF IInv, TypeOK
<1>1. /\ nodes' = Nodes(table) /\ UNCHANGED <<d, table, fs, lost, boot, esp, plan, runs, kills>>
      /\ pc' \in {"wait", "idle"} /\ (pc' = "wait" \/ pc' = pc \/ pc # "idle")
  BY DEF ReloadNodes, Replug, ResumeAndNotify, Return
<1>2. Nodes(table) \in [Slots -> ExtentType] /\ Nodes(table)[1] = table[1]
  BY <1>0 DEF Nodes, TypeOK, Slots, NoExtent, Extent, ExtentType
<1>3. TypeOK'
  BY <1>0, <1>1, <1>2 DEF ReloadNodes, Replug, ResumeAndNotify, Return, TypeOK, Window
<1>4. ASSUME d.fs > 0 PROVE (Geometry /\ Planned)'
  <2>1. Geometry /\ table[1] \in ExtentType /\ nodes'[1] = table[1]
    BY <1>0, <1>1, <1>2, <1>4 DEF IInv, TypeOK, Slots
  <2>2. table[1].start \in Nat /\ table[1].count \in Nat /\ fs \in Nat
    BY <1>0, <2>1 DEF ExtentType, TypeOK
  <2>3. ShrinkTo' <= EndOf(table[1])
    <3>1. EndOf(table[1]) \in Int
      BY <2>2 DEF EndOf
    <3>2. align_to_4k(EndOf(table[1]) - 65536) <= EndOf(table[1])
      BY <3>1, AlignUpInt
    <3>. QED BY <2>1, <3>2 DEF ShrinkTo, EFI_PART_SECTORS
  <2>. QED
    BY <1>1, <2>1, <2>3 DEF Geometry, Planned
<1>5. ASSUME d.fs = 0 PROVE NoPartition'
  BY <1>1, <1>2, <1>5 DEF IInv, NoPartition, ReloadNodes, ResumeAndNotify, Replug
<1>. QED BY <1>0, <1>1, <1>3, <1>4, <1>5 DEF IInv

\* mkfs on partition 2 never reaches the filesystem on partition 1.
LEMMA FormatStep == IInv /\ FormatEfiPartition => IInv'
<1>. SUFFICES ASSUME IInv, FormatEfiPartition PROVE IInv'
  OBVIOUS
<1>0. TypeOK /\ d.fs \in Nat
  BY DiskFacts DEF IInv, TypeOK
<1>1. d.fs > 0 /\ Geometry /\ Planned
  BY <1>0 DEF IInv, FormatEfiPartition, NoPartition
<1>2. /\ table[1] \in ExtentType /\ table[2] \in ExtentType /\ fs \in Nat
      /\ nodes[2] \in ExtentType /\ lost \in SUBSET (2..4)
  BY <1>0 DEF TypeOK, Slots
<1>3. nodes[2] \in {table[2], NoExtent}
  BY <1>1 DEF Planned, FormatEfiPartition, Nodes, Slots
<1>4. ~Overlap(Extent(d.table[1].start, fs), nodes[2])
  <2>1. CASE nodes[2] = NoExtent
    BY <2>1 DEF Overlap, NoExtent, Extent
  <2>2. CASE nodes[2] = table[2]
    <3>1. table[2].count = 0 \/ d.table[1].start + fs <= table[2].start
      BY <1>1, <1>2 DEF Geometry, Empty, EndOf, ExtentType
    <3>. QED BY <1>1, <1>2, <2>2, <3>1 DEF Overlap, Extent, EndOf, ExtentType, Geometry
  <2>. QED BY <1>3, <2>1, <2>2
<1>5. /\ fs' = fs /\ pc' = "efi" /\ UNCHANGED <<d, table, nodes, plan, result>>
      /\ esp' = [at |-> nodes[2], loaded |-> FALSE] /\ lost' \in SUBSET (2..4)
  BY <1>2, <1>4 DEF FormatEfiPartition
<1>6. esp' \in [at : ExtentType, loaded : BOOLEAN]
  BY <1>2, <1>5
<1>7. TypeOK'
  BY <1>0, <1>5, <1>6 DEF FormatEfiPartition, TypeOK, Window
<1>. QED BY <1>1, <1>5, <1>7 DEF IInv, Geometry, Planned, ShrinkTo

\* The steps that touch neither the table nor the nodes nor the filesystem.
LEMMA QuietStep ==
  IInv /\ (Start \/ StopUdev \/ WriteBootImages \/ WaitForPartitions \/ WriteEfiBootloader
           \/ FailInWindow \/ Kill \/ UNCHANGED vars) => IInv'
<1>. SUFFICES ASSUME IInv, Start \/ StopUdev \/ WriteBootImages \/ WaitForPartitions
                           \/ WriteEfiBootloader \/ FailInWindow \/ Kill \/ UNCHANGED vars
              PROVE  IInv'
  OBVIOUS
<1>0. TypeOK /\ d.fs \in Nat
  BY DiskFacts DEF IInv, TypeOK
<1>1. UNCHANGED <<d, table, fs, nodes, plan, lost>>
  BY DEF Start, StopUdev, WriteBootImages, WaitForPartitions, WriteEfiBootloader,
         FailInWindow, Kill, vars
<1>2. /\ pc' \in {"shrink", "table", "wait"} => pc' = pc \/ (pc = "stop" /\ pc' = "table")
      /\ pc' = "format" => pc \in {"wait", "format"}
      /\ pc' = "stop" => pc = "stop"
  BY DEF Start, StopUdev, WriteBootImages, WaitForPartitions, WriteEfiBootloader,
         FailInWindow, Kill, vars, Return
<1>3. TypeOK'
  <2>1. runs' \in 0..MaxRuns /\ kills' \in 0..MaxKills
    BY <1>0, NonDestructiveAssumption DEF TypeOK, Start, StopUdev, WriteBootImages,
       WaitForPartitions, WriteEfiBootloader, FailInWindow, Kill, vars
  <2>2. esp' \in [at : ExtentType, loaded : BOOLEAN] /\ boot' \in BOOLEAN
    BY <1>0 DEF TypeOK, Start, StopUdev, WriteBootImages,
       WaitForPartitions, WriteEfiBootloader, FailInWindow, Kill, vars
  <2>3. udev' \in {"running", "stopped"} /\ pc' \in {"idle", "measure", "shrink", "stop"} \cup Window
        /\ result' \in {"none", "notneeded", "aborted", "error", "killed", "ok"}
    BY <1>0 DEF TypeOK, Start, StopUdev, WriteBootImages,
       WaitForPartitions, WriteEfiBootloader, FailInWindow, Kill, vars, Return, Window
  <2>. QED BY <1>0, <1>1, <2>1, <2>2, <2>3 DEF TypeOK
<1>4. ASSUME d.fs > 0 PROVE (Geometry /\ Planned)'
  <2>1. Geometry /\ Planned
    BY <1>4 DEF IInv
  <2>2. Geometry'
    BY <1>1, <2>1 DEF Geometry, ShrinkTo
  <2>3. CanShrink' = CanShrink /\ ShrinkTo' = ShrinkTo
    BY <1>1 DEF CanShrink, Part1Mb, ShrinkTo
  <2>4. Planned'
    BY <1>1, <1>2, <2>1, <2>3 DEF Planned
  <2>. QED BY <2>2, <2>4
<1>5. ASSUME d.fs = 0 PROVE NoPartition'
  <2>1. NoPartition
    BY <1>5 DEF IInv
  <2>2. pc' = "idle"
    BY <2>1 DEF NoPartition, Start, StopUdev, WriteBootImages, WaitForPartitions,
       WriteEfiBootloader, FailInWindow, Kill, vars, Return, Window
  <2>. QED BY <1>1, <2>1, <2>2 DEF NoPartition
<1>. QED BY <1>0, <1>1, <1>3, <1>4, <1>5 DEF IInv

-----------------------------------------------------------------------------
THEOREM Invariant == Spec => []IInv
<1>1. IInv /\ [Next]_vars => IInv'
  BY MeasureStep, ShrinkStep, TableStep, ReloadStep, FormatStep, QuietStep DEF Next
<1>. QED BY InitIInv, <1>1, PTL DEF Spec

\* Every variable keeps its type; no sector count ever becomes negative.
THEOREM TypeCorrect == Spec => []TypeOK
<1>1. IInv => TypeOK
  BY DEF IInv
<1>. QED BY <1>1, Invariant, PTL

\* Whatever the disk, whatever fails and however often the program is killed
\* and started again, the user's filesystem is not overwritten and lies inside
\* the partition the table gives it.
THEOREM DataKeptAlways == Spec => []DataKept
<1>1. IInv => DataKept
  BY DEF IInv, Geometry, DataKept
<1>. QED BY <1>1, Invariant, PTL

-----------------------------------------------------------------------------
(* A disk whose second slot is free.                                       *)

(***************************************************************************)
(* update_mbr_partition_table_f then takes the slot that mkfs and the wait *)
(* expect, and the table it writes answers detect_choosable: a later run   *)
(* ends at once, so the table is either still the user's or the one that   *)
(* one write made of it, and no run can shrink what another has shrunk.    *)
(***************************************************************************)
Slot2Free == Empty(d.table[2])

\* The size shrink_ntfs or shrink_ext4 gives the filesystem handed over.
Shrunken == FsSectors(d.kind, d.table[1].count \div SECTORS_PER_MIB - EfiMb)

\* The EFI partition fits behind sector s.
RoomFor(s) ==
  /\ \A i \in 3..4 : ~Empty(d.table[i]) => s + EFI_PART_SECTORS <= d.table[i].start
  /\ s + EFI_PART_SECTORS <= UsableEnd(d.style, d.total)

\* Until the table is written.
Before ==
  /\ table = d.table /\ nodes[1] = d.table[1] /\ lost = {} /\ result # "ok"
  /\ pc \in {"idle", "measure", "shrink", "stop", "table"}
  /\ pc \in {"shrink", "stop", "table"} /\ AlignedDisk => RoomFor(plan)

\* From then on.
After ==
  /\ d.fs > 0 /\ IsChoosable(table) /\ \A i \in 3..4 : table[i] = d.table[i]
  /\ pc \notin {"measure", "shrink", "stop", "table"}
  /\ pc \in {"reload", "wait", "format", "efi", "resume"} => boot
  /\ pc \in {"efi", "resume"} => esp.at = table[2]
  /\ pc = "resume" => esp.loaded
  /\ result = "ok" => pc = "idle" /\ boot /\ esp = [at |-> table[2], loaded |-> TRUE]
  /\ AlignedDisk => RoomFor(table[2].start) /\ lost = {}

SlotInv == Slot2Free => (Before \/ After) /\ fs \in {d.fs, Shrunken}

-----------------------------------------------------------------------------
LEMMA InitSlotInv == Init => SlotInv
  BY DEF Init, SlotInv, Before

\* A sector on a 4 KiB boundary stays where it is.
LEMMA AlignedStays ==
  ASSUME NEW s \in Int, s % 8 = 0
  PROVE  align_to_4k(s) = s /\ align_to_4k(s - EFI_PART_SECTORS) = s - EFI_PART_SECTORS
<1>1. (s - 65536) % 8 = 0
  OBVIOUS
<1>. QED BY <1>1 DEF align_to_4k, EFI_PART_SECTORS

\* Where Measure puts the EFI partition of an aligned disk, there is room.
LEMMA MeasureRoom ==
  ASSUME TypeOK, Before, Measure, pc' # "idle", AlignedDisk
  PROVE  RoomFor(plan')
<1>. DEFINE E == EndOf(d.table[1])
<1>1. /\ \A i \in Slots : d.table[i] \in ExtentType
      /\ UsableEnd(d.style, d.total) \in Int
  BY DiskFacts DEF TypeOK, UsableEnd, GPT_TAIL
<1>2. plan' = Part2Start /\ nodes[1] = d.table[1] /\ table = d.table
  BY DEF Measure, Return, Before
<1>3. E \in Int /\ E % 8 = 0
  <2>1. /\ d.table[1].start \in Nat /\ d.table[1].count \in Nat
        /\ d.table[1].start % 8 = 0 /\ d.table[1].count % 8 = 0
    BY <1>1 DEF AlignedDisk, ExtentType, Slots
  <2>. QED BY <2>1 DEF EndOf
<1>. HIDE DEF E
<1>4. CASE EnoughFree
  <2>1. plan' = E
    BY <1>2, <1>3, <1>4, AlignedStays DEF Part2Start, E
  <2>. QED
    BY <1>2, <1>4, <2>1 DEF EnoughFree, Limits, RoomFor, E
<1>5. CASE ~EnoughFree
  <2>1. plan' = E - EFI_PART_SECTORS
    BY <1>2, <1>3, <1>5, AlignedStays DEF Part2Start, E
  <2>2. plan' + EFI_PART_SECTORS = E
    BY <1>3, <2>1 DEF EFI_PART_SECTORS
  <2>3. /\ \A i \in 2..4 : ~Empty(d.table[i]) => d.table[i].start >= E
        /\ E <= UsableEnd(d.style, d.total)
    BY DiskFacts DEF TypeOK, SoundDisk, Slots, E
  <2>. QED
    BY <1>1, <1>3, <2>2, <2>3 DEF RoomFor, ExtentType, Slots
<1>. QED BY <1>4, <1>5

\* The one step from Before to After.
LEMMA WriteTableSlot ==
  ASSUME IInv, Before, Slot2Free, UpdatePartitionTable
  PROVE  After'
<1>1. /\ TypeOK /\ d.fs > 0
      /\ pc' = "boot" /\ UNCHANGED <<d, lost, plan, result, boot, esp>> /\ table = d.table
  BY DiskFacts DEF IInv, TypeOK, UpdatePartitionTable, NoPartition, Before
<1>2. FirstFree = 2
  BY <1>1, TableWritten DEF Slot2Free, FreeSlots
<1>3. /\ table'[1] = Extent(2048, plan - 2048) /\ EndOf(table'[1]) = plan
      /\ table'[2] = Extent(plan, EFI_PART_SECTORS)
      /\ \A i \in 3..4 : table'[i] = d.table[i]
  BY <1>1, <1>2, TableWritten
<1>4. IsChoosable(table)'
  BY <1>3 DEF IsChoosable, Extent, CHOOSABLE_PART1_START_SECTOR
<1>5. (AlignedDisk => RoomFor(table[2].start) /\ lost = {})'
  <2>1. AlignedDisk' = AlignedDisk /\ table'[2].start = plan
    BY <1>1, <1>3 DEF AlignedDisk, Extent
  <2>2. RoomFor(table[2].start)' = RoomFor(plan)
    BY <1>1, <2>1 DEF RoomFor
  <2>3. AlignedDisk => RoomFor(plan) /\ lost = {}
    BY DEF Before, UpdatePartitionTable
  <2>. QED BY <1>1, <2>1, <2>2, <2>3
<1>6. result' # "ok"
  BY DEF Before, UpdatePartitionTable
<1>. QED BY <1>1, <1>3, <1>4, <1>5, <1>6 DEF After

\* The other steps before the table is written; reading it again changes
\* nothing that matters yet.
LEMMA BeforeStep ==
  ASSUME IInv, IInv', Before, Slot2Free, Next \/ UNCHANGED vars
  PROVE  (Before \/ After)'
<1>0. TypeOK /\ table \in [Slots -> ExtentType]
  BY DEF IInv, TypeOK
<1>1. CASE UpdatePartitionTable
  BY <1>1, WriteTableSlot
<1>2. CASE Measure
  <2>1. /\ UNCHANGED <<d, table, nodes, lost>> /\ result' # "ok"
        /\ pc' \in {"idle", "stop", "shrink"}
    BY <1>2 DEF Measure, Return, Before
  <2>2. pc' # "idle" /\ AlignedDisk => RoomFor(plan')
    BY <1>0, <1>2, MeasureRoom
  <2>3. AlignedDisk' = AlignedDisk /\ RoomFor(plan)' = RoomFor(plan')
    BY <2>1 DEF AlignedDisk, RoomFor
  <2>. QED BY <2>1, <2>2, <2>3 DEF Before
<1>3. CASE Start \/ Shrink \/ StopUdev \/ FailInWindow \/ Kill \/ Replug \/ UNCHANGED vars
  <2>1. /\ UNCHANGED <<d, table, lost, plan>> /\ nodes' \in {nodes, Nodes(table)}
        /\ result' # "ok"
        /\ pc' \in {"idle", "measure", "shrink", "stop", "table"}
        /\ pc' \in {"shrink", "stop", "table"} => pc \in {"shrink", "stop", "table"}
    BY <1>3 DEF Start, Shrink, StopUdev, FailInWindow, Kill, Replug, vars, Return, Before
  <2>2. Nodes(table)[1] = table[1]
    BY DEF Nodes, Slots
  <2>3. AlignedDisk' = AlignedDisk /\ RoomFor(plan)' = RoomFor(plan)
    BY <2>1 DEF AlignedDisk, RoomFor
  <2>. QED BY <2>1, <2>2, <2>3 DEF Before
<1>4. CASE WriteBootImages \/ ReloadNodes \/ WaitForPartitions \/ FormatEfiPartition
           \/ WriteEfiBootloader \/ ResumeAndNotify
  BY <1>4 DEF Before, WriteBootImages, ReloadNodes, WaitForPartitions, FormatEfiPartition,
              WriteEfiBootloader, ResumeAndNotify
<1>. QED BY <1>1, <1>2, <1>3, <1>4 DEF Next

\* mkfs meets the EFI partition and nothing else.
LEMMA FormatAfter ==
  ASSUME IInv, After, Slot2Free, FormatEfiPartition
  PROVE  esp'.at = table[2] /\ (AlignedDisk => lost' = lost)
<1>1. TypeOK /\ Planned /\ IsChoosable(table)
  BY DEF IInv, After
<1>2. /\ \A i \in Slots : d.table[i] \in ExtentType /\ table[i] \in ExtentType
  BY <1>1, DiskFacts DEF TypeOK
<1>3. nodes[2] = table[2]
  <2>1. nodes[2] = IF \E j \in 1..1 : Overlap(table[j], table[2]) THEN NoExtent ELSE table[2]
    BY <1>1 DEF Planned, FormatEfiPartition, Nodes, Slots
  <2>2. ~Overlap(table[1], table[2])
    BY <1>1, <1>2 DEF IsChoosable, Overlap, ExtentType, EndOf, Slots
  <2>. QED BY <2>1, <2>2
<1>4. ASSUME AlignedDisk, NEW i \in 2..4
      PROVE  ~Overlap(d.table[i], table[2])
  <2>1. CASE i = 2
    BY <2>1 DEF Slot2Free, Empty, Overlap
  <2>2. CASE i \in 3..4
    <3>1. ~Empty(d.table[i]) => EndOf(table[2]) <= d.table[i].start
      BY <1>1, <1>2, <1>4, <2>2 DEF After, RoomFor, IsChoosable, EndOf
    <3>. QED
      BY <1>2, <2>2, <3>1 DEF Empty, Overlap, EndOf, ExtentType, Slots
  <2>. QED BY <2>1, <2>2
<1>. QED BY <1>3, <1>4 DEF FormatEfiPartition

LEMMA AfterStep ==
  ASSUME IInv, After, Slot2Free, Next \/ UNCHANGED vars
  PROVE  After'
<1>1. CASE FormatEfiPartition
  <2>1. /\ UNCHANGED <<d, table, boot, result>> /\ pc' = "efi" /\ pc = "format"
    BY <1>1 DEF FormatEfiPartition
  <2>2. esp'.at = table[2] /\ (AlignedDisk => lost' = lost)
    BY <1>1, FormatAfter
  <2>3. AlignedDisk' = AlignedDisk /\ RoomFor(table[2].start)' = RoomFor(table[2].start)
    BY <2>1 DEF AlignedDisk, RoomFor
  <2>4. IsChoosable(table)' = IsChoosable(table)
    BY <2>1 DEF IsChoosable
  <2>. QED BY <2>1, <2>2, <2>3, <2>4 DEF After
<1>2. CASE ~FormatEfiPartition
  <2>1. /\ UNCHANGED <<d, table, lost>>
        /\ pc' \notin {"measure", "shrink", "stop", "table"}
        /\ pc' \in {"reload", "wait", "format", "efi", "resume"} => boot'
        /\ boot => boot'
    BY <1>2 DEF After, Next, vars, Start, Measure, Shrink, StopUdev, UpdatePartitionTable,
       WriteBootImages, ReloadNodes, WaitForPartitions, WriteEfiBootloader, ResumeAndNotify,
       FailInWindow, Kill, Replug, Return, Window
  <2>2. /\ pc' \in {"efi", "resume"} => esp'.at = table[2]
        /\ pc' = "resume" => esp'.loaded
        /\ result' = "ok" => pc' = "idle" /\ boot' /\ esp' = [at |-> table[2], loaded |-> TRUE]
    <3>1. esp \in [at : ExtentType, loaded : BOOLEAN]
      BY DEF IInv, TypeOK
    <3>2. CASE WriteEfiBootloader
      <4>1. esp' = [esp EXCEPT !.loaded = TRUE] /\ pc = "efi" /\ pc' = "resume" /\ UNCHANGED result
        BY <3>2 DEF WriteEfiBootloader
      <4>2. esp'.at = esp.at /\ esp'.loaded
        BY <3>1, <4>1
      <4>. QED BY <4>1, <4>2 DEF After
    <3>3. CASE ResumeAndNotify
      <4>1. esp = [at |-> esp.at, loaded |-> esp.loaded]
        BY <3>1
      <4>2. esp.at = table[2] /\ esp.loaded = TRUE /\ boot
        BY <3>1, <3>3 DEF After, ResumeAndNotify
      <4>3. esp' = esp /\ boot' = boot /\ pc' = "idle"
        BY <3>3 DEF ResumeAndNotify, Return
      <4>. QED BY <4>1, <4>2, <4>3
    <3>4. CASE ~WriteEfiBootloader /\ ~ResumeAndNotify
      <4>1. /\ UNCHANGED <<esp>>
            /\ (pc' = "efi" => pc = "efi") /\ (pc' = "resume" => pc = "resume")
            /\ (result' = "ok" => result = "ok" /\ pc' = "idle")
        BY <1>2, <3>4 DEF After, Next, vars, Start, Measure, Shrink, StopUdev, UpdatePartitionTable,
           WriteBootImages, ReloadNodes, WaitForPartitions, FailInWindow, Kill, Replug, Return,
           Window
      <4>. QED BY <2>1, <4>1 DEF After
    <3>. QED BY <3>2, <3>3, <3>4
  <2>3. AlignedDisk' = AlignedDisk /\ RoomFor(table[2].start)' = RoomFor(table[2].start)
    BY <2>1 DEF AlignedDisk, RoomFor
  <2>4. IsChoosable(table)' = IsChoosable(table)
    BY <2>1 DEF IsChoosable
  <2>. QED BY <2>1, <2>2, <2>3, <2>4 DEF After
<1>. QED BY <1>1, <1>2

LEMMA FilesystemStep ==
  ASSUME IInv, IInv', SlotInv, Slot2Free, Next \/ UNCHANGED vars
  PROVE  (fs \in {d.fs, Shrunken})'
<1>1. d' = d /\ Shrunken' = Shrunken
  BY DEF Next, vars, Start, Measure, Shrink, StopUdev, UpdatePartitionTable, WriteBootImages,
     ReloadNodes, WaitForPartitions, FormatEfiPartition, WriteEfiBootloader, ResumeAndNotify,
     FailInWindow, Kill, Replug, Shrunken
<1>2. CASE Shrink
  <2>1. nodes[1] = d.table[1]
    BY <1>2 DEF SlotInv, Before, After, Shrink
  <2>. QED BY <1>1, <1>2, <2>1 DEF SlotInv, Shrink, NewPart1Mb, Part1Mb, Shrunken
<1>3. CASE FormatEfiPartition
  <2>1. d.fs > 0
    BY <1>3 DEF SlotInv, Before, After, FormatEfiPartition
  <2>2. fs' > 0
    BY <1>1, <2>1 DEF IInv, Geometry
  <2>. QED BY <1>1, <1>3, <2>2 DEF SlotInv, FormatEfiPartition
<1>4. CASE ~Shrink /\ ~FormatEfiPartition
  <2>1. fs' = fs
    BY <1>4 DEF Next, vars, Start, Measure, StopUdev, UpdatePartitionTable, WriteBootImages,
       ReloadNodes, WaitForPartitions, WriteEfiBootloader, ResumeAndNotify,
       FailInWindow, Kill, Replug
  <2>. QED BY <1>1, <2>1 DEF SlotInv
<1>. QED BY <1>2, <1>3, <1>4

THEOREM SlotInvariant == Spec => []SlotInv
<1>1. IInv /\ IInv' /\ SlotInv /\ [Next]_vars => SlotInv'
  <2>. SUFFICES ASSUME IInv, IInv', SlotInv, Next \/ UNCHANGED vars, Slot2Free'
                PROVE  (Before \/ After)' /\ (fs \in {d.fs, Shrunken})'
    BY DEF SlotInv
  <2>1. Slot2Free
    BY DEF Slot2Free, Next, vars, Start, Measure, Shrink, StopUdev, UpdatePartitionTable,
       WriteBootImages, ReloadNodes, WaitForPartitions, FormatEfiPartition, WriteEfiBootloader,
       ResumeAndNotify, FailInWindow, Kill, Replug
  <2>. QED BY <2>1, BeforeStep, AfterStep, FilesystemStep DEF SlotInv
<1>. QED BY InitSlotInv, Invariant, <1>1, PTL DEF Spec

-----------------------------------------------------------------------------
(* The promises.  Without a free second slot each of the four fails: the   *)
(* run NonDestructiveSlot shows it for OthersKept.                         *)

\* On any disk at all the entries of the user's other partitions stay.
THEOREM EntriesKept == Spec => [](\A i \in 2..4 : ~Empty(d.table[i]) => table[i] = d.table[i])
<1>. DEFINE Kept == \A i \in 2..4 : ~Empty(d.table[i]) => table[i] = d.table[i]
<1>1. Init => Kept
  BY DEF Init
<1>2. IInv /\ Kept /\ [Next]_vars => Kept'
  <2>. SUFFICES ASSUME IInv, Kept, Next \/ UNCHANGED vars PROVE Kept'
    OBVIOUS
  <2>1. CASE UpdatePartitionTable
    <3>1. FirstFree \in FreeSlots /\ d' = d
      BY <2>1, TableWritten DEF UpdatePartitionTable
    <3>2. \A i \in 2..4 : ~Empty(table[i]) => table'[i] = table[i]
      BY <2>1, <3>1, TableWritten DEF FreeSlots
    <3>. QED BY <3>1, <3>2
  <2>2. CASE ~UpdatePartitionTable
    BY <2>2 DEF Next, vars, Start, Measure, Shrink, StopUdev, WriteBootImages,
       ReloadNodes, WaitForPartitions, FormatEfiPartition, WriteEfiBootloader,
       ResumeAndNotify, FailInWindow, Kill, Replug
  <2>. QED BY <2>1, <2>2
<1>. QED BY <1>1, <1>2, Invariant, PTL DEF Spec

\* On an aligned disk mkfs does not reach their contents either.
THEOREM OthersKeptAlways == Spec => [](Slot2Free /\ AlignedDisk => OthersKept)
<1>1. SlotInv => (Slot2Free /\ AlignedDisk => lost = {})
  BY DEF SlotInv, Before, After
<1>2. (Slot2Free /\ AlignedDisk => lost = {})
      /\ (\A i \in 2..4 : ~Empty(d.table[i]) => table[i] = d.table[i])
      => (Slot2Free /\ AlignedDisk => OthersKept)
  BY DEF OthersKept
<1>. QED BY <1>1, <1>2, SlotInvariant, EntriesKept, PTL

\* The new table of an aligned disk has no overlaps and ends inside the disk.
THEOREM TableDisjointAlways == Spec => [](Slot2Free => TableDisjoint)
<1>1. IInv /\ SlotInv => (Slot2Free => TableDisjoint)
  <2>. SUFFICES ASSUME IInv, SlotInv, Slot2Free, AlignedDisk
                PROVE  /\ \A i, j \in Slots : i # j => ~Overlap(table[i], table[j])
                       /\ \A i \in Slots : EndOf(table[i]) <= UsableEnd(d.style, d.total)
    BY DEF TableDisjoint
  <2>1. /\ SoundDisk(d) /\ UsableEnd(d.style, d.total) \in Int
        /\ \A i \in Slots : table[i] \in ExtentType /\ d.table[i] \in ExtentType
    BY DiskFacts DEF IInv, TypeOK, UsableEnd, GPT_TAIL
  <2>2. CASE table = d.table
    BY <2>1, <2>2 DEF SoundDisk
  <2>3. CASE After
    <3>1. /\ EndOf(table[1]) = table[2].start
          /\ EndOf(table[2]) <= UsableEnd(d.style, d.total)
          /\ \A i \in 3..4 : ~Empty(table[i]) => EndOf(table[2]) <= table[i].start
          /\ \A i \in 3..4 : table[i] = d.table[i]
      BY <2>3 DEF After, IsChoosable, RoomFor, EndOf
    <3>2. /\ \A i \in 3..4 : EndOf(table[i]) <= UsableEnd(d.style, d.total)
          /\ ~Overlap(table[3], table[4]) /\ ~Overlap(table[4], table[3])
      BY <2>1, <3>1 DEF SoundDisk, Slots
    <3>3. EndOf(table[1]) <= EndOf(table[2]) /\ EndOf(table[1]) <= UsableEnd(d.style, d.total)
      BY <2>1, <3>1 DEF EndOf, ExtentType, Slots
    <3>4. \A i \in 2..4 : ~Overlap(table[1], table[i]) /\ ~Overlap(table[i], table[1])
      BY <2>1, <3>1, <3>3 DEF Overlap, Empty, EndOf, ExtentType, Slots
    <3>5. \A i \in 3..4 : ~Overlap(table[2], table[i]) /\ ~Overlap(table[i], table[2])
      BY <2>1, <3>1 DEF Overlap, Empty, EndOf, ExtentType, Slots
    <3>. QED BY <3>1, <3>2, <3>3, <3>4, <3>5 DEF Slots
  <2>. QED BY <2>2, <2>3 DEF SlotInv, Before
<1>. QED BY <1>1, Invariant, SlotInvariant, PTL

\* A run that reports success has made a disk that boots, whatever the runs
\* before it left behind.
THEOREM SuccessCorrect == Spec => [](Slot2Free => SuccessMeansBootable)
<1>1. SlotInv => (Slot2Free => SuccessMeansBootable)
  BY DEF SlotInv, Before, After, SuccessMeansBootable
<1>. QED BY <1>1, SlotInvariant, PTL

\* However often runs fail, are killed and are repeated, the filesystem has the
\* size it came with or the one size the tool was asked for.
THEOREM ShrunkOnce == Spec => [](Slot2Free => ShrunkAtMostOnce)
<1>1. SlotInv => (Slot2Free => ShrunkAtMostOnce)
  BY DEF SlotInv, ShrunkAtMostOnce, Shrunken
<1>. QED BY <1>1, SlotInvariant, PTL
=============================================================================
