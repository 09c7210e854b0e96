------------------------------ MODULE DiskLayout ------------------------------
(***************************************************************************)
(* The sector arithmetic of the installer: where partition 1 (data) and    *)
(* partition 2 (EFI) of a Choosable disk lie, and the guards that are      *)
(* supposed to make the subtractions safe.  All lengths are in 512-byte    *)
(* sectors and the constants are the program's own.  The program computes  *)
(* in u64 and the release build wraps around, so the two multiplications   *)
(* by a user-supplied number are reduced modulo U64 (2^64 in the program,  *)
(* a smaller power of two in the model-checked instances).                 *)
(***************************************************************************)
EXTENDS Integers

CONSTANT U64

ASSUME U64Assumption == U64 \in Nat /\ U64 > 2^20

SECTORS_PER_MIB == 2048
CHOOSABLE_PART1_START_SECTOR == 2048
EFI_PART_SECTORS == 65536
CHOOSABLE_PART_SIZE_MB == 33
GPT_TAIL == 34            \* backup table (32), backup header, and one more
GPT_CORE_LBA == 34        \* first sector of the stage-2 image on a GPT disk

-----------------------------------------------------------------------------
align_to_4k(s) == IF s % 8 > 0 THEN s + (8 - (s % 8)) ELSE s

AlignDown8(s) == s - (s % 8)

Extent(start, count) == [start |-> start, count |-> count]

EndOf(e) == e.start + e.count      \* first sector after the extent

Overlap(e, f) == /\ e.count > 0 /\ f.count > 0
                 /\ e.start < EndOf(f)
                 /\ f.start < EndOf(e)

-----------------------------------------------------------------------------
\* The space to reserve, as write_mbr_f and write_gpt_f compute it.
ReserveSectors(mib) == (mib * SECTORS_PER_MIB) % U64

\* The two size guards of install_choosable.
LargeEnough(total) ==
  total >= CHOOSABLE_PART1_START_SECTOR + CHOOSABLE_PART_SIZE_MB * SECTORS_PER_MIB

ReserveFits(total, mib) ==
  mib > 0 => total > ((mib + CHOOSABLE_PART_SIZE_MB) * SECTORS_PER_MIB) % U64

\* write_mbr_f: partition 2 ends rs sectors before the end of the disk, then
\* its start is aligned down; partition 1 is what lies between.
MbrLayout(total, rs) ==
  LET p2 == AlignDown8((total - EFI_PART_SECTORS - rs) % U64)
  IN  [style |-> "mbr",
       p1 |-> Extent(CHOOSABLE_PART1_START_SECTOR, p2 - CHOOSABLE_PART1_START_SECTOR),
       p2 |-> Extent(p2, EFI_PART_SECTORS)]

\* Mutant: the sectors of the backup GPT are forgotten.
GptLayoutNoTail(total, rs) ==
  [MbrLayout(total, rs) EXCEPT !.style = "gpt"]

\* write_gpt_f: as above, before the 34 sectors of the backup GPT.
GptLayout(total, rs) ==
  LET p2 == AlignDown8((total - GPT_TAIL - EFI_PART_SECTORS - rs) % U64)
  IN  [style |-> "gpt",
       p1 |-> Extent(CHOOSABLE_PART1_START_SECTOR, p2 - CHOOSABLE_PART1_START_SECTOR),
       p2 |-> Extent(p2, EFI_PART_SECTORS)]

Layout(style, total, mib) ==
  IF style = "gpt" THEN GptLayout(total, ReserveSectors(mib))
                   ELSE MbrLayout(total, ReserveSectors(mib))

-----------------------------------------------------------------------------
\* What a partition table must satisfy on a disk of `total' sectors.
UsableEnd(style, total) == IF style = "gpt" THEN total - GPT_TAIL + 1 ELSE total

WellFormed(lay, total) ==
  /\ lay.p1.start = CHOOSABLE_PART1_START_SECTOR
  /\ lay.p1.count > 0
  /\ EndOf(lay.p1) <= lay.p2.start
  /\ EndOf(lay.p2) <= UsableEnd(lay.style, total)
  /\ lay.p2.start % 8 = 0

=============================================================================
