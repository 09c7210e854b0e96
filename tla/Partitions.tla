------------------------------ MODULE Partitions ------------------------------
(***************************************************************************)
(* Which partition the two loaders take for the data partition, from what  *)
(* is on the disk (read_partitions of the BIOS kernel, DiscoverPartition   *)
(* of the UEFI loader).  A disk d:                                         *)
(*   d.mbr  four entries [type, lba, size]; "EE" is protective             *)
(*   d.sig  the MBR's disk signature                                       *)
(*   d.gpt  entries [type, lba, guid] of at least a sector, with "none"    *)
(*          for an unused one; <<>> without a valid GPT header             *)
(*   d.at   what is at each lba that begins with a known file system       *)
(* The kernel keeps the first sector of a GPT entry in 32 bits; it is      *)
(* below 2^32 here.                                                        *)
(***************************************************************************)
EXTENDS Naturals, Sequences, FiniteSets, FiniteSetsExt

IsDisk(d) ==
  /\ {"mbr", "sig", "gpt", "at"} \subseteq DOMAIN d
  /\ d.mbr \in Seq([type : STRING, lba : Nat, size : Nat]) /\ Len(d.mbr) = 4
  /\ d.gpt \in Seq([type : STRING, lba : Nat, guid : Nat])
  /\ \A i \in DOMAIN d.gpt : d.gpt[i].type # "none" => d.gpt[i].lba > 0

NoPartition == [lba |-> 0, guid |-> 0, num |-> 0, mbr |-> FALSE]

BasicData(d) == {i \in DOMAIN d.gpt : d.gpt[i].type = "basic"}

ByGpt(d, i) == [lba |-> d.gpt[i].lba, guid |-> d.gpt[i].guid, num |-> i, mbr |-> FALSE]

-----------------------------------------------------------------------------
(* The UEFI loader.                                                        *)

Used(d) == {i \in DOMAIN d.mbr : d.mbr[i].size > 0 /\ d.mbr[i].type # "EE"}

MbrLba(d) == IF Used(d) = {} THEN 0 ELSE d.mbr[Min(Used(d))].lba

ByMbr(d) == [lba |-> MbrLba(d), guid |-> d.sig, num |-> 1, mbr |-> TRUE]

\* The loop over the MBR ends at the first entry in use, so a protective entry
\* behind it is not seen.
IsGpt(d) == \E i \in DOMAIN d.mbr :
              /\ d.mbr[i].size > 0 /\ d.mbr[i].type = "EE"
              /\ \A u \in Used(d) : i < u

\* find_partition_by_lba
AtMbrLba(d) == {i \in DOMAIN d.gpt : d.gpt[i].type # "none" /\ d.gpt[i].lba = MbrLba(d)}

\* find_gpt_data_partition if the MBR names no partition of the GPT.
ByGptTable(d) == IF AtMbrLba(d) # {} THEN ByGpt(d, Min(AtMbrLba(d)))
                 ELSE IF BasicData(d) # {} THEN ByGpt(d, Min(BasicData(d)))
                 ELSE [NoPartition EXCEPT !.lba = MbrLba(d)]

\* Mutant: the GPT is read only when the MBR has no other entry.
MbrFirst(d) == IF MbrLba(d) = 0 THEN ByGptTable(d) ELSE ByMbr(d)

EfiPartition(d) == IF IsGpt(d) \/ MbrLba(d) = 0 THEN ByGptTable(d) ELSE ByMbr(d)

-----------------------------------------------------------------------------
(* The BIOS kernel: a protective entry anywhere, of any size, makes it a   *)
(* GPT disk, and there only the first basic data partition counts.         *)

HasGpt(d) == \E i \in DOMAIN d.mbr : d.mbr[i].type = "EE"

Sized(d) == {i \in DOMAIN d.mbr : d.mbr[i].size > 0}

\* Mutant: the loop over the GPT goes on to the last basic data partition.
BiosLast(d) ==
  IF HasGpt(d) THEN IF BasicData(d) # {} THEN d.gpt[Max(BasicData(d))].lba ELSE 0
  ELSE IF Sized(d) # {} THEN d.mbr[Min(Sized(d))].lba ELSE 0

BiosLba(d) ==
  IF HasGpt(d) THEN IF BasicData(d) # {} THEN d.gpt[Min(BasicData(d))].lba ELSE 0
  ELSE IF Sized(d) # {} THEN d.mbr[Min(Sized(d))].lba ELSE 0

-----------------------------------------------------------------------------
\* A table as the installer leaves it: an MBR whose first entry is the data
\* partition, or a GPT whose first is, of the basic data type, behind a
\* protective MBR that may name the data partition too.
AsInstalled(d) ==
  IF d.gpt = <<>>
    THEN /\ d.mbr[1].size > 0
         /\ \A i \in DOMAIN d.mbr : d.mbr[i].type # "EE"
    ELSE /\ d.gpt[1].type = "basic"
         /\ d.mbr[1].type = "EE" /\ d.mbr[1].size > 0
         /\ \A i \in Used(d) : d.mbr[i].lba = d.gpt[1].lba

DataPartition(d) ==
  IF d.gpt = <<>>
    THEN [lba |-> d.mbr[1].lba, guid |-> d.sig, num |-> 1, mbr |-> TRUE]
    ELSE [lba |-> d.gpt[1].lba, guid |-> d.gpt[1].guid, num |-> 1, mbr |-> FALSE]
=============================================================================
