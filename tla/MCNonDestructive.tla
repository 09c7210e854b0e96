--------------------------- MODULE MCNonDestructive ---------------------------
(* Disks for the model-checked instances of NonDestructive. *)
EXTENDS NonDestructive

MCU64 == 2^26
MCU32 == 2^25

Row(p1, p2, p3, p4) == <<p1, p2, p3, p4>>
Free == Extent(0, 0)
Full(n) == Extent(2048, n)

Disk(total, style, kind, row) ==
  [total |-> total, style |-> style, table |-> row, kind |-> kind, fs |-> row[1].count]

\* One partition to the end of the disk (aligned and not), one just too small
\* to be shrunk, one that leaves exactly 32 MiB, or one sector less, free; a
\* third partition behind it, and no free slot.
Rows(style) ==
  LET end == 300000 - (IF style = "gpt" THEN 40 ELSE 0)
  IN  {Row(Full(end - 2048), Free, Free, Free),
       Row(Full(end - 2053), Free, Free, Free),
       Row(Full(67583), Free, Free, Free),
       Row(Full(end - 2048 - 65536), Free, Free, Free),
       Row(Full(end - 2048 - 65528), Free, Free, Free),
       Row(Full(100000), Free, Extent(102048, 8000), Free),
       Row(Full(67584), Free, Extent(69632 + 65536, 8000), Free),
       Row(Full(100000), Extent(102048, 8), Extent(102056, 8), Extent(102064, 8)),
       Row(Full(60000), Free, Extent(62048, 8000), Free),
       Row(Free, Free, Free, Free),
       Row(Extent(2056, 100000), Free, Free, Free)}

SpareSlot ==
  {Disk(300000, s, k, r) : s \in {"mbr"}, k \in {"ntfs", "ext", "other"}, r \in Rows("mbr")}
  \cup {Disk(300000, s, k, r) : s \in {"gpt"}, k \in {"ntfs", "ext"}, r \in Rows("gpt")}
  \cup {Disk(67584, "mbr", "ntfs", Row(Full(65536), Free, Free, Free))}

\* A disk with a second partition of the user's in slot 2.
TakenSlot == {Disk(300000, "mbr", "ntfs", Row(Full(200000), Extent(202048, 8000), Free, Free))}
=============================================================================
