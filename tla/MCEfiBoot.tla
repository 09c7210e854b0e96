------------------------------- MODULE MCEfiBoot -------------------------------
(* Volumes and machines for the model-checked instance of EfiBoot. *)
EXTENDS EfiBoot

It(kind, name, parts, sub) ==
  [kind |-> kind, name |-> name, parts |-> parts, sub |-> sub, bytes |-> 2, cut |-> FALSE]

Image == It("file", "iso", 1, 0)
LongImage == It("file", "iso", 4, 0)
Program == It("file", "efi", 2, 0)
Disc == It("file", "wim", 1, 0)
Text == It("file", "txt", 3, 0)
Gone == It("gone", "iso", 2, 0)
Label == It("other", "txt", 0, 0)
Dots == It("dots", "txt", 0, 1)
Sub(n) == It("dir", "txt", 1, n)

Dir(items) == [items |-> items, chained |-> TRUE]

\* Directories below the root: empty, over two clusters, with a directory of
\* their own, and one that leads back to the root.
Subs == {<<>>, <<LongImage, Gone, Image>>, <<Sub(3), Image>>, <<Image, Sub(1)>>}

ExfatRoots ==
  SeqOf({Image, LongImage, Text, Gone, Label, Sub(2), Sub(1), It("broken", "iso", 1, 0)}, 2)
    \cup [1..3 -> {Image, LongImage, Gone, Sub(2)}]

ExfatVolumes ==
  {[fs |-> "exfat", dirs |-> <<Dir(r), [items |-> s, chained |-> c], Dir(<<Program, Disc>>)>>] :
     r \in ExfatRoots, s \in Subs, c \in BOOLEAN}

Short == It("file", "iso", 0, 0)
Orphan == It("orphan", "iso", 2, 0)

FatRoots ==
  SeqOf({Image, LongImage, Short, It("file", "txt", 0, 0), Gone, Label, Sub(2), Orphan,
         [Image EXCEPT !.cut = TRUE]}, 2)
    \cup [1..3 -> {Image, Short, Sub(2), Orphan}]

FatVolumes ==
  {[fs |-> "fat32", dirs |-> <<Dir(r), Dir(<<Dots, Dots>> \o s), Dir(<<Program, Disc>>)>>] :
     r \in FatRoots, s \in Subs}

\* Six directories one in the other, whose names may fill the buffer for paths
\* before the limit is reached, and one that contains itself.
Chain(bytes) ==
  [i \in 1..7 |-> Dir(<<Image>> \o IF i = 7 THEN <<>> ELSE <<[Sub(i + 1) EXCEPT !.bytes = bytes]>>)]

DeepVolumes ==
  {[fs |-> f, dirs |-> Chain(b)] : f \in {"exfat", "fat32"}, b \in {2, 8, 20}}
    \cup {[fs |-> f, dirs |-> <<Dir(<<Sub(1), Image, Sub(1)>>)>>] : f \in {"exfat", "fat32"}}

Volumes == ExfatVolumes \cup FatVolumes \cup DeepVolumes

-----------------------------------------------------------------------------
Unused == [type |-> "none", lba |-> 0, size |-> 0]
P(type, lba) == [type |-> type, lba |-> lba, size |-> 8]
G(type, lba, guid) == [type |-> type, lba |-> lba, guid |-> guid]

Drive(mbr, gpt, at) ==
  [whole |-> TRUE, media |-> TRUE, mbr |-> mbr, sig |-> 100, gpt |-> gpt, at |-> at]

MbrStick(v) == Drive(<<P("07", 4), P("EF", 5), Unused, Unused>>, <<>>, 4 :> v)

Few == [fs |-> "exfat", dirs |-> <<Dir(<<Image, Disc, Sub(2)>>), Dir(<<Program>>)>>]
Windows == [fs |-> "ntfs", dirs |-> <<>>]

Tables ==
  {<<P("EE", 1), Unused, Unused, Unused>>, <<P("EE", 1), P("07", 4), Unused, Unused>>,
   <<P("EE", 1), P("EF", 5), Unused, Unused>>, <<P("07", 4), P("EE", 1), Unused, Unused>>,
   <<P("07", 4), P("EF", 5), Unused, Unused>>, <<P("EE", 1), P("07", 9), Unused, Unused>>,
   <<Unused, P("07", 4), Unused, Unused>>, <<Unused, Unused, Unused, Unused>>}

Gpts == {<<>>} \cup {<<G(t, 4, 101), G("esp", 5, 102), G("basic", 6, 103)>> : t \in {"basic", "linux", "none"}}

Contents == {4 :> Few @@ 6 :> Few, 4 :> Few, 6 :> Windows, 4 :> Windows @@ 9 :> Few}

Drives == {Drive(t, g, a) : t \in Tables, g \in Gpts, a \in Contents}

NoDisk == {[MbrStick(Few) EXCEPT !.whole = FALSE], [MbrStick(Few) EXCEPT !.media = FALSE]}

MCMachines ==
  {<<MbrStick(v)>> : v \in Volumes} \cup {<<d>> : d \in Drives}
    \cup {<<d, MbrStick(Few)>> : d \in NoDisk \cup Drives} \cup {<<d>> : d \in NoDisk}
=============================================================================
