------------------------------ MODULE MCBiosBoot ------------------------------
(* Disks and images for the model-checked instance of BiosBoot. *)
EXTENDS BiosBoot, TLC

Items == [kind : {"iso"}, names : {1, 2, 4}] \cup [kind : {"plain"}, names : {1, 4}]
           \cup [kind : {"gone"}, names : {1, 2}]

\* Up to three items of any kind and length, and lists longer than a page and
\* than MaxFiles: with 4 entries in a sector a set of 6 may span three.
Directories == SeqOf(Items, 3)
                 \cup {[i \in 1..n |-> [kind |-> "iso", names |-> 1]] : n \in 4..6}

Volumes == [fs : {"exfat", "fat32"}, dir : Directories]

Two == [fs |-> "exfat", dir |-> [i \in 1..2 |-> [kind |-> "iso", names |-> 1]]]

E(type, start) == [type |-> type, lba |-> start, size |-> IF type = "none" THEN 0 ELSE 8]
G(type, start, guid) == [type |-> type, lba |-> start, guid |-> guid]

Tables ==
  {<<E("EE", 1), E("none", 0), E("none", 0), E("none", 0)>>,
   <<E("EE", 1), E("07", 4), E("none", 0), E("none", 0)>>,
   <<E("07", 4), E("EE", 1), E("none", 0), E("none", 0)>>,
   <<E("07", 4), E("EF", 5), E("none", 0), E("none", 0)>>,
   <<E("none", 0), E("07", 4), E("none", 0), E("none", 0)>>,
   <<E("none", 0), E("none", 0), E("none", 0), E("none", 0)>>}

Gpts == {<<>>} \cup {<<G(t, 4, 101), G("esp", 5, 102), G("basic", 6, 103)>> : t \in {"basic", "linux"}}

C(type, platform, start, count) == [type |-> type, platform |-> platform, lba |-> start, count |-> count]

UEFI == 239

\* What may follow the validation entry: headers, boot images and entries that
\* are not bootable, in any order.
Followers == {C("section", BIOS, 0, 0), C("section", UEFI, 0, 0), C("boot", 0, 30, 0), C("boot", 0, 40, 8),
              C("other", 0, 0, 0)}

Catalogs == {<<C("validation", p, 0, 0)>> \o f : p \in {BIOS, UEFI}, f \in SeqOf(Followers, 2)}
              \cup {<<C("other", 0, 0, 0), C("boot", 0, 30, 0)>>,
                    <<C("validation", BIOS, 0, 0), C("other", 0, 0, 0), C("other", 0, 0, 0),
                      C("boot", 0, 30, 0)>>}

IsoFiles == [signed : BOOLEAN, catalog : Catalogs, where : {20}, piece : {10, 19, 50}]

Plain == [signed |-> TRUE, catalog |-> <<C("validation", BIOS, 0, 0), C("boot", 0, 30, 0)>>,
          where |-> 20, piece |-> 50]

MCStrangers == {Plain, [Plain EXCEPT !.signed = FALSE],
                [Plain EXCEPT !.catalog = <<C("validation", BIOS, 0, 0), C("boot", 0, 60, 4)>>]}

-----------------------------------------------------------------------------
Drive(mbr, gpt, at, image) ==
  [mbr |-> mbr, sig |-> 100, gpt |-> gpt, at |-> at, image |-> image]

Installed == <<E("07", 4), E("EF", 5), E("none", 0), E("none", 0)>>

\* All directories, all tables, and all images, but not all of their combinations.
MCDrives ==
  {Drive(Installed, <<>>, 4 :> v, Plain) : v \in Volumes}
    \cup {Drive(t, g, a, Plain) :
            t \in Tables, g \in Gpts, a \in {4 :> Two @@ 6 :> Two, 4 :> Two, 6 :> Two}}
    \cup {Drive(Installed, <<>>, 4 :> Two, i) : i \in IsoFiles}
=============================================================================
