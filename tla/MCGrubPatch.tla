------------------------------ MODULE MCGrubPatch ------------------------------
(* Menus for the model-checked instance of GrubPatch. *)
EXTENDS GrubPatch

\* A line before it has a place: [key, words, drop, len].
Draft(key, ws, drop, len) == [key |-> key, words |-> ws, drop |-> drop, len |-> len]

Kernels == {Draft("linux", <<"word">>, 0, 30),
            Draft("linux", <<"word", "locator", "---", "word">>, 25, 70),
            Draft("linux", <<"word", "ours", "locator">>, 10, 300),
            Draft("linux", <<>>, 0, 7)}
Others == {Draft("initrd", <<"word">>, 0, 20), Draft("initrd", <<"word">>, 0, 10),
           Draft("initrd", <<"word", "archive">>, 0, 40),
           Draft("options", <<"word", "locator">>, 20, 60), Draft("options", <<"word">>, 0, 15),
           Draft("blscfg", <<>>, 0, 7),
           Draft("menuentry", <<"word">>, 0, 12), Draft("configfile", <<"word">>, 0, 40)}

Placed(ds) ==
  LET e[i \in 0..Len(ds)] == IF i = 0 THEN 0 ELSE e[i - 1] + ds[i].len
  IN  [i \in DOMAIN ds |-> [start |-> e[i - 1], end |-> e[i], key |-> ds[i].key,
                            words |-> ds[i].words, drop |-> ds[i].drop]]

\* Every menu of up to three lines, and long ones of a single kind, which use
\* up what the 256 bytes of slack could hide.
MCMenus == {Placed(ds) : ds \in SeqOf(Kernels \cup Others, 3)}
             \cup {Placed([i \in 1..12 |-> d]) : d \in Kernels \cup Others}

\* A short path, one at the limit of Fedora's arguments, and one beyond most.
MCLocations == {[mbr |-> TRUE, path |-> 5, num |-> 1, offset |-> 9, size |-> 10],
                [mbr |-> FALSE, path |-> 195, num |-> 10, offset |-> 20, size |-> 10],
                [mbr |-> FALSE, path |-> 250, num |-> 1, offset |-> 20, size |-> 10]}
=============================================================================
