------------------------------- MODULE MCIsoFs -------------------------------
(* Images for the model-checked instance of IsoFs. *)
EXTENDS IsoFs

Rec(name, first, sectors, class, text) ==
  [name |-> name, first |-> first, sectors |-> sectors, class |-> class, text |-> text]
Dir(first) == Rec("BOOT", first, 1, "dir", "none")
Menu(first, text) == Rec("GRUB.CFG", first, 1, "menu", text)
Spare(name, first) == Rec(name, first, 1, "spare", "none")
Vital(name, first) == Rec(name, first, 1, "vital", "none")

Image(halves, k, root, boot) ==
  [halves |-> halves, valid |-> TRUE, kind |-> k, root |-> root, boot |-> boot]
Invalid(halves) ==
  [halves |-> halves, valid |-> FALSE, kind |-> "unknown", root |-> <<>>, boot |-> <<>>]

Loader == Vital("EFI", 9)

MCImages ==
  {Invalid(0), Invalid(7),
   \* Room in the root directory; the last sector of the file is half full.
   Image(21, "unknown", <<<<Dir(3), Loader>>>>, <<Menu(4, "none"), Rec("LOOP.CFG", 5, 2, "menu", "linux")>>),
   Image(22, "windows", <<<<Dir(3), Menu(4, "linux")>>>>, <<Loader>>),
   \* Two and three sectors, with and without room in the last one.
   Image(22, "fedora", <<<<Dir(4), Loader, Spare("A", 7)>>, <<Menu(5, "linux")>>>>, <<Menu(6, "stub")>>),
   Image(22, "arch", <<<<Loader>>, <<Dir(5), Spare("A", 7)>>, <<Menu(6, "linux")>>>>,
         <<Rec("A.CONF", 8, 1, "conf", "linux"), Menu(10, "linux")>>),
   \* Full: a file must go, from the sector of the menu or another, or none can.
   Image(22, "unknown", <<<<Dir(3), Menu(4, "stub"), Spare("A", 7)>>>>, <<Loader>>),
   Image(22, "unknown", <<<<Dir(4), Vital("B", 8), Spare("A", 7)>>, <<Menu(6, "linux"), Loader, Spare("C", 8)>>>>,
         <<Menu(6, "linux")>>),
   Image(22, "unknown", <<<<Dir(3), Loader, Rec("X.CFG", 7, 1, "cfg", "linux")>>>>,
         <<Rec("Y.CFG", 8, 2, "cfg", "none"), Rec("Z.CONF", 6, 1, "conf", "linux")>>),
   Image(22, "fedora", <<<<Dir(3), Loader, Vital("C", 8)>>>>, <<Rec("Z.CONF", 6, 1, "conf", "linux")>>)}

ASSUME NamesDistinct
=============================================================================
