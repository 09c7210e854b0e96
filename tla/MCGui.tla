--------------------------------- MODULE MCGui ---------------------------------
(* Values for the model-checked instance of Gui. *)
EXTENDS Gui

MCPaths == {"/dev/sda", "/dev/sdb"}
=============================================================================
