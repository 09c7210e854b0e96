------------------------------ MODULE MCPremount ------------------------------
(* Values for the model-checked instances of Premount. *)
EXTENDS Premount

MCDevices == {"stick1", "system1", "other1"}
MCLoops == {"loop0", "loop1"}
=============================================================================
