------------------------------ MODULE MCInstall ------------------------------
(* Values for the model-checked instances of Install. *)
EXTENDS Install

MCU64 == 2^26
\* The smallest disk on which a 1 MiB reserve leaves room for both partitions
\* of a GPT installation, and a roomier one.
SizesSafe == {69674, 90001}
SizesOne == {90001}
=============================================================================
