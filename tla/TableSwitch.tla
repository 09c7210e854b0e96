----------------------------- MODULE TableSwitch -----------------------------
(***************************************************************************)
(* What a partition table rewritten in place promises to whoever reads the *)
(* disk: the old table until some moment, the new one from then on, and    *)
(* never neither.  Only a power loss releases the writer of the promise,   *)
(* since nothing orders its writes on the medium.                          *)
(***************************************************************************)
VARIABLE seen     \* the table a reader finds

Init == seen \in {"old", "new"}

Switch == seen = "old" /\ seen' = "new"

PowerLost == seen' = "anything"

Next == Switch \/ PowerLost

Spec == Init /\ [][Next]_seen
=============================================================================
