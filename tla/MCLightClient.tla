---------------------------- MODULE MCLightClient ----------------------------
(* Instances of LightClient for TLC. *)
EXTENDS LightClient

\* No authority change.
NoChanges == [n \in Heights |-> NoChange]

\* A change with the delay substrate's session pallet uses.
ChangeAtOnce == [n \in Heights |-> IF n = 1 THEN 0 ELSE NoChange]
=============================================================================
