---------------------- MODULE MCSynchronousConsensus ----------------------
(* Instances of SynchronousConsensus for TLC. *)
EXTENDS SynchronousConsensus

CONSTANTS n1, n2

\* Block hashes: the later slot has the lower hash.
LaterFirst(b) == 2 * (MaxSlot - Top(b).slot) + (IF Top(b).author = n1 THEN 0 ELSE 1)

\* Only the primary is registered, the other node follows.
OneAuthority == [h \in 0 .. MaxHeight |-> <<n1>>]

\* Of the operations that may fail only the sending of extrinsics does, for a block of the
\* second slot: its author loses the effects, but has sent the block, and the others get it.
OnlyEffectsFail ==
    failures' # failures => slot = 2 /\ \E n \in Nodes : phase[n] = "effects" /\ phase'[n] = "idle"
=============================================================================
