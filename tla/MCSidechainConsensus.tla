----------------------- MODULE MCSidechainConsensus -----------------------
(* An instance of SidechainConsensus for TLC. *)
EXTENDS SidechainConsensus

CONSTANTS n1, n2, c1

\* Block hashes: the later slot has the lower hash.
LaterFirst(b) == 2 * (MaxSlot - Top(b).slot) + (IF Top(b).author = n1 THEN 0 ELSE 1)

\* Both nodes are authorities all the time.
BothAuthorities == [h \in 0 .. MaxHeight |-> <<n1, n2>>]
=============================================================================
