----------------------------- MODULE MCSidechain -----------------------------
(* Validateers that stay in step, and beside them, one per behaviour, what   *)
(* the consensus model takes as one step: the state and its diffs, the peers *)
(* a block is sent to, and the clock the slots are cut from. The components  *)
(* share no variable; `part` says which one moves.                           *)
EXTENDS SynchronousConsensus, SidechainState, PeerNetwork, SlotTiming

CONSTANTS n1, n2, c1

VARIABLE part

\* Block hashes: the later slot has the lower hash.
LaterFirst(b) == 2 * (MaxSlot - Top(b).slot) + (IF Top(b).author = n1 THEN 0 ELSE 1)

\* Both nodes are authorities all the time.
BothAuthorities == [h \in 0 .. MaxHeight |-> <<n1, n2>>]

\* A reduction that loses no chain and no effect: a call enters a pool just
\* before the step that reads the pool; nothing looks at it in between.
JustInTimeCalls ==
    \A n \in Nodes :
        pool'[n] \subseteq pool[n] \/ (QueueDone(n) /\ ClaimsSlot(n) /\ slot = timestamp[n])

\* Two shards share the time of a slot.
TwoShards == <<"s", "r">>

WorkersInit ==
    /\ part \in {"consensus", "state", "peers", "slots"}
    /\ Init /\ SidechainStateInit /\ PeerNetworkInit /\ SlotTimingInit

WorkersNext ==
    /\ UNCHANGED part
    /\ \/ /\ part = "consensus" /\ TimelyNext
          /\ UNCHANGED <<sidechainStateVars, networkVars, slotTimingVars>>
       \/ /\ part = "state" /\ SidechainStateNext
          /\ UNCHANGED <<vars, networkVars, slotTimingVars>>
       \/ /\ part = "peers" /\ PeerNetworkNext
          /\ UNCHANGED <<vars, sidechainStateVars, slotTimingVars>>
       \/ /\ part = "slots" /\ SlotTimingNext
          /\ UNCHANGED <<vars, sidechainStateVars, networkVars>>

WorkersSpec ==
    WorkersInit /\ [][WorkersNext]_<<vars, sidechainStateVars, networkVars, slotTimingVars, part>>
=============================================================================
