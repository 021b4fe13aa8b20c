---------------------------- MODULE BlockWindow ----------------------------
(***************************************************************************)
(* What the sidechain storage promises its readers: per shard a window of  *)
(* consecutive block numbers that grows by one at the top and shrinks at   *)
(* the bottom, never giving up its newest Keep blocks.  The promise ends    *)
(* with the first write that fails.                                        *)
(***************************************************************************)
EXTENDS Integers

CONSTANTS Shards, MaxNumber, Keep

VARIABLES
    window,     \* window[s]: the numbers of the blocks that can be read
    broken      \* a write has failed

Init == window = [s \in Shards |-> {}] /\ broken = FALSE

\* A block enters on top of the newest one, or starts an empty window.
Append(s, n) ==
    /\ ~broken /\ ~broken'
    /\ \A m \in window[s] : m < n
    /\ window[s] # {} => n - 1 \in window[s]
    /\ window' = [window EXCEPT ![s] = @ \cup {n}]

\* Any number of shards lose old blocks, never one of their newest Keep.
Trim ==
    /\ ~broken /\ ~broken'
    /\ window' \in [Shards -> SUBSET (1 .. MaxNumber)]
    /\ \A s \in Shards :
          /\ window'[s] \subseteq window[s]
          /\ \A m \in window[s] \ window'[s] :
                /\ \A n \in window'[s] : m < n
                /\ \A n \in 1 .. MaxNumber :
                      n \in window[s] /\ (\A k \in window[s] : k <= n) => m <= n - Keep

\* A write fails, or has failed before.
Break ==
    /\ broken' = TRUE
    /\ window' \in [Shards -> SUBSET (1 .. MaxNumber)]

Next == Trim \/ Break \/ \E s \in Shards, n \in 1 .. MaxNumber : Append(s, n)

Spec == Init /\ [][Next]_<<window, broken>>
=============================================================================
