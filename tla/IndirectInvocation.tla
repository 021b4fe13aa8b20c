------------------------- MODULE IndirectInvocation -------------------------
(***************************************************************************)
(* A trusted call through the parentchain: the client submits an invoke    *)
(* extrinsic, waits until it is in a block, which another branch may still *)
(* replace, and then watches the events of new blocks for the confirmation *)
(* that a worker has processed that block.                                 *)
(*                                                                         *)
(* Workers process finalized blocks in order and confirm each of them;     *)
(* their confirmations are events of later blocks.  The parentchain has    *)
(* two possible blocks at every height, one of which is finalized.         *)
(***************************************************************************)
EXTENDS Integers, FiniteSets

CONSTANTS
    Confirmers,          \* workers
    TIMEOUT_BLOCKS,      \* blocks with events that the client waits for
    MaxChainHeight       \* bound of the model: blocks that are told apart

ASSUME IndirectInvocationAssumption == TIMEOUT_BLOCKS \in Nat \ {0} /\ MaxChainHeight \in Nat

VARIABLES
    chainHeight,     \* best block
    finalBranch,     \* height -> branch, of finalized blocks
    processed_to,       \* worker -> last block it processed
    emitted,         \* confirmations that go into the next block
    newEvents,       \* the new block the client has not looked at yet, or NoBlock
    invocation       \* [at, number, branch, blocks]: the client

invocationVars == <<chainHeight, finalBranch, processed_to, emitted, newEvents, invocation>>

Branches == {"a", "b"}
NoBlock == [fresh |-> FALSE, events |-> {}]
FinalHeight == Cardinality(DOMAIN finalBranch)
Confirmation(n) == [number |-> n, branch |-> finalBranch[n]]

IndirectInvocationInit ==
    /\ chainHeight = 0 /\ finalBranch = [n \in {} |-> "a"] /\ processed_to = [w \in Confirmers |-> 0]
    /\ emitted = {} /\ newEvents = NoBlock
    /\ invocation = [at |-> "start", number |-> 0, branch |-> "a", blocks |-> 0]
-----------------------------------------------------------------------------
(* The chain and the workers, external *)

\* The subscription hands the client the events of every new block. Blocks beyond the bound
\* have events and no height.
produce_block ==
    /\ newEvents = NoBlock
    /\ chainHeight' = (IF chainHeight < MaxChainHeight THEN chainHeight + 1 ELSE chainHeight)
    /\ emitted' = {}
    /\ newEvents' = IF invocation.at = "subscribed" THEN [fresh |-> TRUE, events |-> emitted] ELSE NoBlock
    /\ UNCHANGED <<finalBranch, processed_to, invocation>>

finalize_block(branch) ==
    /\ FinalHeight < chainHeight
    /\ finalBranch' = [n \in 1 .. FinalHeight + 1 |-> IF n \in DOMAIN finalBranch THEN finalBranch[n] ELSE branch]
    /\ UNCHANGED <<chainHeight, processed_to, emitted, newEvents, invocation>>

process_parentchain_block(w) ==
    /\ processed_to[w] < FinalHeight
    /\ processed_to' = [processed_to EXCEPT ![w] = @ + 1]
    /\ emitted' = emitted \cup {Confirmation(processed_to[w] + 1)}
    /\ UNCHANGED <<chainHeight, finalBranch, newEvents, invocation>>
-----------------------------------------------------------------------------
(* The client: send_indirect_request *)

\* submit_and_watch_extrinsic_until InBlock: in the best block, finalized or not.
invoke_in_block(branch) ==
    /\ invocation.at = "start"
    /\ FinalHeight < chainHeight
    /\ invocation' = [invocation EXCEPT !.at = "in_block", !.number = chainHeight, !.branch = branch]
    /\ UNCHANGED <<chainHeight, finalBranch, processed_to, emitted, newEvents>>

\* Its header is asked for, and only then the events are subscribed to.
subscribe_events ==
    /\ invocation.at = "in_block"
    /\ invocation' = [invocation EXCEPT !.at = "subscribed"]
    /\ UNCHANGED <<chainHeight, finalBranch, processed_to, emitted, newEvents>>

\* The number of the block decides alone.
Verdicts_mut(event) ==
    IF event.number > invocation.number THEN "too_high"
    ELSE IF event.number = invocation.number THEN "confirmed" ELSE "waiting"

\* What a confirmation means to the client.
Verdicts(event) ==
    IF event.number > invocation.number THEN "too_high"
    ELSE IF event.number = invocation.number /\ event.branch # invocation.branch THEN "other_hash"
    ELSE IF event.number = invocation.number THEN "confirmed" ELSE "waiting"

\* Blocks without an answer are not counted.
BlocksSeen_mut == invocation.blocks

BlocksSeen == invocation.blocks + 1

ConfirmationTimedOut == BlocksSeen > TIMEOUT_BLOCKS

\* The events of a block come in the order of its extrinsics: any, and the first one that
\* is decisive decides.
next_events_from_metadata ==
    LET decisive == {e \in newEvents.events : Verdicts(e) # "waiting"} IN
    /\ invocation.at = "subscribed" /\ newEvents # NoBlock
    /\ newEvents' = NoBlock
    /\ IF ConfirmationTimedOut THEN invocation' = [invocation EXCEPT !.at = "timed_out"]
       ELSE \/ decisive = {} /\ invocation' = [invocation EXCEPT !.blocks = BlocksSeen]
            \/ \E e \in decisive : invocation' = [invocation EXCEPT !.at = Verdicts(e)]
    /\ UNCHANGED <<chainHeight, finalBranch, processed_to, emitted>>

IndirectInvocationNext ==
    \/ produce_block \/ subscribe_events \/ next_events_from_metadata
    \/ \E branch \in Branches : finalize_block(branch) \/ invoke_in_block(branch)
    \/ \E w \in Confirmers : process_parentchain_block(w)

\* The chain goes on, whatever the workers do; the client's code runs.
IndirectInvocationFairness ==
    /\ WF_invocationVars(produce_block)
    /\ WF_invocationVars(subscribe_events) /\ WF_invocationVars(next_events_from_metadata)
-----------------------------------------------------------------------------
\* A client that reports its call as confirmed has it in a finalized block that a worker
\* processed, although the block was not final when the client was told of it.
ConfirmedIsProcessed ==
    invocation.at = "confirmed" =>
        /\ \E w \in Confirmers : processed_to[w] >= invocation.number
        /\ finalBranch[invocation.number] = invocation.branch

\* A client whose call is in a block gets an answer or gives up, also when the workers
\* stop or confirmed the block before the client listened.
InvocationEnds == invocation.at = "in_block" ~> invocation.at \in {"confirmed", "too_high", "other_hash", "timed_out"}
=============================================================================
