--------------------------- MODULE Justification ---------------------------
(***************************************************************************)
(* The proof a GRANDPA justification gives: a commit, that is a target and *)
(* signed precommits, and the headers of the blocks between the target and *)
(* the precommits (votes_ancestries).                                      *)
(*                                                                         *)
(* A header is known by its hash, which determines its parent; so the      *)
(* headers are a set of blocks of a tree that the verifier does not know.  *)
(* Each signer has at most one precommit, and the order of precommits      *)
(* makes no difference.  A bad signature is logged and changes nothing, so *)
(* signatures, round and set_id are left out.                              *)
(***************************************************************************)
EXTENDS Integers, FiniteSets, Sequences, FiniteSetsExt, SequencesExt

CONSTANTS
    VoteTree,          \* block -> its parent
    VoterWeight,       \* voter -> weight: the VoterSet
    OtherSigners,      \* signers that are no voters
    FinalizedTarget    \* the block the header of which is submitted

ASSUME JustificationAssumption ==
    /\ VoterWeight \in [DOMAIN VoterWeight -> Nat \ {0}]
    /\ DOMAIN VoterWeight \cap OtherSigners = {}
    /\ FinalizedTarget \in DOMAIN VoteTree

VARIABLES
    proof,     \* the justification that was received
    outcome    \* what decode_and_verify_finalizes returned

justificationVars == <<proof, outcome>>

VoteBlocks == DOMAIN VoteTree
Voters == DOMAIN VoterWeight
NoProof == [kind |-> "none"]
Undecodable == [kind |-> "undecodable"]

\* commit.target_hash, commit.precommits and votes_ancestries
Commits ==
    [kind : {"commit"}, target : VoteBlocks, votes_ancestries : SUBSET VoteBlocks,
     precommits : UNION {[S -> VoteBlocks] : S \in SUBSET (Voters \cup OtherSigners)}]

JustificationInit == proof = NoProof /\ outcome = "none"
----------------------------------------------------------------------------
\* AncestryChain::ancestry: up from a block to the base, as far as there are headers; the
\* route has neither the block nor the base.
NotDescendent == <<"NotDescendent">>

RECURSIVE Walk(_, _, _, _)
Walk(headers, base, current, ancestors) ==
    IF current = base THEN IF ancestors = <<>> THEN <<>> ELSE Front(ancestors)
    ELSE IF current \in headers
    THEN Walk(headers, base, VoteTree[current], Append(ancestors, VoteTree[current]))
    ELSE NotDescendent

ancestry(headers, base, block) == Walk(headers, base, block, <<>>)
is_descendent(headers, base, block) == ancestry(headers, base, block) # NotDescendent

\* VoterSet::threshold: more than two thirds.
TotalWeight == MapThenSumSet(LAMBDA v : VoterWeight[v], Voters)
threshold == TotalWeight - (TotalWeight - 1) \div 3

\* The weight of the voters that precommitted to a block or to one below it.
WeightOf(commit, block) ==
    MapThenSumSet(LAMBDA v : VoterWeight[v],
                  {v \in Voters \cap DOMAIN commit.precommits :
                     is_descendent(commit.votes_ancestries, block, commit.precommits[v])})

\* precommit_ghost: the lowest block that has the threshold.
IsGhost(commit, block) ==
    /\ WeightOf(commit, block) >= threshold
    /\ \A b \in VoteBlocks : VoteTree[b] = block => WeightOf(commit, b) < threshold

\* finality_grandpa::validate_commit: the votes of voters are all at or below one of them,
\* the base, and the ghost is the target.
validate_commit(commit) ==
    LET votes == {commit.precommits[v] : v \in Voters \cap DOMAIN commit.precommits} IN
    /\ \E base \in votes :
         \A b \in votes : is_descendent(commit.votes_ancestries, base, b)
    /\ IsGhost(commit, commit.target)

\* fill_visited_hashes forgets the block of the precommit, where the route does not start.
fill_visited_hashes_mut(commit, block) == ToSet(ancestry(commit.votes_ancestries, commit.target, block))

fill_visited_hashes(commit, block) ==
    {block} \cup ToSet(ancestry(commit.votes_ancestries, commit.target, block))

\* The precommits to other blocks than the target; those of signers that are no voters too.
PrecommitsBelow(commit) == Range(commit.precommits) \ {commit.target}

\* Every precommit has its route, and no header is on none of them.
verify_with_voter_set(commit) ==
    /\ validate_commit(commit)
    /\ \A b \in PrecommitsBelow(commit) : is_descendent(commit.votes_ancestries, commit.target, b)
    /\ UNION {fill_visited_hashes(commit, b) : b \in PrecommitsBelow(commit)} = commit.votes_ancestries

receive_justification ==
    /\ proof = NoProof
    /\ \E p \in Commits \cup {Undecodable} : proof' = p
    /\ UNCHANGED outcome

decode_and_verify_finalizes ==
    /\ proof # NoProof /\ outcome = "none"
    /\ outcome' = IF proof = Undecodable THEN "JustificationDecode"
                  ELSE IF proof.target = FinalizedTarget /\ verify_with_voter_set(proof) THEN "Ok"
                  ELSE "BadJustification"
    /\ UNCHANGED proof

JustificationNext == receive_justification \/ decode_and_verify_finalizes
----------------------------------------------------------------------------
\* The blocks from a block up to the root of the tree, by the tree itself.
Lineage[b \in VoteBlocks] ==
    IF VoteTree[b] \in VoteBlocks THEN {b} \cup Lineage[VoteTree[b]] ELSE {b}

\* In whatever shape headers and precommits come, a justification is accepted exactly if it
\* proves that the submitted block is final: all precommits are for the block or for blocks
\* below it, one of a voter for the block itself, the voters are more than two thirds by
\* weight and no more than two thirds went on to one child, and the headers are those
\* between the block and the precommits, none missing and none unused (justification.rs).
FinalityIsProven ==
    outcome # "none" /\ proof # Undecodable =>
        LET votes == Range(proof.precommits)
            Behind(b) == MapThenSumSet(LAMBDA v : VoterWeight[v],
                             {v \in Voters \cap DOMAIN proof.precommits : b \in Lineage[proof.precommits[v]]})
        IN  outcome = "Ok" <=>
                /\ proof.target = FinalizedTarget
                /\ \A b \in votes : FinalizedTarget \in Lineage[b]
                /\ \E v \in Voters \cap DOMAIN proof.precommits : proof.precommits[v] = FinalizedTarget
                /\ 3 * Behind(FinalizedTarget) > 2 * TotalWeight
                /\ \A b \in VoteBlocks : VoteTree[b] = FinalizedTarget => 3 * Behind(b) <= 2 * TotalWeight
                /\ proof.votes_ancestries = UNION {Lineage[b] : b \in votes} \ Lineage[FinalizedTarget]
============================================================================
