--------------------------- MODULE PoolMaintenance ---------------------------
(***************************************************************************)
(* What happens to the TOP pool around an imported block: pruning by tags, *)
(* the ban of the block's operations, the second verification of what was  *)
(* pruned, the events, and the removal of stale operations, while clients  *)
(* go on submitting.  Verification and import of one submission are two    *)
(* steps, with an await in between, and the ban is only looked at by the   *)
(* first.  Operations of one tag compete for it; calls of this STF require *)
(* no tags, so that nothing waits in the future queue.                     *)
(***************************************************************************)
EXTENDS Integers, FiniteSets

CONSTANTS
    PoolTops,           \* operations
    TopTag,             \* operation -> the tag it provides
    ValidTill,          \* operation -> last block it may go into
    Submitters,         \* threads that submit
    EXPECTED_SIZE,      \* bans kept when there are more than twice as many
    BAN_TIME,
    MaxPrunings,        \* bound of the model: imported blocks
    MaxPoolClock        \* bound of the model: time

ASSUME PoolMaintenanceAssumption ==
    /\ TopTag \in [PoolTops -> {TopTag[o] : o \in PoolTops}]
    /\ ValidTill \in [PoolTops -> Nat]
    /\ {EXPECTED_SIZE, BAN_TIME, MaxPrunings, MaxPoolClock} \subseteq Nat

VARIABLES
    pooled,         \* operations in the pool
    banned_until,   \* banned operation -> end of its ban
    verified,       \* thread -> the operation it has verified and not submitted, or NoTop
    pruning,        \* the thread that prunes, see NoPruning
    prunings,       \* blocks pruned so far: the number of the last one
    pool_clock

maintenanceVars == <<pooled, banned_until, verified, pruning, prunings, pool_clock>>

NoTop == "no_top"

\* phase: where it is; block: the operations of the block; pruned: what the tags
\* removed; valid: what passed the second verification.  The last two are
\* there for the properties: a ban was dropped since the block's operations were
\* banned; the operations others banned.
NoPruning ==
    [phase |-> "none", block |-> {}, pruned |-> {}, valid |-> {}, evicted |-> FALSE, others |-> {}]

PoolMaintenanceInit ==
    /\ pooled = {}
    /\ banned_until = <<>>
    /\ verified = [t \in Submitters |-> NoTop]
    /\ pruning = NoPruning
    /\ prunings = 0 /\ pool_clock = 0

is_banned(o) == o \in DOMAIN banned_until

\* The tables a ban of S may leave: with too many bans, any of them go.
WithBans(S) ==
    LET extended == [b \in DOMAIN banned_until \cup S |->
                       IF b \in S THEN pool_clock + BAN_TIME ELSE banned_until[b]]
    IN  IF Cardinality(DOMAIN extended) <= 2 * EXPECTED_SIZE
        THEN {extended}
        ELSE {[b \in kept |-> extended[b]] :
                 kept \in {K \in SUBSET DOMAIN extended : Cardinality(K) = EXPECTED_SIZE}}

Evicts(S, bans) == ~(DOMAIN banned_until \cup S \subseteq DOMAIN bans)

\* A ban while another thread may be pruning.
ban_top(o) ==
    \E bans \in WithBans({o}) :
       /\ banned_until' = bans
       /\ pruning' = IF pruning.phase \in {"none", "clear_stale"} THEN pruning
                     ELSE [pruning EXCEPT !.evicted = @ \/ Evicts({o}, bans), !.others = @ \cup {o}]

(* Submission **************************************************************)

\* An operation that is known or banned is not verified; resubmit_at ignores
\* the ban.
verify(o, ignore_banned) == o \notin pooled /\ (ignore_banned \/ ~is_banned(o))

\* The import: an operation of the same priority keeps its tag.
Imported(pool, S) == {o \in S : ~\E p \in pool : TopTag[p] = TopTag[o]}

\* What does not pass is banned, a resubmission of a pooled operation too.
submit_or_ban(t, o, ignore_banned) ==
    /\ verified[t] = NoTop
    /\ IF verify(o, ignore_banned)
       THEN verified' = [verified EXCEPT ![t] = o] /\ UNCHANGED <<banned_until, pruning>>
       ELSE ban_top(o) /\ UNCHANGED verified
    /\ UNCHANGED <<pooled, prunings, pool_clock>>

submit_at(t, o) == submit_or_ban(t, o, FALSE)

resubmit_at(t, o) == is_banned(o) /\ submit_or_ban(t, o, TRUE)

submit_verified(t) ==
    /\ verified[t] # NoTop
    /\ pooled' = pooled \cup Imported(pooled, {verified[t]})
    /\ verified' = [verified EXCEPT ![t] = NoTop]
    /\ UNCHANGED <<banned_until, pruning, prunings, pool_clock>>

\* An operation that failed in a block is removed and banned.
remove_invalid_top(o) ==
    /\ pooled' = pooled \ {o}
    /\ ban_top(o)
    /\ UNCHANGED <<verified, prunings, pool_clock>>

(* Pruning *****************************************************************)

\* The tags the block's operations provide, in the pool or not.
extrinsics_tags(block) == {TopTag[o] : o \in block}

prune_block(block) ==
    LET tags == extrinsics_tags(block)
        out  == {o \in pooled : TopTag[o] \in tags}
    IN  /\ pruning = NoPruning /\ prunings < MaxPrunings
        /\ prunings' = prunings + 1
        /\ pooled' = pooled \ out
        /\ pruning' = [phase |-> "ban", block |-> block, pruned |-> out, valid |-> {},
                       evicted |-> FALSE, others |-> DOMAIN banned_until]
        /\ UNCHANGED <<banned_until, verified, pool_clock>>

\* Without a second verification: what is in the pool goes by its tags, and
\* only the events are left.
prune_known(block) ==
    /\ pruning = NoPruning
    /\ pooled' = {o \in pooled : TopTag[o] \notin extrinsics_tags(block \cap pooled)}
    /\ UNCHANGED <<banned_until, verified, pruning, prunings, pool_clock>>

\* The ban of the block's operations, before the pruned ones are verified.
ban_imported ==
    /\ pruning.phase = "ban"
    /\ \E bans \in WithBans(pruning.block) :
          /\ banned_until' = bans
          /\ pruning' = [pruning EXCEPT !.phase = "verify", !.evicted = Evicts(pruning.block, bans)]
    /\ UNCHANGED <<pooled, verified, prunings, pool_clock>>

Reverified_mut(S) == {o \in S : verify(o, TRUE)}

Reverified(S) == {o \in S : verify(o, FALSE)}

verify_pruned ==
    /\ pruning.phase = "verify"
    /\ pruning' = [pruning EXCEPT !.phase = "resubmit", !.valid = Reverified(pruning.pruned)]
    /\ UNCHANGED <<pooled, banned_until, verified, prunings, pool_clock>>

\* The verified ones are submitted, in the order of a hash map; the others are
\* banned.  The events follow, for which the chain has to know the block: the
\* pool is generic in that, SidechainApi never does, and the stale operations
\* stay then.
resubmit_pruned_mut(valid) == {o \in valid : o \in pruning.block}

resubmit_pruned(valid) == valid

resubmit_valid ==
    LET candidates == Imported(pooled, resubmit_pruned(pruning.valid))
    IN  /\ pruning.phase = "resubmit"
        /\ \E won \in SUBSET candidates :
              /\ \A o, p \in won : TopTag[o] = TopTag[p] => o = p
              /\ \A o \in candidates : \E p \in won : TopTag[p] = TopTag[o]
              /\ pooled' = pooled \cup won
        /\ \E bans \in WithBans(pruning.pruned \ pruning.valid) : banned_until' = bans
        /\ \E known \in BOOLEAN :
              pruning' = IF known THEN [NoPruning EXCEPT !.phase = "clear_stale"] ELSE NoPruning
        /\ UNCHANGED <<verified, prunings, pool_clock>>

\* Operations whose last block has passed are banned and removed, and the bans
\* whose time is over are dropped.
clear_stale ==
    LET stale == {o \in pooled : ValidTill[o] <= prunings}
    IN  /\ pruning.phase = "clear_stale"
        /\ pooled' = pooled \ stale
        /\ \E bans \in WithBans(stale) :
              banned_until' = [b \in {x \in DOMAIN bans : bans[x] >= pool_clock} |-> bans[b]]
        /\ pruning' = NoPruning
        /\ UNCHANGED <<verified, prunings, pool_clock>>

pool_tick ==
    /\ pool_clock < MaxPoolClock
    /\ pool_clock' = pool_clock + 1
    /\ UNCHANGED <<pooled, banned_until, verified, pruning, prunings>>

PoolMaintenanceNext ==
    \/ \E t \in Submitters :
          \/ submit_verified(t)
          \/ \E o \in PoolTops : submit_at(t, o) \/ resubmit_at(t, o)
    \/ \E o \in PoolTops : remove_invalid_top(o)
    \/ \E block \in SUBSET PoolTops \ {{}} : prune_block(block) \/ prune_known(block)
    \/ ban_imported \/ verify_pruned \/ resubmit_valid \/ clear_stale
    \/ pool_tick

(***************************************************************************)
(* Properties                                                              *)
(***************************************************************************)

\* Pruning puts no operation of the imported block back into the pool: they are
\* banned before the pruned ones are verified again, as prune_tags orders it.
\* That holds as long as the rotator dropped no ban in between, which it does
\* in the order of a hash map, the newest too.  (A client that had verified such
\* an operation before may still add it.)
PruningKeepsBlockOut ==
    [][pruning.phase = "resubmit" /\ pruning'.phase # "resubmit" /\ ~pruning.evicted
         => (pooled' \ pooled) \cap pruning.block = {}]_maintenanceVars

\* Pruning loses no operation that only shares a tag with the block: when the
\* pruned ones are submitted again, each that nobody banned has its tag in the
\* pool, through itself or a competitor.
PruningKeepsOthers ==
    [][pruning.phase = "resubmit" /\ pruning'.phase # "resubmit"
         => \A o \in pruning.pruned \ (pruning.block \cup pruning.others) :
               \E p \in pooled' : TopTag[p] = TopTag[o]]_maintenanceVars
=============================================================================
