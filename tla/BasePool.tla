------------------------------ MODULE BasePool ------------------------------
(***************************************************************************)
(* The trusted operation pool below validation: BasePool with its ready    *)
(* and its future queue (core-primitives/top-pool), for one shard, and the *)
(* operations ValidatedPool runs on it under its write lock.               *)
(*                                                                         *)
(* An operation requires and provides tags.  It is ready when its required *)
(* tags are provided by ready operations or were pruned a moment ago, and  *)
(* waits in the future queue otherwise.  The pool is one record:           *)
(*   ready     map of ready operations: the operations each one unlocks,   *)
(*             and how many of its requirements need no other operation    *)
(*   order     the ready operations in the order of their insertion ids    *)
(*   provided  tag -> the ready operation that provides it                 *)
(*   best      ready operations that wait for no other ready operation     *)
(*   waiting   map of future operations: the tags each one still misses    *)
(*   wanted    tag -> the future operations that miss it                   *)
(*   recent    the tags of the last two prunings, the older one first      *)
(* Where the code iterates over a hash map the model takes the operations  *)
(* in the order of their numbers.                                          *)
(***************************************************************************)
EXTENDS Integers, Sequences, FiniteSets, TLC, SequencesExt

CONSTANTS
    PoolOps,         \* operations, numbered: the number is the hash
    PoolTags,        \* tags
    Requires,        \* op -> the tags it requires
    Provides,        \* op -> the tags it provides
    Priority,        \* op -> its priority
    ReadyLimit,      \* Options::ready.count
    FutureLimit,     \* Options::future.count
    RejectFuture,    \* Options::reject_future_operations
    MaxUnlocks       \* bound of the model: entries of an unlocks list

ASSUME BasePoolAssumption ==
    /\ PoolOps \subseteq Nat /\ IsFiniteSet(PoolOps)
    /\ Requires \in [PoolOps -> SUBSET PoolTags]
    /\ Provides \in [PoolOps -> SUBSET PoolTags]
    /\ Priority \in [PoolOps -> Nat]
    /\ ReadyLimit \in Nat /\ FutureLimit \in Nat /\ RejectFuture \in BOOLEAN

VARIABLES
    pool,            \* the pool
    gone,            \* history: operations that left the pool untold
    satisfied        \* history: tags that were pruned as provided

basePoolVars == <<pool, gone, satisfied>>

EmptyPool ==
    [ready |-> <<>>, order |-> <<>>, provided |-> <<>>, best |-> {},
     waiting |-> <<>>, wanted |-> <<>>, recent |-> <<{}, {}>>]

BasePoolInit == pool = EmptyPool /\ gone = {} /\ satisfied = {}

Without(f, S) == [x \in DOMAIN f \ S |-> f[x]]
Ascending(S) == SetToSortSeq(S, <)
Drop(s, e) == SelectSeq(s, LAMBDA x : x # e)

\* remove_item: the first occurrence only
remove_item(s, e) == IF Contains(s, e) THEN RemoveFirst(s, e) ELSE s

InPool(p) == DOMAIN p.ready \cup DOMAIN p.waiting
is_imported(p, o) == o \in InPool(p)
-----------------------------------------------------------------------------
(* The future queue. *)

\* The tags that ready operations provide are forgotten.
missing_tags_mut(p, o) == Requires[o] \ (p.recent[1] \cup p.recent[2])

missing_tags(p, o) == Requires[o] \ (DOMAIN p.provided \cup p.recent[1] \cup p.recent[2])

FutureImport(p, o, missing) ==
    [p EXCEPT !.waiting = (o :> missing) @@ @,
              !.wanted = [t \in DOMAIN @ \cup missing |->
                             (IF t \in DOMAIN @ THEN @[t] ELSE {})
                             \cup (IF t \in missing THEN {o} ELSE {})]]

\* Operations that have all their tags once the given ones are satisfied.
Unlocked(p, tags) ==
    {o \in UNION {p.wanted[t] : t \in tags \cap DOMAIN p.wanted} : p.waiting[o] \subseteq tags}

satisfy_tags(p, tags) ==
    [p EXCEPT !.wanted = Without(@, tags),
              !.waiting = [o \in DOMAIN @ \ Unlocked(p, tags) |->
                             IF \E t \in tags \cap DOMAIN p.wanted : o \in p.wanted[t]
                             THEN @[o] \ tags ELSE @[o]]]

\* The operation leaves the queue and stays wanted.
FutureRemove_mut(p, S) == [p EXCEPT !.waiting = Without(@, S)]

\* A tag nobody waits for any more is not wanted any more.
FutureRemove(p, S) ==
    LET out == S \cap DOMAIN p.waiting
        left(t) == IF \E o \in out : t \in p.waiting[o] THEN p.wanted[t] \ out ELSE p.wanted[t] IN
    [p EXCEPT !.waiting = Without(@, out),
              !.wanted = [t \in {u \in DOMAIN @ : left(u) # {}} |-> left(t)]]

clear_future(p) == [p EXCEPT !.waiting = <<>>, !.wanted = <<>>]
-----------------------------------------------------------------------------
(* The ready queue. *)

\* Removes the operations of the stack and what they unlock; a branch whose
\* tags all stay, because a replacement provides them, is not followed.  The
\* entry in the unlocks list of the operation it depends on is not removed:
\* the code looks there for the provider's own hash.
RECURSIVE RemoveWithFilter(_, _, _, _)
RemoveWithFilter(p, stack, filter, removed) ==
    IF stack = <<>> THEN [pool |-> p, removed |-> removed]
    ELSE LET h == Last(stack)
             rest == Front(stack)
             lost == Provides[h] \ filter
             provided == Without(p.provided, lost)
             providers == {provided[t] : t \in Requires[h] \cap DOMAIN provided} IN
         IF h \notin DOMAIN p.ready THEN RemoveWithFilter(p, rest, filter, removed)
         ELSE RemoveWithFilter(
                [p EXCEPT !.ready = [o \in DOMAIN @ \ {h} |->
                                        IF o \in providers
                                        THEN [@[o] EXCEPT !.unlocks = remove_item(@, o)] ELSE @[o]],
                          !.order = Drop(@, h),
                          !.provided = provided,
                          !.best = @ \ {h}],
                rest \o (IF lost # {} THEN p.ready[h].unlocks ELSE <<>>),
                filter, Append(removed, h))

WithFutureRemoved(r, S) ==
    [pool |-> FutureRemove(r.pool, S),
     removed |-> r.removed \o Ascending(S \cap DOMAIN r.pool.waiting)]

remove_subtree(p, S) == WithFutureRemoved(RemoveWithFilter(p, Ascending(S), {}, <<>>), S)

SumPriority(S) == FoldSet(LAMBDA o, acc : acc + Priority[o], 0, S)

\* The operations with a common tag are replaced if the new one outweighs them
\* together.
Replaced(p, o) == {p.provided[t] : t \in Provides[o] \cap DOMAIN p.provided}
TooLowPriority(p, o) == Replaced(p, o) # {} /\ SumPriority(Replaced(p, o)) >= Priority[o]

replace_previous(p, o) == RemoveWithFilter(p, Ascending(Replaced(p, o)), Provides[o], <<>>)

\* What the replaced operations unlocked is forgotten.
InheritedUnlocks_mut(p, o) == <<>>

InheritedUnlocks(p, o) ==
    FoldLeft(LAMBDA acc, r : acc \o p.ready[r].unlocks, <<>>, Ascending(Replaced(p, o)))

\* The operation enters the pool p, which has lost those it replaces.
ReadyImport(p, o, unlocks) ==
    LET providedBy == {p.provided[t] : t \in Requires[o] \cap DOMAIN p.provided}
        free == {t \in Requires[o] : t \notin DOMAIN p.provided} IN
    [p EXCEPT !.ready = (o :> [unlocks |-> unlocks, offset |-> Cardinality(free)])
                        @@ [q \in DOMAIN @ |->
                              IF q \in providedBy
                              THEN [@[q] EXCEPT !.unlocks = Append(@, o)] ELSE @[q]],
              !.order = Append(@, o),
              !.provided = [t \in Provides[o] |-> o] @@ @,
              !.best = IF providedBy = {} THEN @ \cup {o} ELSE @]

\* One round of the loop: its tags are satisfied in p, and it is imported or fails.
Promoted(res, p, o, first) ==
    LET replaced == replace_previous(p, o) IN
    IF TooLowPriority(p, o)
    THEN [res EXCEPT !.pool = p,
                     !.err = IF first THEN "TooLowPriority" ELSE @,
                     !.failed = IF first THEN @ ELSE Append(@, o)]
    ELSE [res EXCEPT !.pool = ReadyImport(replaced.pool, o, InheritedUnlocks(p, o)),
                     !.promoted = IF first THEN @ ELSE Append(@, o),
                     !.removed = @ \o replaced.removed]

\* The loop of import_to_ready: the operation, then what it unlocks in the
\* future queue.  A failure of the first one ends it at once.
RECURSIVE Promote(_, _, _)
Promote(res, stack, first) ==
    IF stack = <<>> \/ res.err # "none" THEN res
    ELSE Promote(Promoted(res, satisfy_tags(res.pool, Provides[Last(stack)]), Last(stack), first),
                 Front(stack) \o Ascending(Unlocked(res.pool, Provides[Last(stack)])),
                 FALSE)

\* An operation that was removed by what it unlocked is in a cycle.
CycleChecked(res, o) ==
    IF res.err = "none" /\ Contains(res.removed, o)
    THEN [res EXCEPT !.pool = RemoveWithFilter(@, res.promoted, {}, <<>>).pool,
                     !.err = "CycleDetected"]
    ELSE res

Refused(p, err) ==
    [pool |-> p, err |-> err, promoted |-> <<>>, failed |-> <<>>, removed |-> <<>>]

import_to_ready(p, o) == CycleChecked(Promote(Refused(p, "none"), <<o>>, TRUE), o)

import(p, o, reject) ==
    LET missing == missing_tags(p, o) IN
    IF is_imported(p, o) THEN Refused(p, "AlreadyImported")
    ELSE IF missing = {} THEN import_to_ready(p, o)
    ELSE IF reject THEN Refused(p, "RejectedFuture")
    ELSE Refused(FutureImport(p, o, missing), "none")

\* Ready::prune_tags: what provides the tag, and what only served it.
RECURSIVE PruneReady(_, _, _)
PruneReady(p, stack, pruned) ==
    IF stack = <<>> THEN [pool |-> p, pruned |-> pruned]
    ELSE LET t == Last(stack)
             rest == Front(stack)
             h == p.provided[t]
             provided == Without(p.provided, {t})
             previous == ({provided[u] : u \in Requires[h] \cap DOMAIN provided} \ {h}) \cap DOMAIN p.ready
             left(q) == remove_item(p.ready[q].unlocks, h)
             spent == {q \in previous : left(q) = <<>>}
             offset(q) == p.ready[q].offset + Len(SelectSeq(p.ready[h].unlocks, LAMBDA x : x = q))
             freed == {q \in DOMAIN p.ready \ {h} :
                          \E k \in 1 .. Len(SelectSeq(p.ready[h].unlocks, LAMBDA x : x = q)) :
                              p.ready[q].offset + k = Cardinality(Requires[q])} IN
         IF t \notin DOMAIN p.provided \/ p.provided[t] \notin DOMAIN p.ready
         THEN PruneReady([p EXCEPT !.provided = Without(@, {t})], rest, pruned)
         ELSE PruneReady(
                [p EXCEPT !.ready = [q \in DOMAIN @ \ {h} |->
                                       [unlocks |-> IF q \in previous THEN left(q) ELSE @[q].unlocks,
                                        offset |-> offset(q)]],
                          !.order = Drop(@, h),
                          !.provided = Without(provided, Provides[h]),
                          !.best = (@ \ {h}) \cup freed],
                rest \o FoldLeft(LAMBDA acc, q : acc \o Ascending(Provides[q]), <<>>, Ascending(spent)),
                Append(pruned, h))

\* BasePool::prune_tags: promote, prune, remember, and only then import.
PromotedOf(acc, r, o) ==
    [pool |-> r.pool,
     lost |-> acc.lost \cup ToSet(r.failed) \cup ToSet(r.removed)
              \cup (IF r.err = "none" THEN {} ELSE {o} \cup ToSet(r.promoted))]

PromoteAll(p, todo) ==
    FoldLeft(LAMBDA acc, o : PromotedOf(acc, import_to_ready(acc.pool, o), o), [pool |-> p, lost |-> {}], todo)

PrunedOf(r, pruned) == [pool |-> r.pool, pruned |-> ToSet(pruned), lost |-> r.lost]

prune_tags(p, tags) ==
    LET pruned == PruneReady(satisfy_tags(p, tags), Ascending(tags), <<>>) IN
    PrunedOf(PromoteAll([pruned.pool EXCEPT !.recent = <<@[2], tags>>], Ascending(Unlocked(p, tags))), pruned.pruned)

\* The oldest ready operation; of the future queue any one.
OverLimit(p) ==
    IF Len(p.order) > ReadyLimit THEN {Head(p.order)}
    ELSE IF Cardinality(DOMAIN p.waiting) > FutureLimit THEN {Head(Ascending(DOMAIN p.waiting))}
    ELSE {}

\* Only the operation over the limit is reported, not what depends on it.
RECURSIVE enforce_limits_mut(_, _)
enforce_limits_mut(p, removed) ==
    IF OverLimit(p) = {} THEN [pool |-> p, removed |-> removed]
    ELSE enforce_limits_mut(remove_subtree(p, OverLimit(p)).pool, removed \cup OverLimit(p))

\* enforce_limits: what is over a limit goes, with what depends on it.
RECURSIVE enforce_limits(_, _)
enforce_limits(p, removed) ==
    IF OverLimit(p) = {} THEN [pool |-> p, removed |-> removed]
    ELSE LET r == remove_subtree(p, OverLimit(p)) IN
         enforce_limits(r.pool, removed \cup ToSet(r.removed))
-----------------------------------------------------------------------------
(* BestIterator: the order in which the ready operations are handed out. *)

BeforeIn(p, a, b) ==
    \/ Priority[a] > Priority[b]
    \/ Priority[a] = Priority[b] /\ \E i, j \in 1 .. Len(p.order) :
                                        i < j /\ p.order[i] = a /\ p.order[j] = b

\* awaiting: op -> the number of its requirements met so far
RECURSIVE Iterate(_, _, _, _)
Iterate(p, best, awaiting, out) ==
    IF best = {} \/ Len(out) > Cardinality(PoolOps) THEN out
    ELSE LET b == CHOOSE x \in best : \A y \in best \ {x} : BeforeIn(p, x, y)
             hits(o) == Len(SelectSeq(p.ready[b].unlocks, LAMBDA x : x = o))
             touched == ToSet(p.ready[b].unlocks) \cap DOMAIN p.ready
             met(o) == (IF o \in DOMAIN awaiting THEN awaiting[o] ELSE p.ready[o].offset) + hits(o)
             done == {o \in touched : met(o) >= Cardinality(Requires[o])} IN
         Iterate(p, (best \ {b}) \cup done,
                 [o \in (DOMAIN awaiting \cup touched) \ done |->
                     IF o \in touched THEN met(o) ELSE awaiting[o]],
                 Append(out, b))

ready(p) == Iterate(p, p.best, <<>>, <<>>)
-----------------------------------------------------------------------------
(* The operations of ValidatedPool. *)

UnlocksBounded(p) == \A o \in DOMAIN p.ready : Len(p.ready[o].unlocks) <= MaxUnlocks

Settle(p, told) ==
    /\ UnlocksBounded(p)
    /\ pool' = p
    /\ gone' = (gone \cup (InPool(pool) \ (InPool(p) \cup told))) \ InPool(p)

\* submit: import, the limits, and an event for everything that left the pool.
submit(o) ==
    /\ \E r \in {import(pool, o, RejectFuture)} :
          IF r.err = "none"
          THEN \E l \in {enforce_limits(r.pool, {})} :
                  Settle(l.pool, ToSet(r.failed) \cup ToSet(r.removed) \cup l.removed)
          ELSE Settle(r.pool, {})
    /\ UNCHANGED satisfied

\* remove_invalid: the operation and all that depend on it.
remove_invalid(o) ==
    /\ o \in InPool(pool)
    /\ \E r \in {remove_subtree(pool, {o})} : Settle(r.pool, ToSet(r.removed))
    /\ UNCHANGED satisfied

\* prune_tags, as after a block with these tags.
prune(tags) ==
    /\ \E r \in {prune_tags(pool, tags)} : Settle(r.pool, r.pruned \cup r.lost)
    /\ satisfied' = satisfied \cup tags

\* resubmit: all operations that go with o are removed and imported again,
\* with future operations admitted meanwhile.
ImportedOf(acc, r, o) ==
    [pool |-> r.pool,
     lost |-> acc.lost \cup ToSet(r.failed) \cup ToSet(r.removed) \cup (IF r.err = "none" THEN {} ELSE {o})]

ImportAll(r) ==
    FoldLeft(LAMBDA acc, o : ImportedOf(acc, import(acc.pool, o, FALSE), o), [pool |-> r.pool, lost |-> {}], r.removed)

resubmit(o) ==
    /\ o \in InPool(pool)
    /\ \E again \in {ImportAll(remove_subtree(pool, {o}))} :
          IF RejectFuture
          THEN Settle(clear_future(again.pool), again.lost \cup DOMAIN again.pool.waiting)
          ELSE Settle(again.pool, again.lost)
    /\ UNCHANGED satisfied

BasePoolNext ==
    \/ \E o \in PoolOps : submit(o) \/ remove_invalid(o) \/ resubmit(o)
    \/ \E t \in PoolTags : prune({t})
-----------------------------------------------------------------------------
BasePoolTypeOK ==
    /\ DOMAIN pool.ready \subseteq PoolOps /\ DOMAIN pool.waiting \subseteq PoolOps
    /\ DOMAIN pool.provided \subseteq PoolTags /\ DOMAIN pool.wanted \subseteq PoolTags
    /\ pool.best \subseteq DOMAIN pool.ready
    /\ ToSet(pool.order) = DOMAIN pool.ready /\ Len(pool.order) = Cardinality(DOMAIN pool.ready)
    /\ gone \subseteq PoolOps /\ satisfied \subseteq PoolTags

\* What the code takes as proved (HASH_READY, WAITING_PROOF, the assertion in
\* prune_tags): the tag maps of both queues name exactly the operations that
\* are in them, so none of the expects can panic.
QueuesConsistent ==
    /\ \A t \in DOMAIN pool.provided :
          pool.provided[t] \in DOMAIN pool.ready /\ t \in Provides[pool.provided[t]]
    /\ \A o \in DOMAIN pool.ready : \A t \in Provides[o] :
          t \in DOMAIN pool.provided /\ pool.provided[t] = o
    /\ \A t \in PoolTags :
          LET waits == {o \in DOMAIN pool.waiting : t \in pool.waiting[o]} IN
          IF waits = {} THEN t \notin DOMAIN pool.wanted
          ELSE t \in DOMAIN pool.wanted /\ pool.wanted[t] = waits
    /\ \A o \in DOMAIN pool.waiting : pool.waiting[o] # {} /\ o \notin DOMAIN pool.ready

\* What the block producer is handed out (documented at ReadyOperations::get):
\* every ready operation once, and none before the operation that provides
\* what it requires, after any history of replacements, removals and prunings.
HandedOutInOrder ==
    LET out == ready(pool) IN
    /\ ToSet(out) = DOMAIN pool.ready /\ Len(out) = Len(pool.order)
    /\ \A i \in 1 .. Len(out) : \A t \in Requires[out[i]] :
          t \in satisfied \/ \E j \in 1 .. i - 1 : t \in Provides[out[j]]

\* No operation waits for a tag that a ready operation provides: promotion from
\* the future queue misses none, however the provider came in.
NoneWaitsInVain == \A o \in DOMAIN pool.waiting : pool.waiting[o] \cap DOMAIN pool.provided = {}

\* An operation never leaves the pool without an event for its listeners:
\* replaced, pushed out by a limit, failed to be promoted, pruned or invalid.
NoSilentLoss == gone = {}
=============================================================================
