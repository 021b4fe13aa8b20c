------------------------------ MODULE ForkTree ------------------------------
(***************************************************************************)
(* The fork tree of the sidechain: nodes on several branches, put below    *)
(* their deepest ancestor that is in the tree, finalized from the roots    *)
(* on.  Children are ordered by the depth of their branches, as searches   *)
(* go through them in order.                                               *)
(*                                                                         *)
(* The blocks and their ancestry are constants; the function               *)
(* is_descendent_of that callers hand in is exact here.  The one the       *)
(* repository builds is below: IsDescendantOf.                             *)
(***************************************************************************)
EXTENDS Integers, Sequences, FiniteSets, SequencesExt

CONSTANTS
    TreeBlocks,     \* hashes
    ParentOf,       \* block -> its parent, or "genesis"
    Marked          \* blocks whose data passes the predicate of a search

ASSUME ForkTreeAssumption ==
    /\ IsFiniteSet(TreeBlocks) /\ "genesis" \notin TreeBlocks
    /\ ParentOf \in [TreeBlocks -> TreeBlocks \cup {"genesis"}] /\ Marked \subseteq TreeBlocks

RECURSIVE NumberOfBlock(_)
NumberOfBlock(b) == IF b = "genesis" THEN 0 ELSE NumberOfBlock(ParentOf[b]) + 1

RECURSIVE Ancestors(_)
Ancestors(b) == IF b = "genesis" THEN {} ELSE {ParentOf[b]} \cup Ancestors(ParentOf[b])

is_descendent_of(base, head) == base \in Ancestors(head)

VARIABLES
    below,                   \* node, or "roots" -> its children, in order
    best_finalized_number,   \* 0 stands for None
    lastFinalized            \* ghost: block of the last finalization

forkTreeVars == <<below, best_finalized_number, lastFinalized>>

NoChildren == [n \in TreeBlocks \cup {"roots"} |-> <<>>]

ForkTreeInit == below = NoChildren /\ best_finalized_number = 0 /\ lastFinalized = "genesis"

RECURSIVE Subtree(_, _)
Subtree(tree, n) == {n} \cup UNION {Subtree(tree, c) : c \in ToSet(tree[n])}

NodesOf(tree) == Subtree(tree, "roots") \ {"roots"}

RECURSIVE max_depth(_, _)
max_depth(tree, n) ==
    IF tree[n] = <<>> THEN 0 ELSE 1 + Max({max_depth(tree, c) : c \in ToSet(tree[n])})

\* Every list of children, the deepest branch first, otherwise in its order.
rebalance(tree) ==
    LET Sorted(s) == FlattenSeq([i \in 1 .. Cardinality(TreeBlocks) |->
                        SelectSeq(s, LAMBDA c : max_depth(tree, c) = Cardinality(TreeBlocks) - i)]) IN
    [n \in DOMAIN tree |-> Sorted(tree[n])]

\* The tree with these roots; what is not below them is gone.
WithRoots(tree, roots) ==
    LET kept == UNION {Subtree(tree, r) : r \in ToSet(roots)} IN
    [n \in DOMAIN tree |-> IF n = "roots" THEN roots ELSE IF n \in kept THEN tree[n] ELSE <<>>]
-----------------------------------------------------------------------------
(* Search *)

\* The first ancestor on the way down is taken.
Visit_mut(tree, n, hash, marked) ==
    IF ~is_descendent_of(n, hash) THEN "no ancestor" ELSE IF n \in marked THEN n ELSE "not found"

\* Post-order: children that are low enough, then the node. Below a node on the way to
\* the hash, is_descendent_of is not asked again.
RECURSIVE Visit(_, _, _, _)
Visit(tree, n, hash, marked) ==
    LET results == [i \in DOMAIN tree[n] |->
                      IF NumberOfBlock(tree[n][i]) < NumberOfBlock(hash)
                      THEN Visit(tree, tree[n][i], hash, marked) ELSE "no ancestor"]
        hits == {i \in DOMAIN results : results[i] # "no ancestor"} IN
    IF hits # {} /\ results[Min(hits)] # "not found" THEN results[Min(hits)]
    ELSE IF hits = {} /\ ~is_descendent_of(n, hash) THEN "no ancestor"
    ELSE IF n \in marked THEN n ELSE "not found"

\* Roots in order, until one is an ancestor.
find_node_index_where(tree, hash, marked) ==
    LET roots == SelectSeq(tree["roots"], LAMBDA r : NumberOfBlock(r) < NumberOfBlock(hash))
        results == [i \in DOMAIN roots |-> Visit(tree, roots[i], hash, marked)]
        hits == {i \in DOMAIN results : results[i] # "no ancestor"} IN
    IF hits = {} THEN "not found" ELSE results[Min(hits)]
-----------------------------------------------------------------------------
(* Operations *)

\* Nodes of a branch are imported in order.
import_node(hash) ==
    LET parent == find_node_index_where(below, hash, TreeBlocks)
        place == IF parent = "not found" THEN "roots" ELSE parent
        added == [below EXCEPT ![place] = Append(@, hash)] IN
    /\ NumberOfBlock(hash) > best_finalized_number
    /\ \A n \in NodesOf(below) : ~is_descendent_of(hash, n)
    /\ hash \notin ToSet(below[place])
    /\ below' = IF Len(added[place]) = 1 THEN rebalance(added) ELSE added
    /\ UNCHANGED <<best_finalized_number, lastFinalized>>

\* The tree from the deepest marked ancestor on; of its branches only the one to the hash.
prune_tree(hash) ==
    LET root == find_node_index_where(below, hash, Marked)
        branch == SelectSeq(below[root], LAMBDA c :
                      c = hash \/ (NumberOfBlock(c) < NumberOfBlock(hash) /\ is_descendent_of(c, hash))) IN
    /\ root # "not found"
    /\ below' = rebalance(WithRoots([below EXCEPT ![root] = IF branch = <<>> THEN <<>> ELSE <<Head(branch)>>],
                                    <<root>>))
    /\ UNCHANGED <<best_finalized_number, lastFinalized>>

finalize_root(hash) == WithRoots(below, below[hash])

IsRoot(hash) == hash \in ToSet(below["roots"])

Finalized(hash) ==
    /\ NumberOfBlock(hash) > best_finalized_number
    /\ best_finalized_number' = NumberOfBlock(hash) /\ lastFinalized' = hash

\* A root, or a block that no root is an ancestor of; then the roots below it remain.
finalize(hash) ==
    /\ Finalized(hash)
    /\ \/ IsRoot(hash) /\ below' = finalize_root(hash)
       \/ /\ ~IsRoot(hash)
          /\ \A i \in DOMAIN below["roots"] : ~is_descendent_of(below["roots"][i], hash)
          /\ below' = WithRoots(below, SelectSeq(below["roots"], LAMBDA r :
                          NumberOfBlock(r) > NumberOfBlock(hash) /\ is_descendent_of(hash, r)))

\* Roots from the index on are not looked at once one was removed.
AncestorsGone_mut(tree, roots, i, hash) == SelectSeq(roots, LAMBDA r : r = hash \/ is_descendent_of(hash, r))

\* swap_remove puts the last root in place of the removed one, and its children at the
\* end when it is an ancestor; the same index is looked at again.
RECURSIVE AncestorsGone(_, _, _, _)
AncestorsGone(tree, roots, i, hash) ==
    IF i > Len(roots) THEN roots
    ELSE LET root == roots[i]
             swapped == IF i = Len(roots) THEN Front(roots) ELSE [Front(roots) EXCEPT ![i] = Last(roots)] IN
         IF root = hash THEN tree[hash]
         ELSE IF NumberOfBlock(root) > NumberOfBlock(hash) /\ is_descendent_of(hash, root)
         THEN AncestorsGone(tree, roots, i + 1, hash)
         ELSE IF NumberOfBlock(root) < NumberOfBlock(hash) /\ is_descendent_of(root, hash)
         THEN AncestorsGone(tree, swapped \o tree[root], i, hash)
         ELSE AncestorsGone(tree, swapped, i, hash)

finalize_with_ancestors(hash) ==
    /\ Finalized(hash)
    /\ below' = IF IsRoot(hash) THEN finalize_root(hash)
                ELSE WithRoots(below, AncestorsGone(below, below["roots"], 1, hash))

\* A marked root that is, or leads to, the block, unless a child of it does too; then its
\* children are the roots. Roots on the way to the block stay.
finalize_with_descendent_if(hash) ==
    LET leading == SelectSeq(below["roots"], LAMBDA r : r \in Marked /\ (r = hash \/ is_descendent_of(r, hash)))
        roots == IF leading = <<>> THEN below["roots"] ELSE below[Head(leading)] IN
    /\ Finalized(hash)
    /\ leading # <<>> => \A i \in DOMAIN below[Head(leading)] :
          LET c == below[Head(leading)][i] IN
          NumberOfBlock(c) > NumberOfBlock(hash) \/ ~(c = hash \/ is_descendent_of(c, hash))
    /\ below' = WithRoots(below, SelectSeq(roots, LAMBDA r :
                    is_descendent_of(hash, r) \/ r = hash \/ is_descendent_of(r, hash)))

\* Nodes in the order of the iterator: a node, then its branches in order.
RECURSIVE node_iter(_, _)
node_iter(tree, n) == <<n>> \o FlattenSeq([i \in DOMAIN tree[n] |-> node_iter(tree, tree[n][i])])

\* The predicate is asked of the node found first instead of deciding which one that is.
finalizes_any_with_descendent_if_mut(hash) ==
    LET leading == SelectSeq(Tail(node_iter(below, "roots")), LAMBDA n : n = hash \/ is_descendent_of(n, hash)) IN
    IF leading = <<>> THEN "none" ELSE IF IsRoot(Head(leading)) THEN "root" ELSE "inner"

\* What finalizing the block would do, without doing it: the first marked node that is,
\* or leads to, the block decides, unless a child of it does too.
finalizes_any_with_descendent_if(hash) ==
    LET leading == SelectSeq(Tail(node_iter(below, "roots")), LAMBDA n :
                       n \in Marked /\ (n = hash \/ is_descendent_of(n, hash))) IN
    IF leading = <<>> THEN "none"
    ELSE IF \E i \in DOMAIN below[Head(leading)] :
               LET c == below[Head(leading)][i] IN
               NumberOfBlock(c) <= NumberOfBlock(hash) /\ (c = hash \/ is_descendent_of(c, hash))
    THEN "unfinalized ancestor"
    ELSE IF IsRoot(Head(leading)) THEN "root" ELSE "inner"

\* KeepNode unless the filter removes the node, and with it what is below; the rest keeps
\* its place.
drain_filter(removed) ==
    LET gone == UNION {Subtree(below, n) : n \in removed} IN
    /\ removed # {} /\ removed \subseteq NodesOf(below)
    /\ below' = rebalance([n \in DOMAIN below |->
                   IF n \in gone THEN <<>> ELSE SelectSeq(below[n], LAMBDA c : c \notin gone)])
    /\ UNCHANGED <<best_finalized_number, lastFinalized>>

ForkTreeNext ==
    \E b \in TreeBlocks :
        \/ import_node(b) \/ prune_tree(b) \/ finalize(b) \/ finalize_with_ancestors(b)
        \/ finalize_with_descendent_if(b) \/ drain_filter({b})
-----------------------------------------------------------------------------
(* is_descendant_of_builder, over a data base with the headers of all blocks *)

\* The first of the two walked up to the number of the other: where it stands, as its
\* parent.
RECURSIVE Level(_, _, _)
Level(number, parent, target) ==
    IF number <= target \/ parent = "genesis" THEN parent
    ELSE IF NumberOfBlock(parent) >= target THEN Level(NumberOfBlock(parent), ParentOf[parent], target)
    ELSE parent

RECURSIVE Meet(_, _)
Meet(p, q) == IF p = q \/ p = "genesis" \/ q = "genesis" THEN p ELSE Meet(ParentOf[p], ParentOf[q])

find_lowest_common_ancestor(a, b) ==
    IF a = ParentOf[b] THEN ParentOf[b]
    ELSE IF b = ParentOf[a] THEN ParentOf[a]
    ELSE Meet(Level(NumberOfBlock(a), ParentOf[a], NumberOfBlock(b)),
              Level(NumberOfBlock(b), ParentOf[b], NumberOfBlock(a)))

IsDescendantOf(base, head) == base # head /\ find_lowest_common_ancestor(head, base) = base
-----------------------------------------------------------------------------
\* In whatever order branches grow, are pruned, filtered and finalized, a node hangs below
\* its nearest ancestor in the tree.
BelowNearestAncestor ==
    \A n \in NodesOf(below) : \A c \in ToSet(below[n]) :
        /\ is_descendent_of(n, c)
        /\ \A m \in NodesOf(below) : ~(is_descendent_of(n, m) /\ is_descendent_of(m, c))

\* Finalizing a block with its ancestors leaves what descends from it, all of it and
\* nothing else.
FinalizeKeepsDescendents ==
    [][forkTreeVars' # forkTreeVars => \A b \in TreeBlocks : (finalize(b) \/ finalize_with_ancestors(b)) =>
          NodesOf(below') = {n \in NodesOf(below) : is_descendent_of(b, n)}]_forkTreeVars

\* finalizes_any_with_descendent_if foretells finalize_with_descendent_if: it answers
\* that a root is finalized exactly when finalizing takes a marked root that leads to
\* the block, although the one goes through the whole tree and the other through the
\* roots.
FinalizationForeseen ==
    [][forkTreeVars' # forkTreeVars => \A b \in TreeBlocks : finalize_with_descendent_if(b) =>
          ((finalizes_any_with_descendent_if(b) = "root")
             <=> \E r \in Marked \ NodesOf(below') : IsRoot(r) /\ (r = b \/ is_descendent_of(r, b)))]_forkTreeVars

\* IsDescendantOf, the function the repository builds for the trees, takes no block of
\* another branch for a descendant.  (It misses some: the comment at
\* find_lowest_common_ancestor promises the lowest common ancestor, but the two
\* searches start at the parents and a grandchild's passes by its grandparent.)
ClaimedDescentHolds ==
    \A b, h \in NodesOf(below) : IsDescendantOf(b, h) => is_descendent_of(b, h)

\* What users of the tree rely on: its shape follows the ancestry of the blocks, nobody
\* is taken for a descendant who is none, finalizing leaves the descendants and is
\* foretold.
ForkTreeSound ==
    /\ [](BelowNearestAncestor /\ ClaimedDescentHolds)
    /\ FinalizeKeepsDescendents /\ FinalizationForeseen
=============================================================================
