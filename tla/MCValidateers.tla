--------------------------- MODULE MCValidateers ---------------------------
(* Two instances of SidechainConsensus in one run: both validateers are     *)
(* authorities and an import or fetch fails; or the second validateer joins *)
(* in parentchain block 1 and one of them restarts.                         *)
EXTENDS SidechainConsensus

CONSTANTS n1, n2

\* Block hashes: the later slot has the lower hash.
LaterFirst(b) == 2 * (MaxSlot - Top(b).slot) + (IF Top(b).author = n1 THEN 0 ELSE 1)

\* Both nodes are authorities all the time.
BothAuthorities == [h \in 0 .. MaxHeight |-> <<n1, n2>>]

\* The second validateer registers in parentchain block 1.
Joining == [h \in 0 .. MaxHeight |-> IF h = 0 THEN <<n1>> ELSE <<n1, n2>>]

Joins == INSTANCE SidechainConsensus WITH Authorities <- Joining, MaxFailures <- 0

VARIABLE joins          \* which of the two instances this behaviour is of

\* Wake-up, deliveries and the reading of the queue touch nothing another
\* validateer looks at: the others wait meanwhile, unless time passes.
Undisturbed(n) == \A m \in Nodes \ {n} : phase[m] # "woken" \/ woken[m] < slot

\* A reduction that loses no reachable chain, state or header: the inputs of a
\* validateer arrive just before the step that reads them.  Nothing else looks
\* at them in between, and an input that never matters may as well not come.
\*   - finalized parentchain blocks exist from the start, read when dispatched;
\*   - parentchain blocks are dispatched while sidechain blocks are imported;
\*   - sidechain blocks are delivered when the queue is about to be popped;
\*   - a restart of a validateer just woken is one before it woke.
JustInTime ==
    \/ Finalize
    \/ height = MaxHeight /\ Tick
    \/ /\ height = MaxHeight
       /\ \E n \in Nodes :
             /\ Undisturbed(n)
             /\ \/ phase[n] = "import" /\ SyncParentchain(n)
                \/ phase[n] = "woken" /\ \E b \in broadcast : Deliver(n, b)
                \/ ~joins /\ Validateer(n)
                \/ joins /\ Joins!Validateer(n)
                \/ joins /\ phase[n] # "woken" /\ Restart(n)

ValidateersInit == Init /\ joins \in BOOLEAN

ValidateersNext == JustInTime /\ UNCHANGED joins

ValidateersSpec == ValidateersInit /\ [][ValidateersNext]_<<vars, joins>>
=============================================================================
