------------------------ MODULE SynchronousConsensus ------------------------
(***************************************************************************)
(* SidechainConsensus when the environment is timely, which is what AURA   *)
(* with slots of a fixed duration relies on: in every slot each validateer *)
(* runs its loop once and ends before the slot does, parentchain blocks    *)
(* reach all validateers within the slot they are finalized in and before  *)
(* the sidechain blocks that refer to them, and a sidechain block reaches  *)
(* the connected validateers within its slot.  To the others a block may   *)
(* come late, again, or never.                                             *)
(***************************************************************************)
EXTENDS SidechainConsensus

CONSTANT Connected      \* validateers that get every block within its slot

ASSUME ConnectedAssumption == Connected \subseteq Nodes

\* All is done that has to be done within the slot.
Settled ==
    \A n \in Nodes :
        /\ phase[n] = "idle" /\ woken[n] = slot
        /\ seen[n] = height
        /\ n \in Connected =>
              \A b \in broadcast : b \in queue[n] \/ IsPrefix(b, chain[n])

TimelyTick == Settled /\ Tick

\* A block is not delivered ahead of the parentchain block it refers to.
TimelyDeliver(n, b) == Top(b).layer_one_head <= seen[n] /\ Deliver(n, b)

TimelyEnvironment ==
    \/ TimelyTick
    \/ Finalize
    \/ \E n \in Nodes : SyncParentchain(n)
    \/ \E n \in Nodes : \E b \in broadcast : TimelyDeliver(n, b)
    \/ \E n \in Nodes : \E c \in Calls : Submit(n, c)

TimelyNext == TimelyEnvironment \/ \E n \in Nodes : Validateer(n)

\* The loop of the service never stops, time and finality go on, parentchain
\* blocks are dispatched, and what is sent to connected validateers arrives.
Fairness ==
    /\ WF_vars(TimelyTick)
    /\ \A n \in Nodes : WF_vars(Validateer(n)) /\ WF_vars(SyncParentchain(n))
    /\ \A n \in Connected :
          WF_vars(\E b \in broadcast : ~IsPrefix(b, chain[n]) /\ TimelyDeliver(n, b))

TimelySafetySpec == Init /\ [][TimelyNext]_vars

TimelySpec == TimelySafetySpec /\ Fairness
-----------------------------------------------------------------------------
\* With a fixed authority set and no failing import there is one chain: of any
\* two blocks ever sent one extends the other, so all validateers agree on it.
NoForks == \A b, c \in broadcast : IsPrefix(b, c) \/ IsPrefix(c, b)

\* Then the effects of a call on the parentchain are sent for one block only,
\* although they are sent before anybody has imported the block.
EffectsOnce == \A e, f \in effects : e[1] = f[1] => e = f

\* A call submitted again and again, to several pools, is in one block of any state, and
\* its effects are sent for that block only (propose_state_update, send_effects).
CallsTakeEffectOnce == ExecutedOnce /\ EffectsOnce

InChain(n, s) == \E i \in 1 .. Len(chain[n]) : chain[n][i].slot = s

\* Every block sent is eventually imported by all connected validateers, its
\* author included.
AllImport ==
    \A s \in 1 .. MaxSlot - 1 : \A n \in Connected :
        (\E b \in broadcast : Top(b).slot = s) ~> InChain(n, s)

\* A validateer that missed any number of blocks has them all once a later one
\* arrives in its queue, through the peer sync.
CatchUp ==
    \A s \in 1 .. MaxSlot - 1 : \A n \in Nodes :
        (woken[n] < MaxSlot /\ \E b \in queue[n] : Top(b).slot = s) ~> InChain(n, s)
=============================================================================
