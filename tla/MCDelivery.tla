----------------------------- MODULE MCDelivery -----------------------------
(* What must get through, one component per behaviour: a block to all        *)
(* validateers, an extrinsic to the parentchain, a rate of the teeracle to   *)
(* the chain, and the answer to a client that invokes a call through the     *)
(* chain. The components share no variable; `part` says which one moves.     *)
EXTENDS SynchronousConsensus, Extrinsics, Teeracle, IndirectInvocation

CONSTANTS n1, n2

VARIABLE part

\* Block hashes: the later slot has the lower hash.
LaterFirst(b) == 2 * (MaxSlot - Top(b).slot) + (IF Top(b).author = n1 THEN 0 ELSE 1)

\* Both nodes are authorities all the time.
BothAuthorities == [h \in 0 .. MaxHeight |-> <<n1, n2>>]

\* The roots the enclave trusts for each source, and those its host is certified by.
Roots == [coin_gecko |-> {"le", "bct"}, coin_market_cap |-> {"amazon"}]
Hosts == [coin_gecko |-> {"le"}, coin_market_cap |-> {"amazon", "gts"}]

\* A component that does not move has one initial state.
Resting == part # "extrinsics" => build = [ra |-> "epid", skip |-> FALSE, teeracle |-> FALSE] /\ funded

DeliveryInit ==
    /\ part \in {"consensus", "extrinsics", "oracle", "invocation"}
    /\ Init /\ ExtrinsicsInit /\ TeeracleInit /\ IndirectInvocationInit
    /\ Resting

DeliveryNext ==
    /\ UNCHANGED part
    /\ \/ /\ part = "consensus" /\ TimelyNext
          /\ UNCHANGED <<extrinsicsVars, teeracleVars, invocationVars>>
       \/ /\ part = "extrinsics" /\ ExtrinsicsNext
          /\ UNCHANGED <<vars, teeracleVars, invocationVars>>
       \/ /\ part = "oracle" /\ TeeracleNext
          /\ UNCHANGED <<vars, extrinsicsVars, invocationVars>>
       \/ /\ part = "invocation" /\ IndirectInvocationNext
          /\ UNCHANGED <<vars, extrinsicsVars, teeracleVars>>

\* The fairness of each component (Fairness, ExtrinsicsFairness, TeeracleFairness and
\* IndirectInvocationFairness), for the one that moves.
ValidateersFairness ==
    /\ WF_vars(part = "consensus" /\ TimelyTick)
    /\ \A n \in Nodes :
          /\ WF_vars(part = "consensus" /\ Validateer(n))
          /\ WF_vars(part = "consensus" /\ SyncParentchain(n))
    /\ \A n \in Connected :
          WF_vars(part = "consensus" /\ \E b \in broadcast : ~IsPrefix(b, chain[n]) /\ TimelyDeliver(n, b))

MakersFairness ==
    /\ WF_extrinsicsVars(part = "extrinsics" /\ MainStep)
    /\ WF_extrinsicsVars(part = "extrinsics" /\ include_extrinsic)
    /\ WF_extrinsicsVars(part = "extrinsics" /\ setup_reasonable_account_funding)
    /\ WF_extrinsicsVars(part = "extrinsics" /\ (create_extrinsics("rpc") \/ execute_send("rpc")))

OracleFairness ==
    /\ WF_teeracleVars(part = "oracle" /\ RequestFailed)
    /\ WF_teeracleVars(part = "oracle" /\ \E x \in tasks : execute_oracle_update(x))
    /\ WF_teeracleVars(part = "oracle" /\ \E x \in nodePool : IncludeRate(x))

ClientFairness ==
    /\ WF_invocationVars(part = "invocation" /\ produce_block)
    /\ WF_invocationVars(part = "invocation" /\ subscribe_events)
    /\ WF_invocationVars(part = "invocation" /\ next_events_from_metadata)

DeliverySpec ==
    /\ DeliveryInit
    /\ [][DeliveryNext]_<<vars, extrinsicsVars, teeracleVars, invocationVars, part>>
    /\ ValidateersFairness /\ MakersFairness /\ OracleFairness /\ ClientFairness
-----------------------------------------------------------------------------
\* Extrinsics have consecutive nonces, only failures leave a gap in them, and the service
\* gets past its registration: a failure ends in a restart that reads the nonce again.
ExtrinsicsGetThrough ==
    /\ [](NoncesConsecutive /\ OnlyFailuresStall)
    /\ part = "extrinsics" => EventuallyRunning

\* What is reported of the outside is true and comes: rates are from certified hosts and
\* get to the chain, empty rounds are counted, and a client is told of a block that was
\* processed or gives up.
ReportsAreTrue ==
    /\ [](RatesAreVerified /\ FailedRoundsAreCounted /\ ConfirmedIsProcessed)
    /\ AnsweredIsPublished /\ InvocationEnds
=============================================================================
