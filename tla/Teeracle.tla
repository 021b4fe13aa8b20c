------------------------------ MODULE Teeracle ------------------------------
(***************************************************************************)
(* A teeracle: in every round its thread asks two sources for the exchange *)
(* rate of a pair, over connections that only the roots of the source may  *)
(* certify, each up to three times; what was answered becomes one          *)
(* extrinsic per source, each submitted by a task of its own.  A second    *)
(* thread registers the enclave again and takes nonces of the same         *)
(* account.  Rates are the round they were asked in and the root they came *)
(* under.                                                                  *)
(***************************************************************************)
EXTENDS Integers, Sequences, FiniteSets

LOCAL INSTANCE SequencesExt

CONSTANTS
    RootCertificates,   \* source -> roots its requests accept
    HostRoots,          \* source -> roots its host may be certified by, over time
    MaxRounds,          \* bound of the model: rounds
    MaxReregistrations, \* bound of the model: registrations by the other thread
    MaxOracleFaults     \* bound of the model: extrinsics lost on the way to the node

OracleSources == <<"coin_gecko", "coin_market_cap">>
SourceSet == ToSet(OracleSources)

ASSUME TeeracleAssumption ==
    /\ DOMAIN RootCertificates = SourceSet /\ DOMAIN HostRoots = SourceSet
    /\ {MaxRounds, MaxReregistrations, MaxOracleFaults} \subseteq Nat

VARIABLES
    market,          \* the thread of the rounds: [at: index of the source asked, 0 asleep; tries; calls]
    round,           \* rounds begun
    oracleNonce,     \* nonce cache of the enclave
    tasks,           \* spawned tasks: extrinsics not handed to the node yet
    nodePool, nodeNonce, \* the node: pending extrinsics and the account's nonce
    rates,           \* the chain: source -> rate, or NoRate
    requestCount,    \* metric: source -> requests
    requestFailures, \* metric: rounds that gave nothing
    inclusionSuccess,\* metric: 0 or 1
    answered,        \* history: source -> rounds in which it answered with a rate
    oracleLost,      \* history: an extrinsic never reached the node
    reregistrations

metricVars == <<requestCount, requestFailures, inclusionSuccess>>
teeracleVars == <<market, round, oracleNonce, tasks, nodePool, nodeNonce, rates, metricVars,
                  answered, oracleLost, reregistrations>>

NoRate == [round |-> 0, root |-> "none"]
Asleep == [at |-> 0, tries |-> 0, calls |-> <<>>]
number_of_tries == 3

TeeracleInit ==
    /\ market = Asleep /\ round = 0 /\ oracleNonce = 0 /\ tasks = {} /\ nodePool = {} /\ nodeNonce = 0
    /\ rates = [s \in SourceSet |-> NoRate]
    /\ requestCount = [s \in SourceSet |-> 0] /\ requestFailures = 0 /\ inclusionSuccess = 0
    /\ answered = [s \in SourceSet |-> {}] /\ oracleLost = FALSE /\ reregistrations = 0
-----------------------------------------------------------------------------
(* One request *)

\* Whatever certifies the host is taken.
execute_send_request_mut(source, root) == TRUE

\* The root store holds the certificates of the source alone.
execute_send_request(source, root) == root \in RootCertificates[source]

\* What a host answers in time: an error status, a body that is no JSON of the expected
\* shape, a list or a map without the pair, a pair without a price, a price.
Bodies == {"error_status", "garbled", "no_data", "no_price", "price"}

make_request(source, root, body) == execute_send_request(source, root) /\ body # "error_status"

get_with(source, root, body) == make_request(source, root, body) /\ body # "garbled"

\* CoinGeckoSource and CoinMarketCapSource: an entry for the pair, and its price.
execute_exchange_rate_request(source, root, body) == get_with(source, root, body) /\ body = "price"
-----------------------------------------------------------------------------
(* The round *)

\* The request is counted once, whatever the number of tries.
increment_number_requests(source) == requestCount' = [requestCount EXCEPT ![source] = @ + 1]

\* At once, and then whenever the period is over.
schedule_periodic ==
    /\ market = Asleep /\ round < MaxRounds
    /\ round' = round + 1
    /\ market' = [Asleep EXCEPT !.at = 1]
    /\ increment_number_requests(OracleSources[1])
    /\ UNCHANGED <<oracleNonce, tasks, nodePool, nodeNonce, rates, requestFailures, inclusionSuccess,
                   answered, oracleLost, reregistrations>>

\* An extrinsic is composed for every source, and only those with a rate are sent.
create_extrinsics_for_rates_mut(calls) ==
    /\ tasks' = tasks \cup {[calls[i] EXCEPT !.nonce = oracleNonce + i - 1] : i \in DOMAIN calls}
    /\ oracleNonce' = oracleNonce + Len(OracleSources)

create_extrinsics_for_rates(calls) ==
    /\ tasks' = tasks \cup {[calls[i] EXCEPT !.nonce = oracleNonce + i - 1] : i \in DOMAIN calls}
    /\ oracleNonce' = oracleNonce + Len(calls)

\* A round without a rate is reported as one that went well.
update_market_data_xt_mut(calls) ==
    /\ create_extrinsics_for_rates(calls)
    /\ UNCHANGED requestFailures

\* No rate at all is an error to the service, which counts it.
update_market_data_xt(calls) ==
    \/ calls = <<>> /\ requestFailures' = requestFailures + 1 /\ UNCHANGED <<tasks, oracleNonce>>
    \/ calls # <<>> /\ create_extrinsics_for_rates(calls) /\ UNCHANGED requestFailures

\* After a source: the next one, or the extrinsics of the round.
NextSource(calls) ==
    IF market.at < Len(OracleSources)
    THEN /\ market' = [at |-> market.at + 1, tries |-> 0, calls |-> calls]
         /\ increment_number_requests(OracleSources[market.at + 1])
         /\ UNCHANGED <<tasks, oracleNonce, requestFailures>>
    ELSE /\ market' = Asleep
         /\ update_market_data_xt(calls)
         /\ UNCHANGED requestCount

\* get_exchange_rate got a rate, at the first try or after sleeping.
get_exchange_rate(root, body) ==
    LET source == OracleSources[market.at] IN
    /\ market.at # 0
    /\ execute_exchange_rate_request(source, root, body)
    /\ answered' = [answered EXCEPT ![source] = @ \cup {round}]
    /\ NextSource(Append(market.calls, [nonce |-> -1, call |-> source, rate |-> [round |-> round, root |-> root]]))
    /\ UNCHANGED <<round, nodePool, nodeNonce, rates, inclusionSuccess, oracleLost, reregistrations>>

\* Nothing came in time, or nothing usable: again after a while, or no call for this source.
RequestFailed ==
    /\ market.at # 0
    /\ IF market.tries + 1 < number_of_tries
       THEN /\ market' = [market EXCEPT !.tries = @ + 1]
            /\ UNCHANGED <<tasks, oracleNonce, requestCount, requestFailures>>
       ELSE NextSource(market.calls)
    /\ UNCHANGED <<round, nodePool, nodeNonce, rates, inclusionSuccess, answered, oracleLost, reregistrations>>

\* The other thread: an extrinsic with the next nonce; a failure is only logged.
schedule_periodic_reregistration_thread ==
    /\ reregistrations < MaxReregistrations
    /\ reregistrations' = reregistrations + 1
    /\ tasks' = tasks \cup {[nonce |-> oracleNonce, call |-> "register", rate |-> NoRate]}
    /\ oracleNonce' = oracleNonce + 1
    /\ UNCHANGED <<market, round, nodePool, nodeNonce, rates, metricVars, answered, oracleLost>>
-----------------------------------------------------------------------------
(* The tasks, and the node *)

\* submit_and_watch_opaque_extrinsic_until: tasks run in any order.
execute_oracle_update(x) ==
    /\ x \in tasks
    /\ tasks' = tasks \ {x}
    /\ nodePool' = nodePool \cup {x}
    /\ UNCHANGED <<market, round, oracleNonce, nodeNonce, rates, metricVars, answered, oracleLost, reregistrations>>

\* The error is logged and shown in a metric; the nonce is not given back.
SubmissionFailed(x) ==
    /\ x \in tasks /\ MaxOracleFaults > 0 /\ ~oracleLost
    /\ tasks' = tasks \ {x} /\ oracleLost' = TRUE
    /\ inclusionSuccess' = IF x.call = "register" THEN inclusionSuccess ELSE 0
    /\ UNCHANGED <<market, round, oracleNonce, nodePool, nodeNonce, rates, requestCount, requestFailures,
                   answered, reregistrations>>

\* External: the node includes extrinsics in the order of their nonces; the task hears of it.
IncludeRate(x) ==
    /\ x \in nodePool /\ x.nonce = nodeNonce
    /\ nodePool' = nodePool \ {x} /\ nodeNonce' = nodeNonce + 1
    /\ IF x.call = "register" THEN UNCHANGED <<rates, inclusionSuccess>>
       ELSE rates' = [rates EXCEPT ![x.call] = x.rate] /\ inclusionSuccess' = 1
    /\ UNCHANGED <<market, round, oracleNonce, tasks, requestCount, requestFailures, answered, oracleLost,
                   reregistrations>>

TeeracleNext ==
    \/ schedule_periodic \/ RequestFailed \/ schedule_periodic_reregistration_thread
    \/ \E body \in Bodies : \E root \in UNION {HostRoots[s] : s \in SourceSet} :
          /\ market.at # 0 /\ root \in HostRoots[OracleSources[market.at]]
          /\ get_exchange_rate(root, body)
    \/ \E x \in tasks : execute_oracle_update(x) \/ SubmissionFailed(x)
    \/ \E x \in nodePool : IncludeRate(x)

\* Requests time out and threads go on; the node includes what is valid.
TeeracleFairness ==
    /\ WF_teeracleVars(RequestFailed)
    /\ WF_teeracleVars(\E x \in tasks : execute_oracle_update(x))
    /\ WF_teeracleVars(\E x \in nodePool : IncludeRate(x))
-----------------------------------------------------------------------------
\* A rate on the chain came from a host that the roots of its source certify, whatever the
\* hosts are certified by and however many tries it took.
RatesAreVerified ==
    \A s \in SourceSet : rates[s] # NoRate => rates[s].root \in RootCertificates[s]

\* The failures the service counts are the rounds in which no source gave a rate: a source
\* that fails while the other answers is no failure, and no empty round passes for an update.
FailedRoundsAreCounted ==
    market.at = 0 =>
        requestFailures = Cardinality({r \in 1 .. round : \A s \in SourceSet : r \notin answered[s]})

\* A rate that a source answered gets to the chain, or one that is newer, although the other
\* source may have failed and another thread takes nonces too, as long as no submission fails.
AnsweredIsPublished ==
    \A s \in SourceSet : \A r \in 1 .. MaxRounds :
        r \in answered[s] ~> (rates[s].round >= r \/ oracleLost)
=============================================================================
