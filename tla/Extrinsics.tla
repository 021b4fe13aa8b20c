----------------------------- MODULE Extrinsics -----------------------------
(***************************************************************************)
(* The extrinsics an enclave makes for its parentchain, from the nonce     *)
(* cache to the chain: registration of the collateral and of the enclave   *)
(* by the service's main thread, the quotes of an attesteer, the quotes    *)
(* clients forward over RPC, what the threads of a running enclave send    *)
(* through the ocall, the updates of a teeracle and its periodic           *)
(* registration.                                                           *)
(*                                                                         *)
(* An extrinsic takes its nonce when it is made; much can go wrong before  *)
(* the node has it.  A nonce that never arrives stalls every later one, so *)
(* the model keeps the nonces that were lost since the cache was set.  The *)
(* node holds one extrinsic per nonce and includes them in order.          *)
(***************************************************************************)
EXTENDS Integers, Sequences, FiniteSets

LOCAL INSTANCE SequencesExt

CONSTANTS
    MaxXtFaults,     \* bound of the model: failures and crashes
    MaxBatches       \* bound of the model: batches of the threads, quotes of an attesteer

ASSUME ExtrinsicsAssumption == MaxXtFaults \in Nat /\ MaxBatches \in Nat

\* Threads of a running worker by its mode, and how each of them sends.
EnclaveThreads == {"importer", "producer"}
TeeracleThreads == {"market", "reregister"}
Makers == {"main", "rpc"} \cup EnclaveThreads \cup TeeracleThreads

VARIABLES
    build,           \* [ra: "epid", "dcap" or "attesteer", skip, teeracle: BOOLEAN]
    mainStep,        \* what the service's main thread is at
    mainNonce,       \* the nonce it read from the node
    reinit,          \* init_parentchain runs for the second time
    nonceCache,      \* GLOBAL_INTEGRITEE_PARENTCHAIN_NONCE_CACHE
    nonceGuard,      \* who holds its write lock, or "none"
    making,          \* thread -> the calls it makes extrinsics for and the nonce it read
    unsent,          \* thread -> nonces of extrinsics made and not yet sent
    watched,         \* threads that wait for the inclusion of their extrinsic
    dead,            \* threads of the service that panicked
    madeNow,         \* history: nonces made since the cache was set, in order
    lostNow,         \* history: those of them lost on the way
    txPool,          \* the node: pending nonces of the enclave's account
    chainNonce,      \* the node: nonce of the account, at the best block
    funded,          \* the account has what it needs
    xtFaults, batches

nodeVars == <<txPool, chainNonce, funded>>
nonceVars == <<nonceCache, nonceGuard, making, madeNow>>
mainVars == <<mainStep, mainNonce, reinit>>
extrinsicsVars == <<build, mainVars, nonceVars, unsent, watched, dead, lostNow, nodeVars, xtFaults, batches>>

NotMaking == [calls |-> 0, first |-> 0]

ExtrinsicsInit ==
    /\ build \in [ra : {"epid", "dcap", "attesteer"}, skip : BOOLEAN, teeracle : BOOLEAN]
    /\ mainStep = "init" /\ mainNonce = 0 /\ reinit = FALSE
    /\ nonceCache = 0 /\ nonceGuard = "none" /\ making = [t \in Makers |-> NotMaking]
    /\ unsent = [t \in Makers |-> <<>>] /\ watched = {} /\ dead = {} /\ madeNow = <<>> /\ lostNow = {}
    /\ txPool = {} /\ chainNonce = 0 /\ funded \in BOOLEAN /\ xtFaults = 0 /\ batches = 0

Fault == xtFaults < MaxXtFaults /\ xtFaults' = xtFaults + 1
-----------------------------------------------------------------------------
(* The node, external: what the code in src/ relies on. *)

CanSubmit(n) == n >= chainNonce /\ n \notin txPool

include_extrinsic ==
    /\ chainNonce \in txPool
    /\ chainNonce' = chainNonce + 1
    /\ txPool' = txPool \ {chainNonce}
    /\ UNCHANGED <<build, mainVars, nonceVars, unsent, watched, dead, lostNow, funded, xtFaults, batches>>

\* setup_reasonable_account_funding: a loop, until somebody sends funds, or
\* bootstrap_funds_from_alice did.
setup_reasonable_account_funding ==
    /\ ~funded /\ funded' = TRUE
    /\ UNCHANGED <<build, mainVars, nonceVars, unsent, watched, dead, lostNow, txPool, chainNonce, xtFaults, batches>>
-----------------------------------------------------------------------------
(* The service's main thread. *)

\* The collateral a DCAP worker registers: the ecall needs what the quoting library has.
CollateralExtrinsics == {"qe_collateral", "tcb_info"}
MakingSteps == CollateralExtrinsics \cup {"register", "init_shard", "marblerun"}

AfterCollateral == IF build.ra = "attesteer" THEN "marblerun" ELSE "register"

\* register_collateral: in DCAP builds, with attestation.
register_collateral == IF build.ra # "epid" /\ ~build.skip THEN "qe_collateral" ELSE AfterCollateral

NextStep(step) ==
    CASE step = "qe_collateral" -> "tcb_info"
      [] step = "tcb_info" -> AfterCollateral
      [] step = "marblerun" -> "marblerun"
      [] step = "register" -> "registered"
      [] step = "init_shard" -> "init"

\* init_parentchain: new components, then the nonce as the node has it; pending
\* extrinsics are not counted.
init_parentchain ==
    /\ mainStep = "init"
    /\ mainStep' = "set_nonce" /\ mainNonce' = chainNonce
    /\ UNCHANGED <<build, reinit, nonceVars, unsent, watched, dead, lostNow, nodeVars, xtFaults, batches>>

\* The node's nonce is taken for the last one used.
set_nonce_mut ==
    /\ mainStep = "set_nonce" /\ nonceGuard = "none"
    /\ nonceCache' = mainNonce + 1 /\ madeNow' = <<>> /\ lostNow' = {}
    /\ mainStep' = IF reinit THEN "running" ELSE register_collateral
    /\ UNCHANGED <<build, mainNonce, reinit, nonceGuard, making, unsent, watched, dead, nodeVars, xtFaults, batches>>

\* The ecall takes the write lock of the cache. Without metadata, set next, nothing
\* could be made; main makes the first extrinsics afterwards.
set_nonce ==
    /\ mainStep = "set_nonce" /\ nonceGuard = "none"
    /\ nonceCache' = mainNonce /\ madeNow' = <<>> /\ lostNow' = {}
    /\ mainStep' = IF reinit THEN "running" ELSE register_collateral
    /\ UNCHANGED <<build, mainNonce, reinit, nonceGuard, making, unsent, watched, dead, nodeVars, xtFaults, batches>>

\* The shard is untouched and gets initialised; or it has another primary; or this
\* one goes on. In the first two cases the components are set up again.
primary_worker_for_shard ==
    /\ mainStep = "registered"
    /\ \/ mainStep' = "init_shard" /\ reinit' = TRUE
       \/ mainStep' = "init" /\ reinit' = TRUE
       \/ mainStep' = "running" /\ UNCHANGED reinit
    /\ UNCHANGED <<build, mainNonce, nonceVars, unsent, watched, dead, lostNow, nodeVars, xtFaults, batches>>
-----------------------------------------------------------------------------
(* ExtrinsicsFactory::create_extrinsics *)

\* The cache is only read: nobody else is kept out.
load_for_mutation_mut(t) == UNCHANGED nonceGuard

\* NonceCache::load_for_mutation
load_for_mutation(t) == nonceGuard = "none" /\ nonceGuard' = t

\* The RPC server runs from the start on; a request that comes before the
\* components are there is answered with an error.
ServesRpc == "rpc" \notin dead /\ mainStep # "panicked" /\ (mainStep \in {"init", "set_nonce"} => reinit)

Working(t) ==
    IF t = "main" THEN mainStep \in MakingSteps
    ELSE IF t = "rpc" THEN ServesRpc
    ELSE mainStep = "running" /\ t \notin dead /\ t \in (IF build.teeracle THEN TeeracleThreads ELSE EnclaveThreads)
AtRest(t) == making[t] = NotMaking /\ unsent[t] = <<>>

\* The batches of the enclave's threads: any number of calls. Of the teeracle: the
\* exchange rates it got from its two sources. All others have one call.
CallsMade(t) == IF t \in EnclaveThreads \cup {"market"} THEN {1, 2} ELSE {1}

begin_extrinsics(t) ==
    /\ Working(t) /\ AtRest(t) /\ load_for_mutation(t)
    /\ IF t = "main" /\ mainStep # "marblerun" THEN UNCHANGED batches
       ELSE batches < MaxBatches /\ batches' = batches + 1
    /\ \E calls \in CallsMade(t) : making' = [making EXCEPT ![t] = [calls |-> calls, first |-> nonceCache]]
    /\ UNCHANGED <<build, mainVars, nonceCache, unsent, watched, dead, madeNow, lostNow, nodeVars, xtFaults>>

\* One extrinsic per call with consecutive nonces, then the lock is released.
create_extrinsics(t) ==
    LET xts == [i \in 1 .. making[t].calls |-> making[t].first + i - 1] IN
    /\ Working(t) /\ making[t] # NotMaking
    /\ nonceCache' = making[t].first + making[t].calls
    /\ unsent' = [unsent EXCEPT ![t] = xts]
    /\ madeNow' = madeNow \o xts
    /\ making' = [making EXCEPT ![t] = NotMaking]
    /\ nonceGuard' = IF nonceGuard = t THEN "none" ELSE nonceGuard
    /\ UNCHANGED <<build, mainVars, watched, dead, lostNow, nodeVars, xtFaults, batches>>
-----------------------------------------------------------------------------
(* send_integritee_extrinsic: by main, but for init_shard, and the periodic
   registration of a teeracle. *)

Registering(t) == t = "reregister" \/ (t = "main" /\ mainStep # "init_shard")
HasOne(t) == Working(t) /\ Registering(t) /\ unsent[t] # <<>> /\ t \notin watched
Held(t) == Head(unsent[t])

\* A panic of main ends the process, one of another thread only that thread.
Panic(t) ==
    IF t = "main" THEN mainStep' = "panicked" /\ UNCHANGED <<unsent, dead, lostNow>>
    ELSE /\ dead' = dead \cup {t} /\ lostNow' = lostNow \cup ToSet(unsent[t])
         /\ unsent' = [unsent EXCEPT ![t] = <<>>] /\ UNCHANGED mainStep

\* The result of registering collateral or an attesteer's quotes is ignored, a
\* teeracle logs it; without the first registration there is no going on.
GiveUp(t) ==
    IF t = "main" /\ mainStep = "register" THEN Panic(t)
    ELSE /\ lostNow' = lostNow \cup ToSet(unsent[t]) /\ unsent' = [unsent EXCEPT ![t] = <<>>]
         /\ mainStep' = IF t = "main" THEN NextStep(mainStep) ELSE mainStep
         /\ UNCHANGED dead

\* The ecall fails before the extrinsic has a nonce: the quote, the collateral or
\* the attestation service. An attesteer goes on with its next quote.
attestation_fails(t) ==
    /\ Working(t) /\ Registering(t) /\ AtRest(t) /\ Fault
    /\ IF mainStep = "marblerun" THEN UNCHANGED <<mainStep, unsent, dead, lostNow>> ELSE Panic(t)
    /\ UNCHANGED <<build, mainNonce, reinit, nonceVars, watched, nodeVars, batches>>

\* It fails afterwards: the extrinsic is larger than EXTRINSIC_MAX_SIZE.
extrinsic_exceeds_buffer(t) ==
    /\ HasOne(t) /\ Fault
    /\ IF mainStep = "marblerun" THEN GiveUp(t) ELSE Panic(t)
    /\ UNCHANGED <<build, mainNonce, reinit, nonceVars, watched, nodeVars, batches>>

\* The fee, the existential deposit and the balance are asked of the node.
estimate_fee_fails(t) ==
    /\ HasOne(t) /\ Fault
    /\ GiveUp(t)
    /\ UNCHANGED <<build, mainNonce, reinit, nonceVars, watched, nodeVars, batches>>

send_integritee_extrinsic(t) ==
    /\ HasOne(t) /\ funded /\ CanSubmit(Held(t))
    /\ txPool' = txPool \cup {Held(t)} /\ watched' = watched \cup {t}
    /\ UNCHANGED <<build, mainVars, nonceVars, unsent, dead, lostNow, chainNonce, funded, xtFaults, batches>>

\* submit_and_watch_opaque_extrinsic_until: the extrinsic is in a block.
watched_is_included(t) ==
    /\ Working(t) /\ t \in watched /\ chainNonce > Held(t)
    /\ watched' = watched \ {t} /\ unsent' = [unsent EXCEPT ![t] = Tail(@)]
    /\ mainStep' = IF t = "main" THEN NextStep(mainStep) ELSE mainStep
    /\ UNCHANGED <<build, mainNonce, reinit, nonceVars, dead, lostNow, nodeVars, xtFaults, batches>>

\* An error of the submission, or a nonce the node has already: panic.
submission_fails(t) ==
    /\ HasOne(t) /\ funded
    /\ IF CanSubmit(Held(t)) THEN Fault ELSE UNCHANGED xtFaults
    /\ Panic(t)
    /\ UNCHANGED <<build, mainNonce, reinit, nonceVars, watched, nodeVars, batches>>
-----------------------------------------------------------------------------
(* ocall send_to_parentchain, and the tasks that send a teeracle's updates. *)

Sender(t) == Working(t) /\ ~Registering(t) /\ unsent[t] # <<>> /\ t \notin watched

\* The tasks of a teeracle run in any order.
NextToSend(t) == IF t = "market" THEN DOMAIN unsent[t] ELSE {1}

\* Sending ends with the first extrinsic the node does not take.
send_to_parentchain_mut(t, i) ==
    LET n == unsent[t][i] IN
    \/ /\ CanSubmit(n) /\ txPool' = txPool \cup {n}
       /\ IF t = "main" THEN watched' = watched \cup {t} /\ UNCHANGED unsent
          ELSE unsent' = [unsent EXCEPT ![t] = RemoveAt(@, i)] /\ UNCHANGED watched
       /\ UNCHANGED <<mainStep, lostNow, xtFaults>>
    \/ /\ IF CanSubmit(n) THEN Fault ELSE UNCHANGED xtFaults
       /\ lostNow' = lostNow \cup {n}
       /\ unsent' = [unsent EXCEPT ![t] = <<>>]
       /\ mainStep' = IF t = "main" THEN NextStep(mainStep) ELSE mainStep
       /\ UNCHANGED <<txPool, watched>>

\* An extrinsic is submitted; or the node refuses it or cannot be asked, which is
\* logged, and the next one is sent. Main waits for the inclusion.
send_to_parentchain(t, i) ==
    LET n == unsent[t][i] IN
    \/ /\ CanSubmit(n) /\ txPool' = txPool \cup {n}
       /\ IF t = "main" THEN watched' = watched \cup {t} /\ UNCHANGED unsent
          ELSE unsent' = [unsent EXCEPT ![t] = RemoveAt(@, i)] /\ UNCHANGED watched
       /\ UNCHANGED <<mainStep, lostNow, xtFaults>>
    \/ /\ IF CanSubmit(n) THEN Fault ELSE UNCHANGED xtFaults
       /\ lostNow' = lostNow \cup {n}
       /\ unsent' = [unsent EXCEPT ![t] = RemoveAt(@, i)]
       /\ mainStep' = IF t = "main" THEN NextStep(mainStep) ELSE mainStep
       /\ UNCHANGED <<txPool, watched>>

execute_send(t) ==
    /\ Sender(t)
    /\ \E i \in NextToSend(t) : send_to_parentchain(t, i)
    /\ UNCHANGED <<build, mainNonce, reinit, nonceVars, dead, chainNonce, funded, batches>>

\* The handlers that forward a quote or a report unwrap what sending returns: an
\* error ends the thread of the RPC server.
unwraps_result(t) == t = "rpc"

\* The node cannot be reached, or the extrinsics of a teeracle exceed the buffer of
\* the ecall: none of the batch is sent. init_shard fails, and with it main.
create_api_fails(t) ==
    /\ Sender(t) /\ Fault
    /\ lostNow' = lostNow \cup ToSet(unsent[t])
    /\ unsent' = [unsent EXCEPT ![t] = <<>>]
    /\ mainStep' = IF t = "main" THEN "panicked" ELSE mainStep
    /\ dead' = IF unwraps_result(t) THEN dead \cup {t} ELSE dead
    /\ UNCHANGED <<build, mainNonce, reinit, nonceVars, watched, nodeVars, batches>>
-----------------------------------------------------------------------------
\* The process is ended; what the node has stays.
crash_service ==
    /\ mainStep # "panicked" /\ Fault
    /\ mainStep' = "panicked"
    /\ UNCHANGED <<build, mainNonce, reinit, nonceVars, unsent, watched, dead, lostNow, nodeVars, batches>>

restart_service ==
    /\ mainStep = "panicked"
    /\ mainStep' = "init" /\ mainNonce' = 0 /\ reinit' = FALSE
    /\ nonceCache' = 0 /\ nonceGuard' = "none" /\ making' = [t \in Makers |-> NotMaking]
    /\ unsent' = [t \in Makers |-> <<>>] /\ watched' = {} /\ dead' = {} /\ madeNow' = <<>> /\ lostNow' = {}
    /\ UNCHANGED <<build, nodeVars, xtFaults, batches>>

MainStep ==
    \/ init_parentchain \/ set_nonce \/ primary_worker_for_shard \/ restart_service
    \/ begin_extrinsics("main") \/ create_extrinsics("main") \/ send_integritee_extrinsic("main")
    \/ watched_is_included("main") \/ execute_send("main") \/ submission_fails("main")

ExtrinsicsNext ==
    \/ MainStep \/ include_extrinsic \/ setup_reasonable_account_funding \/ crash_service
    \/ \E t \in Makers \ {"main"} :
          \/ begin_extrinsics(t) \/ create_extrinsics(t) \/ execute_send(t)
          \/ send_integritee_extrinsic(t) \/ watched_is_included(t) \/ submission_fails(t)
    \/ \E t \in Makers :
          attestation_fails(t) \/ extrinsic_exceeds_buffer(t) \/ estimate_fee_fails(t) \/ create_api_fails(t)

\* The node includes what is due and somebody funds the account; the service is
\* started again when it ended; its main thread is scheduled, and so is the RPC
\* server's with what it began.
ExtrinsicsFairness ==
    /\ WF_extrinsicsVars(MainStep) /\ WF_extrinsicsVars(include_extrinsic)
    /\ WF_extrinsicsVars(setup_reasonable_account_funding)
    /\ WF_extrinsicsVars(create_extrinsics("rpc") \/ execute_send("rpc"))
-----------------------------------------------------------------------------
\* Extrinsics made since the nonce cache was set have consecutive nonces, whatever
\* threads made them at the same time: the guard of the cache is held until the
\* nonce is written back.
NoncesConsecutive ==
    \A i \in 1 .. Len(madeNow) : madeNow[i] = madeNow[1] + i - 1

\* What waits at the node for an earlier nonce waits for an extrinsic that is on its
\* way or was lost by a failure the log names: no other path, an ignored error of a
\* single extrinsic in particular, opens a gap; and setting the nonce again closes
\* the gaps of before.
OnlyFailuresStall ==
    \A n \in ToSet(madeNow) \cap txPool : \A k \in chainNonce .. n - 1 :
        \/ k \in txPool \/ k \in lostNow
        \/ \E t \in Makers : k \in ToSet(unsent[t])

\* The service gets past its start-up in all builds but an attesteer's: a failure
\* of its own ends in a panic and a restart that reads the nonce again, not in
\* waiting for a nonce that was lost. The exceptions are the extrinsic of the
\* collateral whose error is ignored, and one a client forwarded that was lost:
\* the registration behind it waits for ever.
EventuallyRunning == build.ra # "attesteer" ~> (mainStep = "running" \/ lostNow # {})
=============================================================================
