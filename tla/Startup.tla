------------------------------ MODULE Startup -------------------------------
(***************************************************************************)
(* The start of the workers of one shard: main and start_worker of the     *)
(* service, the ecalls they make, the global components of the enclave,    *)
(* the threads that are spawned on the way, and what the parentchain knows *)
(* of the shard.                                                           *)
(*                                                                         *)
(* A worker goes through its steps in order while its threads run and the  *)
(* other workers start, stop and start again.  What a worker writes into   *)
(* the state of the shard outside of any block (the first relevant header  *)
(* of each parentchain, the vault account) is its set-up.  Attestation and *)
(* provisioning are single steps here; modules Attestation and             *)
(* Provisioning have their detail.                                         *)
(***************************************************************************)
EXTENDS Integers, Sequences, FiniteSets, SequencesExt

CONSTANTS
    StartWorkers,    \* workers (accounts of their enclaves)
    Modes,           \* worker modes to look at: "Sidechain", "OffChainWorker", "Teeracle"
    Targets,         \* target parentchains that are configured
    GrandpaChains,   \* the parentchains whose node has GRANDPA authorities
    ShieldingTarget, \* parentchain of the shard vault
    MaxStarts        \* bound of the model: starts of each worker

StartChains == {"Integritee"} \cup Targets

ASSUME StartupAssumption ==
    /\ Modes \subseteq {"Sidechain", "OffChainWorker", "Teeracle"} /\ Modes # {}
    /\ Targets \subseteq {"TargetA", "TargetB"}
    /\ GrandpaChains \subseteq StartChains
    /\ ShieldingTarget \in StartChains /\ MaxStarts \in Nat
    /\ "nobody" \notin StartWorkers

VARIABLES
    workerMode,      \* WorkerModeProvider::worker_mode(), the same for all
    startPc,         \* worker -> where its main thread is
    todoTargets,     \* worker -> targets still to initialize, in their order
    global_components,      \* worker -> global components that are initialized
    metadataOf,      \* worker -> parentchains whose metadata its handler has
    nonceOf,         \* worker -> parentchains whose nonce is set
    threads,         \* worker -> threads that run
    isPrimary,       \* worker -> we_are_primary_validateer
    progress,        \* worker -> what InitializationHandler has been told
    shardSetup,      \* worker -> its set-up of the shard (persistent)
    enclaves,        \* parentchain: registered enclaves
    shardStatus,     \* parentchain: signers of the shard, the primary first
    starts,          \* worker -> starts so far
    founders,        \* history: who found the shard untouched
    wiped            \* history: who was cleanly reset after it had become a signer

startupVars == <<workerMode, startPc, todoTargets, global_components, metadataOf, nonceOf, threads,
                 isPrimary, progress, shardSetup, enclaves, shardStatus, starts, founders, wiped>>
enclaveVars == <<global_components, metadataOf, nonceOf>>
chainVars == <<enclaves, shardStatus>>
historyVars == <<workerMode, starts, founders, wiped>>

Nobody == "nobody"
NoSetup == [exists |-> FALSE, creation |-> [c \in StartChains |-> Nobody], vault |-> Nobody]
InitialSetup == [NoSetup EXCEPT !.exists = TRUE]

StartupInit ==
    /\ workerMode \in Modes
    /\ startPc = [w \in StartWorkers |-> "down"] /\ todoTargets = [w \in StartWorkers |-> <<>>]
    /\ global_components = [w \in StartWorkers |-> {}] /\ metadataOf = [w \in StartWorkers |-> {}]
    /\ nonceOf = [w \in StartWorkers |-> {}] /\ threads = [w \in StartWorkers |-> {}]
    /\ isPrimary = [w \in StartWorkers |-> FALSE] /\ progress = [w \in StartWorkers |-> {}]
    /\ shardSetup = [w \in StartWorkers |-> NoSetup]
    /\ enclaves = {} /\ shardStatus = <<>>
    /\ starts = [w \in StartWorkers |-> 0] /\ founders = {} /\ wiped = {}
-----------------------------------------------------------------------------
(* The global components: which ecall needs and which initializes them. *)

HandlersOf ==
    [Integritee |-> [Solochain |-> "INTEGRITEE_SOLOCHAIN_HANDLER", Parachain |-> "INTEGRITEE_PARACHAIN_HANDLER"],
     TargetA    |-> [Solochain |-> "TARGET_A_SOLOCHAIN_HANDLER", Parachain |-> "TARGET_A_PARACHAIN_HANDLER"],
     TargetB    |-> [Solochain |-> "TARGET_B_SOLOCHAIN_HANDLER", Parachain |-> "TARGET_B_PARACHAIN_HANDLER"]]

\* ParentchainInitParams: GRANDPA parameters make the chain a solochain in the enclave.
InitParams(chain) == IF chain \in GrandpaChains THEN "Solochain" ELSE "Parachain"
Handler(chain) == HandlersOf[chain][InitParams(chain)]

KeyRepositories == {"SIGNING_KEY", "SHIELDING_KEY", "STATE_KEY"}
LightClientSeal ==
    [Integritee |-> "INTEGRITEE_LIGHT_CLIENT_SEAL", TargetA |-> "TARGET_A_LIGHT_CLIENT_SEAL",
     TargetB |-> "TARGET_B_LIGHT_CLIENT_SEAL"]

\* init_enclave: what every worker has, whatever its mode.
init_enclave ==
    KeyRepositories \cup {LightClientSeal[c] : c \in DOMAIN LightClientSeal}
    \cup {"STATE_OBSERVER", "STATE_HANDLER", "OCALL_API", "TOP_POOL_AUTHOR", "RPC_WS_HANDLER",
          "SIDECHAIN_IMPORT_QUEUE", "ATTESTATION_HANDLER"}

create_parentchain_block_importer == {"STATE_OBSERVER", "TOP_POOL_AUTHOR", "SHIELDING_KEY", "OCALL_API"}
create_target_a_block_importer == create_parentchain_block_importer
create_target_b_block_importer == create_parentchain_block_importer
create_extrinsics_factory == {"SIGNING_KEY"}

\* The dispatcher of an offchain worker executes the pool, that of a sidechain
\* waits to be triggered, that of a teeracle is empty.
create_import_dispatcher ==
    IF workerMode = "OffChainWorker" THEN {"STATE_HANDLER", "TOP_POOL_AUTHOR"} ELSE {}
create_target_a_import_dispatcher == create_import_dispatcher
create_target_b_import_dispatcher == create_import_dispatcher

\* init of the handlers, one for each parentchain and kind of node.
HandlerNeeds(chain, importer, dispatcher) ==
    {"OCALL_API", "STATE_HANDLER", LightClientSeal[chain]}
    \cup create_extrinsics_factory \cup importer \cup dispatcher
IntegriteeSolochainHandler ==
    HandlerNeeds("Integritee", create_parentchain_block_importer, create_import_dispatcher)
IntegriteeParachainHandler ==
    HandlerNeeds("Integritee", create_parentchain_block_importer, create_import_dispatcher)
TargetASolochainHandler ==
    HandlerNeeds("TargetA", create_target_a_block_importer, create_target_a_import_dispatcher)
TargetAParachainHandler ==
    HandlerNeeds("TargetA", create_target_a_block_importer, create_target_a_import_dispatcher)
TargetBSolochainHandler ==
    HandlerNeeds("TargetB", create_target_b_block_importer, create_target_b_import_dispatcher)
TargetBParachainHandler ==
    HandlerNeeds("TargetB", create_target_b_block_importer, create_target_b_import_dispatcher)

InitNeeds(chain) ==
    CASE Handler(chain) = "INTEGRITEE_SOLOCHAIN_HANDLER" -> IntegriteeSolochainHandler
      [] Handler(chain) = "INTEGRITEE_PARACHAIN_HANDLER" -> IntegriteeParachainHandler
      [] Handler(chain) = "TARGET_A_SOLOCHAIN_HANDLER" -> TargetASolochainHandler
      [] Handler(chain) = "TARGET_A_PARACHAIN_HANDLER" -> TargetAParachainHandler
      [] Handler(chain) = "TARGET_B_SOLOCHAIN_HANDLER" -> TargetBSolochainHandler
      [] OTHER -> TargetBParachainHandler

SidechainComponents == {"IMPORT_QUEUE_WORKER", "BLOCK_COMPOSER", "BLOCK_SYNCER"}

\* The handler of a parentchain: of a solochain, else of a parachain.
SoloOrParachain(w, chain) == global_components[w] \cap {HandlersOf[chain].Solochain, HandlersOf[chain].Parachain} # {}

\* What is taken from it.
get_triggered_dispatcher(w, chain) == SoloOrParachain(w, chain) /\ workerMode = "Sidechain"
get_validator_accessor(w, chain) == SoloOrParachain(w, chain)
get_node_metadata_repository(w, chain) == SoloOrParachain(w, chain)
get_extrinsic_factory(w, chain) == SoloOrParachain(w, chain)

\* An extrinsic is made by the factory, out of the nonce and the metadata.
CanCreateExtrinsics(w, chain) ==
    get_extrinsic_factory(w, chain) /\ chain \in metadataOf[w] /\ chain \in nonceOf[w]

\* sync_parentchain: without a handler the blocks have nowhere to go.
dispatch_parentchain_blocks_for_import(w, chain) == workerMode = "Teeracle" \/ SoloOrParachain(w, chain)

\* execute_trusted_calls: what the slot gets before anything else.
execute_trusted_calls(w) ==
    /\ get_triggered_dispatcher(w, "Integritee") /\ get_validator_accessor(w, "Integritee")
    /\ shardSetup[w].exists
    /\ SidechainComponents \subseteq global_components[w] /\ CanCreateExtrinsics(w, "Integritee")

\* What a thread gets from the containers whenever it calls into the enclave.
ThreadFinds(w, t) ==
    CASE t = "provisioning_server" -> KeyRepositories \cup {"STATE_HANDLER", "ATTESTATION_HANDLER"} \subseteq global_components[w]
      [] t = "direct_invocation" -> {"RPC_WS_HANDLER", "WEB_SOCKET_SERVER"} \subseteq global_components[w]
      [] t = "untrusted_rpc" -> "SIDECHAIN_IMPORT_QUEUE" \in global_components[w]
      [] t \in StartChains -> /\ dispatch_parentchain_blocks_for_import(w, t)
                              /\ workerMode = "OffChainWorker" => CanCreateExtrinsics(w, t)
      [] t = "block_production" -> execute_trusted_calls(w)
      [] t \in {"reregistration", "market_update"} -> CanCreateExtrinsics(w, "Integritee")
      [] OTHER -> TRUE
-----------------------------------------------------------------------------
(* Starting and stopping *)

Goto(w, pc) == startPc' = [startPc EXCEPT ![w] = pc]

\* A panic of the main thread, or a crash: the process and its enclave are gone.
stop(w) ==
    /\ Goto(w, "down")
    /\ threads' = [threads EXCEPT ![w] = {}]
    /\ global_components' = [global_components EXCEPT ![w] = {}]
    /\ metadataOf' = [metadataOf EXCEPT ![w] = {}] /\ nonceOf' = [nonceOf EXCEPT ![w] = {}]
    /\ isPrimary' = [isPrimary EXCEPT ![w] = FALSE] /\ progress' = [progress EXCEPT ![w] = {}]
    /\ UNCHANGED <<todoTargets, shardSetup, chainVars, historyVars>>

crash_worker(w) == startPc[w] # "down" /\ stop(w)

\* The first ecall.
init(w) == global_components' = [global_components EXCEPT ![w] = init_enclave]

\* main, up to start_worker. A clean reset purges the state and initializes the shard.
main(w, clean_reset) ==
    /\ startPc[w] = "down" /\ starts[w] < MaxStarts
    /\ starts' = [starts EXCEPT ![w] = @ + 1]
    /\ init(w)
    /\ shardSetup' = IF clean_reset THEN [shardSetup EXCEPT ![w] = InitialSetup] ELSE shardSetup
    /\ wiped' = IF clean_reset /\ Contains(shardStatus, w) THEN wiped \cup {w} ELSE wiped
    /\ Goto(w, "servers")
    /\ UNCHANGED <<workerMode, todoTargets, metadataOf, nonceOf, threads, isPrimary, progress, chainVars, founders>>

\* The thread of the direct invocation server: the component is there when it runs.
init_direct_invocation_server(w) ==
    IF workerMode # "Teeracle" /\ {"RPC_WS_HANDLER", "SIGNING_KEY"} \subseteq global_components[w]
    THEN {"WEB_SOCKET_SERVER"} ELSE {}

start_servers(w) ==
    /\ startPc[w] = "servers"
    /\ threads' = [threads EXCEPT ![w] =
          {"provisioning_server"}
          \cup (IF workerMode # "Teeracle" THEN {"direct_invocation"} ELSE {})
          \cup (IF workerMode = "Sidechain" THEN {"untrusted_rpc"} ELSE {})]
    /\ global_components' = [global_components EXCEPT ![w] = @ \cup init_direct_invocation_server(w)]
    /\ Goto(w, "init_integritee")
    /\ UNCHANGED <<todoTargets, metadataOf, nonceOf, isPrimary, progress, shardSetup, chainVars, historyVars>>

\* A new handler replaces the old one, and with it the metadata repository. It
\* takes the shard creation info with it, which exists with the state only.
init_parentchain_components(w, chain) ==
    /\ shardSetup[w].exists /\ InitNeeds(chain) \subseteq global_components[w]
    /\ global_components' = [global_components EXCEPT ![w] = @ \cup {Handler(chain)}]
    /\ metadataOf' = [metadataOf EXCEPT ![w] = @ \ {chain}]
    /\ UNCHANGED nonceOf

init_parentchain_fails(w, chain) == ~shardSetup[w].exists \/ ~(InitNeeds(chain) \subseteq global_components[w])

set_nonce_and_metadata(w, chain) ==
    /\ get_node_metadata_repository(w, chain)
    /\ nonceOf' = [nonceOf EXCEPT ![w] = @ \cup {chain}]
    /\ metadataOf' = [metadataOf EXCEPT ![w] = @ \cup {chain}]
    /\ UNCHANGED global_components

\* init_parentchain of the Integritee parentchain, the first time and the second.
init_integritee(w) ==
    \/ /\ startPc[w] \in {"init_integritee", "reinit_integritee"} /\ init_parentchain_fails(w, "Integritee")
       /\ stop(w)
    \/ /\ startPc[w] \in {"init_integritee", "reinit_integritee"} /\ init_parentchain_components(w, "Integritee")
       /\ Goto(w, IF startPc[w] = "init_integritee" THEN "set_metadata" ELSE "reset_metadata")
       /\ UNCHANGED <<todoTargets, threads, isPrimary, progress, shardSetup, chainVars, historyVars>>
    \/ /\ startPc[w] \in {"set_metadata", "reset_metadata"} /\ set_nonce_and_metadata(w, "Integritee")
       /\ Goto(w, IF startPc[w] = "set_metadata" THEN "register" ELSE "mode")
       /\ UNCHANGED <<todoTargets, threads, isPrimary, progress, shardSetup, chainVars, historyVars>>

\* send_register_xt: final before the worker goes on.
register_enclave(w) ==
    /\ startPc[w] = "register" /\ CanCreateExtrinsics(w, "Integritee")
    /\ enclaves' = enclaves \cup {w}
    /\ Goto(w, "primary")
    /\ UNCHANGED <<todoTargets, enclaveVars, threads, isPrimary, progress, shardSetup, shardStatus, historyVars>>

primary_worker_for_shard == IF shardStatus = <<>> THEN Nobody ELSE Head(shardStatus)
-----------------------------------------------------------------------------
(* Who is the primary worker, and where the state comes from *)

Registered(w, primary, next) ==
    /\ isPrimary' = [isPrimary EXCEPT ![w] = primary]
    /\ progress' = [progress EXCEPT ![w] = @ \cup {"registered_on_parentchain"}]
    /\ Goto(w, next)

\* The primary goes on from where it was.
was_primary(w) ==
    /\ startPc[w] = "primary" /\ primary_worker_for_shard = w
    /\ Registered(w, TRUE, "mode")
    /\ UNCHANGED <<todoTargets, enclaveVars, threads, shardSetup, chainVars, historyVars>>

\* init_shard, and the creation header but for a teeracle.
found_shard(w) ==
    /\ startPc[w] = "primary" /\ primary_worker_for_shard = Nobody
    /\ founders' = founders \cup {w}
    /\ shardSetup' = [shardSetup EXCEPT ![w] =
          IF workerMode = "Teeracle" THEN InitialSetup ELSE [InitialSetup EXCEPT !.creation["Integritee"] = w]]
    /\ IF workerMode = "Teeracle" THEN Registered(w, TRUE, "mode")
       ELSE Goto(w, "shard_config") /\ UNCHANGED <<isPrimary, progress>>
    /\ UNCHANGED <<todoTargets, enclaveVars, threads, chainVars, workerMode, starts, wiped>>

\* init_shard_config, which waits for its inclusion.
init_shard_config(w) ==
    /\ startPc[w] = "shard_config" /\ CanCreateExtrinsics(w, "Integritee")
    /\ shardStatus' = IF Contains(shardStatus, w) THEN shardStatus ELSE Append(shardStatus, w)
    /\ Registered(w, TRUE, "reinit_integritee")
    /\ UNCHANGED <<todoTargets, enclaveVars, threads, shardSetup, enclaves, historyVars>>

IsSecondary(w) == startPc[w] = "primary" /\ primary_worker_for_shard \notin {w, Nobody}

NeedsState(w) == shardSetup[w].creation["Integritee"] = Nobody

\* Not the primary, with a state of an earlier run.
keep_state(w) ==
    /\ IsSecondary(w) /\ ~NeedsState(w)
    /\ Registered(w, FALSE, "reinit_integritee")
    /\ UNCHANGED <<todoTargets, enclaveVars, threads, shardSetup, chainVars, historyVars>>

\* get_enclave_url_of_last_active: some signer that is not this one; a teeracle
\* asks the first enclave that is registered.
Providers(w) ==
    IF workerMode = "Teeracle" THEN enclaves \ {w} ELSE {shardStatus[i] : i \in DOMAIN shardStatus} \ {w}

\* sync_state: the state as the provider has it now; then init_shard_config.
sync_state(w) ==
    /\ IsSecondary(w) /\ NeedsState(w)
    /\ \E p \in Providers(w) :
          IF "provisioning_server" \in threads[p] /\ shardSetup[p].exists
          THEN /\ shardSetup' = [shardSetup EXCEPT ![w] = IF workerMode = "Teeracle" THEN InitialSetup ELSE shardSetup[p]]
               /\ shardStatus' = IF Contains(shardStatus, w) THEN shardStatus ELSE Append(shardStatus, w)
               /\ Registered(w, FALSE, "reinit_integritee")
               /\ UNCHANGED <<todoTargets, enclaveVars, threads, enclaves, historyVars>>
          ELSE stop(w)
-----------------------------------------------------------------------------
(* Mode, target parentchains, vault and block production *)

ConfiguredTargets ==
    (IF "TargetA" \in Targets THEN <<"TargetA">> ELSE <<>>)
    \o (IF "TargetB" \in Targets THEN <<"TargetB">> ELSE <<>>)

\* Teeracle: re-registration and market updates. Else: the loop that follows the
\* headers; the polling of a sidechain ends when the shard has a worker.
start_mode(w) ==
    /\ startPc[w] = "mode"
    /\ threads' = [threads EXCEPT ![w] = @ \cup
          CASE workerMode = "Teeracle" -> {"reregistration", "market_update"}
            [] workerMode = "OffChainWorker" -> {"Integritee"}
            [] OTHER -> {"Integritee", "polling"}]
    /\ todoTargets' = [todoTargets EXCEPT ![w] = ConfiguredTargets]
    /\ Goto(w, "targets")
    /\ UNCHANGED <<enclaveVars, isPrimary, progress, shardSetup, chainVars, historyVars>>

\* A header that is set already is not set again.
init_shard_creation_parentchain_header(w, chain) ==
    shardSetup' = IF shardSetup[w].creation[chain] = Nobody
                  THEN [shardSetup EXCEPT ![w].creation[chain] = w] ELSE shardSetup

\* init_target_parentchain, in two steps for its handler and its metadata.
init_target_parentchain(w) ==
    /\ todoTargets[w] # <<>>
    /\ LET c == Head(todoTargets[w]) IN
       \/ /\ startPc[w] = "targets"
          /\ init_shard_creation_parentchain_header(w, c)
          /\ global_components' = [global_components EXCEPT ![w] = @ \cup {Handler(c)}]
          /\ metadataOf' = [metadataOf EXCEPT ![w] = @ \ {c}] /\ UNCHANGED nonceOf
          /\ InitNeeds(c) \subseteq global_components[w]
          /\ Goto(w, "target_metadata")
          /\ UNCHANGED <<todoTargets, threads, isPrimary, progress, chainVars, historyVars>>
       \/ /\ startPc[w] = "target_metadata" /\ set_nonce_and_metadata(w, c)
          /\ threads' = IF workerMode = "Teeracle" THEN threads ELSE [threads EXCEPT ![w] = @ \cup {c}]
          /\ todoTargets' = [todoTargets EXCEPT ![w] = Tail(@)]
          /\ Goto(w, "targets")
          /\ UNCHANGED <<isPrimary, progress, shardSetup, chainVars, historyVars>>

\* A vault the state does not have yet is left for later.
init_provided_shard_vault_mut(w) ==
    /\ startPc[w] = "targets" /\ todoTargets[w] = <<>>
    /\ shardSetup' = IF isPrimary[w] /\ shardSetup[w].vault = Nobody
                     THEN [shardSetup EXCEPT ![w].vault = w] ELSE shardSetup
    /\ Goto(w, "production")
    /\ UNCHANGED <<todoTargets, enclaveVars, threads, isPrimary, progress, chainVars, historyVars>>

\* The account enters the state first; the extrinsics to fund it and to make the
\* enclave its proxy come after it.
init_proxied_shard_vault(w) ==
    /\ shardSetup[w].exists /\ CanCreateExtrinsics(w, ShieldingTarget)
    /\ shardSetup' = [shardSetup EXCEPT ![w].vault = w]

get_shard_vault(w) == shardSetup[w].vault

\* Only the primary initializes the vault; another worker must find it in its state.
init_provided_shard_vault(w) ==
    /\ startPc[w] = "targets" /\ todoTargets[w] = <<>>
    /\ IF get_shard_vault(w) = Nobody /\ ~isPrimary[w] THEN stop(w)
       ELSE /\ IF get_shard_vault(w) = Nobody THEN init_proxied_shard_vault(w) ELSE UNCHANGED shardSetup
            /\ Goto(w, "production")
            /\ UNCHANGED <<todoTargets, enclaveVars, threads, isPrimary, progress, chainVars, historyVars>>

\* The loop of slots is spawned before its components are there.
init_block_production_mut(w) ==
    /\ startPc[w] = "production"
    /\ threads' = IF workerMode = "Sidechain" THEN [threads EXCEPT ![w] = @ \cup {"block_production"}] ELSE threads
    /\ Goto(w, "running")
    /\ UNCHANGED <<todoTargets, enclaveVars, isPrimary, progress, shardSetup, chainVars, historyVars>>

\* init_enclave_sidechain_components, then the threads of sidechain_init_block_production.
init_block_production(w) ==
    /\ startPc[w] = "production"
    /\ workerMode = "Sidechain" => get_triggered_dispatcher(w, "Integritee") /\ {"SIDECHAIN_IMPORT_QUEUE", "TOP_POOL_AUTHOR"} \subseteq global_components[w]
    /\ global_components' = IF workerMode = "Sidechain" THEN [global_components EXCEPT ![w] = @ \cup SidechainComponents] ELSE global_components
    /\ threads' = IF workerMode = "Sidechain" THEN [threads EXCEPT ![w] = @ \cup {"block_production"}] ELSE threads
    /\ Goto(w, "running")
    /\ UNCHANGED <<todoTargets, metadataOf, nonceOf, isPrimary, progress, shardSetup, chainVars, historyVars>>

\* The mode is not asked for.
is_initialized_mut(w) == "registered_on_parentchain" \in progress[w]

is_initialized(w) ==
    IF workerMode = "Sidechain"
    THEN {"registered_on_parentchain", "worker_for_shard_registered", "sidechain_block_produced"} \subseteq progress[w]
    ELSE "registered_on_parentchain" \in progress[w]

\* spawn_worker_for_shard_polling
poll_worker_for_shard(w) ==
    /\ "polling" \in threads[w] /\ primary_worker_for_shard # Nobody
    /\ progress' = [progress EXCEPT ![w] = @ \cup {"worker_for_shard_registered"}]
    /\ threads' = [threads EXCEPT ![w] = @ \ {"polling"}]
    /\ UNCHANGED <<startPc, todoTargets, enclaveVars, isPrimary, shardSetup, chainVars, historyVars>>

\* propose_sidechain_blocks tells the initialization handler.
produce_first_block(w) ==
    /\ "block_production" \in threads[w] /\ ThreadFinds(w, "block_production")
    /\ "sidechain_block_produced" \notin progress[w]
    /\ progress' = [progress EXCEPT ![w] = @ \cup {"sidechain_block_produced"}]
    /\ UNCHANGED <<startPc, todoTargets, enclaveVars, threads, isPrimary, shardSetup, chainVars, historyVars>>

StartupNext ==
    \E w \in StartWorkers :
       \/ crash_worker(w) \/ \E clean \in BOOLEAN : main(w, clean)
       \/ start_servers(w) \/ init_integritee(w) \/ register_enclave(w)
       \/ was_primary(w) \/ found_shard(w) \/ init_shard_config(w) \/ keep_state(w) \/ sync_state(w)
       \/ start_mode(w) \/ init_target_parentchain(w) \/ init_provided_shard_vault(w)
       \/ init_block_production(w) \/ poll_worker_for_shard(w) \/ produce_first_block(w)
-----------------------------------------------------------------------------
\* Whenever a thread of the service calls into the enclave it finds the components
\* it gets, with nonce and metadata where it makes extrinsics: at no point of the
\* start, and not while the handler of a parentchain is replaced by a new one.
ThreadsFindComponents == \A w \in StartWorkers : \A t \in threads[w] : ThreadFinds(w, t)

\* Workers that came to the end of their start have the same set-up of the shard:
\* they can import each other's blocks (init_provided_shard_vault, sync_state).
\* It takes a shard that one worker founded, and no clean reset of a signer.
SetupAgrees ==
    Cardinality(founders) <= 1 /\ wiped = {} /\ workerMode # "Teeracle" =>
        \A v, w \in StartWorkers : startPc[v] = "running" /\ startPc[w] = "running" => shardSetup[v] = shardSetup[w]

\* Only what was said to be initialized is: a sidechain worker that answers
\* is_initialized is registered, its shard has a signer, and it has what its
\* block production needs, the vault in its state included.
InitializedIsComplete ==
    \A w \in StartWorkers : is_initialized(w) /\ workerMode = "Sidechain" =>
        w \in enclaves /\ shardStatus # <<>> /\ shardSetup[w].vault # Nobody /\ startPc[w] = "running"

\* A start ends with everything in its place: for the threads, for the peers of the
\* shard and for the operator who asks is_initialized.
StartsAreComplete == ThreadsFindComponents /\ SetupAgrees /\ InitializedIsComplete
=============================================================================
