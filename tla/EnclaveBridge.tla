---------------------------- MODULE EnclaveBridge ----------------------------
(***************************************************************************)
(* The calls that cross the border of the enclave.  A host thread enters   *)
(* the enclave through a wrapper of enclave-api (an ecall); while it is    *)
(* inside, the enclave calls back to the host through the OcallApi (an     *)
(* ocall), which the OCallBridge serves with the components main gave it.  *)
(*                                                                         *)
(* A call has two statuses: the one of the transport, which the SGX        *)
(* library returns, and the one the callee leaves in retval (rt), whose    *)
(* value is what the caller initialised it with when the transport fails.  *)
(* Answers are written into a buffer of the caller whose size is fixed:    *)
(* an answer is modelled by its length and by what it says.                *)
(***************************************************************************)
EXTENDS Integers, FiniteSets

CONSTANTS
    HostThreads,      \* threads of the host beside main
    BufferSize,       \* length of the buffer of a call with an answer
    MaxAnswer,        \* bound of the model: length of an answer
    MaxEcalls,        \* bound of the model: ecalls of a thread
    Headers           \* parentchain headers the enclave verifies storage with

ASSUME EnclaveBridgeAssumption ==
    /\ BufferSize \in Nat /\ MaxAnswer \in Nat /\ MaxEcalls \in Nat

VARIABLES
    component_factory,  \* COMPONENT_FACTORY is set
    enclaveUp,          \* "alive", or "crashed" by a panic inside
    hostUp,             \* "alive", or "aborted" by a panic in an ocall
    base_path,          \* BASE_PATH is set
    components,         \* initialised components of the enclave
    frame,              \* thread -> where it is
    finished            \* history: the call that has returned to its caller last

enclaveBridgeVars ==
    <<component_factory, enclaveUp, hostUp, base_path, components, frame, finished>>

------------------------------------------------------------------------------
(* The calls.                                                              *)

\* Wrappers that only return a status.
InitEcalls == {"init", "init_enclave_sidechain_components", "init_direct_invocation_server", "init_shard"}
ShardEcalls == {"init_proxied_shard_vault", "init_shard_creation_parentchain_header"}
SettingEcalls == {"set_nonce", "set_node_metadata"}
SidechainEcalls == {"sync_parentchain", "execute_trusted_calls"}

\* Wrappers that copy a value of fixed length.
KeyEcalls == {"get_ecc_signing_pubkey", "get_ecc_vault_pubkey", "get_mrenclave"}

\* Wrappers whose answer is padded to the length of the buffer.
PaddedEcalls == {"get_rsa_encryption_pubkey", "call_rpc_methods", "init_parentchain_components",
                 "get_shard_creation_info"}

Ecalls == InitEcalls \cup ShardEcalls \cup SettingEcalls \cup SidechainEcalls
          \cup KeyEcalls \cup PaddedEcalls \cup {"test_main_entrance"}

SidechainOcalls == {"propose_sidechain_blocks", "store_sidechain_blocks", "fetch_sidechain_blocks_from_peer"}
IpfsOcalls == {"write_ipfs", "read_ipfs"}
Ocalls == SidechainOcalls \cup IpfsOcalls \cup {"update_metric", "worker_request"}

\* The ocalls with an answer other than the status.
Answering == {"fetch_sidechain_blocks_from_peer", "worker_request", "write_ipfs"}

\* The components an ecall takes from the global containers.
Needs(e) ==
    CASE e \in {"get_rsa_encryption_pubkey", "get_ecc_signing_pubkey"} -> {"keys"}
      [] e = "call_rpc_methods" -> {"import_queue"}
      [] e \in {"set_node_metadata", "sync_parentchain", "execute_trusted_calls"} \cup ShardEcalls
           -> {"keys", "handler"}
      [] e \in {"init_parentchain_components", "init_enclave_sidechain_components", "init_shard",
                "init_direct_invocation_server", "get_ecc_vault_pubkey", "get_shard_creation_info"} -> {"keys"}
      [] OTHER -> {}

Provides(e) ==
    CASE e = "init" -> {"keys", "import_queue"}
      [] e = "init_parentchain_components" -> {"handler"}
      [] OTHER -> {}

\* init needs no component of the bridge: main initialises the bridge after it.
MakesOcalls(e) ==
    CASE e \in SidechainEcalls -> SidechainOcalls \cup {"update_metric", "worker_request"}
      [] e = "test_main_entrance" -> IpfsOcalls
      [] OTHER -> {}

------------------------------------------------------------------------------
AtHost(n) == [at |-> "host", calls |-> n]
Threads == HostThreads \cup {"main"}

Ran(call, out, did, sent, got) ==
    [call |-> call, out |-> out, did |-> did, sent |-> sent, got |-> got]

EnclaveBridgeInit ==
    /\ component_factory = FALSE /\ enclaveUp = "alive" /\ hostUp = "alive" /\ base_path = FALSE
    /\ components = {} /\ frame = [t \in Threads |-> AtHost(0)]
    /\ finished = Ran("none", "Err", FALSE, 0, 0)

\* The mutated wrapper forgets the status of the transport.
returned_mut(result, retval) == IF retval = "success" THEN "Ok" ELSE "Err"

\* The wrapper of an ecall: retval is SGX_SUCCESS before the call.
returned(result, retval) == IF result = "success" /\ retval = "success" THEN "Ok" ELSE "Err"

\* The wrapper of an ocall: rt is SGX_ERROR_UNEXPECTED before the call.
ocall_returned(res, rt) == IF rt = "success" /\ res = "success" THEN "Ok" ELSE "Err"

\* An ecall returns to the host thread t.
Return(t, e, result, retval, did) ==
    /\ frame' = [frame EXCEPT ![t] = AtHost(frame[t].calls)]
    /\ finished' = Ran(e, returned(result, retval), did, 0, 0)

MayCall_mut(t, e) ==
    IF e = "init" THEN t = "main" /\ ~base_path
    ELSE base_path

\* enclave_init creates the enclave and calls init; main then sets the factory.  The
\* other threads are started by start_worker, after both.
MayCall(t, e) ==
    IF e = "init" THEN t = "main" /\ ~base_path
    ELSE component_factory

ocall_bridge_initialize ==
    /\ hostUp = "alive" /\ frame["main"].at = "host" /\ "keys" \in components
    /\ ~component_factory /\ component_factory' = TRUE
    /\ UNCHANGED <<enclaveUp, hostUp, base_path, components, frame, finished>>

\* A thread enters the enclave, or the transport refuses the call.
ecall(t, e) ==
    /\ hostUp = "alive" /\ frame[t].at = "host" /\ frame[t].calls < MaxEcalls
    /\ MayCall(t, e)
    /\ IF enclaveUp = "alive"
       THEN /\ frame' = [frame EXCEPT ![t] = [at |-> "enclave", calls |-> @.calls + 1, ecall |-> e]]
            /\ UNCHANGED finished
       ELSE /\ frame' = [frame EXCEPT ![t] = AtHost(@.calls + 1)]
            /\ finished' = Ran(e, returned("error", "success"), FALSE, 0, 0)
    /\ UNCHANGED <<component_factory, enclaveUp, hostUp, base_path, components>>

\* init sets BASE_PATH before it builds the components.
init_ecall(t) ==
    /\ frame[t].at = "enclave" /\ frame[t].ecall = "init" /\ enclaveUp = "alive"
    /\ base_path' = TRUE
    /\ \E ok \in BOOLEAN :
         /\ components' = IF ok THEN components \cup Provides("init") ELSE components
         /\ Return(t, "init", "success", IF ok THEN "success" ELSE "error", ok)
    /\ UNCHANGED <<component_factory, enclaveUp, hostUp>>

\* The other handlers: without their components they return an error, with them they may
\* still fail; what they provide is there once they return.
status_ecall(t, e) ==
    /\ frame[t].at = "enclave" /\ frame[t].ecall = e /\ enclaveUp = "alive"
    /\ e \in Ecalls \ (PaddedEcalls \cup {"init"})
    /\ \E ok \in {o \in BOOLEAN : o => Needs(e) \subseteq components} :
         /\ components' = IF ok THEN components \cup Provides(e) ELSE components
         /\ Return(t, e, "success", IF ok THEN "success" ELSE "error", ok)
    /\ UNCHANGED <<component_factory, enclaveUp, hostUp, base_path>>

\* The mutated writer fills the buffer with what fits.
write_slice_and_whitespace_pad_mut(length) == {IF length > BufferSize THEN BufferSize ELSE length}

\* write_slice_and_whitespace_pad: what the reader finds in front of the padding; nothing
\* is written, and the writer returns an error, when the answer is too long.
write_slice_and_whitespace_pad(length) == {l \in {length} : l <= BufferSize}

Found(length) == CHOOSE l \in write_slice_and_whitespace_pad(length) : TRUE

\* A handler whose answer is padded: the effect is there even when the answer does not fit.
padded_ecall(t, e) ==
    /\ frame[t].at = "enclave" /\ frame[t].ecall = e /\ enclaveUp = "alive" /\ e \in PaddedEcalls
    /\ \E ok \in {o \in BOOLEAN : o => Needs(e) \subseteq components}, answer \in 1..MaxAnswer :
         LET written == ok /\ write_slice_and_whitespace_pad(answer) # {}
             got == IF written THEN Found(answer) ELSE 0
         IN /\ components' = IF ok THEN components \cup Provides(e) ELSE components
            /\ frame' = [frame EXCEPT ![t] = AtHost(@.calls)]
            /\ finished' = Ran(e, returned("success", IF written THEN "success" ELSE "error"),
                                ok, answer, got)
    /\ UNCHANGED <<component_factory, enclaveUp, hostUp, base_path>>

\* A panic in a handler (a poisoned lock, an index): the enclave is lost, and the calls
\* that are inside end with an error of the transport.
enclave_panics(t) ==
    /\ frame[t].at = "enclave" /\ enclaveUp = "alive" /\ enclaveUp' = "crashed"
    /\ UNCHANGED <<component_factory, hostUp, base_path, components, frame, finished>>

crashed_call_ends(t) ==
    /\ enclaveUp = "crashed" /\ hostUp = "alive" /\ frame[t].at = "enclave"
    /\ Return(t, frame[t].ecall, "error", "success", FALSE)
    /\ UNCHANGED <<component_factory, enclaveUp, hostUp, base_path, components>>

------------------------------------------------------------------------------
(* Ocalls.                                                                 *)

\* Bridge::get_*_api panics without a factory, as an extern "C" function the host aborts.
get_api(t, o) ==
    /\ enclaveUp = "alive" /\ hostUp = "alive"
    /\ frame[t].at = "enclave" /\ o \in MakesOcalls(frame[t].ecall)
    /\ IF component_factory
       THEN /\ frame' = [frame EXCEPT ![t] = [at |-> "ocall", calls |-> @.calls, ecall |-> @.ecall, ocall |-> o]]
            /\ UNCHANGED hostUp
       ELSE hostUp' = "aborted" /\ UNCHANGED frame
    /\ UNCHANGED <<component_factory, enclaveUp, base_path, components, finished>>

Back(t) == [at |-> "enclave", calls |-> frame[t].calls, ecall |-> frame[t].ecall]

OcallEnds(t, rt, did, sent, got) ==
    /\ frame' = [frame EXCEPT ![t] = Back(t)]
    /\ finished' = Ran(frame[t].ocall, ocall_returned("success", rt), did, sent, got)

\* The transport of an ocall fails (no room for the arguments outside): rt stays an error.
ocall_transport_fails(t) ==
    /\ hostUp = "alive" /\ frame[t].at = "ocall"
    /\ frame' = [frame EXCEPT ![t] = Back(t)]
    /\ finished' = Ran(frame[t].ocall, ocall_returned("error", "error"), FALSE, 0, 0)
    /\ UNCHANGED <<component_factory, enclaveUp, hostUp, base_path, components>>

\* propose_sidechain_blocks and store_sidechain_blocks: a failure of the peers or of the
\* database is only logged.
propose_or_store(t) ==
    /\ hostUp = "alive" /\ frame[t].at = "ocall"
    /\ frame[t].ocall \in {"propose_sidechain_blocks", "store_sidechain_blocks"}
    /\ \E ok \in BOOLEAN : OcallEnds(t, "success", ok, 0, 0)
    /\ UNCHANGED <<component_factory, enclaveUp, hostUp, base_path, components>>

update_metric(t) ==
    /\ hostUp = "alive" /\ frame[t].at = "ocall" /\ frame[t].ocall = "update_metric"
    /\ \E ok \in BOOLEAN : OcallEnds(t, IF ok THEN "success" ELSE "error", ok, 0, 0)
    /\ UNCHANGED <<component_factory, enclaveUp, hostUp, base_path, components>>

\* fetch_sidechain_blocks_from_peer answers with the encoded blocks.
fetch_sidechain_blocks_from_peer(t) ==
    /\ hostUp = "alive" /\ frame[t].at = "ocall" /\ frame[t].ocall = "fetch_sidechain_blocks_from_peer"
    /\ \E ok \in BOOLEAN, blocks \in 1..MaxAnswer :
         LET written == ok /\ write_slice_and_whitespace_pad(blocks) # {}
         IN OcallEnds(t, IF written THEN "success" ELSE "error", ok, blocks,
                      IF written THEN Found(blocks) ELSE 0)
    /\ UNCHANGED <<component_factory, enclaveUp, hostUp, base_path, components>>

\* write_to_ipfs panics when the file could not be added.
write_ipfs(t) ==
    /\ hostUp = "alive" /\ frame[t].at = "ocall" /\ frame[t].ocall = "write_ipfs"
    /\ \/ OcallEnds(t, "success", TRUE, 1, 1) /\ UNCHANGED hostUp
       \/ hostUp' = "aborted" /\ UNCHANGED <<frame, finished>>
    /\ UNCHANGED <<component_factory, enclaveUp, base_path, components>>

read_ipfs(t) ==
    /\ hostUp = "alive" /\ frame[t].at = "ocall" /\ frame[t].ocall = "read_ipfs"
    /\ \E ok \in BOOLEAN : OcallEnds(t, IF ok THEN "success" ELSE "error", ok, 0, 0)
    /\ UNCHANGED <<component_factory, enclaveUp, hostUp, base_path, components>>

(* worker_request: the host reads a value and its proof with two requests  *)
(* to the node, each for the hash of the header.  The value at a header is *)
(* named by the header; a node may answer with the state of another block. *)
check_proof(root, proof) == IF proof = root THEN proof ELSE "error"

\* The mutated check takes the proof's own root for the one of the header.
verify_storage_proof_mut(header, value, proof) ==
    proof # "none" /\ check_proof(proof, proof) = value

\* verify_storage_proof: the value is the one the proof leads to from the header's root.
verify_storage_proof(header, value, proof) ==
    proof # "none" /\ check_proof(header, proof) # "error" /\ check_proof(header, proof) = value

\* The enclave takes the answer when all of it is there and the proof holds.
get_multiple_storages_verified(header, value, proof, size) ==
    write_slice_and_whitespace_pad(size) # {} /\ verify_storage_proof(header, value, proof)

\* A node error panics in the ocall.
worker_request(t) ==
    /\ hostUp = "alive" /\ frame[t].at = "ocall" /\ frame[t].ocall = "worker_request"
    /\ \/ \E header \in Headers, value \in Headers, proof \in Headers \cup {"none"}, size \in 1..MaxAnswer :
            LET ok == get_multiple_storages_verified(header, value, proof, size)
            IN /\ frame' = [frame EXCEPT ![t] = Back(t)]
               /\ finished' = Ran("get_storage_verified", IF ok THEN "Ok" ELSE "Err", TRUE,
                                   header, IF ok THEN value ELSE "none")
               /\ UNCHANGED hostUp
       \/ hostUp' = "aborted" /\ UNCHANGED <<frame, finished>>
    /\ UNCHANGED <<component_factory, enclaveUp, base_path, components>>

EnclaveBridgeNext ==
    \/ ocall_bridge_initialize
    \/ \E t \in Threads :
         \/ \E e \in Ecalls : ecall(t, e) \/ status_ecall(t, e) \/ padded_ecall(t, e)
         \/ \E o \in Ocalls : get_api(t, o)
         \/ init_ecall(t) \/ enclave_panics(t) \/ crashed_call_ends(t)
         \/ ocall_transport_fails(t) \/ propose_or_store(t) \/ update_metric(t)
         \/ fetch_sidechain_blocks_from_peer(t) \/ write_ipfs(t) \/ read_ipfs(t) \/ worker_request(t)

------------------------------------------------------------------------------
\* Broadcasting and storing report success whatever happened (they only log).
Reporting == (Ecalls \cup Ocalls) \ {"propose_sidechain_blocks", "store_sidechain_blocks"}

(* A caller that sees Ok has had its call performed: neither a transport   *)
(* that failed, with the initial retval left in place, nor an error of the *)
(* callee, nor a crash of the enclave in the middle looks like a success.  *)
OkMeansDone == finished.call \in Reporting /\ finished.out = "Ok" => finished.did

(* Whoever reads an answer reads all of it: an answer longer than the      *)
(* buffer is an error and never a shorter list of blocks or a cut header.  *)
AnswersAreWhole ==
    finished.call \in PaddedEcalls \cup Answering /\ finished.out = "Ok" => finished.got = finished.sent

(* The enclave does not call a host whose bridge has no components yet,    *)
(* although init runs before the bridge is initialised.                    *)
BridgeBeforeOcalls == hostUp = "aborted" => component_factory

(* A storage value the enclave takes as verified is the value at the       *)
(* header it asked for, whichever state the node answered from.            *)
VerifiedIsAtHeader ==
    finished.call = "get_storage_verified" /\ finished.out = "Ok" => finished.got = finished.sent

(* What a caller on either side of the enclave's boundary may conclude     *)
(* from an answer, whatever the transport, the callee and the host did.    *)
AnswersAreTrue == OkMeansDone /\ AnswersAreWhole /\ BridgeBeforeOcalls /\ VerifiedIsAtHeader
==============================================================================
