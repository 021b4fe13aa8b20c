---------------------------- MODULE Provisioning ----------------------------
(***************************************************************************)
(* Provisioning: a worker asks another one over mutually attested TLS for  *)
(* the keys, the state of the shard and the light client's state, and      *)
(* seals each of them as it arrives (tls_ra, and the sealed keys of        *)
(* itp-sgx-crypto).                                                        *)
(*                                                                         *)
(* The provider goes on importing blocks meanwhile.  A key is known by the *)
(* party that made it, the provider's state and light client by the height *)
(* of the parentchain they have seen.  The connection may end at any       *)
(* point, with the bytes in flight lost or not, and a client may crash.    *)
(*                                                                         *)
(* How a certificate comes about is in Attestation, how a key is written   *)
(* to its file in SealedKeys; each moves on its own.                       *)
(***************************************************************************)
EXTENDS Integers, Sequences, FiniteSets, SealedKeys, Attestation

CONSTANTS
    ProvClients,     \* clients; they make their own keys
    ClientCert,      \* client -> what its certificate holds, in Certificates
    MaxProvHeight,   \* bound of the model: blocks of the parentchain
    MaxProvFaults    \* bound of the model: connections cut, crashes

Provider == "provider"
TornKey == "torn"
ProvParties == ProvClients \cup {Provider}

\* A certificate may not parse; one that does carries a report: signed by the
\* attestation service or not, with the quote's status and measurement.
Report(signed, status, enclave) == [parses |-> TRUE, signed |-> signed, status |-> status, mrEnclave |-> enclave]
Garbled == [parses |-> FALSE, signed |-> FALSE, status |-> "OK", mrEnclave |-> "other"]
Certificates ==
    {Report(signed, status, enclave) : signed \in BOOLEAN, enclave \in {"self", "other"},
        status \in {"OK", "SW_HARDENING_NEEDED", "GROUP_OUT_OF_DATE", "SIGNATURE_INVALID"}} \cup {Garbled}

ASSUME ProvisioningAssumption ==
    /\ {Provider, TornKey} \cap ProvClients = {} /\ ClientCert \in [ProvClients -> Certificates]
    /\ MaxProvHeight \in Nat /\ MaxProvFaults \in Nat

VARIABLES
    provisioning,    \* ProvisioningPayload, by the worker mode
    skipRa,          \* skip_ra of both sides
    isDcap,          \* the build attests with DCAP, not EPID
    providerCert,    \* the provider's certificate
    provided,        \* provider: the heights of its state and of its light client
    vaultProxies,    \* provider: clients made proxies of the shard vault
    session,         \* the client that is served, the payloads still to write and whether
                     \* the connection stands; or NoSession
    wire,            \* client -> [sent, end]: what is in flight, and how the connection stands
    received,        \* client -> opcodes received in this request
    sealedKeys,      \* client -> the files of its keys
    sealedStates,    \* client -> state files, latest first
    sealedLight,     \* client -> height of the sealed light client state
    loaded,          \* client -> its state in memory, or NoLoaded when it is down
    outcome,         \* client -> result of its last request
    provFaults

provisioningVars == <<provisioning, skipRa, isDcap, providerCert, provided, vaultProxies, session, wire, received,
                      sealedKeys, sealedStates, sealedLight, loaded, outcome, provFaults>>
settingVars == <<provisioning, skipRa, isDcap, providerCert>>
clientVars == <<received, sealedKeys, sealedStates, sealedLight, loaded, outcome>>

Opcodes == {"ShieldingKey", "StateKey", "State", "LightClient"}
\* By the worker mode: a teeracle has no state to share.
ProvisioningPayload ==
    [Teeracle |-> "ShieldingKeyAndLightClient", OffChainWorker |-> "Everything", Sidechain |-> "Everything"]

NoSession == [client |-> Provider, todo |-> <<>>, live |-> FALSE]
Closed == [sent |-> <<>>, end |-> "closed"]
Open == [sent |-> <<>>, end |-> "open"]
EmptyHeight == -1
\* A state carries the account of the enclave, derived from a shielding key.
EmptyState(account) == [height |-> EmptyHeight, account |-> account]
NoLoaded == EmptyState("nobody")

ProvisioningInit ==
    /\ provisioning \in {ProvisioningPayload[mode] : mode \in DOMAIN ProvisioningPayload}
    /\ skipRa \in BOOLEAN /\ isDcap \in BOOLEAN /\ (skipRa => ~isDcap)
    /\ providerCert \in {Report(TRUE, "OK", "self"), Report(FALSE, "OK", "self")}
    /\ provided = [state |-> 0, light |-> 0] /\ vaultProxies = {}
    /\ session = NoSession /\ wire = [c \in ProvClients |-> Closed]
    /\ received = [c \in ProvClients |-> {}]
    /\ sealedKeys = [c \in ProvClients |-> [shielding |-> c, state |-> c]]
    /\ sealedStates = [c \in ProvClients |-> <<[state |-> EmptyState(c), key |-> c]>>]
    /\ sealedLight = [c \in ProvClients |-> 0]
    /\ loaded = [c \in ProvClients |-> EmptyState(c)]
    /\ outcome = [c \in ProvClients |-> "none"] /\ provFaults = 0
-----------------------------------------------------------------------------
(* The provider *)

\* Every block is imported into the light client, then executed on the state.
import_at_provider ==
    /\ \/ /\ provided.light < MaxProvHeight /\ provided' = [provided EXCEPT !.light = @ + 1]
       \/ /\ provided.state < provided.light /\ provided' = [provided EXCEPT !.state = @ + 1]
    /\ UNCHANGED <<settingVars, vaultProxies, session, wire, clientVars, provFaults>>

\* The report is of an enclave like this one, on a platform in good order; for one
\* that is out of date get_update_info says that an update is needed.
verify_attn_report(cert) ==
    CASE cert.status = "GROUP_OUT_OF_DATE" -> "UPDATE_NEEDED"
      [] cert.status \notin {"OK", "SW_HARDENING_NEEDED", "GROUP_OUT_OF_DATE"} -> "Err"
      [] OTHER -> IF cert.mrEnclave = "self" THEN "Ok" ELSE "Err"

\* A DCAP certificate is passed through.
verify_mra_cert(cert) ==
    CASE ~cert.parses -> "Err"
      [] cert.parses /\ isDcap -> "Ok"
      [] OTHER -> IF cert.signed THEN verify_attn_report(cert) ELSE "Err"

\* An error of the verification is only logged.
verify_client_cert_mut(c) == skipRa \/ verify_mra_cert(ClientCert[c]) \in {"Ok", "UPDATE_NEEDED", "Err"}

\* ClientAuth and ServerAuth, both with outdated_ok.
verify_client_cert(c) == skipRa \/ verify_mra_cert(ClientCert[c]) \in {"Ok", "UPDATE_NEEDED"}
verify_server_cert == skipRa \/ verify_mra_cert(providerCert) \in {"Ok", "UPDATE_NEEDED"}

\* The light client's state first, the state under the client's own key.
write_provisioning_payloads_mut ==
    IF provisioning = "Everything" THEN <<"LightClient", "ShieldingKey", "State", "StateKey">>
    ELSE <<"ShieldingKey", "LightClient">>

\* write_provisioning_payloads: the order of the payloads.
write_provisioning_payloads ==
    IF provisioning = "Everything" THEN <<"ShieldingKey", "StateKey", "State", "LightClient">>
    ELSE <<"ShieldingKey", "LightClient">>

\* The listener accepts one client at a time; the handshake, then its request.
\* When it fails on either side the connection is closed.
handle_shard_request_from_client(c) ==
    /\ session = NoSession /\ wire[c] = Open /\ received[c] = {}
    /\ IF verify_client_cert(c) /\ verify_server_cert
       THEN session' = [client |-> c, todo |-> write_provisioning_payloads, live |-> TRUE] /\ UNCHANGED wire
       ELSE wire' = [wire EXCEPT ![c].end = "broken"] /\ UNCHANGED session
    /\ UNCHANGED <<settingVars, provided, vaultProxies, clientVars, provFaults>>

\* unseal_shielding_key, unseal_state_key, unseal_state, unseal_light_client_state:
\* each is read when it is written to the stream.
unseal(opcode) ==
    CASE opcode = "State" -> [opcode |-> opcode, height |-> provided.state]
      [] opcode = "LightClient" -> [opcode |-> opcode, height |-> provided.light]
      [] OTHER -> [opcode |-> opcode]

write_payload ==
    LET c == session.client IN
    /\ session.todo # <<>> /\ session.live
    /\ wire' = [wire EXCEPT ![c].sent = Append(@, unseal(Head(session.todo)))]
    /\ session' = [session EXCEPT !.todo = Tail(@)]
    /\ UNCHANGED <<settingVars, provided, vaultProxies, clientVars, provFaults>>

\* After the payloads the client's account becomes a proxy of the vault, which may
\* fail; then the stream is dropped, without close_notify.
add_shard_vault_proxy ==
    LET c == session.client IN
    /\ session # NoSession /\ session.todo = <<>>
    /\ vaultProxies' \in {vaultProxies, vaultProxies \cup {c}}
    /\ session' = NoSession
    /\ wire' = IF session.live THEN [wire EXCEPT ![c].end = "eof"] ELSE wire
    /\ UNCHANGED <<settingVars, provided, clientVars, provFaults>>

\* The server gives up: unsealing failed, or writing to a connection that is gone.
provisioning_fails ==
    LET c == session.client IN
    /\ session.todo # <<>>
    /\ \/ ~session.live /\ UNCHANGED <<wire, provFaults>>
       \/ /\ session.live /\ provFaults < MaxProvFaults
          /\ wire' = [wire EXCEPT ![c].end = "eof"] /\ provFaults' = provFaults + 1
    /\ session' = NoSession
    /\ UNCHANGED <<settingVars, provided, vaultProxies, clientVars>>

EndSession(c) == session' = IF session.client = c THEN [session EXCEPT !.live = FALSE] ELSE session

\* The connection breaks between two payloads or within one.
break_connection(c) ==
    /\ wire[c].end = "open" /\ provFaults < MaxProvFaults
    /\ \E n \in 0 .. Len(wire[c].sent), end \in {"eof", "broken"} :
          wire' = [wire EXCEPT ![c] = [sent |-> SubSeq(wire[c].sent, 1, n), end |-> end]]
    /\ EndSession(c)
    /\ provFaults' = provFaults + 1
    /\ UNCHANGED <<settingVars, provided, vaultProxies, clientVars>>
-----------------------------------------------------------------------------
(* The client *)

IsUp(c) == loaded[c] # NoLoaded

\* enclave_request_state_provisioning: by a worker without the state of the shard.
request_state_provisioning(c) ==
    /\ IsUp(c) /\ outcome[c] = "none" /\ wire[c] = Closed
    /\ loaded[c].height = EmptyHeight
    /\ wire' = [wire EXCEPT ![c] = Open]
    /\ received' = [received EXCEPT ![c] = {}]
    /\ UNCHANGED <<settingVars, provided, vaultProxies, session, sealedKeys, sealedStates, sealedLight, loaded, outcome, provFaults>>

\* update_key seals the key, and takes over what it unseals.
store_key(c, field) == sealedKeys' = [sealedKeys EXCEPT ![c][field] = Provider]

seal_shielding_key(c) == store_key(c, "shielding") /\ UNCHANGED <<sealedStates, sealedLight, loaded>>
seal_state_key(c) == store_key(c, "state") /\ UNCHANGED <<sealedStates, sealedLight, loaded>>

\* reset of the state handler: the snapshot is encrypted with the state key sealed now.
reset_state(c, state) ==
    /\ loaded' = [loaded EXCEPT ![c] = state]
    /\ sealedStates' = [sealedStates EXCEPT ![c] = <<[state |-> state, key |-> sealedKeys[c].state]>> \o @]
    /\ UNCHANGED <<sealedKeys, sealedLight>>

seal_state(c, height) == reset_state(c, [height |-> height, account |-> Provider])

seal_light_client_state(c, height) ==
    sealedLight' = [sealedLight EXCEPT ![c] = height] /\ UNCHANGED <<sealedKeys, sealedStates, loaded>>

read_and_seal(c) ==
    /\ IsUp(c) /\ wire[c].sent # <<>>
    /\ LET payload == Head(wire[c].sent) IN
       /\ CASE payload.opcode = "ShieldingKey" -> seal_shielding_key(c)
            [] payload.opcode = "StateKey" -> seal_state_key(c)
            [] payload.opcode = "State" -> seal_state(c, payload.height)
            [] payload.opcode = "LightClient" -> seal_light_client_state(c, payload.height)
       /\ received' = [received EXCEPT ![c] = @ \cup {payload.opcode}]
    /\ wire' = [wire EXCEPT ![c].sent = Tail(@)]
    /\ UNCHANGED <<settingVars, provided, vaultProxies, session, outcome, provFaults>>

\* The state is left as it is.
seal_new_empty_state_mut(c) == UNCHANGED <<sealedKeys, sealedStates, sealedLight, loaded>>

seal_new_empty_state(c) == reset_state(c, EmptyState(sealedKeys[c].shielding))

\* The stream is at its end: with a shielding key and no state a new state is
\* sealed. An end between two payloads is no error.
read_and_seal_all(c) ==
    /\ IsUp(c) /\ wire[c].end = "eof" /\ wire[c].sent = <<>>
    /\ IF "ShieldingKey" \in received[c] /\ "State" \notin received[c]
       THEN seal_new_empty_state(c) ELSE UNCHANGED <<sealedKeys, sealedStates, sealedLight, loaded>>
    /\ wire' = [wire EXCEPT ![c] = Closed]
    /\ outcome' = [outcome EXCEPT ![c] = "ok"]
    /\ UNCHANGED <<settingVars, provided, vaultProxies, session, received, provFaults>>

GoDown(c) ==
    /\ loaded' = [loaded EXCEPT ![c] = NoLoaded]
    /\ wire' = [wire EXCEPT ![c] = Closed] /\ EndSession(c)
    /\ outcome' = [outcome EXCEPT ![c] = IF @ = "ok" THEN "ok" ELSE "none"]

\* An error, of the handshake or in the middle of a payload: the service panics.
\* What was sealed stays sealed.
request_fails(c) ==
    /\ IsUp(c) /\ wire[c].end = "broken" /\ wire[c].sent = <<>>
    /\ GoDown(c)
    /\ UNCHANGED <<settingVars, provided, vaultProxies, received, sealedKeys, sealedStates, sealedLight, provFaults>>

\* A crash; when a key is being sealed its file may be torn. The light client's
\* file has a backup.
crash_client(c) ==
    LET Sealing(opcode) == wire[c].sent # <<>> /\ Head(wire[c].sent).opcode = opcode IN
    /\ IsUp(c) /\ provFaults < MaxProvFaults /\ provFaults' = provFaults + 1
    /\ GoDown(c)
    /\ sealedKeys' \in {sealedKeys}
          \cup (IF Sealing("ShieldingKey") THEN {[sealedKeys EXCEPT ![c].shielding = TornKey]} ELSE {})
          \cup (IF Sealing("StateKey") THEN {[sealedKeys EXCEPT ![c].state = TornKey]} ELSE {})
    /\ UNCHANGED <<settingVars, provided, vaultProxies, received, sealedStates, sealedLight>>

\* get_aes_repository: a file that cannot be opened is replaced by a new key.
get_aes_repository(c) == IF sealedKeys[c].state = TornKey THEN c ELSE sealedKeys[c].state
\* get_rsa3072_repository: a file that is there is the key, or the enclave does not start.
get_rsa3072_repository(c) == sealedKeys[c].shielding

\* init_enclave: the latest snapshot that the state key decrypts, else an empty state.
restart_client(c) ==
    LET key == get_aes_repository(c)
        readable == {i \in DOMAIN sealedStates[c] : sealedStates[c][i].key = key}
        latest == CHOOSE i \in readable : \A j \in readable : i <= j
        state == IF readable # {} THEN sealedStates[c][latest].state ELSE EmptyState(get_rsa3072_repository(c))
    IN  /\ ~IsUp(c) /\ get_rsa3072_repository(c) # TornKey
        /\ sealedKeys' = [sealedKeys EXCEPT ![c].state = key]
        /\ sealedStates' = IF readable # {} THEN sealedStates
                           ELSE [sealedStates EXCEPT ![c] = <<[state |-> state, key |-> key]>> \o @]
        /\ loaded' = [loaded EXCEPT ![c] = state]
        /\ UNCHANGED <<settingVars, provided, vaultProxies, session, wire, received, sealedLight, outcome, provFaults>>

ProvisioningNext ==
    \/ import_at_provider \/ write_payload \/ add_shard_vault_proxy \/ provisioning_fails
    \/ \E c \in ProvClients :
          \/ request_state_provisioning(c) \/ handle_shard_request_from_client(c) \/ read_and_seal(c)
          \/ read_and_seal_all(c) \/ break_connection(c) \/ request_fails(c) \/ crash_client(c) \/ restart_client(c)
-----------------------------------------------------------------------------
\* A request that succeeded leaves a state whose enclave account belongs to the
\* shielding key that was provisioned, wherever the connection ended before
\* (read_and_seal_all seals a new empty state when the state did not arrive).
AccountMatchesKey ==
    \A c \in ProvClients : outcome[c] = "ok" /\ IsUp(c) /\ received[c] # {} => loaded[c].account = sealedKeys[c].shielding

\* A client that was provisioned with everything starts again with the state it
\* got: the file was encrypted with the key that is sealed; and its light client is
\* not behind that state, though the provider imported blocks in between.
ProvisionedIsUsable ==
    \A c \in ProvClients :
        outcome[c] = "ok" /\ received[c] = Opcodes =>
            /\ sealedKeys[c] = [shielding |-> Provider, state |-> Provider]
            /\ Head(sealedStates[c]).key = sealedKeys[c].state
            /\ sealedLight[c] >= Head(sealedStates[c]).state.height

\* Keys, state and light client of a worker that was told it was provisioned fit together,
\* wherever the connection or the worker ended before.
ProvisionedFits == AccountMatchesKey /\ ProvisionedIsUsable

\* A worker that is told it was provisioned has keys, state and light client that fit
\* together (tls_ra_client), and no start replaces a signing or shielding key that was
\* in use (key_repository), wherever a connection or a write ended.
KeysAreKept == []ProvisionedFits /\ KeyNeverReplaced

\* Without skip_ra, no secret of a provider reaches a client that has no report of
\* the attestation service, nor is anything taken from a provider without one; a
\* report of another enclave is let through on a platform that is out of date
\* only. It is claimed of EPID builds: DCAP certificates are not verified.
SecretsOnlyToAttested ==
    ~skipRa /\ ~isDcap => \A c \in ProvClients :
        (sealedKeys[c].shielding = Provider \/ sealedKeys[c].state = Provider \/ wire[c].sent # <<>>) =>
            /\ ClientCert[c].signed /\ providerCert.signed
            /\ ClientCert[c].mrEnclave = "self" \/ ClientCert[c].status = "GROUP_OUT_OF_DATE"

\* Secrets go to attested clients only (tls_ra), the evidence for that is of this enclave
\* and of its session, and what a session took outside the enclave is given back
\* (attestation_handler).
SecretsNeedEvidence == SecretsOnlyToAttested /\ EvidenceIsSound
=============================================================================
