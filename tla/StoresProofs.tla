---------------------------- MODULE StoresProofs ----------------------------
(***************************************************************************)
(* Proofs about what a worker keeps and hands out, and about the requests  *)
(* it serves: sealed keys, attestation, provisioning, the web socket       *)
(* server, the command line client, the TOP pool and the state of a shard. *)
(* For any number of keys, sessions, clients, connections, commands,       *)
(* operations, threads and snapshots, and any number of faults.            *)
(*                                                                         *)
(* Each component is taken on its own, as in the run that checks it: no    *)
(* two of them share a variable.                                           *)
(***************************************************************************)
EXTENDS Provisioning, DirectRequest, StateHandler, FiniteSetTheorems, WellFoundedInduction, TLAPS

SealedKeysSpec == SealedKeysInit /\ [][SealedKeysNext]_sealedKeyVars

-----------------------------------------------------------------------------
(* SealedKeys: the inductive invariant.                                    *)

KeyOps == [phase : {"none", "create", "write", "unseal"}, key : Nat]

SealedKeysTyped ==
    /\ key_file \in [KeyKinds -> Int] /\ key_memory \in [KeyKinds -> Int]
    /\ key_op \in [KeyKinds -> KeyOps] /\ keys_known \in [KeyKinds -> SUBSET Int]
    /\ keys_made \in Nat

\* Once a repository handed out a key or was given one, its file is there: unreadable, or
\* with a known key; and no unknown key is on its way there.
FileIsKnown(k) ==
    /\ key_memory[k] # AbsentKey => key_memory[k] \in keys_known[k]
    /\ keys_known[k] # {} =>
          /\ key_file[k] = TornFile \/ key_file[k] \in keys_known[k]
          /\ key_file[k] # AbsentKey
          /\ key_op[k].phase \in {"create", "write"} =>
                key_op[k].key \in keys_known[k] /\ key_op[k].key > AbsentKey

SealedKeysInv ==
    /\ SealedKeysTyped
    /\ \A k \in KeyKinds : key_op[k].phase \in {"create", "write"} => key_op[k].key > AbsentKey
    /\ \A k \in {"ed25519", "rsa3072"} : FileIsKnown(k)

LEMMA SealedKeysStart == SealedKeysInit => SealedKeysInv
BY DEF SealedKeysInit, SealedKeysInv, SealedKeysTyped, FileIsKnown, KeyKinds, KeyOps, KeyOp,
       NoKeyOp, AbsentKey, TornFile

LEMMA SealedKeysStep ==
    ASSUME SealedKeysInv, [SealedKeysNext]_sealedKeyVars
    PROVE  SealedKeysInv'
<1> USE DEF SealedKeysInv, SealedKeysTyped, FileIsKnown, KeyKinds, KeyOps, KeyOp, NoKeyOp, AbsentKey, TornFile
<1>1. ASSUME NEW k \in KeyKinds, get_repository(k) PROVE SealedKeysInv'
    <2>1. CASE exists(k)
        BY <1>1, <2>1 DEF get_repository
    <2>2. CASE ~exists(k)
        <3>1. k = "aes" \/ key_file[k] = AbsentKey
            BY <2>2 DEF exists
        <3>2. k = "aes" \/ keys_known[k] = {}
            BY <3>1
        <3> QED BY <1>1, <2>2, <3>2 DEF get_repository
    <2> QED BY <2>1, <2>2
<1>2. ASSUME NEW k \in KeyKinds, update_key(k) PROVE SealedKeysInv'
    BY <1>2 DEF update_key
<1>3. ASSUME NEW k \in KeyKinds, create_file(k) PROVE SealedKeysInv'
    BY <1>3 DEF create_file
<1>4. ASSUME NEW k \in KeyKinds, write_file(k) PROVE SealedKeysInv'
    BY <1>4 DEF write_file
<1>5. ASSUME NEW k \in KeyKinds, unseal_key(k) PROVE SealedKeysInv'
    BY <1>5 DEF unseal_key
<1>6. ASSUME NEW k \in KeyKinds, key_error(k) PROVE SealedKeysInv'
    BY <1>6 DEF key_error
<1>7. CASE stop_enclave
    BY <1>7 DEF stop_enclave
<1>8. CASE UNCHANGED sealedKeyVars
    BY <1>8 DEF sealedKeyVars
<1> QED BY <1>1, <1>2, <1>3, <1>4, <1>5, <1>6, <1>7, <1>8 DEF SealedKeysNext

LEMMA KnownKeyOnly ==
    ASSUME SealedKeysInv, [SealedKeysNext]_sealedKeyVars, NEW k \in {"ed25519", "rsa3072"},
           keys_known[k] # {}, key_memory'[k] # AbsentKey
    PROVE  key_memory'[k] \in keys_known[k]
<1> USE DEF SealedKeysInv, SealedKeysTyped, FileIsKnown, KeyKinds, AbsentKey, TornFile
<1>1. CASE key_memory' = key_memory
    BY <1>1
<1>2. ASSUME NEW j \in KeyKinds, unseal_key(j) PROVE key_memory'[k] \in keys_known[k]
    BY <1>2 DEF unseal_key
<1>3. CASE stop_enclave
    BY <1>3 DEF stop_enclave
<1> QED
    BY <1>1, <1>2, <1>3 DEF SealedKeysNext, get_repository, update_key, create_file, write_file,
       key_error, sealedKeyVars

\* However starts, updates and crashes interleave with the two halves of a write: the enclave
\* does not come up with a signing or shielding key it did not have or get before.
THEOREM KeyNeverReplacedHolds == SealedKeysSpec => KeyNeverReplaced
<1>1. SealedKeysInv /\ [SealedKeysNext]_sealedKeyVars => SealedKeysInv'
    BY SealedKeysStep
<1>2. SealedKeysInv /\ [SealedKeysNext]_sealedKeyVars =>
        [\A k \in {"ed25519", "rsa3072"} :
            keys_known[k] # {} /\ key_memory'[k] # AbsentKey => key_memory'[k] \in keys_known[k]]_sealedKeyVars
    BY KnownKeyOnly
<1> QED BY <1>1, <1>2, SealedKeysStart, PTL DEF SealedKeysSpec, KeyNeverReplaced

-----------------------------------------------------------------------------
AttestationSpec == AttestationInit /\ [][AttestationNext]_attestationVars

-----------------------------------------------------------------------------
(* Attestation: the inductive invariant.                                   *)

EpidSteps == {"init_quote", "socket", "sigrl", "quote", "report"}
DcapSteps == {"target_info", "dcap_quote"}
CollateralSteps == {"get_collateral", "use_collateral", "fetch_failed"}
AttSteps == EpidSteps \cup DcapSteps \cup CollateralSteps \cup {"qve", "cert", "ok", "err", "panicked"}
OwnQuotes == {OwnQuote(s) : s \in Sessions}
Quotes == OwnQuotes \cup {NoQuote, ForeignQuote}

AttestationTyped ==
    /\ attOp \in [Sessions -> Operations] /\ attStep \in [Sessions -> AttSteps]
    /\ held \in [Sessions -> Quotes] /\ evidence \in [Sessions -> OwnQuotes \cup {NoQuote}]
    /\ issued \subseteq OwnQuotes \cup {ForeignQuote}
    /\ openSockets \subseteq Sessions /\ collaterals \subseteq Sessions

\* A session is on the way of its operation, and has outside what it needs there.
OnItsWay(s) ==
    /\ attStep[s] \in EpidSteps => attOp[s] = "ias_cert"
    /\ attStep[s] \in DcapSteps => attOp[s] = "dcap_cert"
    /\ attStep[s] = "report" => held[s] = OwnQuote(s)
    /\ attOp[s] = "ias_cert" => evidence[s] \in {NoQuote, OwnQuote(s)}
    /\ s \in openSockets => attStep[s] \in {"sigrl", "report", "err"}
    /\ s \in collaterals => attStep[s] \in {"use_collateral", "fetch_failed"}

AttestationInv == AttestationTyped /\ \A s \in Sessions : OnItsWay(s)

LEMMA AttestationStarts == AttestationInit => AttestationInv
<1> SUFFICES ASSUME AttestationInit PROVE AttestationInv OBVIOUS
<1>1. attOp \in [Sessions -> Operations]
    BY AttestationAssumption DEF AttestationInit
<1>2. \A s \in Sessions : attStep[s] = FirstStep(attOp[s])
    BY DEF AttestationInit
<1>3. \A s \in Sessions :
        /\ FirstStep(attOp[s]) \in {"init_quote", "target_info", "qve", "get_collateral"}
        /\ FirstStep(attOp[s]) = "init_quote" => attOp[s] = "ias_cert"
        /\ FirstStep(attOp[s]) = "target_info" => attOp[s] = "dcap_cert"
    BY <1>1 DEF FirstStep, Operations
<1>4. AttestationTyped
    BY <1>1, <1>2, <1>3 DEF AttestationInit, AttestationTyped, AttSteps, EpidSteps, DcapSteps, CollateralSteps, Quotes
<1>5. \A s \in Sessions : OnItsWay(s)
    BY <1>1, <1>2, <1>3 DEF AttestationInit, OnItsWay, EpidSteps, DcapSteps
<1> QED BY <1>4, <1>5 DEF AttestationInv

\* The quoting enclave's report ties a quote to its session.
LEMMA UntamperedIsOwn ==
    ASSUME AttestationTyped, NEW s \in Sessions, NEW quote \in issued, NEW about \in issued,
           ~quote_is_tampered(s, quote, qe_report(about))
    PROVE  quote = OwnQuote(s)
<1>1. about.nonce = s /\ quote = about
    <2>1. [nonce |-> s, quote |-> quote] = [nonce |-> about.nonce, quote |-> about]
        BY DEF quote_is_tampered, qe_report
    <2> QED BY <2>1
<1>2. about # ForeignQuote
    BY <1>1, AttestationAssumption DEF ForeignQuote
<1>3. PICK t \in Sessions : about = OwnQuote(t)
    BY <1>2 DEF AttestationTyped, OwnQuotes
<1> QED BY <1>1, <1>3 DEF OwnQuote

LEMMA AttestationStep ==
    ASSUME AttestationInv, [AttestationNext]_attestationVars
    PROVE  AttestationInv'
<1> USE DEF AttestationInv
<1> DEFINE Typ == AttestationTyped'
           Way == \A s \in Sessions : OnItsWay(s)'
<1> USE DEF AttSteps, EpidSteps, DcapSteps, CollateralSteps
<1>1. CASE get_mrenclave_of_self
    BY <1>1 DEF get_mrenclave_of_self, AttestationTyped, OnItsWay
<1>2. CASE UNCHANGED attestationVars
    BY <1>2 DEF attestationVars, AttestationTyped, OnItsWay
<1>3. ASSUME NEW s \in Sessions, ocall_fails(s) PROVE AttestationInv'
    BY <1>3 DEF ocall_fails, Goto, Ended, AttestationTyped, OnItsWay
<1>4. ASSUME NEW s \in Sessions, sgx_init_quote(s) PROVE AttestationInv'
    BY <1>4 DEF sgx_init_quote, Goto, AttestationTyped, OnItsWay
<1>5. ASSUME NEW s \in Sessions, get_ias_socket(s) PROVE AttestationInv'
    BY <1>5 DEF get_ias_socket, Goto, AttestationTyped, OnItsWay
<1>6. ASSUME NEW s \in Sessions, get_sigrl_from_intel(s) PROVE AttestationInv'
    BY <1>6 DEF get_sigrl_from_intel, Goto, AttestationTyped, OnItsWay
<1>7. ASSUME NEW s \in Sessions, create_quote(s) PROVE AttestationInv'
    BY <1>7 DEF create_quote, OwnQuotes, AttestationTyped, OnItsWay
<1>8. ASSUME NEW s \in Sessions, get_quote(s) PROVE AttestationInv'
    <2>1. CASE exceeds_quote_buffer(sigrl[s])
        BY <1>8, <2>1 DEF get_quote, Goto, AttestationTyped, OnItsWay
    <2>2. CASE ~exceeds_quote_buffer(sigrl[s])
        <3>1. PICK quote \in issued, about \in issued :
                /\ openSockets' = openSockets \cup {s}
                /\ held' = [held EXCEPT ![s] = quote]
                /\ Goto(s, IF quote_is_tampered(s, quote, qe_report(about)) THEN "err" ELSE "report")
            BY <1>8, <2>2 DEF get_quote
        <3>2. quote \in Quotes
            BY DEF AttestationTyped, Quotes
        <3>3. ~quote_is_tampered(s, quote, qe_report(about)) => quote = OwnQuote(s)
            BY UntamperedIsOwn
        <3>4. attStep[s] = "quote" /\ UNCHANGED <<attOp, evidence, issued, collaterals>>
            BY <1>8 DEF get_quote
        <3>5. attStep' = [attStep EXCEPT ![s] = "err"] \/ (attStep' = [attStep EXCEPT ![s] = "report"] /\ quote = OwnQuote(s))
            BY <3>1, <3>3 DEF Goto
        <3>6. AttestationTyped'
            BY <3>1, <3>2, <3>4, <3>5 DEF AttestationTyped
        <3>7. \A r \in Sessions : OnItsWay(r)'
            BY <3>1, <3>2, <3>4, <3>5 DEF AttestationTyped, OnItsWay
        <3> QED BY <3>6, <3>7
    <2> QED BY <2>1, <2>2
<1>9. ASSUME NEW s \in Sessions, get_report_from_intel(s) PROVE AttestationInv'
    <2>1. attOp[s] = "ias_cert" /\ attStep[s] = "report" /\ held[s] = OwnQuote(s)
        BY <1>9 DEF get_report_from_intel, OnItsWay
    <2>2. evidence' = evidence \/ evidence' = [evidence EXCEPT ![s] = NoQuote] \/ evidence' = [evidence EXCEPT ![s] = OwnQuote(s)]
        BY <1>9, <2>1 DEF get_report_from_intel
    <2>3. AttestationTyped'
        BY <1>9, <2>2 DEF get_report_from_intel, Goto, AttestationTyped, OwnQuotes
    <2>4. \A r \in Sessions : OnItsWay(r)'
        BY <1>9, <2>1, <2>2 DEF get_report_from_intel, Goto, AttestationTyped, OnItsWay
    <2> QED BY <2>3, <2>4
<1>10. ASSUME NEW s \in Sessions, gen_ecc_cert(s) PROVE AttestationInv'
    BY <1>10 DEF gen_ecc_cert, Goto, AttestationTyped, OnItsWay
<1>11. ASSUME NEW s \in Sessions, qe_get_target_info(s) PROVE AttestationInv'
    BY <1>11 DEF qe_get_target_info, Goto, OwnQuotes, AttestationTyped, OnItsWay
<1>12. ASSUME NEW s \in Sessions, retrieve_qe_dcap_quote(s) PROVE AttestationInv'
    <2>1. PICK quote \in issued :
            IF same_mr_enclave(quote)
            THEN Goto(s, "cert") /\ evidence' = [evidence EXCEPT ![s] = quote]
            ELSE Goto(s, "err") /\ UNCHANGED evidence
        BY <1>12 DEF retrieve_qe_dcap_quote
    <2>2. same_mr_enclave(quote) => quote \in OwnQuotes
        BY DEF same_mr_enclave, AttestationTyped, ForeignQuote
    <2>3. attOp[s] = "dcap_cert" /\ attStep[s] = "dcap_quote"
        BY <1>12 DEF retrieve_qe_dcap_quote, OnItsWay
    <2>4. AttestationTyped'
        BY <1>12, <2>1, <2>2 DEF retrieve_qe_dcap_quote, Goto, AttestationTyped
    <2>5. \A r \in Sessions : OnItsWay(r)'
        BY <1>12, <2>1, <2>2, <2>3 DEF retrieve_qe_dcap_quote, Goto, AttestationTyped, OnItsWay
    <2> QED BY <2>4, <2>5
<1>13. ASSUME NEW s \in Sessions, ecdsa_quote_verification(s) PROVE AttestationInv'
    BY <1>13 DEF ecdsa_quote_verification, Goto, AttestationTyped, OnItsWay
<1>14. ASSUME NEW s \in Sessions, get_dcap_collateral(s) PROVE AttestationInv'
    BY <1>14 DEF get_dcap_collateral, Goto, AttestationTyped, OnItsWay
<1>15. ASSUME NEW s \in Sessions, use_dcap_collateral(s) PROVE AttestationInv'
    BY <1>15 DEF use_dcap_collateral, free_quote_verification_collateral, Goto, AttestationTyped, OnItsWay
<1> QED BY <1>1, <1>2, <1>3, <1>4, <1>5, <1>6, <1>7, <1>8, <1>9, <1>10, <1>11, <1>12, <1>13, <1>14, <1>15
        DEF AttestationNext

LEMMA AttestationImplies == AttestationInv => EvidenceIsSound
<1> SUFFICES ASSUME AttestationInv PROVE EvidenceIsSound OBVIOUS
<1>1. EvidenceIsFresh
    BY DEF AttestationInv, OnItsWay, EvidenceIsFresh
<1>2. EvidenceIsOurs
    BY DEF AttestationInv, AttestationTyped, OwnQuotes, OwnQuote, NoQuote, EvidenceIsOurs
<1>3. NothingLeaks
    BY DEF AttestationInv, OnItsWay, NothingLeaks, Ended
<1> QED BY <1>1, <1>2, <1>3 DEF EvidenceIsSound

\* Whatever the host returns and however sessions get mixed up: a certificate carries a quote of
\* this enclave, an EPID one that of its own session, and nothing is left behind outside.
THEOREM EvidenceIsSoundHolds == AttestationSpec => []EvidenceIsSound
<1>1. AttestationInv /\ [AttestationNext]_attestationVars => AttestationInv'
    BY AttestationStep
<1> QED BY <1>1, AttestationStarts, AttestationImplies, PTL DEF AttestationSpec

-----------------------------------------------------------------------------
ProvisioningSpec == ProvisioningInit /\ [][ProvisioningNext]_provisioningVars

-----------------------------------------------------------------------------
(* Provisioning: the inductive invariant.                                  *)

Payloads == [opcode : {"State", "LightClient"}, height : Nat] \cup [opcode : {"ShieldingKey", "StateKey"}]
States == [height : Int, account : ProvParties \cup {TornKey, "nobody"}]
Keys == ProvParties \cup {TornKey}

ProvisioningTyped ==
    /\ provisioning \in {"Everything", "ShieldingKeyAndLightClient"}
    /\ skipRa \in BOOLEAN /\ isDcap \in BOOLEAN
    /\ provided \in [state : Nat, light : Nat] /\ provided.state <= provided.light
    /\ session \in [client : ProvParties, todo : Seq(Opcodes), live : BOOLEAN]
    /\ wire \in [ProvClients -> [sent : Seq(Payloads), end : {"closed", "open", "eof", "broken"}]]
    /\ received \in [ProvClients -> SUBSET Opcodes]
    /\ sealedKeys \in [ProvClients -> [shielding : Keys, state : Keys]]
    /\ sealedStates \in [ProvClients -> Seq([state : States, key : Keys])]
    /\ sealedLight \in [ProvClients -> Nat]
    /\ loaded \in [ProvClients -> States]
    /\ outcome \in [ProvClients -> {"none", "ok"}]

\* A connection that the provider still writes to is one that still stands.
SessionStands ==
    /\ session.client = Provider => session.todo = <<>> /\ ~session.live
    /\ session.live => session.client \in ProvClients /\ wire[session.client].end = "open"

\* The first n payloads.
Got(n) == {write_provisioning_payloads[i] : i \in 1 .. n}

\* In flight are the payloads after the first n, and those after them are to be written.
InFlight(P, n, sent) == n + Len(sent) <= Len(P) /\ \A i \in 1 .. Len(sent) : sent[i].opcode = P[n + i]
ToWrite(P, n, sent, todo) ==
    Len(todo) = Len(P) - n - Len(sent) /\ \A i \in 1 .. Len(todo) : todo[i] = P[n + Len(sent) + i]

\* What a client received, what is in flight and what is still to be written are the payloads
\* in their order.
InOrder(c, n) ==
    /\ received[c] = Got(n) /\ InFlight(write_provisioning_payloads, n, wire[c].sent)
    /\ session.live /\ session.client = c =>
          ToWrite(write_provisioning_payloads, n, wire[c].sent, session.todo)

Progress(c) == \E n \in 0 .. Len(write_provisioning_payloads) : InOrder(c, n)

\* The latest state file.
Latest(c) == sealedStates[c][1]

\* What was received is sealed, with the keys that were received before.
SealedAsReceived(c) ==
    /\ sealedStates[c] # <<>>
    /\ IsUp(c) => sealedKeys[c].state # TornKey
    /\ "ShieldingKey" \in received[c] => sealedKeys[c].shielding = Provider
    /\ "StateKey" \in received[c] => sealedKeys[c].state = Provider
    /\ "State" \in received[c] =>
          /\ Latest(c).key = Provider /\ Latest(c).state.account = Provider
          /\ IsUp(c) => loaded[c].account = Provider

\* The light client is read after the state and is not behind it.
LightAhead(c) ==
    LET sent == wire[c].sent IN
    /\ "State" \in received[c] =>
          /\ Latest(c).state.height <= provided.light
          /\ "LightClient" \in received[c] => Latest(c).state.height <= sealedLight[c]
    /\ \A i \in 1 .. Len(sent) :
          /\ sent[i].opcode = "State" => sent[i].height <= provided.light
          /\ sent[i].opcode = "LightClient" =>
                /\ "State" \in received[c] => Latest(c).state.height <= sent[i].height
                /\ \A j \in 1 .. Len(sent) : sent[j].opcode = "State" => sent[j].height <= sent[i].height

\* A request that succeeded is over, and the latest file is readable and of the sealed keys.
DoneIsDone(c) ==
    outcome[c] = "ok" =>
        /\ wire[c] = Closed
        /\ received[c] # {} =>
              /\ sealedKeys[c].state # TornKey /\ Latest(c).key = sealedKeys[c].state
              /\ sealedKeys[c].shielding = Provider /\ Latest(c).state.account = Provider
              /\ IsUp(c) => loaded[c].account = Provider

\* The handshake comes before everything.
Attested(c) == verify_client_cert(c) /\ verify_server_cert
AttestedFirst(c) ==
    sealedKeys[c].shielding = Provider \/ sealedKeys[c].state = Provider \/ wire[c].sent # <<>> \/ session.client = c
        => Attested(c)

ClientInv(c) == Progress(c) /\ SealedAsReceived(c) /\ LightAhead(c) /\ DoneIsDone(c) /\ AttestedFirst(c)

ProvisioningInv == ProvisioningTyped /\ SessionStands /\ \A c \in ProvClients : ClientInv(c)

\* The settings do not change, and with them neither the payloads nor the verdict on a certificate.
LEMMA SettingsStay ==
    ASSUME UNCHANGED settingVars
    PROVE  /\ write_provisioning_payloads' = write_provisioning_payloads
           /\ \A n : Got(n)' = Got(n)
           /\ \A c : Attested(c)' = Attested(c)
<1>1. write_provisioning_payloads' = write_provisioning_payloads
    BY DEF settingVars, write_provisioning_payloads
<1>2. \A n : Got(n)' = Got(n)
    BY <1>1 DEF Got
<1>3. \A c : Attested(c)' = Attested(c)
    BY DEF settingVars, Attested, verify_client_cert, verify_server_cert, verify_mra_cert, verify_attn_report
<1> QED BY <1>1, <1>2, <1>3

\* The order of the payloads.
LEMMA PayloadOrder ==
    ASSUME ProvisioningTyped
    PROVE  LET P == write_provisioning_payloads IN
           /\ P \in Seq(Opcodes) /\ Len(P) \in {2, 4}
           /\ P[1] = "ShieldingKey"
           /\ \A i \in 1 .. Len(P) :
                /\ P[i] = "ShieldingKey" => i = 1
                /\ P[i] = "StateKey" => i = 2
                /\ P[i] = "State" => i = 3 /\ P[2] = "StateKey"
                /\ P[i] = "LightClient" => i = Len(P)
<1>1. CASE provisioning = "Everything"
    <2>1. write_provisioning_payloads = <<"ShieldingKey", "StateKey", "State", "LightClient">>
        BY <1>1 DEF write_provisioning_payloads
    <2>2. write_provisioning_payloads \in Seq(Opcodes) /\ Len(write_provisioning_payloads) = 4
        BY <2>1 DEF Opcodes
    <2>3. \A i \in 1 .. 4 : i = 1 \/ i = 2 \/ i = 3 \/ i = 4
        OBVIOUS
    <2> QED BY <2>1, <2>2, <2>3
<1>2. CASE provisioning = "ShieldingKeyAndLightClient"
    <2>1. write_provisioning_payloads = <<"ShieldingKey", "LightClient">>
        BY <1>2 DEF write_provisioning_payloads
    <2>2. write_provisioning_payloads \in Seq(Opcodes) /\ Len(write_provisioning_payloads) = 2
        BY <2>1 DEF Opcodes
    <2>3. \A i \in 1 .. 2 : i = 1 \/ i = 2
        OBVIOUS
    <2> QED BY <2>1, <2>2, <2>3
<1> QED BY <1>1, <1>2 DEF ProvisioningTyped

LEMMA ProvisioningStarts == ProvisioningInit => ProvisioningInv
<1> SUFFICES ASSUME ProvisioningInit PROVE ProvisioningInv OBVIOUS
<1>1. provisioning \in {"Everything", "ShieldingKeyAndLightClient"}
    BY DEF ProvisioningInit, ProvisioningPayload
<1>3. ProvisioningTyped
    BY <1>1 DEF ProvisioningInit, ProvisioningTyped, NoSession, ProvParties, Opcodes, Closed,
       Keys, States, EmptyState, EmptyHeight
<1>4. SessionStands
    BY DEF ProvisioningInit, SessionStands, NoSession
<1>5. ASSUME NEW c \in ProvClients PROVE ClientInv(c)
    <2>1. c # Provider /\ c # TornKey
        BY ProvisioningAssumption
    <2>2. InOrder(c, 0)
        BY <1>3, PayloadOrder DEF InFlight, ProvisioningInit, InOrder, Got, Closed, NoSession
    <2>3. Progress(c)
        BY <1>3, <2>2, PayloadOrder DEF Progress
    <2>4. SealedAsReceived(c) /\ LightAhead(c) /\ DoneIsDone(c)
        BY <2>1 DEF ProvisioningInit, SealedAsReceived, LightAhead, DoneIsDone, Closed
    <2>5. AttestedFirst(c)
        BY <2>1 DEF ProvisioningInit, AttestedFirst, Closed, NoSession
    <2> QED BY <2>3, <2>4, <2>5 DEF ClientInv
<1> QED BY <1>3, <1>4, <1>5 DEF ProvisioningInv

\* What is in a payload and in a file.
LEMMA PayloadHeights ==
    ASSUME NEW sent \in Seq(Payloads), NEW i \in 1 .. Len(sent)
    PROVE  /\ sent[i].opcode \in Opcodes
           /\ sent[i].opcode \in {"State", "LightClient"} => sent[i].height \in Nat
<1>1. sent[i] \in Payloads
    OBVIOUS
<1>2. CASE sent[i] \in [opcode : {"State", "LightClient"}, height : Nat]
    BY <1>2 DEF Opcodes
<1>3. CASE sent[i] \in [opcode : {"ShieldingKey", "StateKey"}]
    BY <1>3 DEF Opcodes
<1> QED BY <1>1, <1>2, <1>3 DEF Payloads

LEMMA LatestTyped ==
    ASSUME ProvisioningTyped, NEW c \in ProvClients, sealedStates[c] # <<>>
    PROVE  Latest(c) \in [state : States, key : Keys] /\ Latest(c).state.height \in Int
<1>1. sealedStates[c] \in Seq([state : States, key : Keys])
    BY DEF ProvisioningTyped
<1>2. \A S : \A s \in Seq(S) : s # <<>> => s[1] \in S
    OBVIOUS
<1>3. Latest(c) \in [state : States, key : Keys]
    BY <1>1, <1>2 DEF Latest
<1> QED BY <1>3 DEF States

\* A step that is not about a client leaves what is known of it.
LEMMA Untouched ==
    ASSUME ProvisioningTyped, ProvisioningTyped', NEW d \in ProvClients, ClientInv(d), UNCHANGED settingVars,
           wire'[d] = wire[d], received'[d] = received[d], sealedKeys'[d] = sealedKeys[d],
           sealedStates'[d] = sealedStates[d], sealedLight'[d] = sealedLight[d],
           loaded'[d] = loaded[d], outcome'[d] = outcome[d], provided'.light >= provided.light,
           session'.client = d => session.client = d,
           session'.live /\ session'.client = d => session' = session
    PROVE  ClientInv(d)'
<1>1. PICK n \in 0 .. Len(write_provisioning_payloads) : InOrder(d, n)
    BY DEF ClientInv, Progress
<1>2. InOrder(d, n)'
    BY <1>1, SettingsStay DEF InOrder
<1>3. Progress(d)'
    BY <1>2, SettingsStay DEF Progress
<1>4. SealedAsReceived(d)'
    BY DEF ClientInv, SealedAsReceived, Latest, IsUp
<1>5. LightAhead(d)'
    <2>1. provided.light \in Nat /\ provided'.light \in Nat /\ wire[d].sent \in Seq(Payloads)
        BY DEF ProvisioningTyped
    <2>2. \A i \in 1 .. Len(wire[d].sent) : wire[d].sent[i].opcode = "State" => wire[d].sent[i].height \in Nat
        BY <2>1, PayloadHeights
    <2>3. SealedAsReceived(d) /\ LightAhead(d)
        BY DEF ClientInv
    <2>4. Latest(d).state.height \in Int
        BY <2>3, LatestTyped DEF SealedAsReceived
    <2> QED BY <2>1, <2>2, <2>3, <2>4 DEF LightAhead, Latest
<1>6. DoneIsDone(d)'
    BY DEF ClientInv, DoneIsDone, Latest, IsUp
<1>7. AttestedFirst(d)'
    BY SettingsStay DEF ClientInv, AttestedFirst
<1> QED BY <1>3, <1>4, <1>5, <1>6, <1>7 DEF ClientInv

LEMMA InvParts ==
    ASSUME ProvisioningInv
    PROVE  /\ ProvisioningTyped /\ SessionStands /\ (\A d \in ProvClients : ClientInv(d))
           /\ \A d \in ProvClients : d # Provider /\ d # TornKey
           /\ provided.light >= provided.light
<1>1. provided.light \in Nat
    BY DEF ProvisioningInv, ProvisioningTyped
<1>2. \A d \in ProvClients : d # Provider /\ d # TornKey
    BY ProvisioningAssumption
<1> QED BY <1>1, <1>2 DEF ProvisioningInv

-----------------------------------------------------------------------------
(* Provisioning: the steps of the provider.                                *)

LEMMA ImportAtProviderKeeps ==
    ASSUME ProvisioningInv, import_at_provider
    PROVE  ProvisioningInv'
<1>0. /\ provided' \in [state : Nat, light : Nat] /\ provided'.state <= provided'.light
      /\ provided'.light >= provided.light
    <2>1. provided \in [state : Nat, light : Nat] /\ provided.state <= provided.light
        BY DEF ProvisioningInv, ProvisioningTyped
    <2>2. CASE provided' = [provided EXCEPT !.light = @ + 1]
        BY <2>1, <2>2
    <2>3. CASE provided.state < provided.light /\ provided' = [provided EXCEPT !.state = @ + 1]
        BY <2>1, <2>3
    <2> QED BY <2>2, <2>3 DEF import_at_provider
<1>1. ProvisioningTyped'
    BY <1>0 DEF ProvisioningInv, ProvisioningTyped, import_at_provider, settingVars, clientVars
<1>2. SessionStands'
    BY DEF ProvisioningInv, SessionStands, import_at_provider
<1>3. ASSUME NEW d \in ProvClients PROVE ClientInv(d)'
    BY <1>0, <1>1, Untouched DEF ProvisioningInv, import_at_provider, settingVars, clientVars
<1> QED BY <1>1, <1>2, <1>3 DEF ProvisioningInv

LEMMA HandleRequestKeeps ==
    ASSUME ProvisioningInv, NEW c \in ProvClients, handle_shard_request_from_client(c)
    PROVE  ProvisioningInv'
<1> DEFINE P == write_provisioning_payloads
<1>0. /\ session = NoSession /\ wire[c] = Open /\ received[c] = {}
      /\ UNCHANGED <<settingVars, provided, vaultProxies, clientVars, provFaults>>
    BY DEF handle_shard_request_from_client
<1>1. /\ ProvisioningTyped /\ SessionStands /\ (\A d \in ProvClients : ClientInv(d)) /\ c # Provider
      /\ provided'.light >= provided.light /\ UNCHANGED settingVars
    BY <1>0, InvParts
<1>2. CASE Attested(c)
    <2>1. session' = [client |-> c, todo |-> P, live |-> TRUE] /\ wire' = wire
        BY <1>2 DEF handle_shard_request_from_client, Attested
    <2>2. ProvisioningTyped'
        BY <1>0, <1>1, <2>1, PayloadOrder DEF ProvisioningTyped, settingVars, clientVars, ProvParties
    <2>3. SessionStands'
        BY <1>0, <1>1, <2>1 DEF SessionStands, Open
    <2>4. ASSUME NEW d \in ProvClients, d # c PROVE ClientInv(d)'
        BY <1>0, <1>1, <2>1, <2>2, <2>4, Untouched DEF settingVars, clientVars
    <2>5. ClientInv(c)'
        <3>1. InOrder(c, 0)'
            <4>1. Got(0) = {}
                BY DEF Got
            <4>2. wire'[c].sent = <<>> /\ received'[c] = {} /\ P' = P /\ Got(0)' = {} /\ P \in Seq(Opcodes)
                BY <4>1, <1>0, <1>1, <2>1, PayloadOrder, SettingsStay DEF Open, clientVars
            <4>3. session'.todo = P'
                BY <2>1, <4>2
            <4> QED BY <4>2, <4>3 DEF InOrder, InFlight, ToWrite
        <3>2. Progress(c)'
            BY <3>1, <1>0, <1>1, PayloadOrder, SettingsStay DEF Progress
        <3>3. SealedAsReceived(c)' /\ LightAhead(c)' /\ DoneIsDone(c)'
            BY <1>0, <1>1, <2>1 DEF ClientInv, SealedAsReceived, LightAhead, DoneIsDone, Latest, IsUp, clientVars
        <3>4. AttestedFirst(c)'
            BY <1>0, <1>2, SettingsStay DEF AttestedFirst
        <3> QED BY <3>2, <3>3, <3>4 DEF ClientInv
    <2> QED BY <2>2, <2>3, <2>4, <2>5 DEF ProvisioningInv
<1>3. CASE ~Attested(c)
    <2>1. session' = session /\ wire' = [wire EXCEPT ![c].end = "broken"]
        BY <1>3 DEF handle_shard_request_from_client, Attested
    <2>2. ProvisioningTyped'
        BY <1>0, <1>1, <2>1 DEF ProvisioningTyped, settingVars, clientVars
    <2>3. SessionStands'
        BY <1>0, <1>1, <2>1 DEF SessionStands, NoSession
    <2>4. ASSUME NEW d \in ProvClients, d # c PROVE ClientInv(d)'
        <3>1. wire'[d] = wire[d]
            BY <1>1, <2>1, <2>4 DEF ProvisioningTyped
        <3> QED BY <3>1, <1>0, <1>1, <2>1, <2>2, <2>4, Untouched DEF settingVars, clientVars, ProvisioningTyped
    <2>5. ClientInv(c)'
        <3>0. wire'[c].sent = wire[c].sent /\ wire[c].sent = <<>>
            BY <1>0, <1>1, <2>1 DEF ProvisioningTyped, Open
        <3>1. PICK n \in 0 .. Len(P) : InOrder(c, n)
            BY <1>1 DEF ClientInv, Progress
        <3>2. InOrder(c, n)'
            BY <3>0, <3>1, <1>0, <2>1, SettingsStay DEF InOrder, clientVars
        <3>3. Progress(c)'
            BY <3>2, <1>0, SettingsStay DEF Progress
        <3>4. SealedAsReceived(c)' /\ LightAhead(c)'
            BY <3>0, <1>0, <1>1 DEF ClientInv, SealedAsReceived, LightAhead, Latest, IsUp, clientVars
        <3>5. DoneIsDone(c)'
            BY <1>0, <1>1 DEF ClientInv, DoneIsDone, Open, Closed, clientVars
        <3>6. AttestedFirst(c)'
            BY <3>0, <1>0, <1>1, <2>1, SettingsStay DEF ClientInv, AttestedFirst, clientVars
        <3> QED BY <3>3, <3>4, <3>5, <3>6 DEF ClientInv
    <2> QED BY <2>2, <2>3, <2>4, <2>5 DEF ProvisioningInv
<1> QED BY <1>2, <1>3

\* The connection of a client with more in flight.
Wires == [sent : Seq(Payloads), end : {"closed", "open", "eof", "broken"}]

LEMMA WireOf ==
    ASSUME ProvisioningTyped, NEW c \in ProvClients
    PROVE  /\ wire[c] \in Wires /\ wire[c].sent \in Seq(Payloads)
           /\ wire \in [ProvClients -> Wires] /\ wire[c] = [sent |-> wire[c].sent, end |-> wire[c].end]
<1>1. wire \in [ProvClients -> Wires]
    BY DEF ProvisioningTyped, Wires
<1>2. wire[c] \in Wires
    BY <1>1
<1> QED BY <1>1, <1>2 DEF Wires

\* Writing the next payload keeps what is in flight and what is to be written in order.
LEMMA NextPayload ==
    ASSUME NEW P \in Seq(Opcodes), NEW n \in 0 .. Len(P), NEW sent \in Seq(Payloads), NEW todo \in Seq(Opcodes),
           NEW payload \in Payloads, todo # <<>>, payload.opcode = todo[1],
           InFlight(P, n, sent), ToWrite(P, n, sent, todo)
    PROVE  InFlight(P, n, Append(sent, payload)) /\ ToWrite(P, n, Append(sent, payload), Tail(todo))
<1> DEFINE more == Append(sent, payload)
<1> USE DEF InFlight, ToWrite
<1>1. /\ Len(more) = Len(sent) + 1 /\ more[Len(sent) + 1] = payload /\ Len(sent) \in Nat /\ Len(todo) \in Nat
      /\ \A i \in 1 .. Len(sent) : more[i] = sent[i]
    OBVIOUS
<1>2. Len(todo) >= 1 /\ Len(Tail(todo)) = Len(todo) - 1
    OBVIOUS
<1>3. \A i \in 1 .. Len(todo) - 1 : Tail(todo)[i] = todo[i + 1]
    OBVIOUS
<1>4. payload.opcode = P[n + Len(sent) + 1]
    BY <1>1, <1>2
<1> HIDE DEF more
<1>5. n + Len(more) <= Len(P) /\ Len(Tail(todo)) = Len(P) - n - Len(more)
    BY <1>1, <1>2
<1>6. ASSUME NEW i \in 1 .. Len(more) PROVE more[i].opcode = P[n + i]
    <2>1. CASE i \in 1 .. Len(sent)
        BY <1>1, <2>1
    <2>2. CASE i = Len(sent) + 1
        <3>1. n + i = n + Len(sent) + 1
            BY <1>1, <2>2
        <3> QED BY <1>1, <1>4, <2>2, <3>1
    <2> QED BY <1>1, <2>1, <2>2
<1>7. ASSUME NEW i \in 1 .. Len(Tail(todo)) PROVE Tail(todo)[i] = P[n + Len(more) + i]
    <2>1. i + 1 \in 1 .. Len(todo) /\ n + Len(sent) + (i + 1) = n + Len(more) + i /\ i \in 1 .. Len(todo) - 1
        BY <1>1, <1>2
    <2> QED BY <1>3, <2>1
<1> QED BY <1>5, <1>6, <1>7 DEF more

LEMMA WritePayloadKeeps ==
    ASSUME ProvisioningInv, write_payload, NEW c \in ProvClients, c = session.client
    PROVE  ProvisioningInv'
<1>0. /\ session.todo # <<>> /\ session.live
      /\ wire' = [wire EXCEPT ![c].sent = Append(@, unseal(Head(session.todo)))]
      /\ session' = [session EXCEPT !.todo = Tail(@)]
      /\ UNCHANGED <<settingVars, provided, vaultProxies, clientVars, provFaults>>
    BY DEF write_payload
<1>1. /\ ProvisioningTyped /\ SessionStands /\ (\A d \in ProvClients : ClientInv(d))
      /\ provided'.light >= provided.light /\ UNCHANGED settingVars
    BY <1>0, InvParts
<1>2. c # Provider /\ wire[c].end = "open"
    BY <1>0, <1>1, InvParts DEF SessionStands
<1>a. PICK P : P = write_provisioning_payloads
    OBVIOUS
<1>b. PICK sent : sent = wire[c].sent
    OBVIOUS
<1>c. PICK todo : todo = session.todo
    OBVIOUS
<1>3. todo \in Seq(Opcodes) /\ todo # <<>> /\ todo[1] \in Opcodes /\ Head(todo) = todo[1] /\ Tail(todo) \in Seq(Opcodes)
    <2>1. todo \in Seq(Opcodes) /\ todo # <<>>
        BY <1>0, <1>1, <1>c DEF ProvisioningTyped
    <2> QED BY <2>1
<1>4. PICK payload : payload = unseal(todo[1])
    OBVIOUS
<1>5. /\ payload \in Payloads /\ payload.opcode = todo[1]
      /\ payload.opcode = "State" => payload.height = provided.state
      /\ payload.opcode = "LightClient" => payload.height = provided.light
    <2>1. provided.state \in Nat /\ provided.light \in Nat
        BY <1>1 DEF ProvisioningTyped
    <2>2. CASE todo[1] = "State"
        BY <1>4, <2>1, <2>2 DEF unseal, Payloads
    <2>3. CASE todo[1] = "LightClient"
        BY <1>4, <2>1, <2>3 DEF unseal, Payloads
    <2>4. CASE todo[1] \in {"ShieldingKey", "StateKey"}
        BY <1>4, <2>4 DEF unseal, Payloads
    <2> QED BY <1>3, <2>2, <2>3, <2>4 DEF Opcodes
<1>d. PICK more : more = Append(sent, payload)
    OBVIOUS
<1>6. /\ sent \in Seq(Payloads) /\ more \in Seq(Payloads)
      /\ wire' \in [ProvClients -> Wires]
      /\ wire'[c].sent = more /\ wire'[c].end = "open"
      /\ \A d \in ProvClients : d # c => wire'[d] = wire[d]
    <2>1. sent \in Seq(Payloads) /\ more \in Seq(Payloads)
        <3>1. sent \in Seq(Payloads)
            BY <1>1, <1>b, WireOf
        <3> QED BY <1>5, <1>d, <3>1
    <2>2. wire' = [wire EXCEPT ![c] = [sent |-> more, end |-> "open"]]
        <3>1. wire' = [wire EXCEPT ![c].sent = more]
            BY <1>0, <1>3, <1>4, <1>b, <1>c, <1>d
        <3>2. wire[c] = [sent |-> sent, end |-> "open"]
            BY <1>1, <1>2, <1>b, WireOf
        <3>3. [wire[c] EXCEPT !.sent = more] = [sent |-> more, end |-> "open"]
            BY <3>2
        <3> QED BY <3>1, <3>3
    <2> QED BY <1>1, <2>1, <2>2, WireOf DEF Wires
<1>7. /\ session' \in [client : ProvParties, todo : Seq(Opcodes), live : BOOLEAN]
      /\ session'.client = c /\ session'.live /\ session'.todo = Tail(todo)
    <2>1. session \in [client : ProvParties, todo : Seq(Opcodes), live : BOOLEAN]
        BY <1>1 DEF ProvisioningTyped
    <2>2. session' = [session EXCEPT !.todo = Tail(todo)]
        BY <1>0, <1>c
    <2> QED BY <1>0, <1>3, <2>1, <2>2
<1>8. ProvisioningTyped'
    BY <1>0, <1>1, <1>6, <1>7 DEF ProvisioningTyped, settingVars, clientVars, Wires
<1>9. SessionStands'
    BY <1>2, <1>6, <1>7 DEF SessionStands
<1>10. ASSUME NEW d \in ProvClients, d # c PROVE ClientInv(d)'
    BY <1>0, <1>1, <1>6, <1>7, <1>8, <1>10, Untouched DEF clientVars
<1>11. ClientInv(c)'
    <2>1. PICK n \in 0 .. Len(P) : InOrder(c, n)
        BY <1>1, <1>a DEF ClientInv, Progress
    <2>2. /\ Len(more) = Len(sent) + 1 /\ more[Len(sent) + 1] = payload /\ Len(sent) \in Nat
          /\ \A i \in 1 .. Len(sent) : more[i] = sent[i]
        BY <1>5, <1>6, <1>d
    <2>3. /\ write_provisioning_payloads' = P /\ Got(n)' = Got(n) /\ received'[c] = received[c]
          /\ P \in Seq(Opcodes)
        BY <1>0, <1>1, <1>a, SettingsStay, PayloadOrder DEF clientVars
    <2>4. received[c] = Got(n) /\ InFlight(P, n, sent) /\ ToWrite(P, n, sent, todo)
        BY <1>0, <1>a, <1>b, <1>c, <2>1 DEF InOrder
    <2>5. InFlight(P, n, more) /\ ToWrite(P, n, more, Tail(todo))
        BY <1>3, <1>5, <1>6, <1>d, <2>1, <2>3, <2>4, NextPayload
    <2>6. Progress(c)'
        <3>1. InOrder(c, n)'
            BY <1>6, <1>7, <2>3, <2>4, <2>5 DEF InOrder
        <3> QED BY <2>3, <3>1 DEF Progress
    <2>7. SealedAsReceived(c)'
        BY <1>0, <1>1, <1>2 DEF ClientInv, SealedAsReceived, Latest, IsUp, clientVars
    <2>8. LightAhead(c)'
        <3>1. /\ LightAhead(c) /\ sealedStates[c] # <<>> /\ provided.state \in Nat /\ provided.light \in Nat
              /\ provided.state <= provided.light
            BY <1>1, <1>2 DEF ClientInv, SealedAsReceived, ProvisioningTyped
        <3>2. "State" \in received[c] => Latest(c).state.height <= provided.light
            BY <3>1 DEF LightAhead
        <3>3. ASSUME NEW i \in 1 .. Len(more), more[i].opcode = "State" PROVE more[i].height <= provided.light
            <4>1. CASE i = Len(sent) + 1
                BY <1>5, <2>2, <3>1, <3>3, <4>1
            <4>2. CASE i \in 1 .. Len(sent)
                BY <1>b, <2>2, <3>1, <3>3, <4>2 DEF LightAhead
            <4> QED BY <2>2, <4>1, <4>2
        <3>5. ~(payload.opcode = "State" /\ \E i \in 1 .. Len(sent) : sent[i].opcode = "LightClient")
            <4>1. \A i \in 1 .. Len(sent) : n + i \in 1 .. Len(P) /\ sent[i].opcode = P[n + i]
                BY <2>1, <2>2, <2>3, <2>4 DEF InFlight
            <4>2. n + Len(sent) + 1 \in 1 .. Len(P) /\ payload.opcode = P[n + (Len(sent) + 1)]
                BY <2>1, <2>2, <2>3, <2>5 DEF InFlight
            <4>3. \A i \in 1 .. Len(sent) : n + i < n + Len(sent) + 1
                BY <2>1, <2>2
            <4> QED BY <1>1, <1>a, <2>1, <2>2, <4>1, <4>2, <4>3, PayloadOrder
        <3>6. ASSUME NEW i \in 1 .. Len(more), NEW j \in 1 .. Len(more),
                     more[i].opcode = "LightClient", more[j].opcode = "State"
              PROVE  more[j].height <= more[i].height
            <4>1. CASE i = Len(sent) + 1
                BY <1>5, <2>2, <3>3, <3>6, <4>1
            <4>2. CASE i # Len(sent) + 1
                <5>1. i \in 1 .. Len(sent) /\ more[i] = sent[i]
                    BY <2>2, <4>2
                <5>2. j # Len(sent) + 1
                    BY <2>2, <3>5, <3>6, <5>1
                <5>3. j \in 1 .. Len(sent) /\ more[j] = sent[j]
                    BY <2>2, <5>2
                <5> QED BY <1>b, <3>1, <3>6, <5>1, <5>3 DEF LightAhead
            <4> QED BY <4>1, <4>2
        <3>7. ASSUME NEW i \in 1 .. Len(more), more[i].opcode = "LightClient", "State" \in received[c]
              PROVE  Latest(c).state.height <= more[i].height
            <4>1. CASE i = Len(sent) + 1
                BY <1>5, <2>2, <3>2, <3>7, <4>1
            <4>2. CASE i \in 1 .. Len(sent)
                BY <1>b, <2>2, <3>1, <3>7, <4>2 DEF LightAhead
            <4> QED BY <2>2, <4>1, <4>2
        <3>8. "State" \in received[c] /\ "LightClient" \in received[c] => Latest(c).state.height <= sealedLight[c]
            BY <3>1 DEF LightAhead
        <3>9. /\ wire'[c].sent = more /\ Latest(c)' = Latest(c) /\ provided' = provided
              /\ received' = received /\ sealedLight' = sealedLight
            BY <1>0, <1>6 DEF Latest, clientVars
        <3> QED BY <3>2, <3>3, <3>6, <3>7, <3>8, <3>9 DEF LightAhead
    <2>9. DoneIsDone(c)'
        <3>1. outcome[c] # "ok"
            BY <1>1, <1>2 DEF ClientInv, DoneIsDone, Closed
        <3> QED BY <3>1, <1>0 DEF DoneIsDone, clientVars
    <2>10. AttestedFirst(c)'
        BY <1>1, <1>2, SettingsStay DEF ClientInv, AttestedFirst
    <2> QED BY <2>6, <2>7, <2>8, <2>9, <2>10 DEF ClientInv
<1>12. \A d \in ProvClients : ClientInv(d)'
    BY <1>10, <1>11
<1> QED BY <1>8, <1>9, <1>12 DEF ProvisioningInv

\* A connection that ends, with the first m payloads in flight delivered or not.
LEMMA ConnectionEnds ==
    ASSUME ProvisioningTyped, NEW d \in ProvClients, ClientInv(d), UNCHANGED <<settingVars, provided, clientVars>>,
           wire[d].end = "open", NEW m \in 0 .. Len(wire[d].sent), wire'[d].sent = SubSeq(wire[d].sent, 1, m),
           session'.client = d => session.client = d, ~(session'.live /\ session'.client = d)
    PROVE  ClientInv(d)'
<1>1. PICK n \in 0 .. Len(write_provisioning_payloads) : InOrder(d, n)
    BY DEF ClientInv, Progress
<1>2. PICK sent \in Seq(Payloads) : sent = wire[d].sent /\ m \in 0 .. Len(sent)
    BY WireOf
<1>3. PICK less : less = SubSeq(sent, 1, m)
    OBVIOUS
<1>4. Len(less) = m /\ (\A i \in 1 .. m : less[i] = sent[i]) /\ m <= Len(sent) /\ Len(sent) \in Nat
    BY <1>2, <1>3
<1>5. wire'[d].sent = less /\ received' = received /\ UNCHANGED settingVars
    BY <1>2, <1>3 DEF clientVars
<1>6. PICK P : P = write_provisioning_payloads
    OBVIOUS
<1>7. InFlight(P, n, sent) /\ P \in Seq(Opcodes)
    BY <1>1, <1>2, <1>6, PayloadOrder DEF InOrder
<1>8. InFlight(P, n, less)
    <2>1. n \in Nat /\ Len(P) \in Nat /\ n + Len(sent) <= Len(P)
        BY <1>1, <1>6, <1>7 DEF InFlight
    <2>2. n + Len(less) <= Len(P)
        BY <1>4, <2>1
    <2>3. ASSUME NEW i \in 1 .. Len(less) PROVE less[i].opcode = P[n + i]
        <3>1. i \in 1 .. Len(sent) /\ less[i] = sent[i]
            BY <1>4
        <3> QED BY <1>7, <3>1 DEF InFlight
    <2> QED BY <2>2, <2>3 DEF InFlight
<1>9. InOrder(d, n)'
    BY <1>1, <1>5, <1>6, <1>8, SettingsStay DEF InOrder
<1>10. Progress(d)'
    BY <1>5, <1>9, SettingsStay DEF Progress
<1>11. SealedAsReceived(d)'
    BY DEF ClientInv, SealedAsReceived, Latest, IsUp, clientVars
<1>12. LightAhead(d)'
    <2>1. LightAhead(d) /\ Latest(d)' = Latest(d) /\ sealedLight' = sealedLight /\ provided' = provided
        BY DEF ClientInv, Latest, clientVars
    <2>2. \A i \in 1 .. Len(less) : i \in 1 .. Len(sent) /\ less[i] = sent[i]
        BY <1>4
    <2> QED BY <1>2, <1>5, <2>1, <2>2 DEF LightAhead
<1>13. DoneIsDone(d)'
    <2>1. outcome[d] # "ok"
        BY DEF ClientInv, DoneIsDone, Closed
    <2> QED BY <2>1 DEF DoneIsDone, clientVars
<1>14. AttestedFirst(d)'
    <2>1. wire'[d].sent # <<>> => wire[d].sent # <<>>
        BY <1>2, <1>4, <1>5
    <2> QED BY <1>5, <2>1, SettingsStay DEF ClientInv, AttestedFirst, clientVars
<1> QED BY <1>10, <1>11, <1>12, <1>13, <1>14 DEF ClientInv

\* All that is in flight is delivered.
LEMMA AllInFlight ==
    ASSUME ProvisioningTyped, NEW d \in ProvClients
    PROVE  Len(wire[d].sent) \in 0 .. Len(wire[d].sent) /\ SubSeq(wire[d].sent, 1, Len(wire[d].sent)) = wire[d].sent
<1>1. wire[d].sent \in Seq(Payloads)
    BY WireOf
<1>2. \A s \in Seq(Payloads) : Len(s) \in 0 .. Len(s) /\ SubSeq(s, 1, Len(s)) = s
    OBVIOUS
<1> QED BY <1>1, <1>2

\* The provider is done with a client, or gives up.
LEMMA SessionOver ==
    ASSUME ProvisioningInv, NEW c \in ProvClients, c = session.client, session' = NoSession,
           IF session.live THEN wire' = [wire EXCEPT ![c].end = "eof"] ELSE wire' = wire,
           UNCHANGED <<settingVars, provided, clientVars>>
    PROVE  ProvisioningInv'
<1>1. /\ ProvisioningTyped /\ SessionStands /\ (\A d \in ProvClients : ClientInv(d))
      /\ provided'.light >= provided.light /\ UNCHANGED settingVars /\ c # Provider
      /\ \A d \in ProvClients : d # Provider
    BY InvParts
<1>2. session'.client = Provider /\ session'.todo = <<>> /\ ~session'.live
    BY DEF NoSession
<1>3. /\ wire' \in [ProvClients -> Wires] /\ wire'[c].sent = wire[c].sent
      /\ \A d \in ProvClients : d # c => wire'[d] = wire[d]
    <2>1. wire \in [ProvClients -> Wires]
        BY <1>1, WireOf
    <2> QED BY <2>1 DEF Wires
<1>4. ProvisioningTyped'
    <2>1. session' \in [client : ProvParties, todo : Seq(Opcodes), live : BOOLEAN]
        BY DEF NoSession, ProvParties
    <2> QED BY <1>1, <1>3, <2>1 DEF ProvisioningTyped, settingVars, clientVars, Wires
<1>5. SessionStands'
    BY <1>2 DEF SessionStands
<1>6. ASSUME NEW d \in ProvClients, d # c \/ ~session.live PROVE ClientInv(d)'
    <2>1. wire'[d] = wire[d]
        BY <1>3, <1>6
    <2> QED BY <1>1, <1>2, <1>4, <2>1, Untouched DEF clientVars
<1>7. ASSUME session.live PROVE ClientInv(c)'
    <2>1. wire[c].end = "open"
        BY <1>1, <1>7 DEF SessionStands
    <2> QED BY <1>1, <1>2, <1>3, <2>1, AllInFlight, ConnectionEnds
<1> QED BY <1>4, <1>5, <1>6, <1>7 DEF ProvisioningInv

LEMMA ServedClient ==
    ASSUME ProvisioningInv, session # NoSession
    PROVE  session.client \in ProvClients
<1>1. session \in [client : ProvParties, todo : Seq(Opcodes), live : BOOLEAN]
    BY DEF ProvisioningInv, ProvisioningTyped
<1>2. session.client # Provider
    <2> SUFFICES ASSUME session.client = Provider PROVE FALSE OBVIOUS
    <2>1. session.todo = <<>> /\ session.live = FALSE
        BY <1>1 DEF ProvisioningInv, SessionStands
    <2> QED BY <1>1, <2>1 DEF NoSession
<1> QED BY <1>1, <1>2 DEF ProvParties

LEMMA AddShardVaultProxyKeeps ==
    ASSUME ProvisioningInv, add_shard_vault_proxy
    PROVE  ProvisioningInv'
<1>1. PICK c \in ProvClients : c = session.client
    BY ServedClient DEF add_shard_vault_proxy
<1> QED BY <1>1, SessionOver DEF add_shard_vault_proxy

LEMMA ProvisioningFailsKeeps ==
    ASSUME ProvisioningInv, provisioning_fails
    PROVE  ProvisioningInv'
<1>1. PICK c \in ProvClients : c = session.client
    BY ServedClient DEF provisioning_fails, NoSession
<1> QED BY <1>1, SessionOver DEF provisioning_fails

LEMMA EndSessionTyped ==
    ASSUME ProvisioningTyped, NEW c, EndSession(c)
    PROVE  /\ session' \in [client : ProvParties, todo : Seq(Opcodes), live : BOOLEAN]
           /\ session'.client = session.client /\ session'.todo = session.todo
           /\ IF session.client = c THEN ~session'.live ELSE session' = session
<1>1. session \in [client : ProvParties, todo : Seq(Opcodes), live : BOOLEAN]
    BY DEF ProvisioningTyped
<1> QED BY <1>1 DEF EndSession

LEMMA BreakConnectionKeeps ==
    ASSUME ProvisioningInv, NEW c \in ProvClients, break_connection(c)
    PROVE  ProvisioningInv'
<1>1. /\ ProvisioningTyped /\ SessionStands /\ (\A d \in ProvClients : ClientInv(d)) /\ c # Provider
      /\ provided'.light >= provided.light /\ UNCHANGED <<settingVars, provided, clientVars>>
      /\ wire[c].end = "open" /\ EndSession(c)
    BY InvParts DEF break_connection
<1>2. PICK m \in 0 .. Len(wire[c].sent), end \in {"eof", "broken"} :
          wire' = [wire EXCEPT ![c] = [sent |-> SubSeq(wire[c].sent, 1, m), end |-> end]]
    BY DEF break_connection
<1>3. /\ wire' \in [ProvClients -> Wires] /\ wire'[c].sent = SubSeq(wire[c].sent, 1, m)
      /\ \A d \in ProvClients : d # c => wire'[d] = wire[d]
    <2>1. wire \in [ProvClients -> Wires] /\ wire[c].sent \in Seq(Payloads)
        BY <1>1, WireOf
    <2>2. SubSeq(wire[c].sent, 1, m) \in Seq(Payloads)
        BY <2>1
    <2> QED BY <1>2, <2>1, <2>2 DEF Wires
<1>4. /\ session' \in [client : ProvParties, todo : Seq(Opcodes), live : BOOLEAN]
      /\ session'.client = session.client /\ session'.todo = session.todo
      /\ IF session.client = c THEN ~session'.live ELSE session' = session
    BY <1>1, EndSessionTyped
<1>5. ProvisioningTyped'
    BY <1>1, <1>3, <1>4 DEF ProvisioningTyped, settingVars, clientVars, Wires
<1>6. SessionStands'
    BY <1>1, <1>3, <1>4 DEF SessionStands
<1>7. ASSUME NEW d \in ProvClients, d # c PROVE ClientInv(d)'
    BY <1>1, <1>3, <1>4, <1>5, <1>7, Untouched DEF clientVars
<1>8. ClientInv(c)'
    BY <1>1, <1>3, <1>4, ConnectionEnds
<1> QED BY <1>5, <1>6, <1>7, <1>8 DEF ProvisioningInv

-----------------------------------------------------------------------------
(* Provisioning: the steps of a client.                                    *)

LEMMA RequestStateProvisioningKeeps ==
    ASSUME ProvisioningInv, NEW c \in ProvClients, request_state_provisioning(c)
    PROVE  ProvisioningInv'
<1>0. /\ IsUp(c) /\ outcome[c] = "none" /\ wire[c] = Closed
      /\ wire' = [wire EXCEPT ![c] = Open] /\ received' = [received EXCEPT ![c] = {}]
      /\ UNCHANGED <<settingVars, provided, session, sealedKeys, sealedStates, sealedLight, loaded, outcome>>
    BY DEF request_state_provisioning
<1>1. /\ ProvisioningTyped /\ SessionStands /\ (\A d \in ProvClients : ClientInv(d)) /\ c # Provider
      /\ provided'.light >= provided.light /\ UNCHANGED settingVars
    BY <1>0, InvParts
<1>2. /\ wire' \in [ProvClients -> Wires] /\ wire'[c] = Open /\ wire'[c].sent = <<>> /\ wire'[c].end = "open"
      /\ wire[c].sent = <<>>
      /\ \A d \in ProvClients : d # c => wire'[d] = wire[d]
    <2>1. wire \in [ProvClients -> Wires]
        BY <1>1, WireOf
    <2> QED BY <1>0, <2>1 DEF Wires, Open, Closed
<1>3. /\ received' \in [ProvClients -> SUBSET Opcodes] /\ received'[c] = {}
      /\ \A d \in ProvClients : d # c => received'[d] = received[d]
    BY <1>0, <1>1 DEF ProvisioningTyped
<1>4. ProvisioningTyped'
    BY <1>0, <1>1, <1>2, <1>3 DEF ProvisioningTyped, settingVars, Wires
<1>5. ~(session.live /\ session.client = c)
    BY <1>0, <1>1 DEF SessionStands, Closed
<1>6. SessionStands'
    BY <1>0, <1>1, <1>2, <1>5 DEF SessionStands
<1>7. ASSUME NEW d \in ProvClients, d # c PROVE ClientInv(d)'
    BY <1>0, <1>1, <1>2, <1>3, <1>4, <1>7, Untouched
<1>8. ClientInv(c)'
    <2>1. InOrder(c, 0)'
        <3>1. Got(0) = {}
            BY DEF Got
        <3>2. PICK P \in Seq(Opcodes) : P = write_provisioning_payloads
            BY <1>1, PayloadOrder
        <3>3. InFlight(P, 0, <<>>)
            BY DEF InFlight
        <3> QED BY <1>0, <1>1, <1>2, <1>3, <1>5, <3>1, <3>2, <3>3, SettingsStay DEF InOrder
    <2>2. Progress(c)'
        BY <2>1, <1>1, PayloadOrder, SettingsStay DEF Progress
    <2>3. SealedAsReceived(c)' /\ LightAhead(c)' /\ DoneIsDone(c)'
        BY <1>0, <1>1, <1>2, <1>3 DEF ClientInv, SealedAsReceived, LightAhead, DoneIsDone, Latest, IsUp
    <2>4. AttestedFirst(c)'
        BY <1>0, <1>1, <1>2, SettingsStay DEF ClientInv, AttestedFirst
    <2> QED BY <2>2, <2>3, <2>4 DEF ClientInv
<1> QED BY <1>4, <1>6, <1>7, <1>8 DEF ProvisioningInv

\* What a client got of the payloads in their order.
LEMMA GotInOrder ==
    ASSUME ProvisioningTyped, NEW n \in 0 .. Len(write_provisioning_payloads)
    PROVE  /\ "ShieldingKey" \in Got(n) <=> n >= 1
           /\ "State" \in Got(n) => "StateKey" \in Got(n) /\ n >= 3
           /\ "StateKey" \in Got(n) => n >= 2
           /\ "LightClient" \in Got(n) => n = Len(write_provisioning_payloads)
           /\ Got(n) # {} => n >= 1
<1>1. PICK P \in Seq(Opcodes) : P = write_provisioning_payloads
    BY PayloadOrder
<1>2. /\ Len(P) \in {2, 4} /\ P[1] = "ShieldingKey"
      /\ \A i \in 1 .. Len(P) :
            /\ P[i] = "StateKey" => i = 2
            /\ P[i] = "State" => i = 3 /\ P[2] = "StateKey"
            /\ P[i] = "LightClient" => i = Len(P)
    BY <1>1, PayloadOrder
<1>3. Got(n) = {P[i] : i \in 1 .. n} /\ n \in 0 .. Len(P) /\ n \in Nat
    BY <1>1 DEF Got
<1>4. \A x : x \in Got(n) => \E i \in 1 .. n : x = P[i] /\ i \in 1 .. Len(P)
    BY <1>2, <1>3
<1>5. ASSUME n >= 1 PROVE "ShieldingKey" \in Got(n)
    <2>1. 1 \in 1 .. n
        BY <1>3, <1>5
    <2> QED BY <1>2, <1>3, <2>1
<1>6. Got(n) # {} => n >= 1
    BY <1>3
<1>7. "ShieldingKey" \in Got(n) => n >= 1
    BY <1>6
<1>8. ("StateKey" \in Got(n) => n >= 2) /\ ("LightClient" \in Got(n) => n = Len(P))
    BY <1>2, <1>3, <1>4
<1>9. ASSUME "State" \in Got(n) PROVE "StateKey" \in Got(n) /\ n >= 3
    <2>1. PICK i \in 1 .. n : P[i] = "State" /\ i \in 1 .. Len(P)
        BY <1>4, <1>9
    <2>2. i = 3 /\ P[2] = "StateKey"
        BY <1>2, <2>1
    <2>3. 2 \in 1 .. n /\ n >= 3
        BY <1>3, <2>1, <2>2
    <2> QED BY <1>3, <2>2, <2>3
<1> QED BY <1>1, <1>5, <1>6, <1>7, <1>8, <1>9

\* The worker goes down in the middle of a request or not: the keys it was not sealing stay.
LEMMA WentDown ==
    ASSUME ProvisioningInv, NEW c \in ProvClients, GoDown(c),
           sealedKeys' \in [ProvClients -> [shielding : Keys, state : Keys]],
           \A d \in ProvClients : d # c => sealedKeys'[d] = sealedKeys[d],
           \/ sealedKeys'[c] = sealedKeys[c]
           \/ /\ wire[c].sent # <<>> /\ wire[c].sent[1].opcode = "ShieldingKey"
              /\ sealedKeys'[c].shielding = TornKey /\ sealedKeys'[c].state = sealedKeys[c].state
           \/ /\ wire[c].sent # <<>> /\ wire[c].sent[1].opcode = "StateKey"
              /\ sealedKeys'[c].state = TornKey /\ sealedKeys'[c].shielding = sealedKeys[c].shielding,
           UNCHANGED <<settingVars, provided, received, sealedStates, sealedLight>>
    PROVE  ProvisioningInv'
<1>1. /\ ProvisioningTyped /\ SessionStands /\ (\A d \in ProvClients : ClientInv(d)) /\ c # Provider
      /\ provided'.light >= provided.light /\ UNCHANGED settingVars /\ TornKey # Provider
    BY InvParts DEF TornKey, Provider
<1>2. /\ wire' \in [ProvClients -> Wires] /\ wire'[c] = Closed /\ wire'[c].sent = <<>> /\ wire'[c].end = "closed"
      /\ \A d \in ProvClients : d # c => wire'[d] = wire[d]
    <2>1. wire \in [ProvClients -> Wires]
        BY <1>1, WireOf
    <2> QED BY <2>1 DEF Wires, GoDown, Closed
<1>3. /\ session' \in [client : ProvParties, todo : Seq(Opcodes), live : BOOLEAN]
      /\ session'.client = session.client /\ session'.todo = session.todo
      /\ IF session.client = c THEN ~session'.live ELSE session' = session
    BY <1>1, EndSessionTyped DEF GoDown
<1>4. /\ loaded' \in [ProvClients -> States] /\ loaded'[c] = NoLoaded
      /\ \A d \in ProvClients : d # c => loaded'[d] = loaded[d]
    <2>1. NoLoaded \in States
        BY DEF NoLoaded, EmptyState, EmptyHeight, States
    <2> QED BY <1>1, <2>1 DEF GoDown, ProvisioningTyped
<1>5. /\ outcome' \in [ProvClients -> {"none", "ok"}] /\ (outcome'[c] = "ok" => outcome[c] = "ok")
      /\ \A d \in ProvClients : d # c => outcome'[d] = outcome[d]
    BY <1>1 DEF GoDown, ProvisioningTyped
<1>6. ProvisioningTyped'
    BY <1>1, <1>2, <1>3, <1>4, <1>5 DEF ProvisioningTyped, settingVars, Wires
<1>7. SessionStands'
    BY <1>1, <1>2, <1>3 DEF SessionStands
<1>8. ASSUME NEW d \in ProvClients, d # c PROVE ClientInv(d)'
    BY <1>1, <1>2, <1>3, <1>4, <1>5, <1>6, <1>8, Untouched
<1>9. ClientInv(c)'
    <2>1. PICK n \in 0 .. Len(write_provisioning_payloads) : InOrder(c, n)
        BY <1>1 DEF ClientInv, Progress
    <2>2. PICK P \in Seq(Opcodes) : P = write_provisioning_payloads
        BY <1>1, PayloadOrder
    <2>3. PICK sent \in Seq(Payloads) : sent = wire[c].sent
        BY <1>1, WireOf
    <2>4. n \in Nat /\ Len(P) \in Nat /\ n <= Len(P) /\ InFlight(P, n, sent) /\ received[c] = Got(n)
        BY <2>1, <2>2, <2>3 DEF InOrder
    <2>5. InFlight(P, n, <<>>)
        BY <2>4 DEF InFlight
    <2>6. Progress(c)'
        <3>1. InOrder(c, n)'
            BY <1>1, <1>2, <1>3, <2>2, <2>4, <2>5, SettingsStay DEF InOrder
        <3> QED BY <1>1, <2>1, <3>1, SettingsStay DEF Progress
    <2>7. sent # <<>> => sent[1].opcode = P[n + 1] /\ n + 1 \in 1 .. Len(P)
        BY <2>3, <2>4 DEF InFlight
    <2>8. \/ sealedKeys'[c] = sealedKeys[c]
          \/ sealedKeys'[c].state = sealedKeys[c].state /\ "ShieldingKey" \notin received[c] /\ sent # <<>>
             /\ sealedKeys'[c].shielding = TornKey
          \/ sealedKeys'[c].shielding = sealedKeys[c].shielding /\ "StateKey" \notin received[c] /\ sent # <<>>
             /\ sealedKeys'[c].state = TornKey
        <3>1. ASSUME sent # <<>>, sent[1].opcode = "ShieldingKey" PROVE "ShieldingKey" \notin received[c]
            <4>1. n + 1 = 1
                BY <1>1, <2>2, <2>7, <3>1, PayloadOrder
            <4> QED BY <1>1, <2>1, <2>4, <4>1, GotInOrder
        <3>2. ASSUME sent # <<>>, sent[1].opcode = "StateKey" PROVE "StateKey" \notin received[c]
            <4>1. n + 1 = 2
                BY <1>1, <2>2, <2>7, <3>2, PayloadOrder
            <4> QED BY <1>1, <2>1, <2>4, <4>1, GotInOrder
        <3> QED BY <2>3, <3>1, <3>2
    <2>9. SealedAsReceived(c)'
        <3>1. "State" \in received[c] => "StateKey" \in received[c]
            BY <1>1, <2>1, <2>4, GotInOrder
        <3> QED BY <1>1, <1>4, <2>8, <3>1 DEF ClientInv, SealedAsReceived, Latest, IsUp
    <2>10. LightAhead(c)'
        BY <1>1, <1>2 DEF ClientInv, LightAhead, Latest
    <2>11. DoneIsDone(c)'
        <3>1. outcome[c] = "ok" => sent = <<>>
            BY <1>1, <2>3 DEF ClientInv, DoneIsDone, Closed
        <3>2. outcome[c] = "ok" => sealedKeys'[c] = sealedKeys[c]
            BY <2>8, <3>1
        <3> QED BY <1>1, <1>2, <1>4, <1>5, <3>2 DEF ClientInv, DoneIsDone, Latest, IsUp
    <2>12. AttestedFirst(c)'
        BY <1>1, <1>2, <1>3, <2>8, SettingsStay DEF ClientInv, AttestedFirst
    <2> QED BY <2>6, <2>9, <2>10, <2>11, <2>12 DEF ClientInv
<1> QED BY <1>6, <1>7, <1>8, <1>9 DEF ProvisioningInv

LEMMA RequestFailsKeeps ==
    ASSUME ProvisioningInv, NEW c \in ProvClients, request_fails(c)
    PROVE  ProvisioningInv'
<1>1. sealedKeys \in [ProvClients -> [shielding : Keys, state : Keys]]
    BY InvParts DEF ProvisioningTyped
<1> QED BY <1>1, WentDown DEF request_fails

LEMMA CrashClientKeeps ==
    ASSUME ProvisioningInv, NEW c \in ProvClients, crash_client(c)
    PROVE  ProvisioningInv'
<1>1. sealedKeys \in [ProvClients -> [shielding : Keys, state : Keys]] /\ ProvisioningTyped
    BY InvParts DEF ProvisioningTyped
<1>2. /\ GoDown(c) /\ UNCHANGED <<settingVars, provided, received, sealedStates, sealedLight>>
    BY DEF crash_client
<1>3. wire[c].sent \in Seq(Payloads) /\ (wire[c].sent # <<>> => Head(wire[c].sent) = wire[c].sent[1])
    <2>1. wire[c].sent \in Seq(Payloads)
        BY <1>1, WireOf
    <2> QED BY <2>1
<1>4. \/ sealedKeys' = sealedKeys
      \/ /\ wire[c].sent # <<>> /\ wire[c].sent[1].opcode = "ShieldingKey"
         /\ sealedKeys' = [sealedKeys EXCEPT ![c].shielding = TornKey]
      \/ /\ wire[c].sent # <<>> /\ wire[c].sent[1].opcode = "StateKey"
         /\ sealedKeys' = [sealedKeys EXCEPT ![c].state = TornKey]
    BY <1>3 DEF crash_client
<1>5. TornKey \in Keys
    BY DEF Keys
<1> QED BY <1>1, <1>2, <1>4, <1>5, WentDown

\* Receiving the first payload in flight.
LEMMA PayloadReceived ==
    ASSUME NEW P \in Seq(Opcodes), NEW n \in 0 .. Len(P), NEW sent \in Seq(Payloads), sent # <<>>, InFlight(P, n, sent)
    PROVE  /\ n + 1 \in 1 .. Len(P) /\ sent[1].opcode = P[n + 1] /\ Head(sent) = sent[1]
           /\ Tail(sent) \in Seq(Payloads) /\ Len(Tail(sent)) = Len(sent) - 1
           /\ \A i \in 1 .. Len(Tail(sent)) : i + 1 \in 1 .. Len(sent) /\ Tail(sent)[i] = sent[i + 1]
           /\ InFlight(P, n + 1, Tail(sent))
           /\ \A todo \in Seq(Opcodes) : ToWrite(P, n, sent, todo) => ToWrite(P, n + 1, Tail(sent), todo)
<1>1. /\ Head(sent) = sent[1] /\ Tail(sent) \in Seq(Payloads) /\ Len(Tail(sent)) = Len(sent) - 1 /\ Len(sent) \in Nat
      /\ Len(sent) >= 1 /\ n \in Nat /\ Len(P) \in Nat
    OBVIOUS
<1>2. \A i \in 1 .. Len(sent) - 1 : Tail(sent)[i] = sent[i + 1]
    OBVIOUS
<1>3. PICK rest \in Seq(Payloads) : rest = Tail(sent)
    BY <1>1
<1>4. n + 1 \in 1 .. Len(P) /\ sent[1].opcode = P[n + 1]
    BY <1>1 DEF InFlight
<1>5. InFlight(P, n + 1, rest)
    <2>1. (n + 1) + Len(rest) <= Len(P)
        BY <1>1, <1>3 DEF InFlight
    <2>2. ASSUME NEW i \in 1 .. Len(rest) PROVE rest[i].opcode = P[(n + 1) + i]
        <3>1. i + 1 \in 1 .. Len(sent) /\ n + (i + 1) = (n + 1) + i /\ rest[i] = sent[i + 1]
            BY <1>1, <1>2, <1>3
        <3> QED BY <3>1 DEF InFlight
    <2> QED BY <2>1, <2>2 DEF InFlight
<1>6. ASSUME NEW todo \in Seq(Opcodes), ToWrite(P, n, sent, todo) PROVE ToWrite(P, n + 1, rest, todo)
    <2>1. Len(todo) = Len(P) - (n + 1) - Len(rest)
        BY <1>1, <1>3, <1>6 DEF ToWrite
    <2>2. ASSUME NEW i \in 1 .. Len(todo) PROVE todo[i] = P[(n + 1) + Len(rest) + i]
        <3>1. n + Len(sent) + i = (n + 1) + Len(rest) + i
            BY <1>1, <1>3
        <3> QED BY <1>6, <3>1 DEF ToWrite
    <2> QED BY <2>1, <2>2 DEF ToWrite
<1> QED BY <1>1, <1>2, <1>3, <1>4, <1>5, <1>6

LEMMA GotNext ==
    ASSUME ProvisioningTyped, NEW n \in Nat
    PROVE  Got(n + 1) = Got(n) \cup {write_provisioning_payloads[n + 1]}
<1>1. \A i : i \in 1 .. n + 1 <=> i \in 1 .. n \/ i = n + 1
    OBVIOUS
<1> QED BY <1>1 DEF Got

\* A client reads the next payload, opcode by opcode.
LEMMA ReadAndSealKeeps ==
    ASSUME ProvisioningInv, NEW c \in ProvClients, read_and_seal(c)
    PROVE  ProvisioningInv'
<1>1. /\ ProvisioningTyped /\ SessionStands /\ (\A d \in ProvClients : ClientInv(d)) /\ c # Provider
      /\ provided'.light >= provided.light /\ UNCHANGED <<settingVars, provided, session, outcome>>
      /\ UNCHANGED settingVars /\ IsUp(c)
    BY InvParts DEF read_and_seal
<1>2. PICK P \in Seq(Opcodes) : P = write_provisioning_payloads
    BY <1>1, PayloadOrder
<1>3. PICK sent \in Seq(Payloads) : sent = wire[c].sent
    BY <1>1, WireOf
<1>4. PICK n \in 0 .. Len(P) : InOrder(c, n)
    BY <1>1, <1>2 DEF ClientInv, Progress
<1>5. sent # <<>> /\ InFlight(P, n, sent) /\ received[c] = Got(n)
    BY <1>2, <1>3, <1>4 DEF read_and_seal, InOrder
<1>6. /\ n + 1 \in 1 .. Len(P) /\ sent[1].opcode = P[n + 1] /\ Head(sent) = sent[1]
      /\ Tail(sent) \in Seq(Payloads) /\ Len(Tail(sent)) = Len(sent) - 1
      /\ \A i \in 1 .. Len(Tail(sent)) : i + 1 \in 1 .. Len(sent) /\ Tail(sent)[i] = sent[i + 1]
      /\ InFlight(P, n + 1, Tail(sent))
      /\ \A todo \in Seq(Opcodes) : ToWrite(P, n, sent, todo) => ToWrite(P, n + 1, Tail(sent), todo)
    BY <1>5, PayloadReceived
<1>7. PICK payload : payload = sent[1]
    OBVIOUS
<1>8. PICK rest \in Seq(Payloads) : rest = Tail(sent)
    BY <1>6
<1>9. /\ wire' \in [ProvClients -> Wires] /\ wire'[c].sent = rest /\ wire'[c].end = wire[c].end
      /\ \A d \in ProvClients : d # c => wire'[d] = wire[d]
    <2>1. wire \in [ProvClients -> Wires] /\ wire[c] \in Wires
        BY <1>1, WireOf
    <2>2. wire' = [wire EXCEPT ![c].sent = rest]
        BY <1>3, <1>8 DEF read_and_seal
    <2> QED BY <2>1, <2>2 DEF Wires
<1>10. /\ payload \in Payloads /\ payload.opcode \in Opcodes /\ payload.opcode = P[n + 1]
       /\ payload.opcode \in {"State", "LightClient"} => payload.height \in Nat
    <2>1. 1 \in 1 .. Len(sent)
        BY <1>5
    <2> QED BY <1>6, <1>7, <2>1, PayloadHeights
<1>11. /\ received' \in [ProvClients -> SUBSET Opcodes] /\ received'[c] = received[c] \cup {payload.opcode}
       /\ \A d \in ProvClients : d # c => received'[d] = received[d]
    <2>1. received' = [received EXCEPT ![c] = @ \cup {payload.opcode}]
        BY <1>3, <1>6, <1>7 DEF read_and_seal
    <2> QED BY <1>1, <1>10, <2>1 DEF ProvisioningTyped
<1>12. received'[c] = Got(n + 1)
    BY <1>1, <1>2, <1>5, <1>10, <1>11, GotNext
<1>13. Progress(c)'
    <2>1. session.todo \in Seq(Opcodes)
        BY <1>1 DEF ProvisioningTyped
    <2>2. session.live /\ session.client = c => ToWrite(P, n + 1, rest, session.todo)
        BY <1>2, <1>3, <1>4, <1>6, <1>8, <2>1 DEF InOrder
    <2>3. InOrder(c, n + 1)'
        <3>1. write_provisioning_payloads' = P /\ Got(n + 1)' = Got(n + 1)
            BY <1>1, <1>2, SettingsStay
        <3> QED BY <1>1, <1>6, <1>8, <1>9, <1>12, <2>2, <3>1 DEF InOrder
    <2>4. n + 1 \in 0 .. Len(P)
        BY <1>6
    <2> QED BY <1>1, <1>2, <2>3, <2>4, SettingsStay DEF Progress
<1>14. SessionStands'
    BY <1>1, <1>9 DEF SessionStands
<1>15. outcome[c] # "ok"
    BY <1>1, <1>3, <1>5 DEF ClientInv, DoneIsDone, Closed
<1>16. DoneIsDone(c)'
    BY <1>1, <1>15 DEF DoneIsDone
<1>17. Attested(c)'
    BY <1>1, <1>3, <1>5, SettingsStay DEF ClientInv, AttestedFirst
<1>18. AttestedFirst(c)'
    BY <1>17 DEF AttestedFirst
<1>19. /\ SealedAsReceived(c) /\ LightAhead(c) /\ sealedKeys[c].state # TornKey
       /\ sealedKeys \in [ProvClients -> [shielding : Keys, state : Keys]] /\ Provider \in Keys
       /\ sealedStates \in [ProvClients -> Seq([state : States, key : Keys])]
       /\ sealedLight \in [ProvClients -> Nat] /\ loaded \in [ProvClients -> States]
    BY <1>1 DEF ClientInv, SealedAsReceived, ProvisioningTyped, Keys, ProvParties
<1>20. \A i \in 1 .. Len(rest) :
          /\ rest[i].opcode = "State" => rest[i].height <= provided.light
          /\ rest[i].opcode = "LightClient" =>
                /\ "State" \in received[c] => Latest(c).state.height <= rest[i].height
                /\ \A j \in 1 .. Len(rest) : rest[j].opcode = "State" => rest[j].height <= rest[i].height
                /\ payload.opcode = "State" => payload.height <= rest[i].height
    <2>1. \A i \in 1 .. Len(rest) : i + 1 \in 1 .. Len(sent) /\ rest[i] = sent[i + 1]
        BY <1>6, <1>8
    <2>2. 1 \in 1 .. Len(sent) /\ payload = sent[1]
        BY <1>5, <1>7
    <2>3. \A i \in 1 .. Len(sent) :
             /\ sent[i].opcode = "State" => sent[i].height <= provided.light
             /\ sent[i].opcode = "LightClient" =>
                   /\ "State" \in received[c] => Latest(c).state.height <= sent[i].height
                   /\ \A j \in 1 .. Len(sent) : sent[j].opcode = "State" => sent[j].height <= sent[i].height
        BY <1>3, <1>19 DEF LightAhead
    <2> SUFFICES ASSUME NEW i \in 1 .. Len(rest)
                 PROVE  /\ rest[i].opcode = "State" => rest[i].height <= provided.light
                        /\ rest[i].opcode = "LightClient" =>
                              /\ "State" \in received[c] => Latest(c).state.height <= rest[i].height
                              /\ \A j \in 1 .. Len(rest) : rest[j].opcode = "State" => rest[j].height <= rest[i].height
                              /\ payload.opcode = "State" => payload.height <= rest[i].height
        OBVIOUS
    <2>4. PICK k \in 1 .. Len(sent) : rest[i] = sent[k]
        BY <2>1
    <2>5. \A j \in 1 .. Len(rest) : \E l \in 1 .. Len(sent) : rest[j] = sent[l]
        BY <2>1
    <2> QED BY <2>2, <2>3, <2>4, <2>5
<1>21. payload.opcode = "State" => payload.height <= provided.light
    <2>1. 1 \in 1 .. Len(sent) /\ payload = sent[1]
        BY <1>5, <1>7
    <2> QED BY <1>3, <1>19, <2>1 DEF LightAhead
\* What the payload does to the files: what is shown of each opcode.
<1>22. ASSUME sealedKeys' \in [ProvClients -> [shielding : Keys, state : Keys]],
              sealedStates' \in [ProvClients -> Seq([state : States, key : Keys])],
              sealedLight' \in [ProvClients -> Nat], loaded' \in [ProvClients -> States],
              \A d \in ProvClients : d # c => /\ sealedKeys'[d] = sealedKeys[d] /\ sealedStates'[d] = sealedStates[d]
                                              /\ sealedLight'[d] = sealedLight[d] /\ loaded'[d] = loaded[d],
              SealedAsReceived(c)', LightAhead(c)'
       PROVE  ProvisioningInv'
    <2>1. ProvisioningTyped'
        BY <1>1, <1>9, <1>11, <1>22 DEF ProvisioningTyped, settingVars, Wires
    <2>2. ASSUME NEW d \in ProvClients, d # c PROVE ClientInv(d)'
        BY <1>1, <1>9, <1>11, <1>22, <2>1, <2>2, Untouched
    <2>3. ClientInv(c)'
        BY <1>13, <1>16, <1>18, <1>22 DEF ClientInv
    <2> QED BY <1>14, <2>1, <2>2, <2>3 DEF ProvisioningInv
<1>23. CASE payload.opcode = "ShieldingKey"
    <2>1. sealedKeys' = [sealedKeys EXCEPT ![c]["shielding"] = Provider] /\ UNCHANGED <<sealedStates, sealedLight, loaded>>
        BY <1>3, <1>6, <1>7, <1>23 DEF read_and_seal, seal_shielding_key, store_key
    <2>2. /\ sealedKeys' \in [ProvClients -> [shielding : Keys, state : Keys]]
          /\ sealedKeys'[c].shielding = Provider /\ sealedKeys'[c].state = sealedKeys[c].state
          /\ \A d \in ProvClients : d # c => sealedKeys'[d] = sealedKeys[d]
        BY <1>19, <2>1
    <2>3. SealedAsReceived(c)'
        BY <1>11, <1>19, <1>23, <2>1, <2>2 DEF SealedAsReceived, Latest, IsUp
    <2>4. LightAhead(c)'
        BY <1>1, <1>9, <1>11, <1>19, <1>20, <1>23, <2>1 DEF LightAhead, Latest
    <2> QED BY <1>19, <1>22, <2>1, <2>2, <2>3, <2>4
<1>24. CASE payload.opcode = "StateKey"
    <2>1. sealedKeys' = [sealedKeys EXCEPT ![c]["state"] = Provider] /\ UNCHANGED <<sealedStates, sealedLight, loaded>>
        BY <1>3, <1>6, <1>7, <1>24 DEF read_and_seal, seal_state_key, store_key
    <2>2. /\ sealedKeys' \in [ProvClients -> [shielding : Keys, state : Keys]]
          /\ sealedKeys'[c].state = Provider /\ sealedKeys'[c].shielding = sealedKeys[c].shielding
          /\ \A d \in ProvClients : d # c => sealedKeys'[d] = sealedKeys[d]
        BY <1>19, <2>1
    <2>3. SealedAsReceived(c)'
        BY <1>11, <1>19, <1>24, <2>1, <2>2 DEF SealedAsReceived, Latest, IsUp, Provider, TornKey
    <2>4. LightAhead(c)'
        BY <1>1, <1>9, <1>11, <1>19, <1>20, <1>24, <2>1 DEF LightAhead, Latest
    <2> QED BY <1>19, <1>22, <2>1, <2>2, <2>3, <2>4
<1>25. CASE payload.opcode = "State"
    <2>1. PICK state : state = [height |-> payload.height, account |-> Provider]
        OBVIOUS
    <2>2. PICK file : file = [state |-> state, key |-> sealedKeys[c].state]
        OBVIOUS
    <2>3. state \in States /\ file \in [state : States, key : Keys] /\ sealedStates[c] \in Seq([state : States, key : Keys])
        <3>1. payload.height \in Int /\ sealedKeys[c].state \in Keys
            BY <1>10, <1>19, <1>25
        <3>2. state \in States
            BY <2>1, <3>1 DEF States, ProvParties
        <3> QED BY <1>19, <2>2, <3>1, <3>2
    <2>4. /\ loaded' = [loaded EXCEPT ![c] = state] /\ UNCHANGED <<sealedKeys, sealedLight>>
          /\ sealedStates' = [sealedStates EXCEPT ![c] = <<file>> \o @]
        BY <1>3, <1>6, <1>7, <1>25, <2>1, <2>2 DEF read_and_seal, seal_state, reset_state
    <2>5. /\ <<file>> \o sealedStates[c] \in Seq([state : States, key : Keys])
          /\ (<<file>> \o sealedStates[c])[1] = file /\ <<file>> \o sealedStates[c] # <<>>
        BY <2>3
    <2>6. /\ sealedStates' \in [ProvClients -> Seq([state : States, key : Keys])] /\ loaded' \in [ProvClients -> States]
          /\ sealedStates'[c] # <<>> /\ Latest(c)' = file /\ loaded'[c] = state
          /\ \A d \in ProvClients : d # c => sealedStates'[d] = sealedStates[d] /\ loaded'[d] = loaded[d]
        BY <1>19, <2>3, <2>4, <2>5 DEF Latest
    <2>7. "StateKey" \in received[c] /\ "LightClient" \notin received[c]
        <3>1. n + 1 = 3
            BY <1>1, <1>2, <1>6, <1>10, <1>25, PayloadOrder
        <3>2. 2 \in 1 .. n /\ P[2] = "StateKey"
            <4>0. n \in Nat /\ P[n + 1] = "State" /\ n + 1 \in 1 .. Len(P)
                BY <1>6, <1>10, <1>25
            <4>1. P[2] = "StateKey" /\ n \in Nat
                BY <1>1, <1>2, <4>0, PayloadOrder
            <4> QED BY <3>1, <4>1
        <3>3. Len(P) \in {2, 4} /\ n \in Nat
            BY <1>1, <1>2, PayloadOrder
        <3>4. n # Len(P)
            BY <1>6, <3>1, <3>3
        <3> QED BY <1>1, <1>2, <1>5, <3>2, <3>4, GotInOrder DEF Got
    <2>8. SealedAsReceived(c)'
        BY <1>11, <1>19, <1>25, <2>1, <2>2, <2>4, <2>6, <2>7 DEF SealedAsReceived
    <2>9. LightAhead(c)'
        <3>1. Latest(c)'.state.height = payload.height /\ "LightClient" \notin received'[c]
            BY <1>11, <1>25, <2>1, <2>2, <2>6, <2>7
        <3> QED BY <1>1, <1>9, <1>20, <1>21, <1>25, <3>1 DEF LightAhead
    <2> QED BY <1>19, <1>22, <2>4, <2>6, <2>8, <2>9
<1>26. CASE payload.opcode = "LightClient"
    <2>1. sealedLight' = [sealedLight EXCEPT ![c] = payload.height] /\ UNCHANGED <<sealedKeys, sealedStates, loaded>>
        BY <1>3, <1>6, <1>7, <1>26 DEF read_and_seal, seal_light_client_state
    <2>2. /\ sealedLight' \in [ProvClients -> Nat] /\ sealedLight'[c] = payload.height
          /\ \A d \in ProvClients : d # c => sealedLight'[d] = sealedLight[d]
        BY <1>10, <1>19, <1>26, <2>1
    <2>3. SealedAsReceived(c)'
        BY <1>11, <1>19, <1>26, <2>1 DEF SealedAsReceived, Latest, IsUp
    <2>4. "State" \in received[c] => Latest(c).state.height <= payload.height
        <3>1. 1 \in 1 .. Len(sent) /\ payload = sent[1]
            BY <1>5, <1>7
        <3> QED BY <1>3, <1>19, <1>26, <3>1 DEF LightAhead
    <2>5. LightAhead(c)'
        BY <1>1, <1>9, <1>11, <1>19, <1>20, <1>26, <2>1, <2>2, <2>4 DEF LightAhead, Latest
    <2> QED BY <1>19, <1>22, <2>1, <2>2, <2>3, <2>5
<1> QED BY <1>10, <1>23, <1>24, <1>25, <1>26 DEF Opcodes

\* The request is over without an error.
LEMMA ReadAndSealAllKeeps ==
    ASSUME ProvisioningInv, NEW c \in ProvClients, read_and_seal_all(c)
    PROVE  ProvisioningInv'
<1>1. /\ ProvisioningTyped /\ SessionStands /\ (\A d \in ProvClients : ClientInv(d)) /\ c # Provider
      /\ provided'.light >= provided.light /\ UNCHANGED <<settingVars, provided, session, received>>
      /\ UNCHANGED settingVars /\ IsUp(c) /\ wire[c].end = "eof" /\ wire[c].sent = <<>>
    BY InvParts DEF read_and_seal_all
<1>2. PICK n \in 0 .. Len(write_provisioning_payloads) : InOrder(c, n)
    BY <1>1 DEF ClientInv, Progress
<1>3. received[c] = Got(n)
    BY <1>2 DEF InOrder
<1>4. /\ wire' \in [ProvClients -> Wires] /\ wire'[c] = Closed /\ wire'[c].sent = <<>>
      /\ \A d \in ProvClients : d # c => wire'[d] = wire[d]
    <2>1. wire \in [ProvClients -> Wires]
        BY <1>1, WireOf
    <2> QED BY <2>1 DEF Wires, read_and_seal_all, Closed
<1>5. /\ outcome' \in [ProvClients -> {"none", "ok"}] /\ outcome'[c] = "ok"
      /\ \A d \in ProvClients : d # c => outcome'[d] = outcome[d]
    BY <1>1 DEF ProvisioningTyped, read_and_seal_all
<1>6. ~(session.live /\ session.client = c)
    BY <1>1 DEF SessionStands
<1>7. SessionStands'
    BY <1>1, <1>4, <1>6 DEF SessionStands
<1>8. Progress(c)'
    <2>1. InOrder(c, n)'
        BY <1>1, <1>2, <1>4, <1>6, SettingsStay DEF InOrder
    <2> QED BY <1>1, <1>2, <2>1, SettingsStay DEF Progress
<1>9. /\ SealedAsReceived(c) /\ LightAhead(c) /\ sealedKeys[c].state # TornKey /\ sealedStates[c] # <<>>
      /\ sealedKeys \in [ProvClients -> [shielding : Keys, state : Keys]]
      /\ sealedStates \in [ProvClients -> Seq([state : States, key : Keys])]
      /\ sealedLight \in [ProvClients -> Nat] /\ loaded \in [ProvClients -> States]
    BY <1>1 DEF ClientInv, SealedAsReceived, ProvisioningTyped
<1>10. ASSUME sealedStates' \in [ProvClients -> Seq([state : States, key : Keys])], loaded' \in [ProvClients -> States],
              UNCHANGED <<sealedKeys, sealedLight>>,
              \A d \in ProvClients : d # c => sealedStates'[d] = sealedStates[d] /\ loaded'[d] = loaded[d],
              SealedAsReceived(c)', LightAhead(c)', DoneIsDone(c)'
       PROVE  ProvisioningInv'
    <2>1. ProvisioningTyped'
        BY <1>1, <1>4, <1>5, <1>10 DEF ProvisioningTyped, settingVars, Wires
    <2>2. ASSUME NEW d \in ProvClients, d # c PROVE ClientInv(d)'
        BY <1>1, <1>4, <1>5, <1>10, <2>1, <2>2, Untouched
    <2>3. AttestedFirst(c)'
        BY <1>1, <1>4, <1>10, SettingsStay DEF ClientInv, AttestedFirst
    <2>4. ClientInv(c)'
        BY <1>8, <1>10, <2>3 DEF ClientInv
    <2> QED BY <1>7, <2>1, <2>2, <2>4 DEF ProvisioningInv
<1>11. CASE "ShieldingKey" \in received[c] /\ "State" \notin received[c]
    <2>1. sealedKeys[c].shielding = Provider
        BY <1>9, <1>11 DEF SealedAsReceived
    <2>2. PICK state : state = [height |-> EmptyHeight, account |-> Provider]
        OBVIOUS
    <2>3. PICK file : file = [state |-> state, key |-> sealedKeys[c].state]
        OBVIOUS
    <2>4. state \in States /\ file \in [state : States, key : Keys] /\ sealedStates[c] \in Seq([state : States, key : Keys])
        <3>1. state \in States
            BY <2>2 DEF States, ProvParties, EmptyHeight
        <3>2. sealedKeys[c].state \in Keys
            BY <1>9
        <3> QED BY <1>9, <2>3, <3>1, <3>2
    <2>5. /\ loaded' = [loaded EXCEPT ![c] = state] /\ UNCHANGED <<sealedKeys, sealedLight>>
          /\ sealedStates' = [sealedStates EXCEPT ![c] = <<file>> \o @]
        BY <1>11, <2>1, <2>2, <2>3 DEF read_and_seal_all, seal_new_empty_state, reset_state, EmptyState
    <2>6. /\ <<file>> \o sealedStates[c] \in Seq([state : States, key : Keys])
          /\ (<<file>> \o sealedStates[c])[1] = file /\ <<file>> \o sealedStates[c] # <<>>
        BY <2>4
    <2>7. /\ sealedStates' \in [ProvClients -> Seq([state : States, key : Keys])] /\ loaded' \in [ProvClients -> States]
          /\ sealedStates'[c] # <<>> /\ Latest(c)' = file /\ loaded'[c] = state
          /\ \A d \in ProvClients : d # c => sealedStates'[d] = sealedStates[d] /\ loaded'[d] = loaded[d]
        BY <1>9, <2>4, <2>5, <2>6 DEF Latest
    <2>8. SealedAsReceived(c)' /\ LightAhead(c)'
        BY <1>1, <1>4, <1>9, <1>11, <2>5, <2>7 DEF SealedAsReceived, LightAhead
    <2>9. DoneIsDone(c)'
        BY <1>4, <1>9, <2>1, <2>2, <2>3, <2>5, <2>7 DEF DoneIsDone
    <2> QED BY <1>10, <2>5, <2>7, <2>8, <2>9
<1>12. CASE ~("ShieldingKey" \in received[c] /\ "State" \notin received[c])
    <2>1. UNCHANGED <<sealedKeys, sealedStates, sealedLight, loaded>>
        BY <1>12 DEF read_and_seal_all
    <2>2. SealedAsReceived(c)' /\ LightAhead(c)'
        BY <1>1, <1>4, <1>9, <2>1 DEF SealedAsReceived, LightAhead, Latest, IsUp
    <2>3. received[c] # {} => {"ShieldingKey", "StateKey", "State"} \subseteq received[c]
        BY <1>1, <1>2, <1>3, <1>12, GotInOrder
    <2>4. DoneIsDone(c)'
        BY <1>1, <1>4, <1>9, <2>1, <2>3 DEF DoneIsDone, SealedAsReceived, Latest, IsUp
    <2> QED BY <1>9, <1>10, <2>1, <2>2, <2>4
<1> QED BY <1>11, <1>12

\* The least index of a set of indices.
LEMMA LeastIndex ==
    ASSUME NEW Q \in SUBSET Nat, Q # {}
    PROVE  \E i \in Q : \A j \in Q : i <= j
<1>1. PICK x \in Q : \A y \in Q : ~ (<<y, x>> \in OpToRel(<, Nat))
    BY WFMin, NatLessThanWellFounded
<1>2. ASSUME NEW y \in Q PROVE x <= y
    <2>1. ~ (y < x)
        BY <1>1 DEF OpToRel
    <2> QED BY <2>1
<1> QED BY <1>2

LEMMA RestartClientKeeps ==
    ASSUME ProvisioningInv, NEW c \in ProvClients, restart_client(c)
    PROVE  ProvisioningInv'
<1>1. /\ ProvisioningTyped /\ SessionStands /\ (\A d \in ProvClients : ClientInv(d)) /\ c # Provider /\ c # TornKey
      /\ provided'.light >= provided.light
      /\ UNCHANGED <<settingVars, provided, session, wire, received, sealedLight, outcome>>
      /\ UNCHANGED settingVars /\ ~IsUp(c)
    BY InvParts DEF restart_client
<1>2. /\ SealedAsReceived(c) /\ LightAhead(c) /\ sealedStates[c] # <<>>
      /\ sealedKeys \in [ProvClients -> [shielding : Keys, state : Keys]]
      /\ sealedStates \in [ProvClients -> Seq([state : States, key : Keys])]
      /\ sealedLight \in [ProvClients -> Nat] /\ loaded \in [ProvClients -> States]
    BY <1>1 DEF ClientInv, SealedAsReceived, ProvisioningTyped
<1>3. PICK key : key = get_aes_repository(c)
    OBVIOUS
<1>4. key \in Keys /\ key # TornKey /\ (sealedKeys[c].state # TornKey => key = sealedKeys[c].state)
    BY <1>1, <1>2, <1>3 DEF get_aes_repository, Keys, ProvParties
<1>5. PICK files \in Seq([state : States, key : Keys]) : files = sealedStates[c]
    BY <1>2
<1>6. PICK readable : readable = {i \in DOMAIN sealedStates[c] : sealedStates[c][i].key = key}
    OBVIOUS
<1>7. PICK latest : latest = CHOOSE i \in readable : \A j \in readable : i <= j
    OBVIOUS
<1>8. PICK state : state = IF readable # {} THEN files[latest].state ELSE EmptyState(sealedKeys[c].shielding)
    OBVIOUS
<1>9. /\ sealedKeys' = [sealedKeys EXCEPT ![c].state = key] /\ loaded' = [loaded EXCEPT ![c] = state]
      /\ sealedStates' = IF readable # {} THEN sealedStates
                         ELSE [sealedStates EXCEPT ![c] = <<[state |-> state, key |-> key]>> \o @]
    BY <1>3, <1>5, <1>6, <1>7, <1>8 DEF restart_client, get_rsa3072_repository
<1>10. readable # {} => latest \in readable /\ (1 \in readable => latest = 1)
    <2>0. DOMAIN sealedStates[c] = 1 .. Len(files)
        BY <1>5
    <2>1. readable \in SUBSET (1 .. Len(files)) /\ readable \in SUBSET Nat
        BY <1>6, <2>0
    <2>2. readable # {} => \E i \in readable : \A j \in readable : i <= j
        BY <2>1, LeastIndex
    <2>3. readable # {} => latest \in readable /\ \A j \in readable : latest <= j
        BY <1>7, <2>2
    <2>4. ASSUME readable # {}, 1 \in readable PROVE latest = 1
        <3>1. latest <= 1 /\ latest \in 1 .. Len(files)
            BY <2>1, <2>3, <2>4
        <3> QED BY <3>1
    <2> QED BY <2>3, <2>4
<1>11. state \in States
    <2>1. CASE readable # {}
        <3>1. latest \in DOMAIN files
            BY <1>5, <1>6, <1>10, <2>1
        <3>2. \A S : \A s \in Seq(S) : \A i \in DOMAIN s : s[i] \in S
            OBVIOUS
        <3>3. files[latest] \in [state : States, key : Keys]
            BY <3>1, <3>2
        <3> QED BY <1>8, <2>1, <3>3
    <2>2. CASE readable = {}
        <3>1. sealedKeys[c].shielding \in Keys
            BY <1>2
        <3> QED BY <1>8, <2>2, <3>1 DEF States, EmptyState, EmptyHeight, Keys, ProvParties
    <2> QED BY <2>1, <2>2
<1>12. /\ sealedKeys' \in [ProvClients -> [shielding : Keys, state : Keys]] /\ loaded' \in [ProvClients -> States]
       /\ sealedKeys'[c].shielding = sealedKeys[c].shielding /\ sealedKeys'[c].state = key /\ loaded'[c] = state
       /\ \A d \in ProvClients : d # c => sealedKeys'[d] = sealedKeys[d] /\ loaded'[d] = loaded[d]
    BY <1>2, <1>4, <1>9, <1>11
<1>13. /\ sealedStates' \in [ProvClients -> Seq([state : States, key : Keys])] /\ sealedStates'[c] # <<>>
       /\ \A d \in ProvClients : d # c => sealedStates'[d] = sealedStates[d]
       /\ readable # {} => Latest(c)' = Latest(c)
    <2>1. [state |-> state, key |-> key] \in [state : States, key : Keys]
        BY <1>4, <1>11
    <2>2. PICK file \in [state : States, key : Keys] : file = [state |-> state, key |-> key]
        BY <2>1
    <2>3. <<file>> \o files \in Seq([state : States, key : Keys]) /\ <<file>> \o files # <<>>
        OBVIOUS
    <2> QED BY <1>2, <1>5, <1>9, <2>2, <2>3 DEF Latest
<1>14. ProvisioningTyped'
    BY <1>1, <1>12, <1>13 DEF ProvisioningTyped, settingVars
<1>15. SessionStands'
    BY <1>1 DEF SessionStands
<1>16. ASSUME NEW d \in ProvClients, d # c PROVE ClientInv(d)'
    BY <1>1, <1>12, <1>13, <1>14, <1>16, Untouched
\* When the latest file is under the key that is sealed it is the one that is loaded.
<1>17. ASSUME Latest(c).key = key PROVE readable # {} /\ state = Latest(c).state
    <2>1. 1 \in DOMAIN sealedStates[c] /\ sealedStates[c][1].key = key
        BY <1>2, <1>5, <1>17 DEF Latest
    <2>2. latest = 1
        BY <1>6, <1>10, <2>1
    <2> QED BY <1>5, <1>6, <1>8, <2>1, <2>2 DEF Latest
<1>18. ClientInv(c)'
    <2>1. PICK n \in 0 .. Len(write_provisioning_payloads) : InOrder(c, n)
        BY <1>1 DEF ClientInv, Progress
    <2>2. Progress(c)'
        <3>1. InOrder(c, n)'
            BY <1>1, <2>1, SettingsStay DEF InOrder
        <3> QED BY <1>1, <2>1, <3>1, SettingsStay DEF Progress
    <2>3. ASSUME "State" \in received[c]
          PROVE  Latest(c).key = key /\ key = Provider /\ Latest(c).state.account = Provider
        <3>1. "StateKey" \in received[c]
            BY <1>1, <2>1, <2>3, GotInOrder DEF InOrder
        <3>2. sealedKeys[c].state = Provider /\ TornKey # Provider
            BY <1>2, <3>1 DEF SealedAsReceived, TornKey, Provider
        <3> QED BY <1>2, <1>4, <2>3, <3>2 DEF SealedAsReceived
    <2>4. "StateKey" \in received[c] => key = Provider
        <3>1. "StateKey" \in received[c] => sealedKeys[c].state = Provider /\ TornKey # Provider
            BY <1>2 DEF SealedAsReceived, TornKey, Provider
        <3> QED BY <1>4, <3>1
    <2>5. SealedAsReceived(c)'
        BY <1>1, <1>2, <1>4, <1>12, <1>13, <1>17, <2>3, <2>4 DEF SealedAsReceived
    <2>6. LightAhead(c)'
        BY <1>1, <1>2, <1>13, <1>17, <2>3 DEF LightAhead
    <2>7. DoneIsDone(c)'
        <3>1. DoneIsDone(c)
            BY <1>1 DEF ClientInv
        <3>2. outcome[c] = "ok" /\ received[c] # {} => Latest(c).key = key /\ key = sealedKeys[c].state
            BY <1>4, <3>1 DEF DoneIsDone
        <3> QED BY <1>1, <1>4, <1>12, <1>13, <1>17, <3>1, <3>2 DEF DoneIsDone
    <2>8. AttestedFirst(c)'
        <3>1. key = Provider => sealedKeys[c].state = Provider
            BY <1>1, <1>3 DEF get_aes_repository
        <3> QED BY <1>1, <1>12, <3>1, SettingsStay DEF ClientInv, AttestedFirst
    <2> QED BY <2>2, <2>5, <2>6, <2>7, <2>8 DEF ClientInv
<1> QED BY <1>14, <1>15, <1>16, <1>18 DEF ProvisioningInv

-----------------------------------------------------------------------------
(* Provisioning: the theorems.                                             *)

LEMMA ProvisioningInductive == ProvisioningInv /\ [ProvisioningNext]_provisioningVars => ProvisioningInv'
<1> SUFFICES ASSUME ProvisioningInv, [ProvisioningNext]_provisioningVars PROVE ProvisioningInv' OBVIOUS
<1>1. CASE UNCHANGED provisioningVars
    <2>1. UNCHANGED settingVars
        BY <1>1 DEF provisioningVars, settingVars
    <2>2. ProvisioningTyped' /\ SessionStands'
        BY <1>1 DEF provisioningVars, ProvisioningInv, ProvisioningTyped, SessionStands
    <2>3. ASSUME NEW d \in ProvClients PROVE ClientInv(d)'
        BY <1>1, <2>1, <2>2, InvParts, Untouched DEF provisioningVars
    <2> QED BY <2>2, <2>3 DEF ProvisioningInv
<1>2. CASE write_payload
    <2>1. PICK c \in ProvClients : c = session.client
        BY <1>2, ServedClient DEF write_payload, NoSession
    <2> QED BY <1>2, <2>1, WritePayloadKeeps
<1>3. ASSUME NEW c \in ProvClients,
             \/ request_state_provisioning(c) \/ handle_shard_request_from_client(c) \/ read_and_seal(c)
             \/ read_and_seal_all(c) \/ break_connection(c) \/ request_fails(c) \/ crash_client(c) \/ restart_client(c)
      PROVE  ProvisioningInv'
    BY <1>3, RequestStateProvisioningKeeps, HandleRequestKeeps, ReadAndSealKeeps, ReadAndSealAllKeeps,
       BreakConnectionKeeps, RequestFailsKeeps, CrashClientKeeps, RestartClientKeeps
<1> QED BY <1>1, <1>2, <1>3, ImportAtProviderKeeps, AddShardVaultProxyKeeps, ProvisioningFailsKeeps DEF ProvisioningNext

LEMMA ProvisioningInvariant == ProvisioningSpec => []ProvisioningInv
BY ProvisioningStarts, ProvisioningInductive, PTL DEF ProvisioningSpec

\* Without skip_ra and on EPID no secret goes to a client, and none is taken from a provider,
\* that did not present a report of the attestation service.
THEOREM SecretsOnlyToAttestedHolds == ProvisioningSpec => []SecretsOnlyToAttested
<1>1. ProvisioningInv => SecretsOnlyToAttested
    <2> SUFFICES ASSUME ProvisioningInv, ~skipRa, ~isDcap, NEW c \in ProvClients,
                        sealedKeys[c].shielding = Provider \/ sealedKeys[c].state = Provider \/ wire[c].sent # <<>>
                 PROVE  /\ ClientCert[c].signed /\ providerCert.signed
                        /\ ClientCert[c].mrEnclave = "self" \/ ClientCert[c].status = "GROUP_OUT_OF_DATE"
        BY DEF SecretsOnlyToAttested
    <2>1. Attested(c)
        BY DEF ProvisioningInv, ClientInv, AttestedFirst
    <2> QED BY <2>1 DEF Attested, verify_client_cert, verify_server_cert, verify_mra_cert, verify_attn_report
<1> QED BY <1>1, ProvisioningInvariant, PTL

\* Keys, state and light client of a worker that was told it is provisioned fit together,
\* wherever the connection ended and whenever the worker crashed.
THEOREM ProvisionedFitsHolds == ProvisioningSpec => []ProvisionedFits
<1>1. ASSUME ProvisioningInv, NEW c \in ProvClients, outcome[c] = "ok"
      PROVE  /\ IsUp(c) /\ received[c] # {} => loaded[c].account = sealedKeys[c].shielding
             /\ received[c] = Opcodes =>
                  /\ sealedKeys[c] = [shielding |-> Provider, state |-> Provider]
                  /\ Head(sealedStates[c]).key = sealedKeys[c].state
                  /\ sealedLight[c] >= Head(sealedStates[c]).state.height
    <2>1. ProvisioningTyped /\ SealedAsReceived(c) /\ LightAhead(c) /\ DoneIsDone(c) /\ sealedStates[c] # <<>>
        BY <1>1 DEF ProvisioningInv, ClientInv, SealedAsReceived
    <2>2. IsUp(c) /\ received[c] # {} => loaded[c].account = sealedKeys[c].shielding
        BY <1>1, <2>1 DEF DoneIsDone
    <2>3. ASSUME received[c] = Opcodes
          PROVE  /\ sealedKeys[c] = [shielding |-> Provider, state |-> Provider]
                 /\ Head(sealedStates[c]).key = sealedKeys[c].state
                 /\ sealedLight[c] >= Head(sealedStates[c]).state.height
        <3>1. "State" \in received[c] /\ "StateKey" \in received[c] /\ "ShieldingKey" \in received[c] /\ "LightClient" \in received[c]
            BY <2>3 DEF Opcodes
        <3>2. sealedKeys[c].shielding = Provider /\ sealedKeys[c].state = Provider
            BY <2>1, <3>1 DEF SealedAsReceived
        <3>3. sealedKeys[c] \in [shielding : Keys, state : Keys]
            BY <2>1 DEF ProvisioningTyped
        <3>4. sealedKeys[c] = [shielding |-> Provider, state |-> Provider]
            BY <3>2, <3>3
        <3>5. Head(sealedStates[c]) = Latest(c)
            BY <2>1 DEF Latest, ProvisioningTyped
        <3>6. Latest(c).key = Provider /\ Latest(c).state.height <= sealedLight[c]
            BY <2>1, <3>1 DEF SealedAsReceived, LightAhead
        <3>7. Latest(c).state.height \in Int /\ sealedLight[c] \in Nat
            BY <2>1, LatestTyped DEF ProvisioningTyped
        <3> QED BY <3>2, <3>4, <3>5, <3>6, <3>7
    <2> QED BY <2>2, <2>3
<1>2. ProvisioningInv => ProvisionedFits
    BY <1>1 DEF ProvisionedFits, AccountMatchesKey, ProvisionedIsUsable
<1> QED BY <1>2, ProvisioningInvariant, PTL

-----------------------------------------------------------------------------
WebSocketSpec == WebSocketInit /\ [][WebSocketNext]_webSocketVars

Connections == [peer : WsPeers, stream : {"TlsStream", "WebSocketHandshake", "Established", "Invalid"}, armed : BOOLEAN]

Signals == [kind : {"ShutDown"}] \cup [kind : {"SendResponse"}, token : Int, peer : WsPeers]

\* A token was given out, and while its connection is there it is the one of that peer.
TokenOf(t, p) == t \in 11 .. wsId /\ p \in WsPeers /\ (t \in DOMAIN wsConns => wsConns[t].peer = p)

WebSocketInv ==
    /\ wsId \in Nat /\ wsId >= 10 /\ wsRun \in {"new", "running", "stopped"}
    /\ wsConns = [t \in DOMAIN wsConns |-> wsConns[t]]
    /\ \A t \in DOMAIN wsConns : t \in 11 .. wsId /\ wsConns[t] \in Connections
    /\ wsGot \in [WsPeers -> SUBSET WsPeers]
    /\ ResponsesToTheirPeer /\ KeptIsRegistered
    /\ \A w \in wsWatch : TokenOf(w[1], w[2])
    /\ wsQueue \in Seq(Signals)
    /\ \A i \in 1 .. Len(wsQueue) :
          wsQueue[i].kind = "SendResponse" => TokenOf(wsQueue[i].token, wsQueue[i].peer)

LEMMA WebSocketStarts == WebSocketInit => WebSocketInv
<1> SUFFICES ASSUME WebSocketInit PROVE WebSocketInv OBVIOUS
<1>1. DOMAIN wsConns = {} /\ wsConns = [t \in DOMAIN wsConns |-> wsConns[t]]
    BY DEF WebSocketInit
<1> QED BY <1>1 DEF WebSocketInit, WebSocketInv, ResponsesToTheirPeer, KeptIsRegistered

\* What an event leaves of a connection that is registered and has a stream: one that is not
\* closed is registered again and has a stream.
LEMMA OutcomeIsRegistered ==
    ASSUME NEW conn \in Connections, conn.stream # "Invalid", NEW r \in Outcomes(conn)
    PROVE  /\ r.conn \in Connections /\ r.conn.peer = conn.peer /\ r.closed \in BOOLEAN /\ r.handled \in BOOLEAN
           /\ ~r.closed => r.conn.armed /\ r.conn.stream # "Invalid"
<1>1. PICK readable \in BOOLEAN, writable \in BOOLEAN, tls \in {"eof", "wouldblock", "handshaking", "data"},
           web \in {"text", "closed", "error", "ok", "interrupted", "failed"},
           sent \in {"ok", "handshaking", "error", "closed"} : r = on_ready(conn, readable, writable, tls, web, sent)
    <2>1. PICK webs : webs = IF conn.stream = "Established" THEN {"text", "closed", "error"}
                             ELSE {"ok", "interrupted", "failed"}
        OBVIOUS
    <2>2. r \in {on_ready(conn, readable, writable, tls, web, sent) : readable \in BOOLEAN, writable \in BOOLEAN,
                    tls \in {"eof", "wouldblock", "handshaking", "data"}, web \in webs,
                    sent \in {"ok", "handshaking", "error", "closed"}}
        BY <2>1 DEF Outcomes
    <2>3. \A web \in webs : web \in {"text", "closed", "error", "ok", "interrupted", "failed"}
        BY <2>1
    <2> QED BY <2>2, <2>3, SMT
<1>2. PICK state : state = do_tls_read(conn, tls)
    OBVIOUS
<1>3. PICK read : read = IF ~readable THEN NothingRead(conn, "Blocked")
                         ELSE IF state = "Alive" THEN read_or_initialize_websocket(conn, web)
                         ELSE NothingRead(conn, state)
    OBVIOUS
<1>4. /\ read.stream \in {"TlsStream", "WebSocketHandshake", "Established", "Invalid"}
      /\ read.closing \in BOOLEAN /\ read.handled \in BOOLEAN
      /\ read.stream = "Invalid" => read.closing
    <2>1. conn.stream \in {"TlsStream", "WebSocketHandshake", "Established"}
        BY DEF Connections
    <2>2. CASE read = read_or_initialize_websocket(conn, web)
        BY <2>1, <2>2 DEF read_or_initialize_websocket, attempt_handshake
    <2>3. ASSUME NEW s, read = NothingRead(conn, s) 
          PROVE  /\ read.stream \in {"TlsStream", "WebSocketHandshake", "Established", "Invalid"}
                 /\ read.closing \in BOOLEAN /\ read.handled \in BOOLEAN
                 /\ read.stream = "Invalid" => read.closing
        BY <2>1, <2>3 DEF NothingRead
    <2> QED BY <1>3, <2>2, <2>3
<1>5. PICK after : after = [conn EXCEPT !.stream = read.stream]
    OBVIOUS
<1>6. after \in Connections /\ after.stream = read.stream /\ after.peer = conn.peer
    BY <1>4, <1>5 DEF Connections
<1>7. PICK written : written = do_tls_write(after, sent)
    OBVIOUS
<1>8. read.stream = "Invalid" => written = "Closing"
    BY <1>6, <1>7 DEF do_tls_write
<1>9. PICK closing : closing = IF ~writable THEN read.closing
                               ELSE IF written = "Alive" THEN read.closing \/ (read.stream = "Established" /\ sent = "closed")
                               ELSE written = "Closing"
    OBVIOUS
<1>10. closing \in BOOLEAN /\ (read.stream = "Invalid" => closing)
    BY <1>4, <1>8, <1>9
<1>11. r = [conn |-> [after EXCEPT !.armed = ~closing /\ read.stream # "Invalid"], closed |-> closing, handled |-> read.handled]
    BY <1>1, <1>2, <1>3, <1>5, <1>7, <1>9 DEF on_ready
<1>12. PICK armed \in BOOLEAN : armed = (~closing /\ read.stream # "Invalid")
    OBVIOUS
<1>13. r.conn = [after EXCEPT !.armed = armed] /\ r.closed = closing /\ r.handled = read.handled
    BY <1>11, <1>12
<1> QED BY <1>4, <1>6, <1>10, <1>12, <1>13 DEF Connections

\* A connection that is kept keeps its peer: what is said of tokens stays.
LEMMA TokensStay ==
    ASSUME NEW t, NEW p, TokenOf(t, p), wsId' \in Nat, wsId \in Nat, wsId <= wsId',
           t \in DOMAIN wsConns' => t \in DOMAIN wsConns /\ wsConns'[t].peer = wsConns[t].peer
    PROVE  TokenOf(t, p)'
BY DEF TokenOf

LEMMA RunKeeps ==
    ASSUME WebSocketInv, run
    PROVE  WebSocketInv'
BY DEF WebSocketInv, run, ResponsesToTheirPeer, KeptIsRegistered, TokenOf

\* The new identifier was never given out, so no response is on its way to it.
LEMMA AcceptKeeps ==
    ASSUME WebSocketInv, NEW p \in WsPeers, accept_ws(p)
    PROVE  WebSocketInv'
<1>1. PICK id : id = wsId + 1
    OBVIOUS
<1>2. PICK conn : conn = [peer |-> p, stream |-> "TlsStream", armed |-> TRUE]
    OBVIOUS
<1>3. /\ wsConns' = [t \in DOMAIN wsConns \cup {id} |-> IF t = id THEN conn ELSE wsConns[t]] /\ wsId' = id
      /\ UNCHANGED <<wsRun, wsQueue, wsWatch, wsGot>>
    BY <1>1, <1>2 DEF accept_ws, next_id
<1>4. conn \in Connections /\ conn.armed /\ conn.stream # "Invalid"
    BY <1>2 DEF Connections
<1>5. wsId \in Nat /\ wsId >= 10 /\ id \in Nat /\ id \in 11 .. id /\ (\A t \in 11 .. wsId : t \in 11 .. id /\ t # id)
    BY <1>1 DEF WebSocketInv
<1>6. /\ wsConns' = [t \in DOMAIN wsConns' |-> wsConns'[t]]
      /\ \A t \in DOMAIN wsConns' : t \in 11 .. id /\ wsConns'[t] \in Connections
      /\ KeptIsRegistered'
    BY <1>3, <1>4, <1>5 DEF WebSocketInv, KeptIsRegistered
<1>7. ASSUME NEW t, NEW q, TokenOf(t, q) PROVE TokenOf(t, q)'
    <2>1. t # id
        BY <1>5, <1>7 DEF TokenOf
    <2> QED BY <1>3, <1>5, <1>7, <2>1 DEF TokenOf
<1>8. (\A w \in wsWatch : TokenOf(w[1], w[2]))'
    BY <1>3, <1>7 DEF WebSocketInv
<1>9. (\A i \in 1 .. Len(wsQueue) : wsQueue[i].kind = "SendResponse" => TokenOf(wsQueue[i].token, wsQueue[i].peer))'
    BY <1>3, <1>7 DEF WebSocketInv
<1>10. wsId' \in Nat /\ wsId' >= 10 /\ ResponsesToTheirPeer'
    BY <1>1, <1>3, <1>5 DEF WebSocketInv, ResponsesToTheirPeer
<1>11. wsQueue' \in Seq(Signals) /\ wsGot' \in [WsPeers -> SUBSET WsPeers] /\ wsRun' \in {"new", "running", "stopped"}
    BY <1>3 DEF WebSocketInv
<1> QED BY <1>3, <1>6, <1>8, <1>9, <1>10, <1>11 DEF WebSocketInv

LEMMA ConnectionEventKeeps ==
    ASSUME WebSocketInv, NEW t \in DOMAIN wsConns, connection_event(t)
    PROVE  WebSocketInv'
<1>1. PICK c \in Connections : c = wsConns[t] /\ c.stream # "Invalid"
    BY DEF WebSocketInv, KeptIsRegistered
<1>2. PICK r \in Outcomes(c), watch \in BOOLEAN :
          /\ wsConns' = IF r.closed THEN Forget(wsConns, {t}) ELSE [wsConns EXCEPT ![t] = r.conn]
          /\ wsGot' = IF r.handled THEN [wsGot EXCEPT ![c.peer] = @ \cup {c.peer}] ELSE wsGot
          /\ wsWatch' = IF r.handled /\ watch THEN wsWatch \cup {<<t, c.peer>>} ELSE wsWatch
    BY <1>1 DEF connection_event
<1>3. /\ r.conn \in Connections /\ r.conn.peer = c.peer /\ r.closed \in BOOLEAN /\ r.handled \in BOOLEAN
      /\ ~r.closed => r.conn.armed /\ r.conn.stream # "Invalid"
    BY <1>1, OutcomeIsRegistered
<1>4. UNCHANGED <<wsId, wsRun, wsQueue>> /\ wsId \in Nat /\ t \in 11 .. wsId /\ c.peer \in WsPeers
    BY DEF connection_event, WebSocketInv, Connections
<1>5. CASE r.closed
    <2>1. wsConns' = [x \in DOMAIN wsConns \ {t} |-> wsConns[x]]
        BY <1>2, <1>5 DEF Forget
    <2> QED
        <3>1. /\ wsConns' = [x \in DOMAIN wsConns' |-> wsConns'[x]] /\ KeptIsRegistered'
              /\ \A x \in DOMAIN wsConns' : x \in DOMAIN wsConns /\ wsConns'[x].peer = wsConns[x].peer
              /\ \A x \in DOMAIN wsConns' : x \in 11 .. wsId /\ wsConns'[x] \in Connections
            BY <2>1 DEF WebSocketInv, KeptIsRegistered
        <3>2. wsGot' \in [WsPeers -> SUBSET WsPeers] /\ ResponsesToTheirPeer'
            BY <1>2, <1>3, <1>4 DEF WebSocketInv, ResponsesToTheirPeer
        <3>3. ASSUME NEW x, NEW q, TokenOf(x, q) PROVE TokenOf(x, q)'
            BY <1>4, <3>1, <3>3 DEF TokenOf
        <3>4. (\A w \in wsWatch : TokenOf(w[1], w[2]))'
            <4>1. TokenOf(t, c.peer)
                BY <1>1, <1>4 DEF TokenOf
            <4>2. \A w \in wsWatch' : w \in wsWatch \/ w = <<t, c.peer>>
                BY <1>2
            <4> QED BY <3>3, <4>1, <4>2 DEF WebSocketInv
        <3>5. (\A i \in 1 .. Len(wsQueue) : wsQueue[i].kind = "SendResponse" => TokenOf(wsQueue[i].token, wsQueue[i].peer))'
            BY <1>4, <3>3 DEF WebSocketInv
        <3> QED BY <1>4, <3>1, <3>2, <3>4, <3>5 DEF WebSocketInv
<1>6. CASE ~r.closed
    <2>1. wsConns' = [wsConns EXCEPT ![t] = r.conn]
        BY <1>2, <1>6
    <2>2. /\ wsConns' = [x \in DOMAIN wsConns' |-> wsConns'[x]] /\ KeptIsRegistered'
          /\ \A x \in DOMAIN wsConns' : x \in DOMAIN wsConns /\ wsConns'[x].peer = wsConns[x].peer
          /\ \A x \in DOMAIN wsConns' : x \in 11 .. wsId /\ wsConns'[x] \in Connections
        BY <1>1, <1>3, <1>6, <2>1 DEF WebSocketInv, KeptIsRegistered
    <2>3. wsGot' \in [WsPeers -> SUBSET WsPeers] /\ ResponsesToTheirPeer'
        BY <1>2, <1>3, <1>4 DEF WebSocketInv, ResponsesToTheirPeer
    <2>4. ASSUME NEW x, NEW q, TokenOf(x, q) PROVE TokenOf(x, q)'
        BY <1>4, <2>2, <2>4 DEF TokenOf
    <2>5. (\A w \in wsWatch : TokenOf(w[1], w[2]))'
        <3>1. TokenOf(t, c.peer)
            BY <1>1, <1>4 DEF TokenOf
        <3>2. \A w \in wsWatch' : w \in wsWatch \/ w = <<t, c.peer>>
            BY <1>2
        <3> QED BY <2>4, <3>1, <3>2 DEF WebSocketInv
    <2>6. (\A i \in 1 .. Len(wsQueue) : wsQueue[i].kind = "SendResponse" => TokenOf(wsQueue[i].token, wsQueue[i].peer))'
        BY <1>4, <2>4 DEF WebSocketInv
    <2> QED BY <1>4, <2>2, <2>3, <2>5, <2>6 DEF WebSocketInv
<1> QED BY <1>3, <1>5, <1>6

\* A late response finds the connection it is for, or none.
LEMMA HandleSignalKeeps ==
    ASSUME WebSocketInv, handle_ws_signal
    PROVE  WebSocketInv'
<1>1. PICK queue \in Seq(Signals) : queue = wsQueue /\ queue # <<>>
    BY DEF WebSocketInv, handle_ws_signal
<1>2. Head(queue) = queue[1] /\ 1 \in 1 .. Len(queue)
    BY <1>1
<1>3. PICK rest \in Seq(Signals) : rest = Tail(queue)
    <2>1. Tail(queue) \in Seq(Signals)
        BY <1>1
    <2> QED BY <2>1
<1>4. \A i \in 1 .. Len(rest) : i + 1 \in 1 .. Len(queue) /\ rest[i] = queue[i + 1]
    <2>1. \A s \in Seq(Signals) : s # <<>> => \A i \in 1 .. Len(Tail(s)) : i + 1 \in 1 .. Len(s) /\ Tail(s)[i] = s[i + 1]
        OBVIOUS
    <2> QED BY <1>1, <1>3, <2>1
<1>5. wsQueue' = rest /\ UNCHANGED <<wsConns, wsId, wsWatch>>
    BY <1>1, <1>3 DEF handle_ws_signal
<1>6. \A x, q : TokenOf(x, q)' <=> TokenOf(x, q)
    BY <1>5 DEF TokenOf
<1>7. \A i \in 1 .. Len(queue) : queue[i].kind = "SendResponse" => TokenOf(queue[i].token, queue[i].peer)
    BY <1>1 DEF WebSocketInv
<1>8. wsRun' \in {"new", "running", "stopped"}
    BY DEF WebSocketInv, handle_ws_signal
<1>9. wsGot' \in [WsPeers -> SUBSET WsPeers] /\ ResponsesToTheirPeer'
    <2>1. CASE wsGot' = wsGot
        BY <2>1 DEF WebSocketInv, ResponsesToTheirPeer
    <2>2. CASE wsGot' # wsGot
        <3>1. PICK tok, peer : tok = queue[1].token /\ peer = queue[1].peer
            OBVIOUS
        <3>2. /\ queue[1].kind # "ShutDown" /\ tok \in DOMAIN wsConns
              /\ wsGot' = [wsGot EXCEPT ![wsConns[tok].peer] = @ \cup {peer}]
            BY <1>1, <1>2, <2>2, <3>1 DEF handle_ws_signal, write_message_to_connection
        <3>3. queue[1].kind = "SendResponse"
            <4>1. queue[1] \in Signals
                BY <1>1, <1>2
            <4> QED BY <3>2, <4>1 DEF Signals
        <3>4. TokenOf(tok, peer)
            BY <1>2, <1>7, <3>1, <3>3
        <3>5. wsConns[tok].peer = peer /\ peer \in WsPeers
            BY <3>2, <3>4 DEF TokenOf
        <3> QED BY <3>2, <3>5 DEF WebSocketInv, ResponsesToTheirPeer
    <2> QED BY <2>1, <2>2
<1>10. \A i \in 1 .. Len(rest) : rest[i].kind = "SendResponse" => TokenOf(rest[i].token, rest[i].peer)
    BY <1>4, <1>7
<1> QED BY <1>5, <1>6, <1>8, <1>9, <1>10 DEF WebSocketInv, KeptIsRegistered

LEMMA SendSignalKeeps ==
    ASSUME WebSocketInv, NEW s \in Signals, s.kind = "SendResponse" => TokenOf(s.token, s.peer), send_server_signal(s)
    PROVE  WebSocketInv'
<1>1. PICK queue \in Seq(Signals) : queue = wsQueue
    BY DEF WebSocketInv
<1>2. UNCHANGED <<wsConns, wsId, wsRun, wsWatch, wsGot>> /\ wsQueue' \in {queue, Append(queue, s)}
    BY <1>1 DEF send_server_signal
<1>3. \A x, q : TokenOf(x, q)' <=> TokenOf(x, q)
    BY <1>2 DEF TokenOf
<1>4. \A i \in 1 .. Len(queue) : queue[i].kind = "SendResponse" => TokenOf(queue[i].token, queue[i].peer)
    BY <1>1 DEF WebSocketInv
<1>5. /\ wsQueue' \in Seq(Signals)
      /\ \A i \in 1 .. Len(wsQueue') : wsQueue'[i].kind = "SendResponse" => TokenOf(wsQueue'[i].token, wsQueue'[i].peer)
    <2>1. CASE wsQueue' = queue
        BY <1>4, <2>1
    <2>2. CASE wsQueue' = Append(queue, s)
        <3>1. PICK more : more = Append(queue, s)
            OBVIOUS
        <3>2. more \in Seq(Signals) /\ \A i \in 1 .. Len(more) : (i \in 1 .. Len(queue) /\ more[i] = queue[i]) \/ more[i] = s
            BY <3>1
        <3>3. \A i \in 1 .. Len(more) : more[i].kind = "SendResponse" => TokenOf(more[i].token, more[i].peer)
            BY <1>4, <3>2
        <3> QED BY <2>2, <3>1, <3>2, <3>3
    <2> QED BY <1>2, <2>1, <2>2
<1> QED BY <1>2, <1>3, <1>5 DEF WebSocketInv, KeptIsRegistered, ResponsesToTheirPeer

LEMMA WebSocketInductive == WebSocketInv /\ [WebSocketNext]_webSocketVars => WebSocketInv'
<1> SUFFICES ASSUME WebSocketInv, [WebSocketNext]_webSocketVars PROVE WebSocketInv' OBVIOUS
<1>1. CASE UNCHANGED webSocketVars
    BY <1>1 DEF webSocketVars, WebSocketInv, ResponsesToTheirPeer, KeptIsRegistered, TokenOf
<1>2. CASE send_message
    <2>1. PICK w \in wsWatch : send_server_signal([kind |-> "SendResponse", token |-> w[1], peer |-> w[2]])
        BY <1>2 DEF send_message
    <2>2. PICK s : s = [kind |-> "SendResponse", token |-> w[1], peer |-> w[2]]
        OBVIOUS
    <2>3. TokenOf(w[1], w[2])
        BY DEF WebSocketInv
    <2>4. s \in Signals /\ s.token = w[1] /\ s.peer = w[2]
        BY <2>2, <2>3 DEF Signals, TokenOf, WebSocketInv
    <2> QED BY <2>1, <2>2, <2>3, <2>4, SendSignalKeeps
<1>3. CASE shut_down
    <2>1. PICK s : s = [kind |-> "ShutDown"]
        OBVIOUS
    <2>2. s \in Signals /\ s.kind # "SendResponse"
        BY <2>1 DEF Signals
    <2> QED BY <1>3, <2>1, <2>2, SendSignalKeeps DEF shut_down
<1> QED BY <1>1, <1>2, <1>3, RunKeeps, AcceptKeeps, ConnectionEventKeeps, HandleSignalKeeps DEF WebSocketNext

\* A response reaches the client that asked for it or nobody, and a connection the server keeps is
\* registered for its next event.
THEOREM ConnectionsAreServedHolds == WebSocketSpec => []ConnectionsAreServed
<1>1. WebSocketInv => ConnectionsAreServed
    BY DEF WebSocketInv, ConnectionsAreServed, WebSocketTypeOK, Connections
<1> QED BY <1>1, WebSocketStarts, WebSocketInductive, PTL DEF WebSocketSpec

-----------------------------------------------------------------------------
DirectRequestSpec == DirectRequestInit /\ [][DirectRequestNext]_directRequestVars

Messages == [status : {"Submitted", "Error", "InSidechainBlock", "Invalid", "Dropped"}, do_watch : BOOLEAN]

\* The call is pending and not executed.
Live(c) == c \in pendingCalls /\ c \notin executedCalls

\* The message after which a command does not wait any more.
Terminal(message) == Returned(message) \/ message.status = "Error"

DirectTyped ==
    /\ command \in [Commands -> [at : {"start", "nonce", "signed", "watching", "returned", "failed", "panicked"}, nonce : Nat]]
    /\ mail \in [Commands -> Seq(Messages)] /\ pendingCalls \subseteq Commands
    /\ executedCalls \subseteq pendingCalls /\ accountNonce \in Nat

\* The nonce a command read is not above the one of the state; a call is pending once it was signed.
NonceIsBehind(c) ==
    /\ command[c].at = "start" => command[c].nonce = 0
    /\ command[c].at = "nonce" => command[c].nonce <= accountNonce
    /\ command[c].at \in {"start", "nonce", "signed"} => c \notin pendingCalls

\* A command that watches gets the end of its call, once.
EndIsTold(c) ==
    /\ command[c].at = "watching" /\ Live(c) => c \in entries /\ \A i \in 1 .. Len(mail[c]) : ~Terminal(mail[c][i])
    /\ command[c].at = "watching" /\ ~Live(c) => \E i \in 1 .. Len(mail[c]) : Terminal(mail[c][i])
    /\ command[c].at = "returned" => ~Live(c)

DirectInv ==
    /\ DirectTyped /\ NoNonceSkipped
    /\ \A c \in Commands : NonceIsBehind(c) /\ EndIsTold(c)

LEMMA DirectStarts == DirectRequestInit => DirectInv
BY DEF DirectRequestInit, DirectInv, DirectTyped, NoNonceSkipped, NonceIsBehind, EndIsTold, Live

\* What the messages say.
LEMMA MessagesSay ==
    /\ ~Terminal(Message("Submitted", TRUE)) /\ Terminal(Message("Error", FALSE))
    /\ Terminal(Message("InSidechainBlock", watching_goes_on("InSidechainBlock")))
    /\ Terminal(Message("Invalid", watching_goes_on("Invalid")))
    /\ Terminal(Message("Dropped", watching_goes_on("Dropped")))
    /\ Message("Submitted", TRUE) \in Messages /\ Message("Error", FALSE) \in Messages
    /\ \A s \in {"InSidechainBlock", "Invalid", "Dropped"} : Message(s, watching_goes_on(s)) \in Messages
BY DEF Terminal, Returned, connection_can_be_closed, watching_goes_on, Message, Messages

\* A command goes on with what it does; the others and the worker stay.
LEMMA CommandMoves ==
    ASSUME DirectInv, NEW c \in Commands, NEW to, to \in [at : {"start", "nonce", "signed", "watching", "returned", "failed", "panicked"}, nonce : Nat],
           command' = [command EXCEPT ![c] = to],
           UNCHANGED <<mail, entries, pendingCalls, accountNonce, executedCalls>>, NoNonceSkipped',
           to.at # "watching", to.at # "returned", to.at # "start", to.at = "nonce" => to.nonce <= accountNonce,
           to.at \in {"nonce", "signed"} => c \notin pendingCalls
    PROVE  DirectInv'
<1>1. DirectTyped'
    BY DEF DirectInv, DirectTyped
<1>2. command'[c] = to /\ \A d \in Commands : d # c => command'[d] = command[d]
    BY DEF DirectInv, DirectTyped
<1>3. ASSUME NEW d \in Commands PROVE NonceIsBehind(d)' /\ EndIsTold(d)'
    <2>1. CASE d = c
        BY <1>2, <2>1 DEF NonceIsBehind, EndIsTold
    <2>2. CASE d # c
        BY <1>2, <2>2 DEF DirectInv, NonceIsBehind, EndIsTold, Live
    <2> QED BY <2>1, <2>2
<1> QED BY <1>1, <1>3 DEF DirectInv

\* What a command is in.
LEMMA CommandOf ==
    ASSUME DirectInv, NEW c \in Commands
    PROVE  /\ command[c] \in [at : {"start", "nonce", "signed", "watching", "returned", "failed", "panicked"}, nonce : Nat]
           /\ command[c].nonce \in Nat /\ NonceIsBehind(c) /\ EndIsTold(c) /\ accountNonce \in Nat
           /\ command \in [Commands -> [at : {"start", "nonce", "signed", "watching", "returned", "failed", "panicked"}, nonce : Nat]]
BY DEF DirectInv, DirectTyped

LEMMA GoTo ==
    ASSUME DirectInv, NEW c \in Commands, NEW at \in {"start", "nonce", "signed", "watching", "returned", "failed", "panicked"}, Go(c, at)
    PROVE  /\ command' = [command EXCEPT ![c] = [at |-> at, nonce |-> command[c].nonce]]
           /\ [at |-> at, nonce |-> command[c].nonce]
                 \in [at : {"start", "nonce", "signed", "watching", "returned", "failed", "panicked"}, nonce : Nat]
<1>1. command[c] \in [at : {"start", "nonce", "signed", "watching", "returned", "failed", "panicked"}, nonce : Nat]
    BY CommandOf
<1>2. [command[c] EXCEPT !.at = at] = [at |-> at, nonce |-> command[c].nonce]
    BY <1>1
<1> QED BY <1>1, <1>2 DEF Go

LEMMA GetNonceKeeps ==
    ASSUME DirectInv, NEW c \in Commands, get_nonce(c)
    PROVE  DirectInv'
<1>1. /\ command[c].at = "start" /\ UNCHANGED <<mail, entries, pendingCalls, accountNonce, executedCalls>> /\ NoNonceSkipped'
    BY DEF get_nonce, DirectInv, NoNonceSkipped
<1>2. command[c].nonce = 0 /\ accountNonce \in Nat /\ c \notin pendingCalls
    BY <1>1, CommandOf DEF NonceIsBehind
<1>3. PICK to : \/ to = [at |-> "nonce", nonce |-> accountNonce] /\ command' = [command EXCEPT ![c] = to]
                \/ to = [at |-> "nonce", nonce |-> 0] /\ command' = [command EXCEPT ![c] = to]
    BY <1>2, GoTo DEF get_nonce
<1>4. /\ to \in [at : {"start", "nonce", "signed", "watching", "returned", "failed", "panicked"}, nonce : Nat]
      /\ to.at = "nonce" /\ to.nonce <= accountNonce
    BY <1>2, <1>3
<1> QED BY <1>1, <1>2, <1>3, <1>4, CommandMoves

\* The number of pending calls, all of which follow the nonce of the state, is added to a nonce that is not
\* above it.
LEMMA GetLayerTwoNonceKeeps ==
    ASSUME DirectInv, NEW c \in Commands, get_layer_two_nonce(c)
    PROVE  DirectInv'
<1>1. command[c].at = "nonce" /\ UNCHANGED <<mail, entries, pendingCalls, accountNonce, executedCalls>>
    BY DEF get_layer_two_nonce
<1>2. command[c].nonce \in Nat /\ command[c].nonce <= accountNonce /\ accountNonce \in Nat /\ c \notin pendingCalls
    BY <1>1, CommandOf DEF NonceIsBehind
<1>3. Cardinality(pendingCalls) \in Nat
    <2>1. IsFiniteSet(pendingCalls)
        BY DirectRequestAssumption, FS_Subset DEF DirectInv, DirectTyped
    <2> QED BY <2>1, FS_CardinalityType
<1>4. CASE DirectGetFails /\ Go(c, "panicked") /\ UNCHANGED ahead
    <2>1. PICK to : to = [at |-> "panicked", nonce |-> command[c].nonce]
        OBVIOUS
    <2>2. /\ command' = [command EXCEPT ![c] = to] /\ NoNonceSkipped'
          /\ to \in [at : {"start", "nonce", "signed", "watching", "returned", "failed", "panicked"}, nonce : Nat]
        BY <1>4, <2>1, GoTo DEF DirectInv, NoNonceSkipped
    <2> QED BY <1>1, <2>1, <2>2, CommandMoves
<1>5. CASE /\ command' = [command EXCEPT ![c] = [at |-> "signed", nonce |-> @.nonce + get_pending_trusted_calls_for]]
           /\ ahead' = IF command'[c].nonce > NextFree /\ \A d \in pendingCalls : command[d].nonce >= accountNonce
                       THEN ahead \cup {c} ELSE ahead
    <2>1. PICK to : to = [at |-> "signed", nonce |-> command[c].nonce + Cardinality(pendingCalls)]
        OBVIOUS
    <2>2. /\ command' = [command EXCEPT ![c] = to] /\ to.at = "signed"
          /\ to.nonce = command[c].nonce + Cardinality(pendingCalls)
          /\ to \in [at : {"start", "nonce", "signed", "watching", "returned", "failed", "panicked"}, nonce : Nat]
        BY <1>2, <1>3, <1>5, <2>1 DEF get_pending_trusted_calls_for
    <2>3. command'[c] = to
        BY <2>2, CommandOf
    <2>4. (\A d \in pendingCalls : command[d].nonce >= accountNonce) => ~(to.nonce > NextFree)
        <3> SUFFICES ASSUME \A d \in pendingCalls : command[d].nonce >= accountNonce PROVE ~(to.nonce > NextFree)
            OBVIOUS
        <3>1. {d \in pendingCalls : command[d].nonce >= accountNonce} = pendingCalls
            OBVIOUS
        <3>2. NextFree = accountNonce + Cardinality(pendingCalls)
            BY <3>1 DEF NextFree
        <3> QED BY <1>2, <1>3, <2>2, <3>2
    <2>5. NoNonceSkipped'
        BY <1>5, <2>3, <2>4 DEF DirectInv, NoNonceSkipped
    <2> QED BY <1>1, <1>2, <2>2, <2>5, CommandMoves
<1> QED BY <1>4, <1>5 DEF get_layer_two_nonce

LEMMA SubmitKeeps ==
    ASSUME DirectInv, NEW c \in Commands, author_submitAndWatchExtrinsic(c)
    PROVE  DirectInv'
<1>1. command[c].at = "signed" /\ Go(c, "watching") /\ UNCHANGED <<accountNonce, executedCalls, ahead>> /\ c \notin pendingCalls
    BY CommandOf DEF author_submitAndWatchExtrinsic, NonceIsBehind
<1>2. PICK to : to = [at |-> "watching", nonce |-> command[c].nonce]
    OBVIOUS
<1>3. /\ command' \in [Commands -> [at : {"start", "nonce", "signed", "watching", "returned", "failed", "panicked"}, nonce : Nat]]
      /\ command'[c].at = "watching" /\ \A d \in Commands : d # c => command'[d] = command[d]
    <2>1. command' = [command EXCEPT ![c] = to]
        BY <1>1, <1>2, GoTo
    <2>2. to \in [at : {"start", "nonce", "signed", "watching", "returned", "failed", "panicked"}, nonce : Nat]
        BY <1>1, <1>2, GoTo
    <2> QED BY <1>2, <2>1, <2>2, CommandOf
<1>4. PICK taken \in BOOLEAN : taken <=> \E d \in pendingCalls : command[d].nonce = command[c].nonce
    OBVIOUS
<1>5. PICK message : message = IF taken THEN Message("Error", FALSE) ELSE Message("Submitted", TRUE)
    OBVIOUS
<1>6. /\ mail' = [mail EXCEPT ![c] = <<message>>]
      /\ entries' = IF taken THEN entries ELSE entries \cup {c}
      /\ pendingCalls' = IF taken THEN pendingCalls ELSE pendingCalls \cup {c}
    BY <1>4, <1>5 DEF author_submitAndWatchExtrinsic
<1>7. message \in Messages /\ (IF taken THEN Terminal(message) ELSE ~Terminal(message))
    BY <1>5, MessagesSay
<1>8. /\ mail' \in [Commands -> Seq(Messages)] /\ mail'[c] = <<message>>
      /\ \A d \in Commands : d # c => mail'[d] = mail[d]
    BY <1>6, <1>7 DEF DirectInv, DirectTyped
<1>9. DirectTyped'
    BY <1>1, <1>3, <1>6, <1>8 DEF DirectInv, DirectTyped
<1>10. ASSUME NEW d \in Commands, d # c PROVE NonceIsBehind(d)' /\ EndIsTold(d)'
    BY <1>1, <1>3, <1>6, <1>8, <1>10 DEF DirectInv, NonceIsBehind, EndIsTold, Live
<1>11. NonceIsBehind(c)'
    BY <1>3 DEF NonceIsBehind
<1>12. EndIsTold(c)'
    <2>1. c \notin executedCalls
        BY <1>1 DEF DirectInv, DirectTyped
    <2>2. Len(mail'[c]) = 1 /\ mail'[c][1] = message
        BY <1>8
    <2>3. Live(c)' <=> ~taken
        BY <1>1, <1>6, <2>1 DEF Live
    <2> QED BY <1>3, <1>6, <1>7, <2>2, <2>3 DEF EndIsTold
<1> QED BY <1>1, <1>9, <1>10, <1>11, <1>12 DEF DirectInv, NoNonceSkipped

LEMMA ConnectionBreaksKeeps ==
    ASSUME DirectInv, NEW c \in Commands, connection_breaks(c)
    PROVE  DirectInv'
<1>1. PICK to : to = [at |-> "failed", nonce |-> command[c].nonce]
    OBVIOUS
<1>2. /\ command' = [command EXCEPT ![c] = to] /\ to.at = "failed"
      /\ to \in [at : {"start", "nonce", "signed", "watching", "returned", "failed", "panicked"}, nonce : Nat]
    BY <1>1, GoTo DEF connection_breaks
<1>3. NoNonceSkipped' /\ UNCHANGED <<mail, entries, pendingCalls, accountNonce, executedCalls>>
    BY DEF connection_breaks, DirectInv, NoNonceSkipped
<1> QED BY <1>2, <1>3, CommandMoves

\* The command takes the next message: the last one ends it.
LEMMA SendDirectRequestKeeps ==
    ASSUME DirectInv, NEW c \in Commands, send_direct_request(c)
    PROVE  DirectInv'
<1>1. command[c].at = "watching" /\ UNCHANGED <<entries, pendingCalls, accountNonce, executedCalls, ahead>>
    BY DEF send_direct_request
<1>2. PICK box \in Seq(Messages) : box = mail[c] /\ box # <<>>
    BY DEF send_direct_request, DirectInv, DirectTyped
<1>3. Head(box) = box[1] /\ Tail(box) \in Seq(Messages) /\ 1 \in 1 .. Len(box) /\ Len(Tail(box)) = Len(box) - 1
    BY <1>2
<1>4. \A i \in 1 .. Len(Tail(box)) : i + 1 \in 1 .. Len(box) /\ Tail(box)[i] = box[i + 1]
    <2>1. \A s \in Seq(Messages) : s # <<>> => \A i \in 1 .. Len(Tail(s)) : i + 1 \in 1 .. Len(s) /\ Tail(s)[i] = s[i + 1]
        OBVIOUS
    <2> QED BY <1>2, <2>1
<1>5. PICK rest \in Seq(Messages) : rest = Tail(box)
    BY <1>3
<1>6. /\ mail' \in [Commands -> Seq(Messages)] /\ mail'[c] = rest
      /\ \A d \in Commands : d # c => mail'[d] = mail[d]
    BY <1>2, <1>5 DEF send_direct_request, DirectInv, DirectTyped
<1>7. \A d \in Commands : Live(d)' <=> Live(d)
    BY <1>1 DEF Live
<1>8. CASE Terminal(box[1])
    <2>1. PICK at \in {"returned", "failed"} : Go(c, at)
        BY <1>2, <1>3, <1>8 DEF send_direct_request, Terminal
    <2>2. PICK to : to = [at |-> at, nonce |-> command[c].nonce]
        OBVIOUS
    <2>3. /\ command' = [command EXCEPT ![c] = to] /\ to.at = at
          /\ to \in [at : {"start", "nonce", "signed", "watching", "returned", "failed", "panicked"}, nonce : Nat]
        BY <2>1, <2>2, GoTo
    <2>4. /\ command' \in [Commands -> [at : {"start", "nonce", "signed", "watching", "returned", "failed", "panicked"}, nonce : Nat]]
          /\ command'[c].at \in {"returned", "failed"} /\ \A d \in Commands : d # c => command'[d] = command[d]
        BY <2>3, CommandOf
    <2>5. ~Live(c)
        BY <1>1, <1>2, <1>3, <1>8, CommandOf DEF EndIsTold
    <2>6. DirectTyped'
        BY <1>1, <1>6, <2>4 DEF DirectInv, DirectTyped
    <2>7. ASSUME NEW d \in Commands, d # c PROVE NonceIsBehind(d)' /\ EndIsTold(d)'
        BY <1>1, <1>6, <1>7, <2>4, <2>7 DEF DirectInv, NonceIsBehind, EndIsTold
    <2>8. NonceIsBehind(c)' /\ EndIsTold(c)'
        BY <1>7, <2>4, <2>5 DEF NonceIsBehind, EndIsTold
    <2> QED BY <1>1, <2>6, <2>7, <2>8 DEF DirectInv, NoNonceSkipped
<1>9. CASE ~Terminal(box[1])
    <2>1. command' = command
        BY <1>2, <1>3, <1>9 DEF send_direct_request, Terminal
    <2>2. DirectTyped'
        BY <1>1, <1>6, <2>1 DEF DirectInv, DirectTyped
    <2>3. ASSUME NEW d \in Commands, d # c PROVE NonceIsBehind(d)' /\ EndIsTold(d)'
        BY <1>1, <1>6, <1>7, <2>1, <2>3 DEF DirectInv, NonceIsBehind, EndIsTold
    <2>4. NonceIsBehind(c)'
        BY <1>1, <2>1, CommandOf DEF NonceIsBehind
    <2>5. EndIsTold(c)'
        <3>1. /\ Live(c) => c \in entries /\ \A i \in 1 .. Len(box) : ~Terminal(box[i])
              /\ ~Live(c) => \E i \in 1 .. Len(box) : Terminal(box[i])
            BY <1>1, <1>2, CommandOf DEF EndIsTold
        <3>2. Live(c) => \A i \in 1 .. Len(rest) : ~Terminal(rest[i])
            BY <1>4, <1>5, <3>1
        <3>3. ASSUME ~Live(c) PROVE \E i \in 1 .. Len(rest) : Terminal(rest[i])
            <4>1. PICK i \in 1 .. Len(box) : Terminal(box[i])
                BY <3>1, <3>3
            <4>2. i # 1
                BY <1>9, <4>1
            <4>3. PICK j : j = i - 1
                OBVIOUS
            <4>4. j \in 1 .. Len(rest) /\ j + 1 = i
                BY <1>2, <1>3, <1>5, <4>1, <4>2, <4>3
            <4>5. rest[j] = box[i]
                BY <1>4, <1>5, <4>4
            <4> QED BY <4>1, <4>4, <4>5
        <3> QED BY <1>1, <1>6, <1>7, <2>1, <3>1, <3>2, <3>3 DEF EndIsTold
    <2> QED BY <1>1, <2>2, <2>3, <2>4, <2>5 DEF DirectInv, NoNonceSkipped
<1> QED BY <1>8, <1>9

\* A call comes to its end and a command that watches is told.
LEMMA CallEnds ==
    ASSUME DirectInv, NEW c \in Commands, Live(c), NEW status \in {"InSidechainBlock", "Invalid", "Dropped"},
           send_status(c, status), UNCHANGED <<command, ahead>>, accountNonce' \in Nat, accountNonce <= accountNonce',
           pendingCalls' \subseteq pendingCalls, executedCalls' \subseteq pendingCalls', ~Live(c)',
           \A d \in Commands : d # c => (Live(d)' <=> Live(d))
    PROVE  DirectInv'
<1>1. PICK box \in Seq(Messages) : box = mail[c]
    BY DEF DirectInv, DirectTyped
<1>2. PICK message : message = Message(status, watching_goes_on(status))
    OBVIOUS
<1>3. message \in Messages /\ Terminal(message)
    BY <1>2, MessagesSay
<1>4. Append(box, message) \in Seq(Messages) /\ Len(Append(box, message)) = Len(box) + 1 /\ Append(box, message)[Len(box) + 1] = message
      /\ Len(box) + 1 \in 1 .. Len(box) + 1
    BY <1>3
<1>5. /\ mail' \in [Commands -> Seq(Messages)] /\ \A d \in Commands : d # c => mail'[d] = mail[d]
      /\ c \in entries /\ command[c].at = "watching" => mail'[c] = Append(box, message)
      /\ \A d \in Commands : d # c /\ d \in entries => d \in entries'
    BY <1>1, <1>2, <1>4 DEF send_status, DirectInv, DirectTyped
<1>6. DirectTyped'
    BY <1>5 DEF DirectInv, DirectTyped
<1>7. ASSUME NEW d \in Commands PROVE NonceIsBehind(d)'
    BY CommandOf DEF NonceIsBehind
<1>8. ASSUME NEW d \in Commands, d # c PROVE EndIsTold(d)'
    BY <1>5, <1>8, CommandOf DEF EndIsTold
<1>9. EndIsTold(c)'
    <2>1. command[c].at = "watching" => c \in entries
        BY CommandOf DEF EndIsTold
    <2>2. command[c].at = "watching" => \E i \in 1 .. Len(mail'[c]) : Terminal(mail'[c][i])
        BY <1>3, <1>4, <1>5, <2>1
    <2> QED BY <2>2 DEF EndIsTold
<1> QED BY <1>6, <1>7, <1>8, <1>9 DEF DirectInv, NoNonceSkipped

LEMMA ImportCallKeeps ==
    ASSUME DirectInv, NEW c \in Commands, import_call(c)
    PROVE  DirectInv'
<1>1. /\ Live(c) /\ send_status(c, "InSidechainBlock") /\ UNCHANGED <<command, ahead, pendingCalls>>
      /\ executedCalls' = executedCalls \cup {c} /\ c \in pendingCalls
    BY DEF import_call, Live
<1>2. accountNonce \in Nat /\ accountNonce' = accountNonce + 1 /\ executedCalls \subseteq pendingCalls
    BY DEF import_call, DirectInv, DirectTyped
<1>3. PICK status \in {"InSidechainBlock", "Invalid", "Dropped"} : status = "InSidechainBlock"
    OBVIOUS
<1>4. ~Live(c)' /\ \A d \in Commands : d # c => (Live(d)' <=> Live(d))
    BY <1>1 DEF Live
<1> QED BY <1>1, <1>2, <1>3, <1>4, CallEnds

LEMMA RemoveCallKeeps ==
    ASSUME DirectInv, NEW c \in Commands, remove_call(c)
    PROVE  DirectInv'
<1>1. /\ Live(c) /\ UNCHANGED <<command, ahead, accountNonce, executedCalls>> /\ pendingCalls' = pendingCalls \ {c}
      /\ c \notin executedCalls
    BY DEF remove_call, Live
<1>2. PICK status \in {"InSidechainBlock", "Invalid", "Dropped"} : send_status(c, status)
    BY DEF remove_call
<1>3. accountNonce \in Nat /\ executedCalls \subseteq pendingCalls
    BY DEF DirectInv, DirectTyped
<1>4. ~Live(c)' /\ \A d \in Commands : d # c => (Live(d)' <=> Live(d))
    BY <1>1 DEF Live
<1> QED BY <1>1, <1>2, <1>3, <1>4, CallEnds

LEMMA RemoveExecutedKeeps ==
    ASSUME DirectInv, remove_executed_calls
    PROVE  DirectInv'
<1>1. \A d \in Commands : Live(d)' <=> Live(d)
    BY DEF remove_executed_calls, Live
<1>2. DirectTyped'
    BY DEF remove_executed_calls, DirectInv, DirectTyped
<1>3. ASSUME NEW d \in Commands PROVE NonceIsBehind(d)' /\ EndIsTold(d)'
    BY <1>1 DEF remove_executed_calls, DirectInv, NonceIsBehind, EndIsTold
<1> QED BY <1>2, <1>3 DEF DirectInv, remove_executed_calls, NoNonceSkipped

LEMMA DirectInductive == DirectInv /\ [DirectRequestNext]_directRequestVars => DirectInv'
<1> SUFFICES ASSUME DirectInv, [DirectRequestNext]_directRequestVars PROVE DirectInv' OBVIOUS
<1>1. CASE UNCHANGED directRequestVars
    BY <1>1 DEF directRequestVars, DirectInv, DirectTyped, NoNonceSkipped, NonceIsBehind, EndIsTold, Live
<1> QED BY <1>1, GetNonceKeeps, GetLayerTwoNonceKeeps, SubmitKeeps, ConnectionBreaksKeeps, SendDirectRequestKeeps,
           ImportCallKeeps, RemoveCallKeeps, RemoveExecutedKeeps DEF DirectRequestNext

\* Blocks between its two requests never make the nonce of a command too high, and a command waits for
\* messages exactly as long as its call is pending.
THEOREM CommandsAreAnsweredHolds == DirectRequestSpec => []CommandsAreAnswered
<1>1. DirectInv => CommandsAreAnswered
    <2> SUFFICES ASSUME DirectInv PROVE CommandsAreAnswered OBVIOUS
    <2>1. ASSUME NEW c \in Commands, command[c].at = "watching", mail[c] = <<>> PROVE Live(c)
        BY <2>1, CommandOf DEF EndIsTold
    <2>2. ASSUME NEW c \in Commands, command[c].at = "returned" PROVE ~Live(c)
        BY <2>2, CommandOf DEF EndIsTold
    <2> QED BY <2>1, <2>2 DEF CommandsAreAnswered, DirectInv, WaitsWhilePending, Live
<1> QED BY <1>1, DirectStarts, DirectInductive, PTL DEF DirectRequestSpec

-----------------------------------------------------------------------------
TopPoolSpec == TopPoolInit /\ [][TopPoolNext]_topPoolVars

-----------------------------------------------------------------------------
(* TopPool: the inductive invariant.                                       *)

TopStatuses == {"Ready", "Dropped", "Invalid", "InSidechainBlock"}
Ends == {"InSidechainBlock", "Invalid"}
Phases == {"Invalid", "Valid", "Imported", "Limited", "Watched", "Stored"}

TopPoolTyped ==
    /\ insertionId \in Nat /\ Ready \subseteq TopOps /\ topReady \in [Ready -> 1 .. insertionId]
    /\ banned \subseteq TopOps /\ Cardinality(banned) <= 2 * BanCapacity
    /\ watchers \subseteq TopOps /\ open \subseteq Clients /\ missed \subseteq TopOps
    /\ registry \in [TopOps -> Clients \cup {NoClient}]
    /\ signals \in Seq([client : Clients, op : TopOps, status : TopStatuses])
    /\ handling \in {Idle} \cup [phase : Phases, client : Clients, op : TopOps, watch : BOOLEAN]
    /\ slot \in {Idle} \cup [phase : {"notified"}, done : SUBSET TopOps]
                \cup [phase : {"composed"}, done : SUBSET TopOps, nonces : [Accounts -> Nat]]
                \cup [phase : {"executed"}, done : SUBSET TopOps, failed : SUBSET TopOps,
                      nonces : [Accounts -> Nat]]
    /\ nonces \in [Accounts -> Nat]
    /\ seen \in [Clients -> [TopOps -> Seq(TopStatuses \cup {"Submitted"})]]

\* The connection of a request stays open, and a submission that is not through is in the
\* pool, or its end was missed.
RequestStands ==
    /\ handling # Idle => handling.client \in open
    /\ handling.phase \in {"Imported", "Limited"} => handling.op \in Ready \cup missed
    /\ handling.phase = "Watched" => handling.op \in (Ready \cap watchers) \cup missed

\* A watcher waits for an operation of the pool.
WatchersWait == watchers \subseteq Ready \cup missed

\* A message for the client about the operation, and the reply that is still to be written.
About(m, c, o) == m.client = c /\ m.op = o
Replying(c, o) == handling.phase = "Stored" /\ handling.client = c /\ handling.op = o

\* Dropped is the last the client hears of the operation: on its way, or received.
DropSent(c, o) ==
    \E i \in 1 .. Len(signals) :
        /\ signals[i] = [client |-> c, op |-> o, status |-> "Dropped"]
        /\ \A j \in i + 1 .. Len(signals) : ~About(signals[j], c, o)
DropSeen(c, o) ==
    /\ \A i \in 1 .. Len(signals) : ~About(signals[i], c, o)
    /\ ~Replying(c, o)
    /\ c \in open => LastSeen(c, o, "Dropped")

RegisteredIsPending ==
    \A o \in TopOps : registry[o] # NoClient =>
        \/ o \in Ready /\ o \in watchers
        \/ o \in missed
        \/ DropSent(registry[o], o)
        \/ DropSeen(registry[o], o)

\* Whoever is registered or is sent a message has the reply, or is about to get it.
ReplyIsFirst ==
    \A c \in Clients : \A o \in TopOps :
        (registry[o] = c \/ \E i \in 1 .. Len(signals) : About(signals[i], c, o))
            => seen[c][o] # <<>> \/ Replying(c, o)

\* Last statuses received, on their way and to come, against the replies.
Finals(c, o) == {[client |-> c, op |-> o, status |-> s] : s \in Ends}
EndsAreAsked ==
    \A c \in Clients : \A o \in TopOps :
        Count(seen[c][o], Ends) + Count(signals, Finals(c, o)) + (IF registry[o] = c THEN 1 ELSE 0)
            <= Count(seen[c][o], {"Submitted"}) + (IF Replying(c, o) THEN 1 ELSE 0)

TopPoolInv ==
    /\ TopPoolTyped /\ OneCallPerNonce /\ RequestStands /\ WatchersWait
    /\ RegisteredIsPending /\ ReplyIsFirst /\ EndsAreAsked /\ NoUnaskedStatus

-----------------------------------------------------------------------------
(* Counting in sequences.                                                  *)

LEMMA CountType ==
    ASSUME NEW T, NEW s \in Seq(T), NEW S
    PROVE  /\ IsFiniteSet({i \in 1 .. Len(s) : s[i] \in S})
           /\ Count(s, S) \in Nat
<1>1. Len(s) \in Nat
    OBVIOUS
<1>2. IsFiniteSet(1 .. Len(s))
    BY <1>1, FS_Interval
<1>3. {i \in 1 .. Len(s) : s[i] \in S} \subseteq 1 .. Len(s)
    OBVIOUS
<1>4. IsFiniteSet({i \in 1 .. Len(s) : s[i] \in S})
    BY <1>2, <1>3, FS_Subset
<1> QED BY <1>4, FS_CardinalityType DEF Count

LEMMA CountAppend ==
    ASSUME NEW T, NEW s \in Seq(T), NEW x \in T, NEW S
    PROVE  Count(Append(s, x), S) = Count(s, S) + (IF x \in S THEN 1 ELSE 0)
<1> DEFINE I == {i \in 1 .. Len(s) : s[i] \in S}
           J == {i \in 1 .. Len(Append(s, x)) : Append(s, x)[i] \in S}
<1>1. Len(s) \in Nat /\ Len(Append(s, x)) = Len(s) + 1 /\ Append(s, x)[Len(s) + 1] = x
    OBVIOUS
<1>2. \A i \in 1 .. Len(s) : Append(s, x)[i] = s[i]
    OBVIOUS
<1>3. IsFiniteSet(I) /\ Count(s, S) = Cardinality(I) /\ Count(s, S) \in Nat
      /\ Count(Append(s, x), S) = Cardinality(J)
    BY CountType DEF Count
<1>4. \A i : i \in 1 .. Len(s) + 1 <=> i \in 1 .. Len(s) \/ i = Len(s) + 1
    BY <1>1
<1>5. CASE x \in S
    <2>1. J = I \cup {Len(s) + 1}
        BY <1>1, <1>2, <1>4, <1>5
    <2>2. Len(s) + 1 \notin I
        BY <1>1
    <2>3. Cardinality(J) = Cardinality(I) + 1
        BY <1>3, <2>1, <2>2, FS_AddElement
    <2> QED BY <1>3, <1>5, <2>3
<1>6. CASE x \notin S
    <2>1. J = I
        BY <1>1, <1>2, <1>4, <1>6
    <2> HIDE DEF I, J
    <2> QED BY <1>3, <1>6, <2>1
<1> QED BY <1>5, <1>6

LEMMA CountTail ==
    ASSUME NEW T, NEW s \in Seq(T), s # <<>>, NEW S
    PROVE  Count(Tail(s), S) = Count(s, S) - (IF s[1] \in S THEN 1 ELSE 0)
<1> DEFINE I == {i \in 1 .. Len(s) : s[i] \in S}
           K == I \ {1}
           J == {i \in 1 .. Len(Tail(s)) : Tail(s)[i] \in S}
           f == [i \in K |-> i - 1]
<1>1. Len(s) \in Nat \ {0} /\ Len(Tail(s)) = Len(s) - 1 /\ Tail(s) \in Seq(T)
    OBVIOUS
<1>2. \A i \in 1 .. Len(s) - 1 : Tail(s)[i] = s[i + 1]
    OBVIOUS
<1>3. IsFiniteSet(I) /\ Count(s, S) = Cardinality(I) /\ Count(s, S) \in Nat
      /\ Count(Tail(s), S) = Cardinality(J)
    BY CountType DEF Count
<1>4. IsFiniteSet(K) /\ Cardinality(K) = IF 1 \in I THEN Cardinality(I) - 1 ELSE Cardinality(I)
    BY <1>3, FS_RemoveElement
<1>5. f \in Bijection(K, J)
    <2>1. \A i \in K : i \in 2 .. Len(s) /\ s[i] \in S /\ i - 1 \in 1 .. Len(s) - 1 /\ (i - 1) + 1 = i
        BY <1>1
    <2>2. \A i \in K : f[i] \in J
        BY <1>1, <1>2, <2>1
    <2>3. f \in [K -> J]
        BY <2>2
    <2>4. \A i, k \in K : f[i] = f[k] => i = k
        BY <2>1
    <2>5. \A j \in J : \E i \in K : f[i] = j
        <3> TAKE j \in J
        <3>1. j + 1 \in K /\ f[j + 1] = j
            <4>1. j \in 1 .. Len(s) - 1 /\ s[j + 1] \in S
                BY <1>1, <1>2
            <4>2. j + 1 \in 1 .. Len(s) /\ j + 1 # 1 /\ (j + 1) - 1 = j
                BY <1>1, <4>1
            <4> QED BY <4>1, <4>2
        <3> QED BY <3>1
    <2> HIDE DEF f, K, J
    <2> QED BY <2>3, <2>4, <2>5 DEF Bijection, Injection, Surjection, IsInjective
<1>6. Cardinality(J) = Cardinality(K)
    <2> HIDE DEF J, K, f
    <2>1. ExistsBijection(K, J)
        BY <1>5 DEF ExistsBijection
    <2> QED BY <1>4, <2>1, FS_Bijection
<1>7. 1 \in I <=> s[1] \in S
    BY <1>1
<1> HIDE DEF I, J, K, f
<1> QED BY <1>3, <1>4, <1>6, <1>7

\* What is appended to a sequence counts at most once if at most one of it is in the set.
LEMMA CountMore ==
    ASSUME NEW T, NEW s \in Seq(T), NEW r \in Seq(T), NEW S, Len(s) <= Len(r),
           \A i \in 1 .. Len(s) : r[i] = s[i],
           \A i, j \in Len(s) + 1 .. Len(r) : r[i] \in S /\ r[j] \in S => i = j
    PROVE  /\ Count(r, S) <= Count(s, S) + 1
           /\ (\A i \in Len(s) + 1 .. Len(r) : r[i] \notin S) => Count(r, S) = Count(s, S)
<1> DEFINE I == {i \in 1 .. Len(s) : s[i] \in S}
           J == {i \in 1 .. Len(r) : r[i] \in S}
<1>1. Len(s) \in Nat /\ Len(r) \in Nat
    OBVIOUS
<1>2. IsFiniteSet(I) /\ Count(s, S) = Cardinality(I) /\ Count(s, S) \in Nat
      /\ Count(r, S) = Cardinality(J)
    BY CountType DEF Count
<1>3. \A i : i \in 1 .. Len(r) <=> i \in 1 .. Len(s) \/ i \in Len(s) + 1 .. Len(r)
    BY <1>1
<1>4. CASE \A i \in Len(s) + 1 .. Len(r) : r[i] \notin S
    <2>1. I = J
        BY <1>1, <1>3, <1>4
    <2> HIDE DEF I, J
    <2> QED BY <1>2, <2>1
<1>5. CASE \E i \in Len(s) + 1 .. Len(r) : r[i] \in S
    <2>1. PICK n \in Len(s) + 1 .. Len(r) : r[n] \in S
        BY <1>5
    <2>2. J = I \cup {n} /\ n \notin I
        BY <1>1, <1>3, <2>1
    <2>3. Cardinality(J) = Cardinality(I) + 1
        BY <1>2, <2>2, FS_AddElement
    <2> QED BY <1>2, <2>1, <2>3
<1> QED BY <1>4, <1>5

-----------------------------------------------------------------------------
(* The ready operations.                                                   *)

\* The operations that enforce_limits leaves are no more than the limit.
LEMMA LimitEnforced ==
    ASSUME NEW D, IsFiniteSet(D), NEW q \in [D -> Nat],
           \A x, y \in D : q[x] = q[y] => x = y
    PROVE  Cardinality(D \ Excess(q)) <= TopLimit
<1> DEFINE K == D \ Excess(q)
           Newer(m) == {x \in D : q[x] > q[m]}
<1>1. TopLimit \in Nat \ {0} /\ DOMAIN q = D
    BY TopPoolAssumption
<1>2. CASE K = {}
    BY <1>1, <1>2, FS_EmptySet
<1>3. CASE K # {}
    <2> DEFINE Q == {q[x] : x \in K}
    <2>1. Q \in SUBSET Nat /\ Q # {}
        BY <1>3
    <2> HIDE DEF Q
    <2>2. PICK i \in Q : \A j \in Q : i <= j
        BY <2>1, LeastIndex
    <2>3. PICK m \in K : \A x \in K : q[m] <= q[x]
        BY <2>2 DEF Q
    <2>4. K \ {m} \subseteq Newer(m)
        BY <2>3
    <2>5. IsFiniteSet(Newer(m)) /\ IsFiniteSet(K)
        <3>1. Newer(m) \subseteq D /\ K \subseteq D
            OBVIOUS
        <3> QED BY <3>1, FS_Subset
    <2>6. Cardinality(Newer(m)) \in Nat /\ ~(Cardinality(Newer(m)) >= TopLimit)
        BY <1>1, <2>3, <2>5, FS_CardinalityType DEF Excess
    <2>7. Cardinality(K \ {m}) <= Cardinality(Newer(m))
        BY <2>4, <2>5, FS_Subset
    <2>8. Cardinality(K) \in Nat /\ Cardinality(K \ {m}) = Cardinality(K) - 1
        BY <2>3, <2>5, FS_CardinalityType, FS_RemoveElement
    <2>9. Cardinality(K) <= TopLimit
        <3> HIDE DEF K, Newer
        <3>1. /\ Cardinality(K) - 1 <= Cardinality(Newer(m)) /\ Cardinality(Newer(m)) < TopLimit
              /\ Cardinality(K \ {m}) \in Int /\ TopLimit \in Nat
            BY <1>1, <2>6, <2>7, <2>8
        <3> QED BY <2>6, <2>8, <3>1
    <2> QED BY <2>9
<1> QED BY <1>2, <1>3

\* Removing operations leaves the others as they were.
LEMMA RemovedType ==
    ASSUME NEW D, NEW q \in [D -> Nat], NEW ops
    PROVE  /\ Removed(q, ops) \in [D \ ops -> Nat] /\ DOMAIN Removed(q, ops) = D \ ops
           /\ \A x \in D \ ops : Removed(q, ops)[x] = q[x]
BY DEF Removed

\* No two operations with the same tag, or inserted at the same time.
Distinct(q) == \A x, y \in DOMAIN q : Tag(x) = Tag(y) \/ q[x] = q[y] => x = y

LEMMA InsertedType ==
    ASSUME TopPoolTyped, OneCallPerNonce, NEW o \in TopOps, Importable(o)
    PROVE  /\ Inserted(o) \in [Ready \cup {o} -> 1 .. insertionId + 1]
           /\ DOMAIN Inserted(o) = Ready \cup {o} /\ o \notin Ready
           /\ Distinct(Inserted(o))
<1>1. /\ insertionId \in Nat /\ \A x \in Ready : topReady[x] \in 1 .. insertionId
      /\ Distinct(topReady) /\ o \notin Ready /\ \A x \in Ready : Tag(x) # Tag(o)
    BY DEF TopPoolTyped, OneCallPerNonce, Importable, is_imported_top, Distinct, Ready
<1>2. \A x \in Ready \cup {o} : Inserted(o)[x] = IF x = o THEN insertionId + 1 ELSE topReady[x]
    BY DEF Inserted
<1>3. Inserted(o) \in [Ready \cup {o} -> 1 .. insertionId + 1] /\ DOMAIN Inserted(o) = Ready \cup {o}
    BY <1>1, <1>2 DEF Inserted
<1>4. ASSUME NEW x \in Ready \cup {o}, NEW y \in Ready \cup {o},
             Tag(x) = Tag(y) \/ Inserted(o)[x] = Inserted(o)[y]
      PROVE  x = y
    BY <1>1, <1>2, <1>4 DEF Distinct, Ready
<1> QED BY <1>1, <1>3, <1>4 DEF Distinct

-----------------------------------------------------------------------------
(* What an event does: the messages, the registry and the watchers.        *)

Told(c, o, status) == [client |-> c, op |-> o, status |-> status]
TopMessages == [client : Clients, op : TopOps, status : TopStatuses]

\* Each registered operation that is watched gets one message.
Fired(ops, status) ==
    /\ signals' \in Seq(TopMessages) /\ Len(signals) <= Len(signals')
    /\ \A i \in 1 .. Len(signals) : signals'[i] = signals[i]
    /\ \A i \in Len(signals) + 1 .. Len(signals') : \E o \in ops \cap watchers :
          registry[o] # NoClient /\ signals'[i] = Told(registry[o], o, status)
    /\ \A o \in ops \cap watchers : registry[o] # NoClient =>
          \E i \in Len(signals) + 1 .. Len(signals') : signals'[i] = Told(registry[o], o, status)
    /\ \A i, j \in Len(signals) + 1 .. Len(signals') : signals'[i].op = signals'[j].op => i = j
    /\ registry' \in [TopOps -> Clients \cup {NoClient}]
    /\ \A o \in TopOps : registry'[o] = IF o \in ops \cap watchers /\ ~continue_watching(status)
                                       THEN NoClient ELSE registry[o]
    /\ watchers' = IF is_done(status) THEN watchers \ ops ELSE watchers
    /\ missed' = missed \cup (IF is_done(status) THEN ops \cap InRequest ELSE {})

LEMMA FireFires ==
    ASSUME TopPoolTyped, NEW ops, NEW status \in TopStatuses, fire(ops, status)
    PROVE  Fired(ops, status)
<1> DEFINE reached == {o \in ops \cap watchers : registry[o] # NoClient}
           n == Cardinality(reached)
<1>1. /\ watchers \subseteq TopOps /\ registry \in [TopOps -> Clients \cup {NoClient}]
      /\ signals \in Seq(TopMessages) /\ Len(signals) \in Nat
    BY DEF TopPoolTyped, TopMessages
<1>2. reached \subseteq TopOps /\ IsFiniteSet(reached) /\ n \in Nat
    <2>1. reached \subseteq TopOps
        BY <1>1
    <2>2. IsFiniteSet(reached)
        BY <2>1, TopPoolAssumption, FS_Subset
    <2> QED BY <2>1, <2>2, FS_CardinalityType
<1>3. PICK b \in Bijection(1 .. n, reached) :
          signals' = signals \o [i \in 1 .. n |-> Told(registry[b[i]], b[i], status)]
    BY DEF fire, update_status_event, Told
<1>4. /\ b \in [1 .. n -> reached] /\ \A i, j \in 1 .. n : b[i] = b[j] => i = j
      /\ \A o \in reached : \E i \in 1 .. n : b[i] = o
    BY DEF Bijection, Injection, Surjection, IsInjective
<1>5. PICK m : m = [i \in 1 .. n |-> Told(registry[b[i]], b[i], status)]
    OBVIOUS
<1>6. \A i \in 1 .. n : /\ m[i] = Told(registry[b[i]], b[i], status) /\ m[i] \in TopMessages
                       /\ m[i].op = b[i] /\ b[i] \in reached
    BY <1>1, <1>2, <1>4, <1>5 DEF Told, TopMessages
<1>7. m \in Seq(TopMessages) /\ Len(m) = n
    <2>1. m \in [1 .. n -> TopMessages]
        BY <1>5, <1>6
    <2> HIDE DEF n, reached
    <2> QED BY <1>2, <2>1
<1>8. signals' = signals \o m
    BY <1>3, <1>5
<1> HIDE DEF n
<1>9. /\ signals' \in Seq(TopMessages) /\ Len(signals') = Len(signals) + n
      /\ \A i \in 1 .. Len(signals) : signals'[i] = signals[i]
    <2>1. \A S : \A s, r \in Seq(S) : /\ s \o r \in Seq(S) /\ Len(s \o r) = Len(s) + Len(r)
                                      /\ \A i \in 1 .. Len(s) : (s \o r)[i] = s[i]
        OBVIOUS
    <2> QED BY <1>1, <1>7, <1>8, <2>1
<1>10. \A i \in Len(signals) + 1 .. Len(signals') :
          i - Len(signals) \in 1 .. n /\ signals'[i] = m[i - Len(signals)]
    <2>1. \A S : \A s, r \in Seq(S) : \A i \in Len(s) + 1 .. Len(s) + Len(r) :
              i - Len(s) \in 1 .. Len(r) /\ (s \o r)[i] = r[i - Len(s)]
        OBVIOUS
    <2> QED BY <1>1, <1>7, <1>8, <1>9, <2>1
<1>11. \A i \in 1 .. n :
          Len(signals) + i \in Len(signals) + 1 .. Len(signals') /\ signals'[Len(signals) + i] = m[i]
    BY <1>1, <1>2, <1>7, <1>8, <1>9
<1>12. \A i \in Len(signals) + 1 .. Len(signals') : \E o \in ops \cap watchers :
          registry[o] # NoClient /\ signals'[i] = Told(registry[o], o, status)
    BY <1>6, <1>10
<1>13. ASSUME NEW o \in ops \cap watchers, registry[o] # NoClient
      PROVE  \E i \in Len(signals) + 1 .. Len(signals') : signals'[i] = Told(registry[o], o, status)
    <2>1. PICK i \in 1 .. n : b[i] = o
        BY <1>4, <1>13
    <2> QED BY <1>6, <1>11, <2>1
<1>14. ASSUME NEW i \in Len(signals) + 1 .. Len(signals'), NEW j \in Len(signals) + 1 .. Len(signals'),
              signals'[i].op = signals'[j].op
      PROVE  i = j
    <2>1. b[i - Len(signals)] = b[j - Len(signals)]
        BY <1>6, <1>10, <1>14
    <2>2. i - Len(signals) = j - Len(signals)
        BY <1>4, <1>10, <2>1
    <2>3. i \in Int /\ j \in Int
        BY <1>1, <1>2, <1>9
    <2> QED BY <1>1, <2>2, <2>3
<1>15. /\ registry' \in [TopOps -> Clients \cup {NoClient}]
       /\ \A o \in TopOps : registry'[o] = IF o \in ops \cap watchers /\ ~continue_watching(status)
                                          THEN NoClient ELSE registry[o]
    BY <1>1 DEF fire, update_status_event
<1>16. /\ watchers' = (IF is_done(status) THEN watchers \ ops ELSE watchers)
       /\ missed' = missed \cup (IF is_done(status) THEN ops \cap InRequest ELSE {})
    BY DEF fire
<1>17. Len(signals) <= Len(signals')
    BY <1>1, <1>2, <1>9
<1> QED BY <1>9, <1>12, <1>13, <1>14, <1>15, <1>16, <1>17 DEF Fired

\* The messages before an event stay, and those of the event are about what is watched.
LEMMA MessagesStay ==
    ASSUME TopPoolTyped, NEW ops, NEW status \in TopStatuses, Fired(ops, status)
    PROVE  /\ \A i \in 1 .. Len(signals) : i \in 1 .. Len(signals') /\ signals'[i] = signals[i]
           /\ \A i \in 1 .. Len(signals') : i \in 1 .. Len(signals) \/ i \in Len(signals) + 1 .. Len(signals')
           /\ \A c : \A o \in TopOps : \A i \in Len(signals) + 1 .. Len(signals') :
                 About(signals'[i], c, o) =>
                    o \in ops \cap watchers /\ registry[o] = c /\ signals'[i] = Told(c, o, status)
<1>1. Len(signals) \in Nat /\ Len(signals') \in Nat /\ Len(signals) <= Len(signals')
    BY DEF TopPoolTyped, Fired
<1>2. ASSUME NEW c, NEW o \in TopOps, NEW i \in Len(signals) + 1 .. Len(signals'),
             About(signals'[i], c, o)
      PROVE  o \in ops \cap watchers /\ registry[o] = c /\ signals'[i] = Told(c, o, status)
    <2>1. PICK x \in ops \cap watchers : signals'[i] = Told(registry[x], x, status)
        BY DEF Fired
    <2>2. x = o /\ registry[x] = c
        BY <1>2, <2>1 DEF About, Told
    <2> QED BY <2>1, <2>2
<1>3. \A i \in 1 .. Len(signals) : i \in 1 .. Len(signals') /\ signals'[i] = signals[i]
    BY <1>1 DEF Fired
<1>4. \A i \in 1 .. Len(signals') : i \in 1 .. Len(signals) \/ i \in Len(signals) + 1 .. Len(signals')
    BY <1>1
<1> QED BY <1>2, <1>3, <1>4

\* After an event, what is watched is in the pool and what is registered is pending.
LEMMA FirePends ==
    ASSUME TopPoolTyped, WatchersWait, RegisteredIsPending,
           NEW ops, NEW status \in TopStatuses, Fired(ops, status),
           Ready \ ops \subseteq Ready', status = "Ready" => Ready \subseteq Ready',
           UNCHANGED <<open, seen>>,
           handling.phase = "Stored" \/ handling'.phase = "Stored" => handling' = handling
    PROVE  WatchersWait' /\ RegisteredIsPending'
<1>1. /\ watchers' = (IF is_done(status) THEN watchers \ ops ELSE watchers)
      /\ missed \subseteq missed'
      /\ \A o \in TopOps : registry'[o] = IF o \in ops \cap watchers /\ ~continue_watching(status)
                                         THEN NoClient ELSE registry[o]
    BY DEF Fired
<1>2. is_done(status) <=> status # "Ready"
    BY DEF is_done, TopStatuses
<1>3. continue_watching(status) <=> status \in {"Ready", "Dropped"}
    BY DEF continue_watching, TopStatuses
<1>4. WatchersWait'
    BY <1>1, <1>2 DEF WatchersWait
<1>5. ASSUME NEW o \in TopOps, registry'[o] # NoClient
      PROVE  \/ o \in Ready' /\ o \in watchers'
             \/ o \in missed'
             \/ DropSent(registry[o], o)'
             \/ DropSeen(registry[o], o)'
    <2> DEFINE c == registry[o]
    <2>1. registry'[o] = c /\ registry[o] # NoClient
        BY <1>1, <1>5
    <2>2. /\ \A i \in 1 .. Len(signals) : i \in 1 .. Len(signals') /\ signals'[i] = signals[i]
          /\ \A i \in 1 .. Len(signals') : i \in 1 .. Len(signals) \/ i \in Len(signals) + 1 .. Len(signals')
          /\ \A i \in Len(signals) + 1 .. Len(signals') :
                 About(signals'[i], c, o) => o \in ops \cap watchers
        BY MessagesStay
    <2>3. CASE o \in Ready /\ o \in watchers /\ (o \notin ops \/ status = "Ready")
        BY <1>1, <1>2, <2>3
    <2>4. CASE o \in Ready /\ o \in watchers /\ o \in ops /\ status # "Ready"
        <3>1. status = "Dropped"
            BY <1>1, <1>3, <1>5, <2>4
        <3>2. PICK i \in Len(signals) + 1 .. Len(signals') : signals'[i] = Told(c, o, "Dropped")
            BY <2>1, <2>4, <3>1 DEF Fired
        <3>3. i \in 1 .. Len(signals')
            BY <3>2 DEF TopPoolTyped, Fired
        <3>4. ASSUME NEW j \in i + 1 .. Len(signals'), About(signals'[j], c, o) PROVE FALSE
            <4>1. j \in Len(signals) + 1 .. Len(signals') /\ j # i
                BY <3>2 DEF TopPoolTyped, Fired
            <4>2. signals'[j].op = signals'[i].op
                BY <3>2, <3>4 DEF About, Told
            <4> QED BY <3>2, <4>1, <4>2 DEF Fired
        <3>5. DropSent(c, o)'
            <4>1. /\ signals'[i] = [client |-> registry[o], op |-> o, status |-> "Dropped"]
                  /\ \A j \in i + 1 .. Len(signals') : ~About(signals'[j], registry[o], o)
                BY <3>2, <3>4 DEF Told
            <4>2. registry'[o] = registry[o]
                BY <2>1
            <4> QED BY <3>3, <4>1, <4>2 DEF DropSent
        <3> QED BY <3>5
    <2>5. CASE o \in missed
        BY <1>1, <2>5
    <2>6. CASE o \in watchers
        BY <2>3, <2>4, <2>5, <2>6 DEF WatchersWait
    <2>7. CASE o \notin watchers /\ DropSent(c, o)
        BY <2>1, <2>2, <2>7 DEF DropSent
    <2>8. CASE o \notin watchers /\ DropSeen(c, o)
        BY <2>1, <2>2, <2>8 DEF DropSeen, Replying, LastSeen
    <2> QED BY <2>1, <2>5, <2>6, <2>7, <2>8 DEF RegisteredIsPending
<1>6. ASSUME NEW o \in TopOps, registry'[o] # NoClient PROVE registry'[o] = registry[o]
    BY <1>1, <1>6
<1> QED BY <1>4, <1>5, <1>6 DEF RegisteredIsPending

\* After an event, the reply still comes first, and last statuses are not more than asked for.
LEMMA FireTells ==
    ASSUME TopPoolTyped, ReplyIsFirst, EndsAreAsked, NoUnaskedStatus,
           NEW ops, NEW status \in TopStatuses, Fired(ops, status), UNCHANGED seen,
           handling.phase = "Stored" \/ handling'.phase = "Stored" => handling' = handling
    PROVE  ReplyIsFirst' /\ EndsAreAsked' /\ NoUnaskedStatus'
<1>1. /\ \A i \in 1 .. Len(signals') : i \in 1 .. Len(signals) \/ i \in Len(signals) + 1 .. Len(signals')
      /\ \A i \in 1 .. Len(signals) : signals'[i] = signals[i]
      /\ \A c : \A o \in TopOps : \A i \in Len(signals) + 1 .. Len(signals') :
            About(signals'[i], c, o) =>
               o \in ops \cap watchers /\ registry[o] = c /\ signals'[i] = Told(c, o, status)
    BY MessagesStay
<1>2. /\ \A o \in TopOps : registry'[o] = IF o \in ops \cap watchers /\ ~continue_watching(status)
                                         THEN NoClient ELSE registry[o]
      /\ NoClient \notin Clients
    BY TopPoolAssumption DEF Fired, NoClient
<1>3. ASSUME NEW c \in Clients, NEW o \in TopOps PROVE Replying(c, o)' <=> Replying(c, o)
    BY DEF Replying
<1>4. ReplyIsFirst'
    <2>1. ASSUME NEW c \in Clients, NEW o \in TopOps,
                 registry'[o] = c \/ \E i \in 1 .. Len(signals') : About(signals'[i], c, o)
          PROVE  seen[c][o] # <<>> \/ Replying(c, o)
        <3>1. registry[o] = c \/ \E i \in 1 .. Len(signals) : About(signals[i], c, o)
            BY <1>1, <1>2, <2>1
        <3> QED BY <3>1 DEF ReplyIsFirst
    <2> QED BY <1>3, <2>1 DEF ReplyIsFirst
<1>5. EndsAreAsked'
    <2> SUFFICES ASSUME NEW c \in Clients, NEW o \in TopOps
                 PROVE  Count(seen[c][o], Ends) + Count(signals', Finals(c, o))
                            + (IF registry'[o] = c THEN 1 ELSE 0)
                        <= Count(seen[c][o], {"Submitted"}) + (IF Replying(c, o) THEN 1 ELSE 0)
        BY <1>3 DEF EndsAreAsked, Finals
    <2>1. /\ Count(seen[c][o], Ends) + Count(signals, Finals(c, o)) + (IF registry[o] = c THEN 1 ELSE 0)
                 <= Count(seen[c][o], {"Submitted"}) + (IF Replying(c, o) THEN 1 ELSE 0)
        BY DEF EndsAreAsked
    <2>2. /\ Count(seen[c][o], Ends) \in Nat /\ Count(seen[c][o], {"Submitted"}) \in Nat
          /\ Count(signals, Finals(c, o)) \in Nat /\ Count(signals', Finals(c, o)) \in Nat
        <3>1. seen[c][o] \in Seq(TopStatuses \cup {"Submitted"})
            BY DEF TopPoolTyped
        <3>2. signals \in Seq(TopMessages) /\ signals' \in Seq(TopMessages)
            BY DEF TopPoolTyped, TopMessages, Fired
        <3> QED BY <3>1, <3>2, CountType
    <2>3. \A i \in Len(signals) + 1 .. Len(signals') : signals'[i] \in Finals(c, o) =>
              /\ o \in ops \cap watchers /\ registry[o] = c /\ status \in Ends
              /\ signals'[i].op = o
        <3> TAKE i \in Len(signals) + 1 .. Len(signals')
        <3> HAVE signals'[i] \in Finals(c, o)
        <3>1. About(signals'[i], c, o) /\ signals'[i].status \in Ends
            BY DEF Finals, About
        <3>2. o \in ops \cap watchers /\ registry[o] = c /\ signals'[i] = Told(c, o, status)
            BY <1>1, <3>1
        <3>3. Told(c, o, status).op = o /\ Told(c, o, status).status = status
            BY DEF Told
        <3> QED BY <3>1, <3>2, <3>3
    <2>4. /\ Count(signals', Finals(c, o)) <= Count(signals, Finals(c, o)) + 1
          /\ (\A i \in Len(signals) + 1 .. Len(signals') : signals'[i] \notin Finals(c, o)) =>
                Count(signals', Finals(c, o)) = Count(signals, Finals(c, o))
        <3>1. signals \in Seq(TopMessages) /\ signals' \in Seq(TopMessages)
            BY DEF TopPoolTyped, TopMessages, Fired
        <3>2. \A i, j \in Len(signals) + 1 .. Len(signals') :
                  signals'[i] \in Finals(c, o) /\ signals'[j] \in Finals(c, o) => i = j
            BY <2>3 DEF Fired
        <3>3. Len(signals) <= Len(signals')
            BY DEF Fired
        <3>4. PICK r : r = signals'
            OBVIOUS
        <3>5. /\ r \in Seq(TopMessages) /\ Len(signals) <= Len(r)
              /\ \A i \in 1 .. Len(signals) : r[i] = signals[i]
              /\ \A i, j \in Len(signals) + 1 .. Len(r) : r[i] \in Finals(c, o) /\ r[j] \in Finals(c, o) => i = j
            BY <1>1, <3>1, <3>2, <3>3, <3>4
        <3>6. /\ Count(r, Finals(c, o)) <= Count(signals, Finals(c, o)) + 1
              /\ (\A i \in Len(signals) + 1 .. Len(r) : r[i] \notin Finals(c, o)) =>
                    Count(r, Finals(c, o)) = Count(signals, Finals(c, o))
            <4> HIDE DEF Finals
            <4> QED BY <3>1, <3>5, CountMore
        <3> QED BY <3>4, <3>6
    <2>5. CASE \A i \in Len(signals) + 1 .. Len(signals') : signals'[i] \notin Finals(c, o)
        <3>1. Count(signals', Finals(c, o)) = Count(signals, Finals(c, o))
            BY <2>4, <2>5
        <3>2. registry'[o] = c => registry[o] = c
            BY <1>2
        <3> QED BY <2>1, <2>2, <3>1, <3>2
    <2>6. CASE \E i \in Len(signals) + 1 .. Len(signals') : signals'[i] \in Finals(c, o)
        <3>1. o \in ops \cap watchers /\ registry[o] = c /\ status \in Ends
            BY <2>3, <2>6
        <3>2. registry'[o] # c
            BY <1>2, <3>1 DEF continue_watching, Ends
        <3> QED BY <2>1, <2>2, <2>4, <3>1, <3>2
    <2> QED BY <2>5, <2>6
<1>6. NoUnaskedStatus'
    BY DEF NoUnaskedStatus
<1> QED BY <1>4, <1>5, <1>6

\* A request that is not through keeps its operation in the pool, or its end is missed.
LEMMA FireStands ==
    ASSUME TopPoolTyped, RequestStands, NEW ops, NEW status \in TopStatuses, Fired(ops, status),
           Ready \ ops \subseteq Ready', status = "Ready" => Ready \subseteq Ready',
           UNCHANGED <<open, handling>>
    PROVE  RequestStands'
<1>1. /\ watchers' = (IF is_done(status) THEN watchers \ ops ELSE watchers)
      /\ missed' = missed \cup (IF is_done(status) THEN ops \cap InRequest ELSE {})
    BY DEF Fired
<1>2. is_done(status) <=> status # "Ready"
    BY DEF is_done, TopStatuses
<1>3. handling.phase \in {"Imported", "Limited", "Watched"} => handling.op \in InRequest
    BY DEF InRequest
<1> QED BY <1>1, <1>2, <1>3 DEF RequestStands

LEMMA FireTyped ==
    ASSUME TopPoolTyped, NEW ops \in SUBSET TopOps, NEW status \in TopStatuses, Fired(ops, status)
    PROVE  /\ watchers' \subseteq TopOps /\ missed' \subseteq TopOps
           /\ registry' \in [TopOps -> Clients \cup {NoClient}]
           /\ signals' \in Seq([client : Clients, op : TopOps, status : TopStatuses])
<1>1. /\ watchers' \subseteq watchers /\ missed' \subseteq missed \cup ops
    BY DEF Fired
<1> QED BY <1>1 DEF TopPoolTyped, Fired, TopMessages

LEMMA BanTyped ==
    ASSUME TopPoolTyped, NEW ops \in SUBSET TopOps, ban(ops)
    PROVE  banned' \subseteq TopOps /\ Cardinality(banned') <= 2 * BanCapacity
<1> DEFINE all == banned \cup ops
<1>1. all \subseteq TopOps /\ BanCapacity \in Nat
    BY TopPoolAssumption DEF TopPoolTyped
<1>2. Cardinality(all) \in Nat
    BY <1>1, TopPoolAssumption, FS_Subset, FS_CardinalityType
<1> HIDE DEF all
<1>3. CASE Cardinality(all) > 2 * BanCapacity
    <2>1. PICK S \in {T \in SUBSET all : Cardinality(T) = BanCapacity} : banned' = S
        BY <1>3 DEF ban, all
    <2> QED BY <1>1, <2>1
<1>4. CASE ~(Cardinality(all) > 2 * BanCapacity)
    <2>1. banned' = all
        BY <1>4 DEF ban, all
    <2> QED BY <1>1, <1>2, <1>4, <2>1
<1> QED BY <1>3, <1>4

\* Steps that tell nobody anything.
LEMMA QuietKeeps ==
    ASSUME WatchersWait, RegisteredIsPending, ReplyIsFirst, EndsAreAsked, NoUnaskedStatus,
           UNCHANGED <<watchers, registry, signals, missed, seen>>, Ready \subseteq Ready',
           handling.phase = "Stored" \/ handling'.phase = "Stored" => handling' = handling,
           \A o \in TopOps : registry[o] \in open' => registry[o] \in open
    PROVE  WatchersWait' /\ RegisteredIsPending' /\ ReplyIsFirst' /\ EndsAreAsked' /\ NoUnaskedStatus'
<1>1. \A c, o : Replying(c, o)' <=> Replying(c, o)
    BY DEF Replying
<1>2. \A c, o : DropSent(c, o)' <=> DropSent(c, o)
    BY DEF DropSent
<1>3. \A o \in TopOps : DropSeen(registry[o], o) => DropSeen(registry[o], o)'
    BY <1>1 DEF DropSeen, LastSeen, Replying
<1>4. WatchersWait'
    BY DEF WatchersWait
<1>5. RegisteredIsPending'
    <2>1. ASSUME NEW o \in TopOps, registry[o] # NoClient
          PROVE  \/ o \in Ready' /\ o \in watchers'
                 \/ o \in missed'
                 \/ DropSent(registry[o], o)'
                 \/ DropSeen(registry[o], o)'
        <3>1. \/ o \in Ready /\ o \in watchers
              \/ o \in missed
              \/ DropSent(registry[o], o)
              \/ DropSeen(registry[o], o)
            BY <2>1 DEF RegisteredIsPending
        <3>2. DropSent(registry[o], o) => DropSent(registry[o], o)'
            BY <1>2 DEF DropSent
        <3> QED BY <1>3, <3>1, <3>2
    <2> QED BY <2>1 DEF RegisteredIsPending
<1>6. ReplyIsFirst'
    BY <1>1 DEF ReplyIsFirst
<1>7. EndsAreAsked'
    BY <1>1 DEF EndsAreAsked
<1>8. NoUnaskedStatus'
    BY DEF NoUnaskedStatus
<1> QED BY <1>4, <1>5, <1>6, <1>7, <1>8

\* A status that is heard is not the first, and a last one was asked for.
LEMMA HeardKeeps ==
    ASSUME TopPoolTyped, NoUnaskedStatus, NEW c \in Clients, NEW o \in TopOps,
           NEW status \in TopStatuses \cup {"Submitted"},
           seen' = [seen EXCEPT ![c] = [seen[c] EXCEPT ![o] = Append(seen[c][o], status)]],
           status = "Submitted" \/ seen[c][o] # <<>>,
           status \in Ends => Count(seen[c][o], Ends) + 1 <= Count(seen[c][o], {"Submitted"})
    PROVE  NoUnaskedStatus'
<1> DEFINE s == seen[c][o]
           r == Append(s, status)
<1>1. s \in Seq(TopStatuses \cup {"Submitted"}) /\ Len(s) \in Nat /\ Len(r) = Len(s) + 1
    BY DEF TopPoolTyped
<1>2. \A n \in 1 .. Len(s) : SubSeq(r, 1, n) = SubSeq(s, 1, n)
    <2>1. \A T : \A q \in Seq(T) : \A x \in T : \A n \in 1 .. Len(q) :
              SubSeq(Append(q, x), 1, n) = SubSeq(q, 1, n)
        OBVIOUS
    <2> QED BY <1>1, <2>1
<1>3. SubSeq(r, 1, Len(s) + 1) = r
    <2>1. \A T : \A q \in Seq(T) : \A x \in T : SubSeq(Append(q, x), 1, Len(q) + 1) = Append(q, x)
        OBVIOUS
    <2> QED BY <1>1, <2>1
<1>4. Count(s, Ends) <= Count(s, {"Submitted"}) /\ (s # <<>> => s[1] = "Submitted")
    <2>1. CASE s = <<>>
        <3>1. \A S : {i \in 1 .. Len(s) : s[i] \in S} = {}
            BY <2>1
        <3> QED BY <2>1, <3>1, FS_EmptySet DEF Count
    <2>2. CASE s # <<>>
        <3>1. SubSeq(s, 1, Len(s)) = s /\ Len(s) \in 1 .. Len(s)
            <4>1. \A T : \A q \in Seq(T) : q # <<>> => SubSeq(q, 1, Len(q)) = q /\ Len(q) \in 1 .. Len(q)
                OBVIOUS
            <4> QED BY <1>1, <2>2, <4>1
        <3> QED BY <3>1 DEF NoUnaskedStatus, Ends
    <2> QED BY <2>1, <2>2
<1>5. /\ Count(r, Ends) = Count(s, Ends) + (IF status \in Ends THEN 1 ELSE 0)
      /\ Count(r, {"Submitted"}) = Count(s, {"Submitted"}) + (IF status = "Submitted" THEN 1 ELSE 0)
      /\ Count(s, Ends) \in Nat /\ Count(s, {"Submitted"}) \in Nat
    <2>1. PICK T : T = TopStatuses \cup {"Submitted"}
        OBVIOUS
    <2>2. s \in Seq(T) /\ status \in T
        BY <1>1, <2>1
    <2> HIDE DEF s
    <2>3. \A S : /\ Count(Append(s, status), S) = Count(s, S) + (IF status \in S THEN 1 ELSE 0)
                 /\ Count(s, S) \in Nat
        BY <2>2, CountAppend, CountType
    <2> QED BY <2>3
<1>6. Count(r, Ends) <= Count(r, {"Submitted"})
    <2>1. status \in Ends => status # "Submitted"
        BY DEF Ends
    <2> HIDE DEF r, s
    <2>2. status \in Ends => Count(s, Ends) + 1 <= Count(s, {"Submitted"})
        BY DEF s
    <2> QED BY <1>4, <1>5, <2>1, <2>2
<1>7. r[1] = "Submitted"
    <2>1. CASE s = <<>>
        BY <2>1
    <2>2. CASE s # <<>>
        <3>1. r[1] = s[1]
            BY <1>1, <2>2
        <3> QED BY <1>4, <2>2, <3>1
    <2> QED BY <2>1, <2>2
<1>8. ASSUME NEW d \in Clients, NEW x \in TopOps, NEW n \in 1 .. Len(seen'[d][x])
      PROVE  /\ SubSeq(seen'[d][x], 1, n)[1] = "Submitted"
             /\ Count(SubSeq(seen'[d][x], 1, n), Ends) <= Count(SubSeq(seen'[d][x], 1, n), {"Submitted"})
    <2>0. seen \in [Clients -> [TopOps -> Seq(TopStatuses \cup {"Submitted"})]]
        BY DEF TopPoolTyped
    <2>1. CASE d = c /\ x = o
        <3>1. seen'[d][x] = r
            BY <2>0, <2>1
        <3>2. CASE n = Len(s) + 1
            BY <1>3, <1>6, <1>7, <3>1, <3>2
        <3>3. CASE n # Len(s) + 1
            <4>1. n \in 1 .. Len(s)
                BY <1>1, <1>8, <3>1, <3>3
            <4>2. SubSeq(seen'[d][x], 1, n) = SubSeq(s, 1, n)
                BY <1>2, <3>1, <4>1
            <4> QED BY <4>1, <4>2 DEF NoUnaskedStatus, Ends
        <3> QED BY <3>2, <3>3
    <2>2. CASE ~(d = c /\ x = o)
        <3>1. seen'[d][x] = seen[d][x]
            BY <2>0, <2>2
        <3> QED BY <1>8, <3>1 DEF NoUnaskedStatus, Ends
    <2> QED BY <2>1, <2>2
<1> QED BY <1>8 DEF NoUnaskedStatus, Ends

-----------------------------------------------------------------------------
(* The steps of a request.                                                 *)

Requests == [phase : Phases, client : Clients, op : TopOps, watch : BOOLEAN]

LEMMA RequestFields ==
    ASSUME TopPoolTyped, handling.phase # "idle"
    PROVE  /\ handling \in Requests /\ handling # Idle /\ handling.client \in Clients
           /\ handling.op \in TopOps /\ handling.watch \in BOOLEAN /\ handling.phase \in Phases
           /\ \A p \in Phases : /\ [handling EXCEPT !.phase = p] \in Requests
                               /\ [handling EXCEPT !.phase = p].phase = p
                               /\ [handling EXCEPT !.phase = p].client = handling.client
                               /\ [handling EXCEPT !.phase = p].op = handling.op
                               /\ [handling EXCEPT !.phase = p] # Idle
<1>1. handling # Idle
    BY DEF Idle
<1>2. handling \in Requests
    BY <1>1 DEF TopPoolTyped, Requests
<1>3. ASSUME NEW p \in Phases
      PROVE  /\ [handling EXCEPT !.phase = p] \in Requests
             /\ [handling EXCEPT !.phase = p].phase = p
             /\ [handling EXCEPT !.phase = p].client = handling.client
             /\ [handling EXCEPT !.phase = p].op = handling.op
    BY <1>2 DEF Requests
<1>4. ASSUME NEW p \in Phases PROVE [handling EXCEPT !.phase = p] # Idle
    BY <1>3 DEF Idle, Phases
<1> QED BY <1>1, <1>2, <1>3, <1>4 DEF Requests

LEMMA IdleFields == Idle.phase = "idle"
BY DEF Idle

\* The pool as it was: nothing exceeds the limit that did not.
LEMMA PoolSame ==
    ASSUME OneCallPerNonce, UNCHANGED topReady, handling.phase = "Imported" => handling'.phase = "Imported"
    PROVE  OneCallPerNonce' /\ Ready' = Ready
BY DEF OneCallPerNonce, Ready

LEMMA HandleMessageKeeps ==
    ASSUME TopPoolInv, NEW c \in Clients, NEW o \in TopOps, NEW w \in BOOLEAN, handle_message(c, o, w)
    PROVE  TopPoolInv'
<1>1. /\ handling = Idle /\ c \in open
      /\ UNCHANGED <<topReady, insertionId, banned, open, slot, nonces, seen>>
      /\ UNCHANGED <<watchers, registry, signals, missed>>
    BY DEF handle_message, quiet
<1>2. PICK h \in {Idle} \cup Requests : /\ handling' = h /\ (h # Idle => h.client = c)
                                       /\ h.phase \notin {"Stored", "Imported", "Limited", "Watched"}
    <2>1. CASE process_top(o) = "UnsupportedOperation"
        <3>1. handling' = Idle
            BY <2>1 DEF handle_message
        <3> QED BY <3>1, IdleFields
    <2>2. CASE process_top(o) # "UnsupportedOperation"
        <3>1. PICK p : p = process_top(o)
            OBVIOUS
        <3>2. p \in {"Valid", "Invalid"}
            BY <2>2, <3>1 DEF process_top, verify_one
        <3>3. handling' = [phase |-> p, client |-> c, op |-> o, watch |-> w]
            BY <2>2, <3>1 DEF handle_message
        <3>4. [phase |-> p, client |-> c, op |-> o, watch |-> w] \in Requests
            BY <3>2 DEF Requests, Phases
        <3> QED BY <3>2, <3>3, <3>4
    <2> QED BY <2>1, <2>2
<1>3. TopPoolTyped'
    BY <1>1, <1>2 DEF TopPoolInv, TopPoolTyped, Requests, Ready
<1>4. OneCallPerNonce' /\ Ready' = Ready
    BY <1>1, IdleFields, PoolSame DEF TopPoolInv
<1>5. RequestStands'
    BY <1>1, <1>2 DEF RequestStands
<1>6. WatchersWait' /\ RegisteredIsPending' /\ ReplyIsFirst' /\ EndsAreAsked' /\ NoUnaskedStatus'
    BY <1>1, <1>2, <1>4, IdleFields, QuietKeeps DEF TopPoolInv
<1> QED BY <1>3, <1>4, <1>5, <1>6 DEF TopPoolInv

LEMMA SubmitInvalidKeeps ==
    ASSUME TopPoolInv, submit_invalid
    PROVE  TopPoolInv'
<1>1. /\ handling.phase = "Invalid" /\ handling' = Idle /\ ban({handling.op})
      /\ UNCHANGED <<topReady, insertionId, open, slot, nonces, seen>>
      /\ UNCHANGED <<watchers, registry, signals, missed>>
    BY DEF submit_invalid, quiet
<1>2. TopPoolTyped /\ {handling.op} \in SUBSET TopOps
    BY <1>1, RequestFields DEF TopPoolInv
<1>3. banned' \subseteq TopOps /\ Cardinality(banned') <= 2 * BanCapacity
    BY <1>1, <1>2, BanTyped
<1>4. TopPoolTyped'
    BY <1>1, <1>2, <1>3 DEF TopPoolTyped, Ready
<1>5. OneCallPerNonce' /\ Ready' = Ready
    BY <1>1, PoolSame DEF TopPoolInv
<1>6. RequestStands'
    BY <1>1, IdleFields DEF RequestStands
<1>7. WatchersWait' /\ RegisteredIsPending' /\ ReplyIsFirst' /\ EndsAreAsked' /\ NoUnaskedStatus'
    BY <1>1, <1>5, IdleFields, QuietKeeps DEF TopPoolInv
<1> QED BY <1>4, <1>5, <1>6, <1>7 DEF TopPoolInv

LEMMA SubmitOneKeeps ==
    ASSUME TopPoolInv, submit_one
    PROVE  TopPoolInv'
<1> DEFINE o == handling.op
<1>1. /\ handling.phase = "Valid"
      /\ UNCHANGED <<banned, open, slot, nonces, seen>>
    BY DEF submit_one
<1>2. /\ TopPoolTyped /\ handling # Idle /\ handling \in Requests /\ o \in TopOps
    BY <1>1, RequestFields DEF TopPoolInv
<1>3. CASE Importable(o)
    <2>1. /\ topReady' = Inserted(o) /\ insertionId' = insertionId + 1
          /\ handling' = [handling EXCEPT !.phase = "Imported"] /\ fire({o}, "Ready")
        BY <1>3 DEF submit_one
    <2>2. /\ Inserted(o) \in [Ready \cup {o} -> 1 .. insertionId + 1]
          /\ DOMAIN Inserted(o) = Ready \cup {o} /\ Distinct(Inserted(o))
        BY <1>2, <1>3, InsertedType DEF TopPoolInv
    <2>3. /\ Ready' = Ready \cup {o} /\ topReady' \in [Ready' -> 1 .. insertionId']
          /\ Ready' \subseteq TopOps /\ insertionId' \in Nat
        BY <1>2, <2>1, <2>2 DEF Ready, TopPoolTyped
    <2>4. /\ handling' \in Requests /\ handling'.phase = "Imported" /\ handling' # Idle
          /\ handling'.client = handling.client /\ handling'.op = o
        <3>1. "Imported" \in Phases
            BY DEF Phases
        <3> QED BY <1>1, <1>2, <2>1, <3>1, RequestFields
    <2>5. Fired({o}, "Ready") /\ "Ready" \in TopStatuses /\ {o} \in SUBSET TopOps
        BY <1>2, <2>1, FireFires DEF TopStatuses
    <2>6. TopPoolTyped'
        <3>1. /\ watchers' \subseteq TopOps /\ missed' \subseteq TopOps
              /\ registry' \in [TopOps -> Clients \cup {NoClient}]
              /\ signals' \in Seq([client : Clients, op : TopOps, status : TopStatuses])
            BY <1>2, <2>5, FireTyped
        <3> QED BY <1>1, <1>2, <2>3, <2>4, <3>1 DEF TopPoolTyped, Requests
    <2>7. OneCallPerNonce'
        BY <2>1, <2>2, <2>4 DEF OneCallPerNonce, Distinct, Ready
    <2>8. RequestStands'
        BY <1>1, <1>2, <2>3, <2>4 DEF TopPoolInv, RequestStands
    <2>9. WatchersWait' /\ RegisteredIsPending'
        BY <1>1, <1>2, <2>3, <2>4, <2>5, FirePends DEF TopPoolInv
    <2>10. ReplyIsFirst' /\ EndsAreAsked' /\ NoUnaskedStatus'
        BY <1>1, <1>2, <2>4, <2>5, FireTells DEF TopPoolInv
    <2> QED BY <2>6, <2>7, <2>8, <2>9, <2>10 DEF TopPoolInv
<1>4. CASE ~Importable(o)
    <2>1. handling' = Idle /\ UNCHANGED <<topReady, insertionId, watchers, registry, signals, missed>>
        BY <1>4 DEF submit_one, quiet
    <2>2. TopPoolTyped'
        BY <1>1, <1>2, <2>1 DEF TopPoolTyped, Ready
    <2>3. OneCallPerNonce' /\ Ready' = Ready
        BY <1>1, <2>1, PoolSame DEF TopPoolInv
    <2>4. RequestStands'
        BY <2>1, IdleFields DEF RequestStands
    <2>5. WatchersWait' /\ RegisteredIsPending' /\ ReplyIsFirst' /\ EndsAreAsked' /\ NoUnaskedStatus'
        BY <1>1, <2>1, <2>3, IdleFields, QuietKeeps DEF TopPoolInv
    <2> QED BY <2>2, <2>3, <2>4, <2>5 DEF TopPoolInv
<1> QED BY <1>3, <1>4

\* The pool after enforce_limits.
LEMMA PoolLimited ==
    ASSUME NEW D \in SUBSET TopOps, NEW n \in Nat, NEW q \in [D -> 1 .. n], Distinct(q),
           topReady' = Removed(q, Excess(q))
    PROVE  /\ Ready' = D \ Excess(q) /\ topReady' \in [Ready' -> 1 .. n]
           /\ OneCallPerNonce' /\ Excess(q) \in SUBSET TopOps
<1>1. q \in [D -> Nat] /\ DOMAIN q = D
    OBVIOUS
<1>2. /\ Ready' = D \ Excess(q) /\ \A x \in Ready' : topReady'[x] = q[x]
      /\ topReady' \in [Ready' -> 1 .. n]
    BY DEF Removed, Ready
<1>3. \A x, y \in Ready' : Tag(x) = Tag(y) \/ topReady'[x] = topReady'[y] => x = y
    BY <1>1, <1>2 DEF Distinct
<1>4. Cardinality(Ready') <= TopLimit
    <2>1. IsFiniteSet(D) /\ \A x, y \in D : q[x] = q[y] => x = y
        BY <1>1, TopPoolAssumption, FS_Subset DEF Distinct
    <2> QED BY <1>1, <1>2, <2>1, LimitEnforced
<1>5. Excess(q) \in SUBSET TopOps
    BY <1>1 DEF Excess
<1> QED BY <1>2, <1>3, <1>4, <1>5 DEF OneCallPerNonce

LEMMA EnforceLimitsKeeps ==
    ASSUME TopPoolInv, enforce_top_limits
    PROVE  TopPoolInv'
<1> DEFINE out == Excess(topReady)
<1>1. /\ handling.phase = "Imported" /\ topReady' = Removed(topReady, out)
      /\ ban(out) /\ fire(out, "Dropped")
      /\ handling' = (IF handling.op \in out THEN Idle ELSE [handling EXCEPT !.phase = "Limited"])
      /\ UNCHANGED <<insertionId, open, slot, nonces, seen>>
    BY DEF enforce_top_limits
<1>2. /\ TopPoolTyped /\ handling # Idle /\ handling \in Requests /\ handling.op \in TopOps
    BY <1>1, RequestFields DEF TopPoolInv
<1>3. /\ Ready' = Ready \ out /\ topReady' \in [Ready' -> 1 .. insertionId]
      /\ OneCallPerNonce' /\ out \in SUBSET TopOps
    <2>1. Ready \in SUBSET TopOps /\ insertionId \in Nat /\ topReady \in [Ready -> 1 .. insertionId]
        BY <1>2 DEF TopPoolTyped
    <2>2. Distinct(topReady)
        BY DEF TopPoolInv, OneCallPerNonce, Distinct, Ready
    <2> QED BY <1>1, <2>1, <2>2, PoolLimited
<1> HIDE DEF out
<1>4. /\ handling' \in {Idle} \cup Requests /\ handling'.phase \in {"idle", "Limited"}
      /\ handling' # Idle => /\ handling'.phase = "Limited" /\ handling.op \notin out
                            /\ handling'.client = handling.client /\ handling'.op = handling.op
    <2>1. "Limited" \in Phases
        BY DEF Phases
    <2> QED BY <1>1, <1>2, <2>1, RequestFields, IdleFields
<1>5. Fired(out, "Dropped") /\ "Dropped" \in TopStatuses
    BY <1>1, <1>2, FireFires DEF TopStatuses
<1>6. TopPoolTyped'
    <2>1. /\ watchers' \subseteq TopOps /\ missed' \subseteq TopOps
          /\ registry' \in [TopOps -> Clients \cup {NoClient}]
          /\ signals' \in Seq([client : Clients, op : TopOps, status : TopStatuses])
        BY <1>2, <1>3, <1>5, FireTyped
    <2>2. banned' \subseteq TopOps /\ Cardinality(banned') <= 2 * BanCapacity
        BY <1>1, <1>2, <1>3, BanTyped
    <2>3. Ready' \subseteq TopOps
        BY <1>2, <1>3 DEF TopPoolTyped
    <2> QED BY <1>1, <1>2, <1>3, <1>4, <2>1, <2>2, <2>3 DEF TopPoolTyped, Requests
<1>7. RequestStands'
    <2>1. missed \subseteq missed'
        BY <1>5 DEF Fired
    <2>2. handling.client \in open /\ handling.op \in Ready \cup missed
        BY <1>1, <1>2 DEF TopPoolInv, RequestStands
    <2> QED BY <1>1, <1>3, <1>4, <2>1, <2>2, IdleFields DEF RequestStands
<1>8. WatchersWait' /\ RegisteredIsPending'
    BY <1>1, <1>2, <1>3, <1>4, <1>5, FirePends DEF TopPoolInv
<1>9. ReplyIsFirst' /\ EndsAreAsked' /\ NoUnaskedStatus'
    BY <1>1, <1>2, <1>4, <1>5, FireTells DEF TopPoolInv
<1> QED BY <1>3, <1>6, <1>7, <1>8, <1>9 DEF TopPoolInv

LEMMA CreateWatcherKeeps ==
    ASSUME TopPoolInv, create_watcher
    PROVE  TopPoolInv'
<1>1. /\ handling.phase = "Limited" /\ watchers' = watchers \cup {handling.op}
      /\ handling' = [handling EXCEPT !.phase = "Watched"]
      /\ UNCHANGED <<topReady, insertionId, banned, registry, signals, open, slot, nonces, seen, missed>>
    BY DEF create_watcher
<1>2. /\ TopPoolTyped /\ handling # Idle /\ handling \in Requests /\ handling.op \in TopOps
      /\ handling.client \in open /\ handling.op \in Ready \cup missed
    BY <1>1, RequestFields DEF TopPoolInv, RequestStands
<1>3. /\ handling' \in Requests /\ handling'.phase = "Watched"
      /\ handling'.client = handling.client /\ handling'.op = handling.op
    <2>1. "Watched" \in Phases
        BY DEF Phases
    <2> QED BY <1>1, <1>2, <2>1, RequestFields
<1>4. TopPoolTyped'
    BY <1>1, <1>2, <1>3 DEF TopPoolTyped, Requests, Ready
<1>5. OneCallPerNonce' /\ Ready' = Ready
    BY <1>1, PoolSame DEF TopPoolInv
<1>6. RequestStands'
    BY <1>1, <1>2, <1>3, <1>5 DEF RequestStands
<1>7. WatchersWait'
    BY <1>1, <1>2, <1>5 DEF TopPoolInv, WatchersWait
<1>8. \A c, o : ~Replying(c, o) /\ ~Replying(c, o)'
    BY <1>1, <1>3 DEF Replying
<1>9. RegisteredIsPending'
    <2>1. \A c, o : DropSent(c, o)' <=> DropSent(c, o)
        BY <1>1 DEF DropSent
    <2>2. \A c, o : DropSeen(c, o)' <=> DropSeen(c, o)
        BY <1>1, <1>8 DEF DropSeen, LastSeen
    <2>3. ASSUME NEW o \in TopOps, registry[o] # NoClient
          PROVE  \/ o \in Ready /\ o \in watchers'
                 \/ o \in missed
                 \/ DropSent(registry[o], o)'
                 \/ DropSeen(registry[o], o)'
        <3>1. PICK c : c = registry[o]
            OBVIOUS
        <3>2. DropSent(c, o) \/ DropSeen(c, o) \/ o \in missed \/ (o \in Ready /\ o \in watchers)
            BY <2>3, <3>1 DEF TopPoolInv, RegisteredIsPending
        <3>3. registry'[o] = c
            BY <1>1, <3>1
        <3>4. DropSent(c, o)' \/ DropSeen(c, o)' \/ o \in missed \/ (o \in Ready /\ o \in watchers')
            BY <1>1, <2>1, <2>2, <3>2
        <3> QED BY <3>3, <3>4 DEF DropSent, DropSeen, Replying, LastSeen
    <2> QED BY <1>1, <1>5, <2>3 DEF RegisteredIsPending
<1>10. ReplyIsFirst' /\ EndsAreAsked' /\ NoUnaskedStatus'
    BY <1>1, <1>8 DEF TopPoolInv, ReplyIsFirst, EndsAreAsked, NoUnaskedStatus
<1> QED BY <1>4, <1>5, <1>6, <1>7, <1>9, <1>10 DEF TopPoolInv

LEMMA StoreKeeps ==
    ASSUME TopPoolInv, store
    PROVE  TopPoolInv'
<1>1. /\ handling.phase = "Watched" /\ handling' = [handling EXCEPT !.phase = "Stored"]
      /\ registry' = (IF must_be_watched(handling)
                      THEN [registry EXCEPT ![handling.op] = handling.client] ELSE registry)
      /\ UNCHANGED <<topReady, insertionId, banned, watchers, signals, open, slot, nonces, seen, missed>>
    BY DEF store
<1>2. PICK c \in Clients, x \in TopOps : c = handling.client /\ x = handling.op
    BY <1>1, RequestFields DEF TopPoolInv
<1>3. /\ TopPoolTyped /\ handling # Idle /\ handling \in Requests
      /\ c \in open /\ x \in (Ready \cap watchers) \cup missed
    BY <1>1, <1>2, RequestFields DEF TopPoolInv, RequestStands
<1>4. /\ handling' \in Requests /\ handling'.phase = "Stored"
      /\ handling'.client = c /\ handling'.op = x
    <2>1. "Stored" \in Phases
        BY DEF Phases
    <2> QED BY <1>1, <1>2, <1>3, <2>1, RequestFields
<1>5. /\ registry' \in [TopOps -> Clients \cup {NoClient}]
      /\ \A o \in TopOps : registry'[o] = registry[o] \/ (o = x /\ registry'[o] = c)
    BY <1>1, <1>2, <1>3 DEF TopPoolTyped
<1>6. TopPoolTyped'
    BY <1>1, <1>3, <1>4, <1>5 DEF TopPoolTyped, Requests, Ready
<1>7. OneCallPerNonce' /\ Ready' = Ready
    BY <1>1, PoolSame DEF TopPoolInv
<1>8. RequestStands'
    BY <1>1, <1>3, <1>4 DEF RequestStands
<1>9. WatchersWait'
    BY <1>1, <1>7 DEF TopPoolInv, WatchersWait
<1>10. \A d, o : ~Replying(d, o) /\ (Replying(d, o)' <=> d = c /\ o = x)
    BY <1>1, <1>4 DEF Replying
<1>11. RegisteredIsPending'
    <2>1. \A d, o : DropSent(d, o)' <=> DropSent(d, o)
        BY <1>1 DEF DropSent
    <2>2. \A d, o : o # x => (DropSeen(d, o)' <=> DropSeen(d, o))
        BY <1>1, <1>10 DEF DropSeen, LastSeen
    <2>3. ASSUME NEW o \in TopOps, registry'[o] # NoClient
          PROVE  \/ o \in Ready' /\ o \in watchers'
                 \/ o \in missed'
                 \/ DropSent(registry[o], o)'
                 \/ DropSeen(registry[o], o)'
        <3>1. CASE o = x
            BY <1>1, <1>3, <1>7, <3>1
        <3>2. CASE o # x
            <4>1. PICK d : d = registry[o]
                OBVIOUS
            <4>2. registry'[o] = d /\ registry[o] # NoClient
                BY <1>5, <2>3, <3>2, <4>1
            <4>3. DropSent(d, o) \/ DropSeen(d, o) \/ o \in missed \/ (o \in Ready /\ o \in watchers)
                BY <4>1, <4>2 DEF TopPoolInv, RegisteredIsPending
            <4>4. \/ DropSent(d, o)' \/ DropSeen(d, o)' \/ o \in missed'
                  \/ (o \in Ready' /\ o \in watchers')
                BY <1>1, <1>7, <2>1, <2>2, <3>2, <4>3
            <4> QED BY <4>2, <4>4 DEF DropSent, DropSeen, Replying, LastSeen
        <3> QED BY <3>1, <3>2
    <2> QED BY <2>3 DEF RegisteredIsPending
<1>12. ReplyIsFirst'
    BY <1>1, <1>5, <1>10 DEF TopPoolInv, ReplyIsFirst
<1>13. EndsAreAsked'
    <2> SUFFICES ASSUME NEW d \in Clients, NEW o \in TopOps
                 PROVE  Count(seen[d][o], Ends) + Count(signals, Finals(d, o))
                            + (IF registry'[o] = d THEN 1 ELSE 0)
                        <= Count(seen[d][o], {"Submitted"}) + (IF Replying(d, o)' THEN 1 ELSE 0)
        BY <1>1 DEF EndsAreAsked, Finals
    <2>1. Count(seen[d][o], Ends) + Count(signals, Finals(d, o)) + (IF registry[o] = d THEN 1 ELSE 0)
              <= Count(seen[d][o], {"Submitted"}) + (IF Replying(d, o) THEN 1 ELSE 0)
        BY DEF TopPoolInv, EndsAreAsked
    <2>2. /\ Count(seen[d][o], Ends) \in Nat /\ Count(seen[d][o], {"Submitted"}) \in Nat
          /\ Count(signals, Finals(d, o)) \in Nat
        BY <1>3, CountType DEF TopPoolTyped
    <2>3. CASE d = c /\ o = x
        <3>1. ~Replying(d, o) /\ Replying(d, o)'
            BY <1>10, <2>3
        <3> QED BY <2>1, <2>2, <3>1
    <2>4. CASE ~(d = c /\ o = x)
        <3>1. ~Replying(d, o) /\ ~Replying(d, o)' /\ (registry'[o] = d => registry[o] = d)
            BY <1>5, <1>10, <2>4
        <3> QED BY <2>1, <2>2, <3>1
    <2> QED BY <2>3, <2>4
<1>14. NoUnaskedStatus'
    BY <1>1 DEF TopPoolInv, NoUnaskedStatus
<1> QED BY <1>6, <1>7, <1>8, <1>9, <1>11, <1>12, <1>13, <1>14 DEF TopPoolInv

LEMMA AppendIsLonger ==
    ASSUME NEW T, NEW q \in Seq(T), NEW x \in T
    PROVE  Append(q, x) \in Seq(T) /\ Append(q, x) # <<>>
<1>1. Len(q) \in Nat /\ Len(Append(q, x)) = Len(q) + 1 /\ Append(q, x) \in Seq(T)
    OBVIOUS
<1>2. CASE Append(q, x) = <<>>
    <2>1. Len(q) + 1 = 0
        BY <1>1, <1>2
    <2> QED BY <1>1, <2>1
<1> QED BY <1>1, <1>2

\* What Reply writes.
LEMMA ReplyWrites ==
    ASSUME TopPoolTyped, NEW c \in Clients, NEW o \in TopOps, NEW status \in TopStatuses \cup {"Submitted"},
           Reply(c, o, status)
    PROVE  /\ seen' \in [Clients -> [TopOps -> Seq(TopStatuses \cup {"Submitted"})]]
           /\ c \notin open => seen' = seen
           /\ c \in open =>
                 /\ seen' = [seen EXCEPT ![c] = [seen[c] EXCEPT ![o] = Append(seen[c][o], status)]]
                 /\ seen'[c][o] = Append(seen[c][o], status)
           /\ \A d \in Clients : \A x \in TopOps : ~(d = c /\ x = o) => seen'[d][x] = seen[d][x]
           /\ \A d \in Clients : \A x \in TopOps : seen[d][x] # <<>> => seen'[d][x] # <<>>
<1>1. seen \in [Clients -> [TopOps -> Seq(TopStatuses \cup {"Submitted"})]]
    BY DEF TopPoolTyped
<1>2. CASE c \notin open
    BY <1>1, <1>2 DEF Reply
<1>3. CASE c \in open
    <2>1. PICK T : T = TopStatuses \cup {"Submitted"}
        OBVIOUS
    <2>2. PICK r : r = Append(seen[c][o], status)
        OBVIOUS
    <2>3. r \in Seq(T) /\ r # <<>>
        <3>1. seen[c][o] \in Seq(T) /\ status \in T
            BY <1>1, <2>1
        <3> QED BY <2>2, <3>1, AppendIsLonger
    <2>4. seen' = [seen EXCEPT ![c] = [seen[c] EXCEPT ![o] = r]]
        BY <1>1, <1>3, <2>2 DEF Reply
    <2> QED BY <1>1, <1>3, <2>1, <2>2, <2>3, <2>4
<1> QED BY <1>2, <1>3

LEMMA WriteReplyKeeps ==
    ASSUME TopPoolInv, write_reply
    PROVE  TopPoolInv'
<1>1. /\ handling.phase = "Stored" /\ Reply(handling.client, handling.op, "Submitted")
      /\ handling' = Idle
      /\ UNCHANGED <<topReady, insertionId, banned, open, slot, nonces>>
      /\ UNCHANGED <<watchers, registry, signals, missed>>
    BY DEF write_reply, quiet
<1>2. PICK c \in Clients, x \in TopOps : c = handling.client /\ x = handling.op
    BY <1>1, RequestFields DEF TopPoolInv
<1>3. TopPoolTyped /\ c \in open
    BY <1>1, <1>2, RequestFields DEF TopPoolInv, RequestStands
<1>4. /\ seen' \in [Clients -> [TopOps -> Seq(TopStatuses \cup {"Submitted"})]]
      /\ seen' = [seen EXCEPT ![c] = [seen[c] EXCEPT ![x] = Append(seen[c][x], "Submitted")]]
      /\ seen'[c][x] = Append(seen[c][x], "Submitted")
      /\ \A d \in Clients : \A o \in TopOps : ~(d = c /\ o = x) => seen'[d][o] = seen[d][o]
      /\ \A d \in Clients : \A o \in TopOps : seen[d][o] # <<>> => seen'[d][o] # <<>>
    <2>1. Reply(c, x, "Submitted") /\ "Submitted" \in TopStatuses \cup {"Submitted"}
        BY <1>1, <1>2
    <2> QED BY <1>3, <2>1, ReplyWrites
<1>5. TopPoolTyped'
    BY <1>1, <1>3, <1>4 DEF TopPoolTyped, Ready
<1>6. OneCallPerNonce' /\ Ready' = Ready
    BY <1>1, PoolSame DEF TopPoolInv
<1>7. RequestStands'
    BY <1>1, IdleFields DEF RequestStands
<1>8. WatchersWait'
    BY <1>1, <1>6 DEF TopPoolInv, WatchersWait
<1>9. \A d, o : ~Replying(d, o)' /\ (Replying(d, o) <=> d = c /\ o = x)
    BY <1>1, <1>2, IdleFields DEF Replying
<1>10. seen[c][x] \in Seq(TopStatuses \cup {"Submitted"}) /\ seen'[c][x] # <<>>
    <2>1. seen[c][x] \in Seq(TopStatuses \cup {"Submitted"}) /\ "Submitted" \in TopStatuses \cup {"Submitted"}
        BY <1>3 DEF TopPoolTyped
    <2>2. Append(seen[c][x], "Submitted") # <<>>
        BY <2>1, AppendIsLonger
    <2> QED BY <1>4, <2>1, <2>2
<1>11. RegisteredIsPending'
    <2>1. ASSUME NEW o \in TopOps, registry[o] # NoClient
          PROVE  \/ o \in Ready' /\ o \in watchers'
                 \/ o \in missed'
                 \/ DropSent(registry[o], o)'
                 \/ DropSeen(registry[o], o)'
        <3>1. PICK d \in Clients : d = registry[o]
            BY <1>3, <2>1 DEF TopPoolTyped
        <3>2. DropSent(d, o) \/ DropSeen(d, o) \/ o \in missed \/ (o \in Ready /\ o \in watchers)
            BY <2>1, <3>1 DEF TopPoolInv, RegisteredIsPending
        <3>3. DropSent(d, o) => DropSent(d, o)'
            BY <1>1 DEF DropSent
        <3>4. DropSeen(d, o) => DropSeen(d, o)'
            <4> HAVE DropSeen(d, o)
            <4>1. seen'[d][o] = seen[d][o]
                BY <1>4, <1>9 DEF DropSeen
            <4> QED BY <1>1, <1>9, <4>1 DEF DropSeen, LastSeen
        <3>5. registry'[o] = d
            BY <1>1, <3>1
        <3>6. \/ DropSent(d, o)' \/ DropSeen(d, o)' \/ o \in missed'
              \/ (o \in Ready' /\ o \in watchers')
            BY <1>1, <1>6, <3>2, <3>3, <3>4
        <3> QED BY <3>5, <3>6 DEF DropSent, DropSeen, Replying, LastSeen
    <2> QED BY <1>1, <2>1 DEF RegisteredIsPending
<1>12. ReplyIsFirst'
    <2>1. ASSUME NEW d \in Clients, NEW o \in TopOps,
                 registry[o] = d \/ \E i \in 1 .. Len(signals) : About(signals[i], d, o)
          PROVE  seen'[d][o] # <<>>
        <3>1. seen[d][o] # <<>> \/ Replying(d, o)
            BY <2>1 DEF TopPoolInv, ReplyIsFirst
        <3> QED BY <1>4, <1>9, <1>10, <3>1
    <2> QED BY <1>1, <2>1 DEF ReplyIsFirst
<1>13. EndsAreAsked'
    <2> SUFFICES ASSUME NEW d \in Clients, NEW o \in TopOps
                 PROVE  Count(seen'[d][o], Ends) + Count(signals, Finals(d, o))
                            + (IF registry[o] = d THEN 1 ELSE 0)
                        <= Count(seen'[d][o], {"Submitted"})
        <3>1. ASSUME NEW d \in Clients, NEW o \in TopOps PROVE Count(seen'[d][o], {"Submitted"}) \in Nat
            BY <1>4, CountType
        <3> QED BY <1>1, <1>9, <3>1 DEF EndsAreAsked, Finals
    <2>1. Count(seen[d][o], Ends) + Count(signals, Finals(d, o)) + (IF registry[o] = d THEN 1 ELSE 0)
              <= Count(seen[d][o], {"Submitted"}) + (IF Replying(d, o) THEN 1 ELSE 0)
        BY DEF TopPoolInv, EndsAreAsked
    <2>2. /\ Count(seen[d][o], Ends) \in Nat /\ Count(seen[d][o], {"Submitted"}) \in Nat
          /\ Count(signals, Finals(d, o)) \in Nat
        BY <1>3, CountType DEF TopPoolTyped
    <2>3. CASE d = c /\ o = x
        <3>1. \A S : Count(seen'[c][x], S) = Count(seen[c][x], S) + (IF "Submitted" \in S THEN 1 ELSE 0)
            <4>1. seen[c][x] \in Seq(TopStatuses \cup {"Submitted"})
                  /\ "Submitted" \in TopStatuses \cup {"Submitted"}
                BY <1>10
            <4>2. \A S : Count(Append(seen[c][x], "Submitted"), S)
                          = Count(seen[c][x], S) + (IF "Submitted" \in S THEN 1 ELSE 0)
                BY <4>1, CountAppend
            <4> QED BY <1>4, <4>2
        <3>2. /\ Count(seen'[c][x], Ends) = Count(seen[c][x], Ends)
              /\ Count(seen'[c][x], {"Submitted"}) = Count(seen[c][x], {"Submitted"}) + 1
            <4>1. "Submitted" \notin Ends
                BY DEF Ends
            <4> QED BY <2>2, <2>3, <3>1, <4>1
        <3> QED BY <1>9, <2>1, <2>2, <2>3, <3>2
    <2>4. CASE ~(d = c /\ o = x)
        <3>1. ~Replying(d, o) /\ seen'[d][o] = seen[d][o]
            BY <1>4, <1>9, <2>4
        <3> QED BY <2>1, <2>2, <3>1
    <2> QED BY <2>3, <2>4
<1>14. NoUnaskedStatus'
    <2>1. "Submitted" \notin Ends
        BY DEF Ends
    <2> QED BY <1>3, <1>4, <2>1, HeardKeeps DEF TopPoolInv
<1> QED BY <1>5, <1>6, <1>7, <1>8, <1>11, <1>12, <1>13, <1>14 DEF TopPoolInv

-----------------------------------------------------------------------------
(* The event loop between two requests.                                    *)

LEMMA ConnectionKeeps ==
    ASSUME TopPoolInv, NEW c \in Clients, accept_connection(c) \/ close_connection(c)
    PROVE  TopPoolInv'
<1>1. /\ handling = Idle /\ open' \subseteq Clients
      /\ \A o \in TopOps : registry[o] \in open' => registry[o] \in open
      /\ UNCHANGED <<topReady, insertionId, banned, handling, slot, nonces, seen>>
      /\ UNCHANGED <<watchers, registry, signals, missed>>
    BY DEF accept_connection, close_connection, quiet, TopPoolInv, TopPoolTyped
<1>2. TopPoolTyped'
    BY <1>1 DEF TopPoolInv, TopPoolTyped, Ready
<1>3. OneCallPerNonce' /\ Ready' = Ready
    BY <1>1, PoolSame DEF TopPoolInv
<1>4. RequestStands'
    BY <1>1, IdleFields DEF RequestStands
<1>5. WatchersWait' /\ RegisteredIsPending' /\ ReplyIsFirst' /\ EndsAreAsked' /\ NoUnaskedStatus'
    BY <1>1, <1>3, QuietKeeps DEF TopPoolInv
<1> QED BY <1>2, <1>3, <1>4, <1>5 DEF TopPoolInv

LEMMA ServerSignalKeeps ==
    ASSUME TopPoolInv, handle_server_signal
    PROVE  TopPoolInv'
<1>1. /\ handling = Idle /\ signals # <<>> /\ signals' = Tail(signals)
      /\ Reply(Head(signals).client, Head(signals).op, Head(signals).status)
      /\ UNCHANGED <<topReady, insertionId, banned, watchers, registry, open, handling, slot, nonces, missed>>
    BY DEF handle_server_signal
<1>2. TopPoolTyped /\ signals \in Seq(TopMessages)
    BY DEF TopPoolInv, TopPoolTyped, TopMessages
<1>3. /\ signals[1] \in TopMessages /\ Head(signals) = signals[1] /\ Len(signals) \in Nat \ {0}
      /\ signals' \in Seq(TopMessages) /\ Len(signals') = Len(signals) - 1
      /\ \A i \in 1 .. Len(signals) - 1 : signals'[i] = signals[i + 1]
    <2>1. \A T : \A q \in Seq(T) : q # <<>> =>
              /\ q[1] \in T /\ Head(q) = q[1] /\ Len(q) \in Nat \ {0}
              /\ Tail(q) \in Seq(T) /\ Len(Tail(q)) = Len(q) - 1
              /\ \A i \in 1 .. Len(q) - 1 : Tail(q)[i] = q[i + 1]
        OBVIOUS
    <2> QED BY <1>1, <1>2, <2>1
<1>4. PICK c \in Clients, x \in TopOps, status \in TopStatuses : signals[1] = Told(c, x, status)
    BY <1>3 DEF TopMessages, Told
<1>5. /\ signals[1].client = c /\ signals[1].op = x /\ signals[1].status = status
    BY <1>4 DEF Told
<1>6. /\ seen' \in [Clients -> [TopOps -> Seq(TopStatuses \cup {"Submitted"})]]
      /\ c \notin open => seen' = seen
      /\ c \in open =>
            /\ seen' = [seen EXCEPT ![c] = [seen[c] EXCEPT ![x] = Append(seen[c][x], status)]]
            /\ seen'[c][x] = Append(seen[c][x], status)
      /\ \A d \in Clients : \A o \in TopOps : ~(d = c /\ o = x) => seen'[d][o] = seen[d][o]
      /\ \A d \in Clients : \A o \in TopOps : seen[d][o] # <<>> => seen'[d][o] # <<>>
    <2>1. Reply(c, x, status) /\ status \in TopStatuses \cup {"Submitted"}
        BY <1>1, <1>3, <1>5
    <2> QED BY <1>2, <2>1, ReplyWrites
<1>7. TopPoolTyped'
    BY <1>1, <1>2, <1>3, <1>6 DEF TopPoolTyped, TopMessages, Ready
<1>8. OneCallPerNonce' /\ Ready' = Ready
    BY <1>1, PoolSame DEF TopPoolInv
<1>9. RequestStands'
    BY <1>1, IdleFields DEF RequestStands
<1>10. WatchersWait'
    BY <1>1, <1>8 DEF TopPoolInv, WatchersWait
<1>11. \A d, o : ~Replying(d, o)' /\ ~Replying(d, o)
    BY <1>1, IdleFields DEF Replying
<1>12. /\ \A i \in 1 .. Len(signals') : i + 1 \in 1 .. Len(signals) /\ signals'[i] = signals[i + 1]
       /\ 1 \in 1 .. Len(signals)
    BY <1>3
<1>13. seen[c][x] \in Seq(TopStatuses \cup {"Submitted"}) /\ seen[c][x] # <<>>
    <2>1. About(signals[1], c, x)
        BY <1>5 DEF About
    <2>2. \E i \in 1 .. Len(signals) : About(signals[i], c, x)
        BY <1>12, <2>1
    <2>3. seen[c][x] # <<>> \/ Replying(c, x)
        BY <2>2 DEF TopPoolInv, ReplyIsFirst
    <2>4. seen[c][x] \in Seq(TopStatuses \cup {"Submitted"})
        BY <1>2 DEF TopPoolTyped
    <2> QED BY <1>11, <2>3, <2>4
<1>14. RegisteredIsPending'
    <2>1. ASSUME NEW o \in TopOps, registry[o] # NoClient
          PROVE  \/ o \in Ready' /\ o \in watchers'
                 \/ o \in missed'
                 \/ DropSent(registry[o], o)'
                 \/ DropSeen(registry[o], o)'
        <3>1. PICK d \in Clients : d = registry[o]
            BY <1>2, <2>1 DEF TopPoolTyped
        <3>2. DropSent(d, o) \/ DropSeen(d, o) \/ o \in missed \/ (o \in Ready /\ o \in watchers)
            BY <2>1, <3>1 DEF TopPoolInv, RegisteredIsPending
        <3>3. DropSent(d, o) => DropSent(d, o)' \/ DropSeen(d, o)'
            <4> HAVE DropSent(d, o)
            <4>1. PICK i \in 1 .. Len(signals) :
                      /\ signals[i] = Told(d, o, "Dropped")
                      /\ \A j \in i + 1 .. Len(signals) : ~About(signals[j], d, o)
                BY DEF DropSent, Told
            <4>2. CASE i = 1
                <5>1. d = c /\ o = x /\ status = "Dropped"
                    BY <1>5, <4>1, <4>2 DEF Told
                <5>2. \A j \in 1 .. Len(signals') : ~About(signals'[j], d, o)
                    <6> TAKE j \in 1 .. Len(signals')
                    <6>1. j + 1 \in i + 1 .. Len(signals) /\ signals'[j] = signals[j + 1]
                        BY <1>3, <4>2
                    <6> QED BY <4>1, <6>1
                <5>3. c \in open => LastSeen(c, x, "Dropped")'
                    <6> HAVE c \in open
                    <6>1. \A T : \A q \in Seq(T) : \A y \in T :
                              Append(q, y)[Len(Append(q, y))] = y
                        OBVIOUS
                    <6>2. status \in TopStatuses \cup {"Submitted"}
                        OBVIOUS
                    <6>3. Append(seen[c][x], status)[Len(Append(seen[c][x], status))] = status
                          /\ Append(seen[c][x], status) # <<>>
                        BY <1>13, <6>1, <6>2, AppendIsLonger
                    <6> QED BY <1>6, <5>1, <6>3 DEF LastSeen
                <5> QED BY <1>1, <1>11, <5>1, <5>2, <5>3 DEF DropSeen
            <4>3. CASE i # 1
                <5>1. /\ i - 1 \in 1 .. Len(signals') /\ signals'[i - 1] = signals[i]
                      /\ \A j \in (i - 1) + 1 .. Len(signals') :
                            j + 1 \in i + 1 .. Len(signals) /\ signals'[j] = signals[j + 1]
                    BY <1>3, <4>3
                <5>2. \A j \in (i - 1) + 1 .. Len(signals') : ~About(signals'[j], d, o)
                    BY <4>1, <5>1
                <5> QED BY <4>1, <5>1, <5>2 DEF DropSent, Told
            <4> QED BY <4>2, <4>3
        <3>4. DropSeen(d, o) => DropSeen(d, o)'
            <4> HAVE DropSeen(d, o)
            <4>1. ~About(signals[1], d, o)
                BY <1>12 DEF DropSeen
            <4>2. seen'[d][o] = seen[d][o]
                BY <1>5, <1>6, <4>1 DEF About
            <4>3. \A j \in 1 .. Len(signals') : ~About(signals'[j], d, o)
                BY <1>12 DEF DropSeen
            <4> QED BY <1>1, <1>11, <4>2, <4>3 DEF DropSeen, LastSeen
        <3>5. registry'[o] = d
            BY <1>1, <3>1
        <3>6. \/ DropSent(d, o)' \/ DropSeen(d, o)' \/ o \in missed'
              \/ (o \in Ready' /\ o \in watchers')
            BY <1>1, <1>8, <3>2, <3>3, <3>4
        <3> QED BY <3>5, <3>6 DEF DropSent, DropSeen, Replying, LastSeen
    <2> QED BY <1>1, <2>1 DEF RegisteredIsPending
<1>15. ReplyIsFirst'
    <2>1. ASSUME NEW d \in Clients, NEW o \in TopOps,
                 registry[o] = d \/ \E i \in 1 .. Len(signals') : About(signals'[i], d, o)
          PROVE  seen'[d][o] # <<>>
        <3>1. seen[d][o] # <<>>
            BY <1>11, <1>12, <2>1 DEF TopPoolInv, ReplyIsFirst
        <3> QED BY <1>6, <3>1
    <2> QED BY <1>1, <2>1 DEF ReplyIsFirst
<1>16. ASSUME NEW d \in Clients, NEW o \in TopOps
       PROVE  /\ Count(signals', Finals(d, o))
                     = Count(signals, Finals(d, o)) - (IF signals[1] \in Finals(d, o) THEN 1 ELSE 0)
              /\ Count(signals', Finals(d, o)) \in Nat /\ Count(signals, Finals(d, o)) \in Nat
              /\ signals[1] \in Finals(d, o) <=> (d = c /\ o = x /\ status \in Ends)
              /\ Count(seen[d][o], Ends) \in Nat /\ Count(seen[d][o], {"Submitted"}) \in Nat
              /\ Count(seen[d][o], Ends) + Count(signals, Finals(d, o)) + (IF registry[o] = d THEN 1 ELSE 0)
                    <= Count(seen[d][o], {"Submitted"})
    <2>1. /\ Count(seen[d][o], Ends) \in Nat /\ Count(seen[d][o], {"Submitted"}) \in Nat
          /\ Count(signals, Finals(d, o)) \in Nat
        <3>1. seen[d][o] \in Seq(TopStatuses \cup {"Submitted"})
            BY <1>2 DEF TopPoolTyped
        <3> QED BY <1>2, <3>1, CountType
    <2>2. Count(signals', Finals(d, o)) \in Nat
        BY <1>3, CountType
    <2>3. Count(signals', Finals(d, o))
              = Count(signals, Finals(d, o)) - (IF signals[1] \in Finals(d, o) THEN 1 ELSE 0)
        <3>1. PICK F : F = Finals(d, o)
            OBVIOUS
        <3>2. Count(Tail(signals), F) = Count(signals, F) - (IF signals[1] \in F THEN 1 ELSE 0)
            BY <1>1, <1>2, CountTail
        <3> QED BY <1>1, <3>1, <3>2
    <2>4. signals[1] \in Finals(d, o) <=> (d = c /\ o = x /\ status \in Ends)
        <3>1. ASSUME signals[1] \in Finals(d, o) PROVE d = c /\ o = x /\ status \in Ends
            <4>1. PICK s \in Ends : signals[1] = [client |-> d, op |-> o, status |-> s]
                BY <3>1 DEF Finals
            <4> QED BY <1>5, <4>1
        <3>2. ASSUME d = c, o = x, status \in Ends PROVE signals[1] \in Finals(d, o)
            BY <1>4, <3>2 DEF Finals, Told
        <3> QED BY <3>1, <3>2
    <2>5. Count(seen[d][o], Ends) + Count(signals, Finals(d, o)) + (IF registry[o] = d THEN 1 ELSE 0)
              <= Count(seen[d][o], {"Submitted"}) + (IF Replying(d, o) THEN 1 ELSE 0)
        BY DEF TopPoolInv, EndsAreAsked
    <2>6. Count(seen[d][o], Ends) + Count(signals, Finals(d, o)) + (IF registry[o] = d THEN 1 ELSE 0)
              <= Count(seen[d][o], {"Submitted"})
        BY <1>11, <2>1, <2>5
    <2> QED BY <2>1, <2>2, <2>3, <2>4, <2>6
<1>17. EndsAreAsked'
    <2>1. ASSUME NEW d \in Clients, NEW o \in TopOps
          PROVE  Count(seen'[d][o], Ends) + Count(signals', Finals(d, o)) + (IF registry[o] = d THEN 1 ELSE 0)
                     <= Count(seen'[d][o], {"Submitted"})
        <3>1. CASE seen'[d][o] = seen[d][o]
            BY <1>16, <3>1
        <3>2. CASE seen'[d][o] # seen[d][o]
            <4>1. d = c /\ o = x /\ c \in open /\ seen'[d][o] = Append(seen[c][x], status)
                BY <1>6, <3>2
            <4>2. status \in TopStatuses \cup {"Submitted"}
                OBVIOUS
            <4>3. /\ Count(seen'[d][o], Ends) = Count(seen[d][o], Ends) + (IF status \in Ends THEN 1 ELSE 0)
                  /\ Count(seen'[d][o], {"Submitted"})
                        = Count(seen[d][o], {"Submitted"}) + (IF status \in {"Submitted"} THEN 1 ELSE 0)
                BY <1>13, <4>1, <4>2, CountAppend
            <4>4. status \notin {"Submitted"}
                BY DEF TopStatuses
            <4> QED BY <1>16, <4>1, <4>3, <4>4
        <3> QED BY <3>1, <3>2
    <2>2. ASSUME NEW d \in Clients, NEW o \in TopOps PROVE Count(seen'[d][o], {"Submitted"}) \in Nat
        BY <1>6, CountType
    <2> QED BY <1>1, <1>11, <2>1, <2>2 DEF EndsAreAsked, Finals
<1>18. NoUnaskedStatus'
    <2>1. CASE c \notin open
        BY <1>6, <2>1 DEF TopPoolInv, NoUnaskedStatus
    <2>2. CASE c \in open
        <3>1. status \in Ends => Count(seen[c][x], Ends) + 1 <= Count(seen[c][x], {"Submitted"})
            BY <1>16
        <3>2. status \in TopStatuses \cup {"Submitted"}
            OBVIOUS
        <3> QED BY <1>2, <1>6, <1>13, <2>2, <3>1, <3>2, HeardKeeps DEF TopPoolInv
    <2> QED BY <2>1, <2>2
<1> QED BY <1>7, <1>8, <1>9, <1>10, <1>14, <1>15, <1>17, <1>18 DEF TopPoolInv

-----------------------------------------------------------------------------
(* The slot thread and the indirect calls.                                 *)

LEMMA ExecutedTyped ==
    ASSUME TopPoolTyped, NEW q, DOMAIN q \subseteq TopOps
    PROVE  /\ Executed(q, nonces).done \in SUBSET TopOps
           /\ Executed(q, nonces).failed \in SUBSET TopOps
           /\ Executed(q, nonces).nonces \in [Accounts -> Nat]
<1> DEFINE ran == {o \in DOMAIN q : Runs(o, q, nonces)}
           more(a) == {o \in ran : OpAccount[o] = a}
<1>1. ran \in SUBSET TopOps
    OBVIOUS
<1>2. \A a : Cardinality(more(a)) \in Nat
    <2> TAKE a
    <2>1. more(a) \subseteq TopOps
        BY <1>1
    <2>2. IsFiniteSet(more(a))
        BY <2>1, TopPoolAssumption, FS_Subset
    <2> HIDE DEF more
    <2> QED BY <2>2, FS_CardinalityType
<1>3. nonces \in [Accounts -> Nat]
    BY DEF TopPoolTyped
<1>4. [a \in Accounts |-> nonces[a] + Cardinality(more(a))] \in [Accounts -> Nat]
    <2> HIDE DEF more
    <2> QED BY <1>2, <1>3
<1>5. Executed(q, nonces) = [done |-> ran, failed |-> DOMAIN q \ ran,
                             nonces |-> [a \in Accounts |-> nonces[a] + Cardinality(more(a))]]
    BY DEF Executed
<1> HIDE DEF ran, more
<1>6. /\ Executed(q, nonces).done = ran /\ Executed(q, nonces).failed = DOMAIN q \ ran
      /\ Executed(q, nonces).nonces = [a \in Accounts |-> nonces[a] + Cardinality(more(a))]
    BY <1>5
<1> QED BY <1>1, <1>4, <1>6

\* Steps that only move the slot thread on.
LEMMA SlotKeeps ==
    ASSUME TopPoolInv,
           UNCHANGED <<topReady, insertionId, banned, open, handling, nonces, seen>>,
           UNCHANGED <<watchers, registry, signals, missed>>,
           slot' \in [phase : {"composed"}, done : SUBSET TopOps, nonces : [Accounts -> Nat]]
                     \cup [phase : {"executed"}, done : SUBSET TopOps, failed : SUBSET TopOps,
                           nonces : [Accounts -> Nat]]
    PROVE  TopPoolInv'
<1>1. TopPoolTyped'
    BY DEF TopPoolInv, TopPoolTyped, Ready
<1>2. OneCallPerNonce' /\ Ready' = Ready
    BY PoolSame DEF TopPoolInv
<1>3. RequestStands'
    BY <1>2 DEF TopPoolInv, RequestStands
<1>4. WatchersWait' /\ RegisteredIsPending' /\ ReplyIsFirst' /\ EndsAreAsked' /\ NoUnaskedStatus'
    BY <1>2, QuietKeeps DEF TopPoolInv
<1> QED BY <1>1, <1>2, <1>3, <1>4 DEF TopPoolInv

LEMMA ProposeKeeps ==
    ASSUME TopPoolInv, propose
    PROVE  TopPoolInv'
<1>1. /\ UNCHANGED <<topReady, insertionId, banned, open, handling, nonces, seen>>
      /\ UNCHANGED <<watchers, registry, signals, missed>>
    BY DEF propose, quiet
<1>2. PICK q : /\ DOMAIN q \subseteq Ready
               /\ slot' = [phase |-> "executed", done |-> Executed(q, nonces).done,
                           failed |-> Executed(q, nonces).failed, nonces |-> Executed(q, nonces).nonces]
    <2>1. PICK last \in 0 .. insertionId :
              slot' = [phase |-> "executed",
                       done |-> Executed(get_pending_trusted_calls(last), nonces).done,
                       failed |-> Executed(get_pending_trusted_calls(last), nonces).failed,
                       nonces |-> Executed(get_pending_trusted_calls(last), nonces).nonces]
        BY DEF propose
    <2>2. DOMAIN get_pending_trusted_calls(last) \subseteq Ready
        BY DEF get_pending_trusted_calls, Restrict
    <2> QED BY <2>1, <2>2
<1>3. /\ Executed(q, nonces).done \in SUBSET TopOps /\ Executed(q, nonces).failed \in SUBSET TopOps
      /\ Executed(q, nonces).nonces \in [Accounts -> Nat]
    <2>1. TopPoolTyped /\ DOMAIN q \subseteq TopOps
        BY <1>2 DEF TopPoolInv, TopPoolTyped
    <2> QED BY <2>1, ExecutedTyped
<1>4. slot' \in [phase : {"executed"}, done : SUBSET TopOps, failed : SUBSET TopOps,
                 nonces : [Accounts -> Nat]]
    BY <1>2, <1>3
<1> QED BY <1>1, <1>4, SlotKeeps

LEMMA ReceiveBlockKeeps ==
    ASSUME TopPoolInv, receive_block
    PROVE  TopPoolInv'
<1>1. /\ UNCHANGED <<topReady, insertionId, banned, open, handling, nonces, seen>>
      /\ UNCHANGED <<watchers, registry, signals, missed>>
    BY DEF receive_block, quiet
<1>2. PICK o \in TopOps : slot' = [phase |-> "composed", done |-> Executed([x \in {o} |-> 1], nonces).done,
                                  nonces |-> Executed([x \in {o} |-> 1], nonces).nonces]
    BY DEF receive_block
<1>3. PICK q : q = [x \in {o} |-> 1]
    OBVIOUS
<1>4. TopPoolTyped /\ DOMAIN q \subseteq TopOps
    BY <1>3 DEF TopPoolInv
<1>5. Executed(q, nonces).done \in SUBSET TopOps /\ Executed(q, nonces).nonces \in [Accounts -> Nat]
    BY <1>4, ExecutedTyped
<1>6. slot' \in [phase : {"composed"}, done : SUBSET TopOps, nonces : [Accounts -> Nat]]
    BY <1>2, <1>3, <1>5
<1> QED BY <1>1, <1>6, SlotKeeps

\* Operations are removed and none is added.
LEMMA PoolShrinks ==
    ASSUME TopPoolTyped, OneCallPerNonce, NEW ops, topReady' = Removed(topReady, ops),
           UNCHANGED <<handling, insertionId>>
    PROVE  /\ OneCallPerNonce' /\ Ready' = Ready \ ops /\ Ready' \subseteq TopOps
           /\ topReady' \in [Ready' -> 1 .. insertionId']
<1>1. /\ Ready \subseteq TopOps /\ topReady \in [Ready -> 1 .. insertionId] /\ TopLimit \in Nat
      /\ IsFiniteSet(Ready) /\ Cardinality(Ready) \in Nat
    BY TopPoolAssumption, FS_Subset, FS_CardinalityType DEF TopPoolTyped
<1>2. /\ Ready' = Ready \ ops /\ \A x \in Ready' : topReady'[x] = topReady[x]
      /\ topReady' \in [Ready' -> 1 .. insertionId]
    BY <1>1 DEF Removed, Ready
<1>3. Cardinality(Ready') \in Nat /\ Cardinality(Ready') <= Cardinality(Ready)
    BY <1>1, <1>2, FS_Subset, FS_CardinalityType
<1>4. handling'.phase # "Imported" => Cardinality(Ready') <= TopLimit
    <2> HAVE handling'.phase # "Imported"
    <2>1. Cardinality(Ready) <= TopLimit
        BY DEF OneCallPerNonce
    <2> QED BY <1>1, <1>3, <2>1
<1> QED BY <1>1, <1>2, <1>4 DEF OneCallPerNonce

LEMMA RemoveFailedKeeps ==
    ASSUME TopPoolInv, remove_failed
    PROVE  TopPoolInv'
<1>1. PICK failed : failed = slot.failed
    OBVIOUS
<1>2. /\ slot.phase = "executed" /\ topReady' = Removed(topReady, failed)
      /\ (IF failed = {} THEN UNCHANGED banned ELSE ban(failed))
      /\ fire(failed \cap Ready, "Invalid")
      /\ slot' = [phase |-> "composed", done |-> slot.done, nonces |-> slot.nonces]
      /\ UNCHANGED <<insertionId, open, handling, nonces, seen>>
    BY <1>1 DEF remove_failed, RemoveFromReady
<1>3. /\ TopPoolTyped /\ failed \in SUBSET TopOps /\ slot.done \in SUBSET TopOps
      /\ slot.nonces \in [Accounts -> Nat]
    <2>1. slot \in [phase : {"executed"}, done : SUBSET TopOps, failed : SUBSET TopOps,
                    nonces : [Accounts -> Nat]]
        BY <1>2 DEF TopPoolInv, TopPoolTyped, Idle
    <2> QED BY <1>1, <2>1 DEF TopPoolInv
<1>4. /\ OneCallPerNonce' /\ Ready' = Ready \ failed /\ Ready' \subseteq TopOps
      /\ topReady' \in [Ready' -> 1 .. insertionId']
    BY <1>2, <1>3, PoolShrinks DEF TopPoolInv
<1>5. Fired(failed \cap Ready, "Invalid") /\ "Invalid" \in TopStatuses /\ failed \cap Ready \in SUBSET TopOps
    BY <1>2, <1>3, FireFires DEF TopStatuses
<1>6. TopPoolTyped'
    <2>1. /\ watchers' \subseteq TopOps /\ missed' \subseteq TopOps
          /\ registry' \in [TopOps -> Clients \cup {NoClient}]
          /\ signals' \in Seq([client : Clients, op : TopOps, status : TopStatuses])
        BY <1>3, <1>5, FireTyped
    <2>2. banned' \subseteq TopOps /\ Cardinality(banned') <= 2 * BanCapacity
        <3>1. CASE failed = {}
            BY <1>2, <1>3, <3>1 DEF TopPoolTyped
        <3>2. CASE failed # {}
            BY <1>2, <1>3, <3>2, BanTyped
        <3> QED BY <3>1, <3>2
    <2>3. slot' \in [phase : {"composed"}, done : SUBSET TopOps, nonces : [Accounts -> Nat]]
        BY <1>2, <1>3
    <2> QED BY <1>2, <1>3, <1>4, <2>1, <2>2, <2>3 DEF TopPoolTyped
<1>7. RequestStands'
    BY <1>2, <1>3, <1>4, <1>5, FireStands DEF TopPoolInv
<1>8. WatchersWait' /\ RegisteredIsPending'
    BY <1>2, <1>3, <1>4, <1>5, FirePends DEF TopPoolInv
<1>9. ReplyIsFirst' /\ EndsAreAsked' /\ NoUnaskedStatus'
    BY <1>2, <1>3, <1>5, FireTells DEF TopPoolInv
<1> QED BY <1>4, <1>6, <1>7, <1>8, <1>9 DEF TopPoolInv

LEMMA BlockImportedKeeps ==
    ASSUME TopPoolInv, on_block_imported
    PROVE  TopPoolInv'
<1>1. PICK done : done = slot.done
    OBVIOUS
<1>2. /\ slot.phase = "composed" /\ nonces' = slot.nonces
      /\ fire(done, "InSidechainBlock")
      /\ slot' = [phase |-> "notified", done |-> done]
      /\ UNCHANGED <<topReady, insertionId, banned, open, handling, seen>>
    BY <1>1 DEF on_block_imported, notify_in_block
<1>3. TopPoolTyped /\ done \in SUBSET TopOps /\ slot.nonces \in [Accounts -> Nat]
    <2>1. slot \in [phase : {"composed"}, done : SUBSET TopOps, nonces : [Accounts -> Nat]]
        BY <1>2 DEF TopPoolInv, TopPoolTyped, Idle
    <2> QED BY <1>1, <2>1 DEF TopPoolInv
<1>4. OneCallPerNonce' /\ Ready' = Ready
    BY <1>2, PoolSame DEF TopPoolInv
<1>5. Fired(done, "InSidechainBlock") /\ "InSidechainBlock" \in TopStatuses
    BY <1>2, <1>3, FireFires DEF TopStatuses
<1>6. TopPoolTyped'
    <2>1. /\ watchers' \subseteq TopOps /\ missed' \subseteq TopOps
          /\ registry' \in [TopOps -> Clients \cup {NoClient}]
          /\ signals' \in Seq([client : Clients, op : TopOps, status : TopStatuses])
        BY <1>3, <1>5, FireTyped
    <2>2. slot' \in [phase : {"notified"}, done : SUBSET TopOps]
        BY <1>2, <1>3
    <2> QED BY <1>2, <1>3, <1>4, <2>1, <2>2 DEF TopPoolTyped
<1>7. RequestStands'
    BY <1>2, <1>3, <1>4, <1>5, FireStands DEF TopPoolInv
<1>8. WatchersWait' /\ RegisteredIsPending'
    BY <1>2, <1>3, <1>4, <1>5, FirePends DEF TopPoolInv
<1>9. ReplyIsFirst' /\ EndsAreAsked' /\ NoUnaskedStatus'
    BY <1>2, <1>3, <1>5, FireTells DEF TopPoolInv
<1> QED BY <1>4, <1>6, <1>7, <1>8, <1>9 DEF TopPoolInv

LEMMA ExecutedRemovedKeeps ==
    ASSUME TopPoolInv, remove_executed
    PROVE  TopPoolInv'
<1>1. PICK done : done = slot.done
    OBVIOUS
<1>2. /\ slot.phase = "notified" /\ topReady' = Removed(topReady, done) /\ slot' = Idle
      /\ missed' = missed \cup (done \cap Ready \cap (watchers \cup InRequest))
      /\ UNCHANGED <<insertionId, banned, watchers, registry, signals, open, handling, nonces, seen>>
    BY <1>1 DEF remove_executed, RemoveFromReady
<1>3. TopPoolTyped
    BY DEF TopPoolInv
<1>4. /\ OneCallPerNonce' /\ Ready' = Ready \ done /\ Ready' \subseteq TopOps
      /\ topReady' \in [Ready' -> 1 .. insertionId']
    BY <1>2, <1>3, PoolShrinks DEF TopPoolInv
<1>5. TopPoolTyped'
    BY <1>2, <1>3, <1>4 DEF TopPoolTyped
<1>6. /\ missed \subseteq missed' /\ Ready \cap watchers \subseteq Ready' \cup missed'
      /\ Ready \cap InRequest \subseteq Ready' \cup missed'
    BY <1>2, <1>4
<1>7. RequestStands'
    <2>1. handling.phase \in {"Imported", "Limited", "Watched"} => handling.op \in InRequest
        BY DEF InRequest
    <2> QED BY <1>2, <1>6, <2>1 DEF TopPoolInv, RequestStands
<1>8. WatchersWait'
    BY <1>2, <1>6 DEF TopPoolInv, WatchersWait
<1>9. \A c, o : /\ Replying(c, o)' <=> Replying(c, o)
                /\ DropSent(c, o)' <=> DropSent(c, o)
    BY <1>2 DEF Replying, DropSent
<1>10. \A c, o : DropSeen(c, o)' <=> DropSeen(c, o)
    BY <1>2, <1>9 DEF DropSeen, LastSeen
<1>11. RegisteredIsPending'
    <2>1. ASSUME NEW o \in TopOps, registry[o] # NoClient
          PROVE  \/ o \in Ready' /\ o \in watchers'
                 \/ o \in missed'
                 \/ DropSent(registry[o], o)'
                 \/ DropSeen(registry[o], o)'
        <3>1. PICK d : d = registry[o]
            OBVIOUS
        <3>2. DropSent(d, o) \/ DropSeen(d, o) \/ o \in missed \/ (o \in Ready /\ o \in watchers)
            BY <2>1, <3>1 DEF TopPoolInv, RegisteredIsPending
        <3>3. registry'[o] = d
            BY <1>2, <3>1
        <3>4. \/ DropSent(d, o)' \/ DropSeen(d, o)' \/ o \in missed'
              \/ (o \in Ready' /\ o \in watchers')
            BY <1>2, <1>6, <1>9, <1>10, <3>2
        <3> QED BY <3>3, <3>4 DEF DropSent, DropSeen, Replying, LastSeen
    <2> QED BY <1>2, <2>1 DEF RegisteredIsPending
<1>12. ReplyIsFirst' /\ EndsAreAsked' /\ NoUnaskedStatus'
    BY <1>2, <1>9 DEF TopPoolInv, ReplyIsFirst, EndsAreAsked, NoUnaskedStatus
<1> QED BY <1>4, <1>5, <1>7, <1>8, <1>11, <1>12 DEF TopPoolInv

LEMMA SubmitTopKeeps ==
    ASSUME TopPoolInv, NEW o \in TopOps, submit_top(o)
    PROVE  TopPoolInv'
<1>1. PICK q : q = Inserted(o)
    OBVIOUS
<1>2. PICK out : out = Excess(q)
    OBVIOUS
<1>3. /\ Importable(o) /\ insertionId' = insertionId + 1 /\ topReady' = Removed(q, Excess(q))
      /\ ban(out) /\ fire(out, "Dropped")
      /\ UNCHANGED <<open, handling, slot, nonces, seen>>
    BY <1>1, <1>2 DEF submit_top
<1>4. TopPoolTyped
    BY DEF TopPoolInv
<1>5. q \in [Ready \cup {o} -> 1 .. insertionId + 1] /\ Distinct(q)
    BY <1>1, <1>3, <1>4, InsertedType DEF TopPoolInv
<1>6. /\ Ready' = (Ready \cup {o}) \ out /\ topReady' \in [Ready' -> 1 .. insertionId']
      /\ OneCallPerNonce' /\ out \in SUBSET TopOps /\ insertionId' \in Nat
    <2>1. Ready \cup {o} \in SUBSET TopOps /\ insertionId + 1 \in Nat
        BY <1>4 DEF TopPoolTyped
    <2> QED BY <1>2, <1>3, <1>5, <2>1, PoolLimited
<1>7. Fired(out, "Dropped") /\ "Dropped" \in TopStatuses
    BY <1>3, <1>4, FireFires DEF TopStatuses
<1>8. TopPoolTyped'
    <2>1. /\ watchers' \subseteq TopOps /\ missed' \subseteq TopOps
          /\ registry' \in [TopOps -> Clients \cup {NoClient}]
          /\ signals' \in Seq([client : Clients, op : TopOps, status : TopStatuses])
        BY <1>4, <1>6, <1>7, FireTyped
    <2>2. banned' \subseteq TopOps /\ Cardinality(banned') <= 2 * BanCapacity
        BY <1>3, <1>4, <1>6, BanTyped
    <2>3. Ready' \subseteq TopOps
        BY <1>4, <1>6 DEF TopPoolTyped
    <2> QED BY <1>3, <1>4, <1>6, <2>1, <2>2, <2>3 DEF TopPoolTyped
<1>9. RequestStands'
    BY <1>3, <1>4, <1>6, <1>7, FireStands DEF TopPoolInv
<1>10. WatchersWait' /\ RegisteredIsPending'
    BY <1>3, <1>4, <1>6, <1>7, FirePends DEF TopPoolInv
<1>11. ReplyIsFirst' /\ EndsAreAsked' /\ NoUnaskedStatus'
    BY <1>3, <1>4, <1>7, FireTells DEF TopPoolInv
<1> QED BY <1>6, <1>8, <1>9, <1>10, <1>11 DEF TopPoolInv

-----------------------------------------------------------------------------
(* TopPool: the theorem.                                                   *)

LEMMA TopPoolStarts == TopPoolInit => TopPoolInv
<1> SUFFICES ASSUME TopPoolInit PROVE TopPoolInv
    OBVIOUS
<1>1. /\ topReady = <<>> /\ insertionId = 0 /\ banned = {} /\ watchers = {} /\ signals = <<>>
      /\ registry = [o \in TopOps |-> NoClient] /\ open = {} /\ handling = Idle /\ slot = Idle
      /\ nonces = [a \in Accounts |-> 0] /\ missed = {}
      /\ seen = [c \in Clients |-> [o \in TopOps |-> <<>>]]
    BY DEF TopPoolInit
<1>2. Ready = {} /\ topReady \in [{} -> 1 .. 0] /\ Cardinality({}) = 0 /\ Len(signals) = 0
    BY <1>1, FS_EmptySet DEF Ready
<1>3. \A S : Count(<<>>, S) = 0
    <2>1. \A S : {i \in 1 .. Len(<<>>) : <<>>[i] \in S} = {}
        OBVIOUS
    <2> QED BY <1>2, <2>1 DEF Count
<1>4. seen \in [Clients -> [TopOps -> Seq(TopStatuses \cup {"Submitted"})]]
    BY <1>1
<1>5. signals \in Seq([client : Clients, op : TopOps, status : TopStatuses])
    BY <1>1
<1>6. TopLimit \in Nat /\ BanCapacity \in Nat /\ NoClient \notin Clients
    BY TopPoolAssumption DEF NoClient
<1>7. TopPoolTyped
    BY <1>1, <1>2, <1>4, <1>5, <1>6 DEF TopPoolTyped
<1>8. OneCallPerNonce /\ WatchersWait
    BY <1>1, <1>2, <1>6 DEF OneCallPerNonce, WatchersWait
<1>9. RequestStands /\ \A c, o : ~Replying(c, o)
    BY <1>1, IdleFields DEF RequestStands, Replying
<1>10. RegisteredIsPending
    BY <1>1 DEF RegisteredIsPending
<1>11. ReplyIsFirst
    BY <1>1, <1>2, <1>6 DEF ReplyIsFirst
<1>12. EndsAreAsked
    <2>1. ASSUME NEW c \in Clients, NEW o \in TopOps
          PROVE  /\ seen[c][o] = <<>> /\ registry[o] # c /\ Count(seen[c][o], Ends) = 0
                 /\ Count(signals, Finals(c, o)) = 0 /\ Count(seen[c][o], {"Submitted"}) = 0
        BY <1>1, <1>3, <1>6
    <2> QED BY <1>9, <2>1 DEF EndsAreAsked
<1>13. NoUnaskedStatus
    <2>1. \A c \in Clients : \A o \in TopOps : 1 .. Len(seen[c][o]) = {}
        BY <1>1
    <2> QED BY <2>1 DEF NoUnaskedStatus
<1> QED BY <1>7, <1>8, <1>9, <1>10, <1>11, <1>12, <1>13 DEF TopPoolInv

LEMMA TopPoolStep == TopPoolInv /\ [TopPoolNext]_topPoolVars => TopPoolInv'
<1> SUFFICES ASSUME TopPoolInv, [TopPoolNext]_topPoolVars PROVE TopPoolInv'
    OBVIOUS
<1>1. CASE UNCHANGED topPoolVars
    <2>1. /\ UNCHANGED <<topReady, insertionId, banned, open, handling, nonces, seen, slot>>
          /\ UNCHANGED <<watchers, registry, signals, missed>>
        BY <1>1 DEF topPoolVars
    <2>2. TopPoolTyped'
        BY <2>1 DEF TopPoolInv, TopPoolTyped, Ready
    <2>3. OneCallPerNonce' /\ Ready' = Ready
        BY <2>1, PoolSame DEF TopPoolInv
    <2>4. RequestStands'
        BY <2>1, <2>3 DEF TopPoolInv, RequestStands
    <2>5. WatchersWait' /\ RegisteredIsPending' /\ ReplyIsFirst' /\ EndsAreAsked' /\ NoUnaskedStatus'
        BY <2>1, <2>3, QuietKeeps DEF TopPoolInv
    <2> QED BY <2>2, <2>3, <2>4, <2>5 DEF TopPoolInv
<1>2. CASE \E c \in Clients : \E o \in TopOps : \E w \in BOOLEAN : handle_message(c, o, w)
    BY <1>2, HandleMessageKeeps
<1>3. CASE \E c \in Clients : accept_connection(c) \/ close_connection(c)
    BY <1>3, ConnectionKeeps
<1>4. CASE \E o \in TopOps : submit_top(o)
    BY <1>4, SubmitTopKeeps
<1> QED
    BY <1>1, <1>2, <1>3, <1>4, SubmitInvalidKeeps, SubmitOneKeeps, EnforceLimitsKeeps,
       CreateWatcherKeeps, StoreKeeps, WriteReplyKeeps, ServerSignalKeeps, ProposeKeeps,
       RemoveFailedKeeps, ReceiveBlockKeeps, BlockImportedKeeps, ExecutedRemovedKeeps
    DEF TopPoolNext

LEMMA TopPoolInvSuffices == TopPoolInv => OperationsAreAnswered
<1> SUFFICES ASSUME TopPoolInv PROVE OperationsAreAnswered
    OBVIOUS
<1>1. TopPoolTypeOK
    <2>1. \A T : \A q \in Seq(T) : \A i \in 1 .. Len(q) : q[i] \in T
        OBVIOUS
    <2>2. \A i \in 1 .. Len(signals) : signals[i] \in [client : Clients, op : TopOps, status : TopStatuses]
        BY <2>1 DEF TopPoolInv, TopPoolTyped
    <2> QED BY <2>2 DEF TopPoolInv, TopPoolTyped, TopPoolTypeOK
<1>2. WatchedIsPending
    BY DEF TopPoolInv, RegisteredIsPending, WatchedIsPending, DropSent, DropSeen
<1> QED BY <1>1, <1>2 DEF TopPoolInv, OperationsAreAnswered

\* The way of a trusted operation, for any number of clients, operations, requests and
\* blocks and any limit of the pool: one call per nonce, whoever waits has a pending
\* operation up to the gaps WatchedIsPending names, and no status is unasked for.
THEOREM OperationsAreAnsweredHolds == TopPoolSpec => []OperationsAreAnswered
BY TopPoolStarts, TopPoolStep, TopPoolInvSuffices, PTL DEF TopPoolSpec

-----------------------------------------------------------------------------
(* What the components promise together, each moving on its own.           *)

\* Keys, state and light client fit together once a worker is provisioned, and a key that is in
\* use is not replaced.
THEOREM KeysAreKeptHolds == ProvisioningSpec /\ SealedKeysSpec => KeysAreKept
BY ProvisionedFitsHolds, KeyNeverReplacedHolds, PTL DEF KeysAreKept

\* Secrets are handed out for evidence only, and the evidence is sound.
THEOREM SecretsNeedEvidenceHolds == ProvisioningSpec /\ AttestationSpec => []SecretsNeedEvidence
<1>1. SecretsOnlyToAttested /\ EvidenceIsSound => SecretsNeedEvidence
    BY DEF SecretsNeedEvidence
<1> QED BY <1>1, SecretsOnlyToAttestedHolds, EvidenceIsSoundHolds, PTL

\* Requests are answered by the pool, over the connections and to the command.
THEOREM RequestsAreAnsweredHolds ==
    TopPoolSpec /\ WebSocketSpec /\ DirectRequestSpec => []RequestsAreAnswered
<1>1. OperationsAreAnswered /\ ConnectionsAreServed /\ CommandsAreAnswered => RequestsAreAnswered
    BY DEF RequestsAreAnswered
<1> QED BY <1>1, OperationsAreAnsweredHolds, ConnectionsAreServedHolds, CommandsAreAnsweredHolds, PTL

-----------------------------------------------------------------------------
StateHandlerSpec == StateHandlerInit /\ [][StateHandlerNext]_stateHandlerVars

-----------------------------------------------------------------------------
(* StateHandler: the inductive invariant.                                  *)

Versions == Nat \cup {NoState}
Mutations ==
    {AtRest} \cup [at : {"mutating", "map", "snapshot"}, state : Nat]
             \cup [at : {"file"}, state : Nat, id : Nat]

StateTyped ==
    /\ stateUp \in BOOLEAN /\ stateInMap \in Versions /\ mapLock \in Mutators \cup {NoLock}
    /\ mutation \in [Mutators -> Mutations]
    /\ snapshotHistory \in Seq([hash : Nat, id : Nat])
    /\ stateClock \in Nat /\ DOMAIN stateFiles \subseteq 1 .. stateClock
    /\ stateFiles \in [DOMAIN stateFiles -> Nat \cup {Torn}]
    /\ queuedUpdate \in Versions /\ currentState \in Versions /\ durable \in Versions
    /\ drained \in [Observers -> Versions]
    /\ mutators \subseteq Mutators /\ observers \subseteq Observers
    /\ stateFaults \in 0 .. MaxStateFaults

\* An enclave that is down has nothing in memory.
NothingWhenDown ==
    ~stateUp => /\ stateInMap = NoState /\ snapshotHistory = <<>> /\ AllAtRest
                /\ queuedUpdate = NoState /\ \A o \in Observers : drained[o] = NoState

\* One thread mutates, under the lock, what is in the map.
LockHeld ==
    \A m \in Mutators :
        /\ mutation[m].at = "mutating" => mapLock = m /\ mutation[m].state = stateInMap
        /\ mutation[m] # AtRest => stateInMap # NoState /\ m \in mutators

Whole == {id \in DOMAIN stateFiles : stateFiles[id] # Torn}

\* The snapshots in memory are whole files, latest first; a whole file that is not among them
\* is one that could not be removed.
SnapshotsStand ==
    /\ \A i \in 1 .. Len(snapshotHistory) :
          /\ snapshotHistory[i].id \in DOMAIN stateFiles
          /\ stateFiles[snapshotHistory[i].id] = snapshotHistory[i].hash
    /\ \A i, j \in 1 .. Len(snapshotHistory) : i < j => snapshotHistory[i].id > snapshotHistory[j].id
    /\ Len(snapshotHistory) <= SnapshotCacheSize + stateFaults
    /\ Cardinality(Whole) <= SnapshotCacheSize + stateFaults
    /\ stateUp => Cardinality(Whole \ IdsIn(snapshotHistory)) <= stateFaults

\* One thread writes a file, the newest, and it is torn.
OneWrites ==
    \A m \in Mutators : mutation[m].at = "file" =>
        /\ mutation[m].id = stateClock /\ stateClock \in DOMAIN stateFiles
        /\ stateFiles[stateClock] = Torn
        /\ \A n \in Mutators : mutation[n].at = "file" => n = m

\* There is one thread, or none.
Alone(S) == \A x, y \in S : x = y

\* With one thread that mutates, what is in memory or in the newest whole file is not older
\* than any snapshot that was completed.
NewestIsDurable ==
    /\ Whole = {} => durable = NoState
    /\ stateUp /\ stateInMap = NoState => Whole = {}
    /\ Alone(mutators) =>
          /\ stateUp => stateInMap >= durable
          /\ \A id \in Whole : (\A x \in Whole : x <= id) => stateFiles[id] >= durable
          /\ \A m \in Mutators : mutation[m].at \in {"map", "file", "snapshot"} => mutation[m].state = stateInMap

\* Writers that have still to add a snapshot.
Writing == {m \in Mutators : mutation[m].at \in {"map", "file"}}

\* While nothing fails the state in memory is still to be written, or is so far up in the
\* history that the other writers cannot push it out.
MemoryStays ==
    stateUp /\ stateInMap # NoState /\ stateFaults = 0 =>
        \/ \E m \in Writing : mutation[m].state = stateInMap
        \/ \E i \in 1 .. Len(snapshotHistory) :
              snapshotHistory[i].hash = stateInMap /\ i + Cardinality(Writing) <= SnapshotCacheSize

Shown ==
    LET pending == {drained[o] : o \in Observers} \ {NoState}
    IN  IF queuedUpdate # NoState THEN queuedUpdate
        ELSE IF pending # {} THEN CHOOSE v \in pending : TRUE ELSE currentState

\* With one thread that mutates and one that observes, and while nothing fails: the state in
\* memory is on its way to the queue, or is the next to be shown.
ShownStays ==
    /\ \A o \in Observers : drained[o] # NoState => o \in observers
    /\ stateUp /\ stateFaults = 0 /\ Alone(mutators) /\ Alone(observers) =>
          \/ \E m \in Mutators : mutation[m].at \in {"map", "file", "snapshot"} /\ mutation[m].state = stateInMap
          \/ Shown = stateInMap

StateHandlerInv ==
    /\ StateTyped /\ NothingWhenDown /\ LockHeld /\ SnapshotsStand /\ OneWrites /\ NewestIsDurable
    /\ MemoryStays /\ ShownStays

-----------------------------------------------------------------------------
(* StateHandler: the files in their order.                                 *)

\* How many come after an id.
After(S, x) == Cardinality({y \in S : y > x})

LEMMA AfterFalls ==
    ASSUME NEW S \in SUBSET Nat, IsFiniteSet(S), NEW x \in S, NEW y \in S, x < y
    PROVE  /\ After(S, x) \in Nat /\ After(S, y) \in Nat
           /\ After(S, y) < After(S, x) /\ After(S, x) < Cardinality(S)
<1>1. PICK A : A = {z \in S : z > x} OBVIOUS
<1>2. PICK B : B = {z \in S : z > y} OBVIOUS
<1>3. IsFiniteSet(A) /\ Cardinality(A) <= Cardinality(S) /\ (Cardinality(S) = Cardinality(A) => S = A)
    BY <1>1, FS_Subset
<1>4. B \in SUBSET A /\ y \in A /\ y \notin B /\ x \in S /\ x \notin A
    <2>1. x \in Nat /\ y \in Nat
        OBVIOUS
    <2>2. y \in A /\ y \notin B /\ x \notin A
        BY <1>1, <1>2, <2>1
    <2>3. ASSUME NEW z \in B PROVE z \in A
        <3>1. z \in S /\ z \in Nat /\ z > y
            BY <1>2, <2>3
        <3>2. z > x
            BY <2>1, <3>1
        <3> QED BY <1>1, <3>1, <3>2
    <2> QED BY <2>2, <2>3
<1>5. IsFiniteSet(B) /\ Cardinality(B) <= Cardinality(A) /\ (Cardinality(A) = Cardinality(B) => A = B)
    BY <1>3, <1>4, FS_Subset
<1>6. Cardinality(S) \in Nat /\ Cardinality(A) \in Nat /\ Cardinality(B) \in Nat
    BY <1>3, <1>5, FS_CardinalityType
<1>7. After(S, x) = Cardinality(A) /\ After(S, y) = Cardinality(B)
    BY <1>1, <1>2 DEF After
<1> QED BY <1>3, <1>4, <1>5, <1>6, <1>7

LEMMA AfterBound ==
    ASSUME NEW S \in SUBSET Nat, IsFiniteSet(S), NEW x \in S
    PROVE  After(S, x) \in 0 .. Cardinality(S) - 1
<1>1. PICK A : A = {z \in S : z > x} OBVIOUS
<1>2. IsFiniteSet(A) /\ Cardinality(A) <= Cardinality(S) /\ (Cardinality(S) = Cardinality(A) => S = A)
    BY <1>1, FS_Subset
<1>3. x \in S /\ x \notin A
    BY <1>1
<1>4. Cardinality(S) \in Nat /\ Cardinality(A) \in Nat
    BY <1>2, FS_CardinalityType
<1>5. After(S, x) = Cardinality(A)
    BY <1>1 DEF After
<1> QED BY <1>2, <1>3, <1>4, <1>5

LEMMA AfterInjective ==
    ASSUME NEW S \in SUBSET Nat, IsFiniteSet(S), NEW x \in S, NEW y \in S, After(S, x) = After(S, y)
    PROVE  x = y
<1>1. CASE x < y
    BY <1>1, AfterFalls
<1>2. CASE y < x
    BY <1>2, AfterFalls
<1> QED BY <1>1, <1>2

\* Every place is taken: the sorted sequence that map_to_snapshot_metadata picks is there.
LEMMA AfterOnto ==
    ASSUME NEW S \in SUBSET Nat, IsFiniteSet(S), NEW k \in 0 .. Cardinality(S) - 1
    PROVE  \E x \in S : After(S, x) = k
<1>1. Cardinality(S) \in Nat
    BY FS_CardinalityType
<1>2. PICK n \in Nat : n = Cardinality(S)
    BY <1>1
<1>3. IsFiniteSet(0 .. n - 1) /\ Cardinality(0 .. n - 1) = n
    <2>1. 0 \in Int /\ n - 1 \in Int
        BY <1>2
    <2>2. /\ IsFiniteSet(0 .. n - 1)
          /\ Cardinality(0 .. n - 1) = IF 0 > n - 1 THEN 0 ELSE n - 1 - 0 + 1
        BY <2>1, FS_Interval
    <2> QED BY <1>2, <2>2
<1>4. PICK f : f = [x \in S |-> After(S, x)] OBVIOUS
<1>5. f \in Injection(S, 0 .. n - 1)
    <2>1. f \in [S -> 0 .. n - 1]
        BY <1>2, <1>4, AfterBound
    <2>2. \A x, y \in S : f[x] = f[y] => x = y
        BY <1>4, AfterInjective
    <2> QED BY <2>1, <2>2 DEF Injection, IsInjective
<1>6. f \in Surjection(S, 0 .. n - 1)
    BY <1>2, <1>3, <1>5, FS_Injection
<1>7. \A t \in 0 .. n - 1 : \E x \in S : f[x] = t
    BY <1>6 DEF Surjection
<1> QED BY <1>2, <1>4, <1>7

LEMMA WholeFinite ==
    ASSUME StateTyped
    PROVE  /\ Whole \in SUBSET Nat /\ IsFiniteSet(Whole) /\ Cardinality(Whole) \in Nat
           /\ \A id \in Whole : stateFiles[id] \in Nat /\ id \in 1 .. stateClock
<1>1. \A id \in Whole : stateFiles[id] \in Nat /\ id \in 1 .. stateClock
    BY DEF StateTyped, Whole
<1>2. Whole \in SUBSET Nat /\ stateClock \in Nat /\ \A id \in Whole : id <= stateClock
    BY <1>1 DEF StateTyped
<1>3. IsFiniteSet(Whole)
    BY <1>2, FS_BoundedSetOfNaturals
<1> QED BY <1>1, <1>2, <1>3, FS_CardinalityType

\* What the loader makes of the files: every whole one, latest first.
LEMMA LoadedSorted ==
    ASSUME StateTyped, NEW h, h = map_to_snapshot_metadata
    PROVE  /\ h \in Seq([hash : Nat, id : Nat]) /\ Len(h) = Cardinality(Whole)
           /\ \A i \in 1 .. Len(h) : h[i].id \in Whole /\ h[i].hash = stateFiles[h[i].id]
           /\ \A i, j \in 1 .. Len(h) : i < j => h[i].id > h[j].id
           /\ IdsIn(h) = Whole
           /\ Whole # {} => h # <<>> /\ \A x \in Whole : x <= h[1].id
<1>1. Whole \in SUBSET Nat /\ IsFiniteSet(Whole) /\ \A id \in Whole : stateFiles[id] \in Nat
    BY WholeFinite
<1>2. PICK n \in Nat : n = Cardinality(Whole)
    BY WholeFinite
<1>3. PICK g : g = [i \in 1 .. n |-> CHOOSE x \in Whole : After(Whole, x) = i - 1] OBVIOUS
<1>4. ASSUME NEW i \in 1 .. n PROVE g[i] \in Whole /\ After(Whole, g[i]) = i - 1
    <2>1. i - 1 \in 0 .. Cardinality(Whole) - 1
        BY <1>2
    <2>2. \E x \in Whole : After(Whole, x) = i - 1
        BY <1>1, <2>1, AfterOnto
    <2>3. g[i] = CHOOSE x \in Whole : After(Whole, x) = i - 1
        BY <1>3
    <2> QED BY <2>2, <2>3
<1>5. h = [i \in 1 .. n |-> [hash |-> stateFiles[g[i]], id |-> g[i]]]
    BY <1>2, <1>3 DEF map_to_snapshot_metadata, Whole, After, Loadable, state_ids_for_shard
<1>6. ASSUME NEW i \in 1 .. n
      PROVE  h[i] \in [hash : Nat, id : Nat] /\ h[i].id = g[i] /\ h[i].hash = stateFiles[g[i]]
    <2>1. h[i] = [hash |-> stateFiles[g[i]], id |-> g[i]]
        BY <1>5
    <2>2. g[i] \in Nat /\ stateFiles[g[i]] \in Nat
        BY <1>1, <1>4
    <2> QED BY <2>1, <2>2
<1>7. h \in Seq([hash : Nat, id : Nat]) /\ Len(h) = n
    <2>1. \A T : \A q \in [1 .. n -> T] : q \in Seq(T) /\ Len(q) = n
        OBVIOUS
    <2>2. h \in [1 .. n -> [hash : Nat, id : Nat]]
        BY <1>5, <1>6
    <2> QED BY <2>1, <2>2
<1>8. ASSUME NEW i \in 1 .. n, NEW j \in 1 .. n, i < j PROVE g[i] > g[j]
    <2>1. ASSUME g[i] < g[j] PROVE FALSE
        <3>1. g[i] \in Whole /\ g[j] \in Whole /\ After(Whole, g[i]) = i - 1 /\ After(Whole, g[j]) = j - 1
            BY <1>4
        <3>2. After(Whole, g[j]) < After(Whole, g[i])
            BY <1>1, <2>1, <3>1, AfterFalls
        <3> QED BY <1>8, <3>1, <3>2
    <2>2. g[i] # g[j]
        BY <1>4, <1>8
    <2>3. g[i] \in Nat /\ g[j] \in Nat
        BY <1>1, <1>4
    <2> QED BY <2>1, <2>2, <2>3
<1>9. ASSUME NEW x \in Whole PROVE \E i \in 1 .. n : g[i] = x
    <2>1. After(Whole, x) \in 0 .. n - 1
        BY <1>1, <1>2, AfterBound
    <2>2. PICK i \in 1 .. n : After(Whole, x) = i - 1
        BY <2>1
    <2>3. g[i] \in Whole /\ After(Whole, g[i]) = After(Whole, x)
        BY <1>4, <2>2
    <2>4. \A y, z \in Whole : After(Whole, y) = After(Whole, z) => y = z
        BY <1>1, AfterInjective
    <2>5. g[i] = x
        BY <2>3, <2>4
    <2> QED BY <2>5
<1>10. IdsIn(h) = Whole
    <2>1. IdsIn(h) = {g[i] : i \in 1 .. n}
        BY <1>6, <1>7 DEF IdsIn
    <2> QED BY <1>4, <1>9, <2>1
<1>11. ASSUME Whole # {} PROVE h # <<>> /\ \A x \in Whole : x <= h[1].id
    <2>1. PICK i \in 1 .. n : TRUE
        BY <1>9, <1>11
    <2>2. 1 \in 1 .. n /\ h # <<>>
        BY <1>7, <2>1
    <2>3. ASSUME NEW x \in Whole PROVE x <= g[1]
        <3>1. PICK j \in 1 .. n : g[j] = x
            BY <1>9
        <3>2. g[1] \in Nat /\ x \in Nat
            BY <1>1, <1>4, <2>2
        <3>3. j = 1 \/ 1 < j
            OBVIOUS
        <3> QED BY <1>8, <2>2, <3>1, <3>2, <3>3
    <2> QED BY <1>6, <2>2, <2>3
<1>12. \A i \in 1 .. Len(h) : h[i].id \in Whole /\ h[i].hash = stateFiles[h[i].id]
    <2> SUFFICES ASSUME NEW i \in 1 .. n PROVE h[i].id \in Whole /\ h[i].hash = stateFiles[h[i].id]
        BY <1>7
    <2>1. h[i].id = g[i] /\ h[i].hash = stateFiles[g[i]]
        BY <1>6
    <2> QED BY <1>4, <2>1
<1>13. \A i, j \in 1 .. Len(h) : i < j => h[i].id > h[j].id
    <2> SUFFICES ASSUME NEW i \in 1 .. n, NEW j \in 1 .. n, i < j PROVE h[i].id > h[j].id
        BY <1>7
    <2> QED BY <1>6, <1>8
<1>14. Len(h) = Cardinality(Whole)
    BY <1>2, <1>7
<1> QED BY <1>7, <1>10, <1>11, <1>12, <1>13, <1>14

-----------------------------------------------------------------------------
(* StateHandler: what a step leaves alone.                                 *)

LEMMA StateStarts == StateHandlerInit => StateHandlerInv
<1> SUFFICES ASSUME StateHandlerInit PROVE StateHandlerInv OBVIOUS
<1>1. DOMAIN stateFiles = {} /\ Whole = {} /\ snapshotHistory = <<>> /\ ~stateUp
    BY DEF StateHandlerInit, Whole, NoShard
<1>2. StateTyped
    <2>1. stateFiles \in [{} -> Nat \cup {Torn}] /\ snapshotHistory \in Seq([hash : Nat, id : Nat])
        BY <1>1 DEF StateHandlerInit
    <2>2. mutation \in [Mutators -> Mutations] /\ drained \in [Observers -> Versions]
        BY DEF StateHandlerInit, Mutations, Versions
    <2>3. stateClock = 0 /\ DOMAIN stateFiles \subseteq 1 .. stateClock /\ stateFaults \in 0 .. MaxStateFaults
        BY <1>1, StateHandlerAssumption DEF StateHandlerInit
    <2>4. /\ stateUp \in BOOLEAN /\ mapLock \in Mutators \cup {NoLock}
          /\ stateInMap \in Versions /\ queuedUpdate \in Versions /\ currentState \in Versions /\ durable \in Versions
          /\ mutators \subseteq Mutators /\ observers \subseteq Observers
        BY DEF StateHandlerInit, Versions
    <2>5. stateFiles \in [DOMAIN stateFiles -> Nat \cup {Torn}]
        BY <1>1, <2>1
    <2> QED BY <2>1, <2>2, <2>3, <2>4, <2>5 DEF StateTyped
<1>3. NothingWhenDown /\ LockHeld /\ OneWrites
    BY <1>1 DEF StateHandlerInit, NothingWhenDown, LockHeld, OneWrites, AllAtRest, AtRest, NoShard
<1>4. SnapshotsStand
    <2>1. Cardinality(Whole) = 0 /\ Len(snapshotHistory) = 0
        BY <1>1, FS_EmptySet
    <2> QED BY <1>1, <2>1, StateHandlerAssumption DEF StateHandlerInit, SnapshotsStand
<1>5. NewestIsDurable
    BY <1>1 DEF StateHandlerInit, NewestIsDurable, AtRest
<1>6. MemoryStays /\ ShownStays
    BY <1>1 DEF StateHandlerInit, MemoryStays, ShownStays
<1> QED BY <1>2, <1>3, <1>4, <1>5, <1>6 DEF StateHandlerInv

\* The files and the history, when no step is about them.
LEMMA FilesUntouched ==
    ASSUME StateTyped, SnapshotsStand, stateFaults' \in Nat, stateFaults' >= stateFaults,
           UNCHANGED <<stateUp, snapshotHistory, stateFiles>>
    PROVE  SnapshotsStand' /\ Whole' = Whole
<1>1. Whole' = Whole /\ IdsIn(snapshotHistory)' = IdsIn(snapshotHistory)
    BY DEF Whole, IdsIn
<1>2. stateFaults \in Nat /\ SnapshotCacheSize \in Nat /\ Len(snapshotHistory) \in Nat
    BY StateHandlerAssumption DEF StateTyped
<1>3. Cardinality(Whole) \in Nat /\ Cardinality(Whole \ IdsIn(snapshotHistory)) \in Nat
    BY WholeFinite, FS_Difference, FS_CardinalityType
<1> QED BY <1>1, <1>2, <1>3 DEF SnapshotsStand

\* A thread moves on.
LEMMA OneMoves ==
    ASSUME StateTyped, NEW m \in Mutators, NEW r \in Mutations, mutation' = [mutation EXCEPT ![m] = r]
    PROVE  /\ mutation' \in [Mutators -> Mutations] /\ mutation'[m] = r
           /\ \A n \in Mutators \ {m} : mutation'[n] = mutation[n]
BY DEF StateTyped

LEMMA InitializeShardKeeps ==
    ASSUME StateHandlerInv, NEW m \in Mutators, initialize_shard(m)
    PROVE  StateHandlerInv'
<1> USE DEF StateHandlerInv
<1>1. PICK r : r = [at |-> "map", state |-> 0] OBVIOUS
<1>2. r \in Mutations /\ r.at = "map" /\ r.state = 0 /\ r # AtRest
    BY <1>1 DEF Mutations, AtRest
<1>3. mutation' = [mutation EXCEPT ![m] = r]
    BY <1>1 DEF initialize_shard, ToMap, InitialState
<1>4. mutation' \in [Mutators -> Mutations] /\ mutation'[m] = r /\ \A n \in Mutators \ {m} : mutation'[n] = mutation[n]
    BY <1>2, <1>3, OneMoves
<1>5. /\ stateUp /\ stateInMap = NoState /\ stateInMap' = 0 /\ mutators' = mutators \cup {m}
      /\ UNCHANGED <<stateUp, mapLock, stateFaults, repositoryVars, observerVars>>
    BY DEF initialize_shard, InitialState
<1>6. \A n \in Mutators \ {m} : mutation'[n] = AtRest /\ mutation'[n].at = "rest"
    BY <1>4, <1>5 DEF LockHeld, AtRest
<1>7. StateTyped'
    BY <1>4, <1>5 DEF StateTyped, repositoryVars, observerVars, Versions
<1>8. NothingWhenDown' /\ OneWrites'
    BY <1>2, <1>4, <1>5, <1>6 DEF NothingWhenDown, OneWrites
<1>9. LockHeld'
    BY <1>2, <1>4, <1>5, <1>6 DEF LockHeld, NoState, AtRest
<1>10. SnapshotsStand' /\ Whole' = Whole
    BY <1>5, FilesUntouched DEF StateTyped, repositoryVars
<1>11. durable = NoState /\ Whole = {}
    BY <1>5 DEF NewestIsDurable
<1>12. NewestIsDurable'
    BY <1>2, <1>4, <1>5, <1>6, <1>10, <1>11 DEF NewestIsDurable, NoState, repositoryVars
<1>13. MemoryStays' /\ ShownStays'
    <2>1. m \in Writing' /\ mutation'[m].state = stateInMap' /\ mutation'[m].at \in {"map", "file", "snapshot"}
        BY <1>2, <1>4, <1>5 DEF Writing
    <2>2. \A o \in Observers : drained'[o] # NoState => o \in observers'
        BY <1>5 DEF ShownStays, observerVars
    <2> QED BY <2>1, <2>2 DEF MemoryStays, ShownStays
<1> QED BY <1>7, <1>8, <1>9, <1>10, <1>12, <1>13

\* A step of a mutator that is no writer of snapshots, before or after.
LEMMA MemoryUntouched ==
    ASSUME MemoryStays, UNCHANGED <<stateUp, stateInMap, stateFaults, snapshotHistory>>,
           \A n \in Mutators : mutation[n].at \in {"map", "file"} <=> mutation'[n].at \in {"map", "file"},
           \A n \in Mutators : mutation[n].at \in {"map", "file"} => mutation'[n].state = mutation[n].state
    PROVE  MemoryStays'
<1>1. Writing' = Writing
    BY DEF Writing
<1>2. \A n \in Writing : mutation'[n].state = mutation[n].state
    BY DEF Writing
<1> QED BY <1>1, <1>2 DEF MemoryStays

LEMMA LoadForMutationKeeps ==
    ASSUME StateHandlerInv, NEW m \in Mutators, load_for_mutation(m)
    PROVE  StateHandlerInv'
<1> USE DEF StateHandlerInv
<1>1. PICK r : r = [at |-> "mutating", state |-> stateInMap] OBVIOUS
<1>2. /\ stateUp /\ stateInMap # NoState /\ mapLock = NoLock /\ mutation[m] = AtRest
      /\ mapLock' = m /\ mutators' = mutators \cup {m} /\ mutation' = [mutation EXCEPT ![m] = r]
      /\ UNCHANGED <<stateUp, stateInMap, stateFaults, repositoryVars, observerVars>>
    BY <1>1 DEF load_for_mutation
<1>3. r \in Mutations /\ r.at = "mutating" /\ r.state = stateInMap
    <2>1. stateInMap \in Nat
        BY <1>2 DEF StateTyped, Versions
    <2> QED BY <1>1, <2>1 DEF Mutations
<1>4. mutation' \in [Mutators -> Mutations] /\ mutation'[m] = r /\ \A n \in Mutators \ {m} : mutation'[n] = mutation[n]
    BY <1>2, <1>3, OneMoves
<1>5. StateTyped'
    BY <1>2, <1>4 DEF StateTyped, repositoryVars, observerVars
<1>6. NothingWhenDown' /\ OneWrites'
    BY <1>2, <1>3, <1>4 DEF NothingWhenDown, OneWrites, repositoryVars
<1>7. LockHeld'
    <2>1. \A n \in Mutators : mutation[n].at # "mutating"
        BY <1>2, StateHandlerAssumption DEF LockHeld, NoLock
    <2> QED BY <1>2, <1>3, <1>4, <2>1 DEF LockHeld
<1>8. SnapshotsStand' /\ Whole' = Whole
    BY <1>2, FilesUntouched DEF StateTyped, repositoryVars
<1>9. Alone(mutators)' => Alone(mutators)
    BY <1>2 DEF Alone
<1>10. NewestIsDurable'
    BY <1>2, <1>3, <1>4, <1>8, <1>9 DEF NewestIsDurable, repositoryVars
<1>11. mutation[m].at = "rest"
    BY <1>2 DEF AtRest
<1>12. MemoryStays'
    <2>1. \A n \in Mutators : mutation[n].at \in {"map", "file"} <=> mutation'[n].at \in {"map", "file"}
        BY <1>3, <1>4, <1>11
    <2>2. \A n \in Mutators : mutation[n].at \in {"map", "file"} => mutation'[n].state = mutation[n].state
        BY <1>4, <1>11
    <2> QED BY <1>2, <2>1, <2>2, MemoryUntouched DEF repositoryVars
<1>13. ShownStays'
    <2>1. Shown' = Shown
        BY <1>2 DEF Shown, observerVars
    <2> QED BY <1>2, <1>3, <1>4, <1>9, <1>11, <2>1 DEF ShownStays, observerVars
<1> QED BY <1>5, <1>6, <1>7, <1>8, <1>10, <1>12, <1>13

LEMMA DropMutationKeeps ==
    ASSUME StateHandlerInv, NEW m \in Mutators, drop_mutation(m)
    PROVE  StateHandlerInv'
<1> USE DEF StateHandlerInv
<1>1. PICK r : r = AtRest OBVIOUS
<1>2. /\ mutation[m].at = "mutating" /\ mapLock' = NoLock /\ mutation' = [mutation EXCEPT ![m] = r]
      /\ UNCHANGED <<stateUp, stateInMap, mutators, stateFaults, repositoryVars, observerVars>>
    BY <1>1 DEF drop_mutation
<1>3. r \in Mutations /\ r.at = "rest" /\ mutation[m] # AtRest
    BY <1>1, <1>2 DEF Mutations, AtRest
<1>4. mutation' \in [Mutators -> Mutations] /\ mutation'[m] = r /\ \A n \in Mutators \ {m} : mutation'[n] = mutation[n]
    BY <1>2, <1>3, OneMoves
<1>5. StateTyped'
    BY <1>2, <1>4 DEF StateTyped, repositoryVars, observerVars
<1>6. NothingWhenDown' /\ OneWrites'
    <2>1. stateUp
        BY <1>3 DEF NothingWhenDown, AllAtRest
    <2> QED BY <1>2, <1>3, <1>4, <2>1 DEF NothingWhenDown, OneWrites, repositoryVars
<1>7. LockHeld'
    <2>1. \A n \in Mutators \ {m} : mutation[n].at # "mutating"
        BY <1>2 DEF LockHeld
    <2> QED BY <1>1, <1>2, <1>3, <1>4, <2>1 DEF LockHeld
<1>8. SnapshotsStand' /\ Whole' = Whole
    BY <1>2, FilesUntouched DEF StateTyped, repositoryVars
<1>10. NewestIsDurable'
    BY <1>2, <1>3, <1>4, <1>8 DEF NewestIsDurable, repositoryVars
<1>12. MemoryStays'
    <2>1. \A n \in Mutators : mutation[n].at \in {"map", "file"} <=> mutation'[n].at \in {"map", "file"}
        BY <1>2, <1>3, <1>4
    <2>2. \A n \in Mutators : mutation[n].at \in {"map", "file"} => mutation'[n].state = mutation[n].state
        BY <1>2, <1>4
    <2> QED BY <1>2, <2>1, <2>2, MemoryUntouched DEF repositoryVars
<1>13. ShownStays'
    <2>1. Shown' = Shown
        BY <1>2 DEF Shown, observerVars
    <2> QED BY <1>2, <1>3, <1>4, <2>1 DEF ShownStays, observerVars
<1> QED BY <1>5, <1>6, <1>7, <1>8, <1>10, <1>12, <1>13

LEMMA WriteAfterMutationKeeps ==
    ASSUME StateHandlerInv, NEW m \in Mutators, write_after_mutation(m)
    PROVE  StateHandlerInv'
<1> USE DEF StateHandlerInv
<1>1. mutation[m].at = "mutating" /\ mutation[m] # AtRest
    BY DEF write_after_mutation, AtRest
<1>2. mapLock = m /\ mutation[m].state = stateInMap /\ stateInMap # NoState /\ m \in mutators
    BY <1>1 DEF LockHeld
<1>3. stateInMap \in Nat /\ stateUp
    BY <1>1, <1>2 DEF StateTyped, Versions, NothingWhenDown, AllAtRest
<1>4. PICK v \in Nat : v = stateInMap + 1
    BY <1>3
<1>5. PICK r : r = [at |-> "map", state |-> v] OBVIOUS
<1>6. /\ stateInMap' = v /\ mapLock' = NoLock /\ mutation' = [mutation EXCEPT ![m] = r]
      /\ UNCHANGED <<stateUp, mutators, stateFaults, repositoryVars, observerVars>>
    BY <1>2, <1>4, <1>5 DEF write_after_mutation, ToMap
<1>7. r \in Mutations /\ r.at = "map" /\ r.state = v
    BY <1>5 DEF Mutations
<1>8. mutation' \in [Mutators -> Mutations] /\ mutation'[m] = r /\ \A n \in Mutators \ {m} : mutation'[n] = mutation[n]
    BY <1>6, <1>7, OneMoves
<1>9. \A n \in Mutators \ {m} : mutation[n].at # "mutating"
    BY <1>2 DEF LockHeld
<1>10. StateTyped'
    BY <1>6, <1>8 DEF StateTyped, repositoryVars, observerVars, Versions
<1>11. NothingWhenDown' /\ OneWrites'
    BY <1>1, <1>3, <1>6, <1>7, <1>8 DEF NothingWhenDown, OneWrites, repositoryVars
<1>12. LockHeld'
    BY <1>2, <1>4, <1>6, <1>7, <1>8, <1>9 DEF LockHeld, NoState
<1>13. SnapshotsStand' /\ Whole' = Whole
    BY <1>6, FilesUntouched DEF StateTyped, repositoryVars
<1>14. NewestIsDurable'
    <2>1. ASSUME Alone(mutators), NEW n \in Mutators \ {m} PROVE mutation'[n].at = "rest"
        BY <1>2, <1>8, <2>1 DEF Alone, LockHeld, AtRest
    <2>2. Alone(mutators) => stateInMap' >= durable
        <3>1. durable \in Int
            BY DEF StateTyped, Versions, NoState
        <3>2. Alone(mutators) => stateInMap >= durable
            BY <1>3 DEF NewestIsDurable
        <3> QED BY <1>3, <1>4, <1>6, <3>1, <3>2
    <2>3. stateInMap' # NoState
        BY <1>4, <1>6 DEF NoState
    <2>4. Alone(mutators)' = Alone(mutators)
        BY <1>6 DEF Alone
    <2>5. Alone(mutators) =>
            \A n \in Mutators : mutation'[n].at \in {"map", "file", "snapshot"} => mutation'[n].state = stateInMap'
        BY <1>6, <1>7, <1>8, <2>1
    <2> QED BY <1>6, <1>13, <2>2, <2>3, <2>4, <2>5 DEF NewestIsDurable, repositoryVars
<1>15. MemoryStays' /\ ShownStays'
    <2>1. m \in Writing' /\ mutation'[m].state = stateInMap' /\ mutation'[m].at \in {"map", "file", "snapshot"}
        BY <1>6, <1>7, <1>8 DEF Writing
    <2>2. \A o \in Observers : drained'[o] # NoState => o \in observers'
        BY <1>6 DEF ShownStays, observerVars
    <2> QED BY <2>1, <2>2 DEF MemoryStays, ShownStays
<1> QED BY <1>10, <1>11, <1>12, <1>13, <1>14, <1>15

LEMMA WriteNewStateKeeps ==
    ASSUME StateHandlerInv, NEW m \in Mutators, write_new_state(m)
    PROVE  StateHandlerInv'
<1> USE DEF StateHandlerInv
<1>1. PICK id : id = stateClock + 1 OBVIOUS
<1>2. PICK v : v = mutation[m].state OBVIOUS
<1>3. PICK r : r = [at |-> "file", state |-> v, id |-> id] OBVIOUS
<1>4. /\ mutation[m].at = "map" /\ RepositoryFree /\ stateClock' = id
      /\ stateFiles' = io_write(id, Torn) /\ mutation' = [mutation EXCEPT ![m] = r]
      /\ UNCHANGED <<stateUp, stateInMap, mapLock, mutators, stateFaults, snapshotHistory, durable, observerVars>>
    BY <1>1, <1>2, <1>3 DEF write_new_state
<1>5. id \in Nat /\ id \notin DOMAIN stateFiles /\ id \in 1 .. id /\ 1 .. stateClock \subseteq 1 .. id
    BY <1>1 DEF StateTyped
<1>6. v \in Nat
    BY <1>2, <1>4 DEF StateTyped, Mutations, AtRest
<1>7. r \in Mutations /\ r.at = "file" /\ r.state = v /\ r.id = id
    BY <1>3, <1>5, <1>6 DEF Mutations
<1>8. mutation' \in [Mutators -> Mutations] /\ mutation'[m] = r /\ \A n \in Mutators \ {m} : mutation'[n] = mutation[n]
    BY <1>4, <1>7, OneMoves
<1>9. /\ DOMAIN stateFiles' = DOMAIN stateFiles \cup {id} /\ stateFiles'[id] = Torn
      /\ \A i \in DOMAIN stateFiles : stateFiles'[i] = stateFiles[i]
      /\ stateFiles' \in [DOMAIN stateFiles' -> Nat \cup {Torn}]
    BY <1>4, <1>5 DEF io_write, state_ids_for_shard, StateTyped
<1>10. StateTyped'
    BY <1>4, <1>5, <1>8, <1>9 DEF StateTyped, observerVars
<1>11. mutation[m] # AtRest /\ stateUp
    BY <1>4 DEF AtRest, NothingWhenDown, AllAtRest
<1>12. NothingWhenDown'
    BY <1>4, <1>11 DEF NothingWhenDown
<1>13. LockHeld'
    BY <1>4, <1>7, <1>8, <1>11 DEF LockHeld
<1>14. Whole' = Whole /\ IdsIn(snapshotHistory)' = IdsIn(snapshotHistory)
    BY <1>4, <1>5, <1>9 DEF Whole, IdsIn
<1>15. SnapshotsStand'
    <2>1. \A i \in 1 .. Len(snapshotHistory) :
            /\ snapshotHistory[i].id \in DOMAIN stateFiles'
            /\ stateFiles'[snapshotHistory[i].id] = snapshotHistory[i].hash
        BY <1>9 DEF SnapshotsStand
    <2> QED BY <1>4, <1>14, <2>1 DEF SnapshotsStand
<1>16. OneWrites'
    <2>1. \A n \in Mutators \ {m} : mutation'[n].at # "file"
        BY <1>4, <1>8 DEF RepositoryFree
    <2> QED BY <1>4, <1>7, <1>8, <1>9, <2>1 DEF OneWrites
<1>17. NewestIsDurable'
    <2>1. Alone(mutators)' = Alone(mutators)
        BY <1>4 DEF Alone
    <2>2. \A x \in Whole : stateFiles'[x] = stateFiles[x]
        BY <1>9 DEF Whole
    <2>3. Alone(mutators) =>
            \A n \in Mutators : mutation'[n].at \in {"map", "file", "snapshot"} => mutation'[n].state = stateInMap
        BY <1>2, <1>4, <1>7, <1>8 DEF NewestIsDurable
    <2> QED BY <1>4, <1>14, <2>1, <2>2, <2>3 DEF NewestIsDurable
<1>18. MemoryStays'
    <2>1. \A n \in Mutators : mutation[n].at \in {"map", "file"} <=> mutation'[n].at \in {"map", "file"}
        BY <1>4, <1>7, <1>8
    <2>2. \A n \in Mutators : mutation[n].at \in {"map", "file"} => mutation'[n].state = mutation[n].state
        BY <1>2, <1>7, <1>8
    <2> QED BY <1>4, <2>1, <2>2, MemoryUntouched
<1>19. ShownStays'
    <2>1. Shown' = Shown /\ Alone(mutators)' = Alone(mutators) /\ Alone(observers)' = Alone(observers)
        BY <1>4 DEF Shown, observerVars, Alone
    <2>2. \A n \in Mutators : mutation[n].at \in {"map", "file", "snapshot"} =>
            mutation'[n].at \in {"map", "file", "snapshot"} /\ mutation'[n].state = mutation[n].state
        BY <1>2, <1>7, <1>8
    <2> QED BY <1>4, <2>1, <2>2 DEF ShownStays, observerVars
<1> QED BY <1>10, <1>12, <1>13, <1>15, <1>16, <1>17, <1>18, <1>19

LEMMA WriteFailsKeeps ==
    ASSUME StateHandlerInv, NEW m \in Mutators, write_fails(m)
    PROVE  StateHandlerInv'
<1> USE DEF StateHandlerInv
<1>1. PICK r : r = AtRest OBVIOUS
<1>2. /\ mutation[m].at = "file" /\ stateFaults < MaxStateFaults /\ stateFaults' = stateFaults + 1
      /\ mutation' = [mutation EXCEPT ![m] = r]
      /\ UNCHANGED <<stateUp, stateInMap, mapLock, mutators, repositoryVars, observerVars>>
    BY <1>1 DEF write_fails
<1>3. r \in Mutations /\ r.at = "rest" /\ mutation[m] # AtRest
    BY <1>1, <1>2 DEF Mutations, AtRest
<1>4. mutation' \in [Mutators -> Mutations] /\ mutation'[m] = r /\ \A n \in Mutators \ {m} : mutation'[n] = mutation[n]
    BY <1>2, <1>3, OneMoves
<1>5. stateFaults' \in 0 .. MaxStateFaults /\ stateFaults' >= stateFaults /\ stateFaults' # 0
    BY <1>2, StateHandlerAssumption DEF StateTyped
<1>6. StateTyped'
    BY <1>2, <1>4, <1>5 DEF StateTyped, repositoryVars, observerVars
<1>7. NothingWhenDown' /\ OneWrites'
    <2>1. stateUp
        BY <1>3 DEF NothingWhenDown, AllAtRest
    <2> QED BY <1>2, <1>3, <1>4, <2>1 DEF NothingWhenDown, OneWrites, repositoryVars
<1>8. LockHeld'
    BY <1>1, <1>2, <1>3, <1>4 DEF LockHeld
<1>9. SnapshotsStand' /\ Whole' = Whole
    BY <1>2, <1>5, FilesUntouched DEF StateTyped, repositoryVars
<1>10. NewestIsDurable'
    <2>1. Alone(mutators)' = Alone(mutators)
        BY <1>2 DEF Alone
    <2> QED BY <1>2, <1>3, <1>4, <1>9, <2>1 DEF NewestIsDurable, repositoryVars
<1>11. MemoryStays' /\ ShownStays'
    BY <1>2, <1>5 DEF MemoryStays, ShownStays, observerVars
<1> QED BY <1>6, <1>7, <1>8, <1>9, <1>10, <1>11

LEMMA QueueStateUpdateKeeps ==
    ASSUME StateHandlerInv, NEW m \in Mutators, queue_state_update(m)
    PROVE  StateHandlerInv'
<1> USE DEF StateHandlerInv
<1>1. PICK r : r = AtRest OBVIOUS
<1>2. /\ mutation[m].at = "snapshot" /\ queuedUpdate' = mutation[m].state
      /\ mutation' = [mutation EXCEPT ![m] = r]
      /\ UNCHANGED <<stateUp, stateInMap, mapLock, mutators, stateFaults, repositoryVars, currentState, drained, observers>>
    BY <1>1 DEF queue_state_update
<1>3. r \in Mutations /\ r.at = "rest" /\ mutation[m] # AtRest
    BY <1>1, <1>2 DEF Mutations, AtRest
<1>4. mutation' \in [Mutators -> Mutations] /\ mutation'[m] = r /\ \A n \in Mutators \ {m} : mutation'[n] = mutation[n]
    BY <1>2, <1>3, OneMoves
<1>5. mutation[m].state \in Nat
    BY <1>2 DEF StateTyped, Mutations, AtRest
<1>6. StateTyped'
    BY <1>2, <1>4, <1>5 DEF StateTyped, repositoryVars, Versions
<1>7. NothingWhenDown' /\ OneWrites'
    <2>1. stateUp
        BY <1>3 DEF NothingWhenDown, AllAtRest
    <2> QED BY <1>2, <1>3, <1>4, <2>1 DEF NothingWhenDown, OneWrites, repositoryVars
<1>8. LockHeld'
    BY <1>1, <1>2, <1>3, <1>4 DEF LockHeld
<1>9. SnapshotsStand' /\ Whole' = Whole
    BY <1>2, FilesUntouched DEF StateTyped, repositoryVars
<1>10. Alone(mutators)' = Alone(mutators) /\ Alone(observers)' = Alone(observers)
    BY <1>2 DEF Alone
<1>11. NewestIsDurable'
    BY <1>2, <1>3, <1>4, <1>9, <1>10 DEF NewestIsDurable, repositoryVars
<1>12. MemoryStays'
    <2>1. \A n \in Mutators : mutation[n].at \in {"map", "file"} <=> mutation'[n].at \in {"map", "file"}
        BY <1>2, <1>3, <1>4
    <2>2. \A n \in Mutators : mutation[n].at \in {"map", "file"} => mutation'[n].state = mutation[n].state
        BY <1>2, <1>4
    <2> QED BY <1>2, <2>1, <2>2, MemoryUntouched DEF repositoryVars
<1>13. ShownStays'
    <2>1. Alone(mutators) => mutation[m].state = stateInMap
        BY <1>2 DEF NewestIsDurable
    <2>2. Shown' = mutation[m].state
        BY <1>2, <1>5 DEF Shown, NoState
    <2> QED BY <1>2, <1>10, <2>1, <2>2 DEF ShownStays
<1> QED BY <1>6, <1>7, <1>8, <1>9, <1>11, <1>12, <1>13

\* The state, its files and its mutations, when a step is about the observer.
LEMMA HandlerUntouched ==
    ASSUME StateHandlerInv,
           UNCHANGED <<stateUp, stateInMap, mapLock, mutation, mutators, stateFaults, repositoryVars>>
    PROVE  LockHeld' /\ SnapshotsStand' /\ OneWrites' /\ NewestIsDurable' /\ MemoryStays'
<1> USE DEF StateHandlerInv, repositoryVars
<1>1. LockHeld' /\ OneWrites'
    BY DEF LockHeld, OneWrites
<1>2. SnapshotsStand' /\ Whole' = Whole
    BY FilesUntouched DEF StateTyped
<1>3. NewestIsDurable'
    <2>1. Alone(mutators)' = Alone(mutators)
        BY DEF Alone
    <2> QED BY <1>2, <2>1 DEF NewestIsDurable
<1>4. MemoryStays'
    BY MemoryUntouched
<1> QED BY <1>1, <1>2, <1>3, <1>4

LEMMA DrainUpdatesKeeps ==
    ASSUME StateHandlerInv, NEW o \in Observers, drain_updates(o)
    PROVE  StateHandlerInv'
<1>1. /\ stateUp /\ drained[o] = NoState /\ queuedUpdate # NoState
      /\ drained' = [drained EXCEPT ![o] = queuedUpdate] /\ queuedUpdate' = NoState
      /\ observers' = observers \cup {o}
      /\ UNCHANGED <<stateUp, stateInMap, mapLock, mutation, mutators, stateFaults, repositoryVars, currentState>>
    BY DEF drain_updates
<1>2. StateTyped /\ ShownStays
    BY DEF StateHandlerInv
<1>3. drained' \in [Observers -> Versions] /\ drained'[o] = queuedUpdate /\ \A p \in Observers \ {o} : drained'[p] = drained[p]
    BY <1>1, <1>2 DEF StateTyped
<1>4. StateTyped'
    BY <1>1, <1>2, <1>3 DEF StateTyped, repositoryVars, Versions
<1>5. NothingWhenDown'
    BY <1>1 DEF NothingWhenDown
<1>6. LockHeld' /\ SnapshotsStand' /\ OneWrites' /\ NewestIsDurable' /\ MemoryStays'
    BY <1>1, HandlerUntouched
<1>7. ShownStays'
    <2>1. \A p \in Observers : drained'[p] # NoState => p \in observers'
        BY <1>1, <1>2, <1>3 DEF ShownStays
    <2>2. Alone(mutators)' = Alone(mutators) /\ (Alone(observers)' => Alone(observers))
        BY <1>1 DEF Alone
    <2>3. ASSUME Alone(observers)' PROVE Shown' = Shown
        <3>1. \A p \in Observers \ {o} : drained'[p] = NoState
            BY <1>1, <2>1, <2>3 DEF Alone
        <3>2. {drained'[p] : p \in Observers} \ {NoState} = {queuedUpdate}
            BY <1>1, <1>3, <3>1
        <3>3. Shown' = CHOOSE v \in {queuedUpdate} : TRUE
            BY <1>1, <3>2 DEF Shown
        <3>4. Shown = queuedUpdate
            BY <1>1 DEF Shown
        <3> QED BY <3>3, <3>4
    <2> QED BY <1>1, <1>2, <2>1, <2>2, <2>3 DEF ShownStays
<1> QED BY <1>4, <1>5, <1>6, <1>7 DEF StateHandlerInv

LEMMA ApplyPendingUpdateKeeps ==
    ASSUME StateHandlerInv, NEW o \in Observers, apply_pending_update(o)
    PROVE  StateHandlerInv'
<1>1. /\ drained[o] # NoState /\ currentState' = drained[o] /\ drained' = [drained EXCEPT ![o] = NoState]
      /\ UNCHANGED <<stateUp, stateInMap, mapLock, mutation, mutators, stateFaults, repositoryVars, queuedUpdate, observers>>
    BY DEF apply_pending_update
<1>2. StateTyped /\ ShownStays /\ NothingWhenDown
    BY DEF StateHandlerInv
<1>3. drained' \in [Observers -> Versions] /\ drained'[o] = NoState /\ \A p \in Observers \ {o} : drained'[p] = drained[p]
    BY <1>1, <1>2 DEF StateTyped, Versions
<1>4. StateTyped'
    BY <1>1, <1>2, <1>3 DEF StateTyped, repositoryVars
<1>5. NothingWhenDown'
    BY <1>1, <1>2 DEF NothingWhenDown
<1>6. LockHeld' /\ SnapshotsStand' /\ OneWrites' /\ NewestIsDurable' /\ MemoryStays'
    BY <1>1, HandlerUntouched
<1>7. ShownStays'
    <2>1. \A p \in Observers : drained'[p] # NoState => p \in observers'
        BY <1>1, <1>2, <1>3 DEF ShownStays
    <2>2. Alone(mutators)' = Alone(mutators) /\ Alone(observers)' = Alone(observers)
        BY <1>1 DEF Alone
    <2>3. ASSUME Alone(observers) PROVE Shown' = Shown
        <3>1. \A p \in Observers \ {o} : drained[p] = NoState
            BY <1>1, <1>2, <2>3 DEF Alone, ShownStays
        <3>2. {drained[p] : p \in Observers} \ {NoState} = {drained[o]}
            BY <1>1, <3>1
        <3>3. {drained'[p] : p \in Observers} \ {NoState} = {}
            BY <1>3, <3>1
        <3>4. CASE queuedUpdate # NoState
            BY <1>1, <3>4 DEF Shown
        <3>5. CASE queuedUpdate = NoState
            <4>1. Shown' = currentState'
                BY <1>1, <3>3, <3>5 DEF Shown
            <4>2. Shown = CHOOSE v \in {drained[o]} : TRUE
                BY <3>2, <3>5 DEF Shown
            <4> QED BY <1>1, <4>1, <4>2
        <3> QED BY <3>4, <3>5
    <2> QED BY <1>1, <1>2, <2>1, <2>2, <2>3 DEF ShownStays
<1> QED BY <1>4, <1>5, <1>6, <1>7 DEF StateHandlerInv

LEMMA CrashStateKeeps ==
    ASSUME StateHandlerInv, crash_state
    PROVE  StateHandlerInv'
<1>1. /\ stateFaults < MaxStateFaults /\ stateFaults' = stateFaults + 1
      /\ stateUp' = FALSE /\ stateInMap' = NoState /\ mapLock' = NoLock
      /\ mutation' = [m \in Mutators |-> AtRest] /\ snapshotHistory' = <<>>
      /\ queuedUpdate' = NoState /\ currentState' = NoState /\ drained' = [o \in Observers |-> NoState]
      /\ UNCHANGED <<stateFiles, stateClock, durable, mutators, observers>>
    BY DEF crash_state, NoShard
<1>2. StateTyped /\ NewestIsDurable /\ SnapshotsStand
    BY DEF StateHandlerInv
<1>3. /\ stateFaults \in Nat /\ stateFaults' \in 0 .. MaxStateFaults /\ stateFaults' # 0
      /\ SnapshotCacheSize \in Nat
    BY <1>1, <1>2, StateHandlerAssumption DEF StateTyped
<1>4. \A m \in Mutators : mutation'[m] = AtRest /\ mutation'[m].at = "rest"
    BY <1>1 DEF AtRest
<1>5. StateTyped'
    <2>1. mutation' \in [Mutators -> Mutations] /\ drained' \in [Observers -> Versions]
        BY <1>1 DEF Mutations, Versions
    <2>2. snapshotHistory' \in Seq([hash : Nat, id : Nat])
        BY <1>1
    <2>3. /\ stateUp' \in BOOLEAN /\ mapLock' \in Mutators \cup {NoLock}
          /\ stateInMap' \in Versions /\ queuedUpdate' \in Versions /\ currentState' \in Versions
        BY <1>1 DEF Versions
    <2>4. /\ stateClock' \in Nat /\ DOMAIN stateFiles' \subseteq 1 .. stateClock'
          /\ stateFiles' \in [DOMAIN stateFiles' -> Nat \cup {Torn}] /\ durable' \in Versions
          /\ mutators' \subseteq Mutators /\ observers' \subseteq Observers
        BY <1>1, <1>2 DEF StateTyped
    <2> QED BY <1>3, <2>1, <2>2, <2>3, <2>4 DEF StateTyped
<1>6. NothingWhenDown' /\ LockHeld' /\ OneWrites'
    BY <1>1, <1>4 DEF NothingWhenDown, LockHeld, OneWrites, AllAtRest
<1>7. Whole' = Whole
    BY <1>1 DEF Whole
<1>8. SnapshotsStand'
    <2>1. Cardinality(Whole) \in Nat /\ Len(snapshotHistory') = 0
        BY <1>1, <1>2, WholeFinite
    <2>2. Cardinality(Whole) <= SnapshotCacheSize + stateFaults'
        BY <1>1, <1>2, <1>3, <2>1 DEF SnapshotsStand
    <2> QED BY <1>1, <1>3, <1>7, <2>1, <2>2 DEF SnapshotsStand
<1>9. NewestIsDurable'
    <2>1. Alone(mutators)' = Alone(mutators)
        BY <1>1 DEF Alone
    <2> QED BY <1>1, <1>2, <1>4, <1>7, <2>1 DEF NewestIsDurable
<1>10. MemoryStays' /\ ShownStays'
    BY <1>1 DEF MemoryStays, ShownStays
<1> QED BY <1>5, <1>6, <1>8, <1>9, <1>10 DEF StateHandlerInv

\* The enclave starts: what is found or made is in memory, and is the latest there is.
LEMMA LoadRepositoryKeeps ==
    ASSUME StateHandlerInv, load_snapshot_repository
    PROVE  /\ StateHandlerInv'
           /\ Alone(mutators) => stateInMap' >= durable
<1>1. PICK h : /\ snapshotHistory' = h /\ stateInMap' = load_latest(h) /\ currentState' = load_latest(h)
               /\ \/ /\ map_to_snapshot_metadata = <<>> /\ DOMAIN stateFiles # {}
                     /\ h = <<[hash |-> 0, id |-> stateClock + 1]>>
                     /\ stateFiles' = io_write(stateClock + 1, 0) /\ stateClock' = stateClock + 1
                     /\ durable' = IF durable = NoState THEN 0 ELSE durable
                  \/ /\ map_to_snapshot_metadata # <<>> \/ DOMAIN stateFiles = {}
                     /\ h = map_to_snapshot_metadata
                     /\ UNCHANGED <<stateFiles, stateClock, durable>>
    BY DEF load_snapshot_repository, load_and_initialize, initialize_state_observer, state_ids_for_shard, InitialState
<1>2. /\ ~stateUp /\ stateUp' = TRUE
      /\ UNCHANGED <<mapLock, mutation, queuedUpdate, drained, mutators, observers, stateFaults>>
    BY DEF load_snapshot_repository
<1>3. StateTyped /\ NothingWhenDown /\ SnapshotsStand /\ NewestIsDurable /\ ShownStays
    BY DEF StateHandlerInv
<1>4. /\ queuedUpdate = NoState /\ \A o \in Observers : drained[o] = NoState
      /\ \A m \in Mutators : mutation[m] = AtRest /\ mutation[m].at = "rest"
    BY <1>2, <1>3 DEF NothingWhenDown, AllAtRest, AtRest
<1>5. /\ stateFaults \in Nat /\ SnapshotCacheSize \in Nat \ {0} /\ stateClock \in Nat
      /\ Cardinality(Whole) \in Nat
    BY <1>3, WholeFinite, StateHandlerAssumption DEF StateTyped
<1>6. /\ h \in Seq([hash : Nat, id : Nat]) /\ Len(h) <= SnapshotCacheSize + stateFaults
      /\ stateClock' \in Nat /\ DOMAIN stateFiles' \subseteq 1 .. stateClock'
      /\ stateFiles' \in [DOMAIN stateFiles' -> Nat \cup {Torn}] /\ durable' \in Versions
      /\ \A i \in 1 .. Len(h) : h[i].id \in DOMAIN stateFiles' /\ stateFiles'[h[i].id] = h[i].hash
      /\ \A i, j \in 1 .. Len(h) : i < j => h[i].id > h[j].id
      /\ IdsIn(h) = Whole' /\ Cardinality(Whole') <= SnapshotCacheSize + stateFaults
      /\ h = <<>> => Whole' = {} /\ durable' = NoState
      /\ h # <<>> => \A x \in Whole' : x <= h[1].id
      /\ Alone(mutators) => \A x \in Whole' : (\A y \in Whole' : y <= x) => stateFiles'[x] >= durable'
      /\ durable' = durable \/ durable = NoState
      /\ Whole' = {} => durable' = NoState
    <2>1. CASE /\ map_to_snapshot_metadata = <<>> /\ DOMAIN stateFiles # {}
               /\ h = <<[hash |-> 0, id |-> stateClock + 1]>>
               /\ stateFiles' = io_write(stateClock + 1, 0) /\ stateClock' = stateClock + 1
               /\ durable' = IF durable = NoState THEN 0 ELSE durable
        <3>1. Whole = {}
            BY <1>3, <2>1, LoadedSorted
        <3>2. durable = NoState /\ durable' = 0
            BY <1>3, <2>1, <3>1 DEF NewestIsDurable
        <3>3. PICK id \in Nat : id = stateClock + 1
            BY <1>5
        <3>4. PICK e : e = [hash |-> 0, id |-> id] OBVIOUS
        <3>5. e \in [hash : Nat, id : Nat] /\ e.hash = 0 /\ e.id = id /\ h = <<e>>
            BY <2>1, <3>3, <3>4
        <3>6. h \in Seq([hash : Nat, id : Nat]) /\ Len(h) = 1 /\ h[1] = e /\ h # <<>>
            BY <3>5
        <3>7. id \notin DOMAIN stateFiles /\ DOMAIN stateFiles \subseteq 1 .. id /\ id \in 1 .. id
            BY <1>3, <1>5, <3>3 DEF StateTyped
        <3>8. /\ DOMAIN stateFiles' = DOMAIN stateFiles \cup {id} /\ stateFiles'[id] = 0
              /\ \A i \in DOMAIN stateFiles : stateFiles'[i] = stateFiles[i]
              /\ stateFiles' \in [DOMAIN stateFiles' -> Nat \cup {Torn}]
            BY <1>3, <2>1, <3>3, <3>7 DEF io_write, state_ids_for_shard, StateTyped
        <3>9. Whole' = {id}
            <4>1. \A i \in DOMAIN stateFiles : stateFiles[i] = Torn
                BY <3>1 DEF Whole
            <4>2. 0 # Torn
                BY DEF Torn
            <4> QED BY <3>8, <4>1, <4>2 DEF Whole
        <3>10. IdsIn(h) = {id}
            BY <3>5, <3>6 DEF IdsIn
        <3>11. Cardinality(Whole') = 1 /\ 1 <= SnapshotCacheSize + stateFaults
            <4>1. \A x : Cardinality({x}) = 1
                BY FS_Singleton
            <4>2. 1 <= SnapshotCacheSize + stateFaults
                BY <1>5
            <4> QED BY <3>9, <4>1, <4>2
        <3>12. /\ \A i \in 1 .. Len(h) : h[i].id \in DOMAIN stateFiles' /\ stateFiles'[h[i].id] = h[i].hash
               /\ \A i, j \in 1 .. Len(h) : i < j => h[i].id > h[j].id
            BY <3>5, <3>6, <3>8
        <3>13. stateClock' \in Nat /\ DOMAIN stateFiles' \subseteq 1 .. stateClock' /\ durable' \in Versions
            BY <2>1, <3>2, <3>3, <3>7, <3>8 DEF Versions
        <3>14. \A x \in Whole' : x <= h[1].id /\ stateFiles'[x] >= durable'
            BY <3>2, <3>3, <3>5, <3>6, <3>8, <3>9
        <3> QED BY <3>2, <3>6, <3>8, <3>9, <3>10, <3>11, <3>12, <3>13, <3>14
    <2>2. CASE /\ map_to_snapshot_metadata # <<>> \/ DOMAIN stateFiles = {}
               /\ h = map_to_snapshot_metadata
               /\ UNCHANGED <<stateFiles, stateClock, durable>>
        <3>1. Whole' = Whole
            BY <2>2 DEF Whole
        <3>2. /\ h \in Seq([hash : Nat, id : Nat]) /\ Len(h) = Cardinality(Whole)
              /\ \A i \in 1 .. Len(h) : h[i].id \in Whole /\ h[i].hash = stateFiles[h[i].id]
              /\ \A i, j \in 1 .. Len(h) : i < j => h[i].id > h[j].id
              /\ IdsIn(h) = Whole
              /\ Whole # {} => h # <<>> /\ \A x \in Whole : x <= h[1].id
            BY <1>3, <2>2, LoadedSorted
        <3>3. \A i \in 1 .. Len(h) : h[i].id \in DOMAIN stateFiles' /\ stateFiles'[h[i].id] = h[i].hash
            BY <2>2, <3>2 DEF Whole
        <3>4. Cardinality(Whole) <= SnapshotCacheSize + stateFaults
            BY <1>3 DEF SnapshotsStand
        <3>5. /\ stateClock' \in Nat /\ DOMAIN stateFiles' \subseteq 1 .. stateClock'
              /\ stateFiles' \in [DOMAIN stateFiles' -> Nat \cup {Torn}] /\ durable' \in Versions
            BY <1>3, <2>2 DEF StateTyped
        <3>6. Whole = {} => durable = NoState
            BY <1>3 DEF NewestIsDurable
        <3>7. Alone(mutators) => \A x \in Whole : (\A y \in Whole : y <= x) => stateFiles[x] >= durable
            BY <1>3 DEF NewestIsDurable
        <3> QED BY <2>2, <3>1, <3>2, <3>3, <3>4, <3>5, <3>6, <3>7
    <2> QED BY <1>1, <2>1, <2>2
<1>7. \/ h = <<>> /\ stateInMap' = NoState /\ currentState' = NoState
      \/ /\ h # <<>> /\ 1 \in 1 .. Len(h) /\ h[1].hash \in Nat
         /\ stateInMap' = h[1].hash /\ currentState' = h[1].hash
    <2>1. CASE h = <<>>
        BY <1>1, <2>1 DEF load_latest, NoShard
    <2>2. CASE h # <<>>
        <3>1. h \in Seq([hash : Nat, id : Nat])
            BY <1>6
        <3>2. Len(h) \in Nat /\ 1 \in 1 .. Len(h) /\ Head(h) = h[1]
            BY <2>2, <3>1
        <3>3. h[1] \in [hash : Nat, id : Nat]
            <4>1. \A T : \A s \in Seq(T) : \A i \in 1 .. Len(s) : s[i] \in T
                OBVIOUS
            <4> QED BY <3>1, <3>2, <4>1
        <3>4. load_latest(h) = h[1].hash
            BY <2>2, <3>2 DEF load_latest, NoShard
        <3> QED BY <1>1, <2>2, <3>2, <3>3, <3>4
    <2> QED BY <2>1, <2>2
<1>8. StateTyped'
    <2>1. stateInMap' \in Versions /\ currentState' \in Versions
        BY <1>7 DEF Versions
    <2>2. /\ mapLock' \in Mutators \cup {NoLock} /\ mutation' \in [Mutators -> Mutations]
          /\ queuedUpdate' \in Versions /\ drained' \in [Observers -> Versions]
          /\ mutators' \subseteq Mutators /\ observers' \subseteq Observers
          /\ stateFaults' \in 0 .. MaxStateFaults /\ stateUp' \in BOOLEAN
        BY <1>2, <1>3 DEF StateTyped
    <2>3. /\ stateClock' \in Nat /\ DOMAIN stateFiles' \subseteq 1 .. stateClock'
          /\ stateFiles' \in [DOMAIN stateFiles' -> Nat \cup {Torn}] /\ durable' \in Versions
          /\ snapshotHistory' \in Seq([hash : Nat, id : Nat])
        BY <1>1, <1>6
    <2> QED BY <2>1, <2>2, <2>3 DEF StateTyped
<1>9. NothingWhenDown' /\ LockHeld' /\ OneWrites'
    BY <1>2, <1>4 DEF NothingWhenDown, LockHeld, OneWrites
<1>10. SnapshotsStand'
    <2>1. Whole' \ IdsIn(h) = {} /\ Cardinality({}) = 0
        BY <1>6, FS_EmptySet
    <2>2. IdsIn(snapshotHistory)' = IdsIn(h)
        BY <1>1 DEF IdsIn
    <2>3. Cardinality(Whole' \ IdsIn(snapshotHistory)') <= stateFaults'
        BY <1>2, <1>5, <2>1, <2>2
    <2> QED BY <1>1, <1>2, <1>6, <2>3 DEF SnapshotsStand
<1>11. Alone(mutators) => stateInMap' >= durable'
    <2>1. SUFFICES ASSUME Alone(mutators), h # <<>> PROVE stateInMap' >= durable'
        BY <1>6, <1>7 DEF NoState
    <2>2. 1 \in 1 .. Len(h) /\ stateInMap' = h[1].hash
        BY <1>7, <2>1
    <2>3. h[1].id \in Whole'
        <3>1. h[1].id \in IdsIn(h)
            BY <2>2 DEF IdsIn
        <3> QED BY <1>6, <3>1
    <2>4. \A x \in Whole' : x <= h[1].id
        BY <1>6, <2>1
    <2>5. stateFiles'[h[1].id] >= durable'
        BY <1>6, <2>1, <2>3, <2>4
    <2> QED BY <1>6, <2>2, <2>5
<1>12. Alone(mutators) => stateInMap' >= durable
    <2>1. stateInMap' >= NoState
        BY <1>7 DEF NoState
    <2> QED BY <1>6, <1>11, <2>1
<1>13. NewestIsDurable'
    <2>1. Alone(mutators)' = Alone(mutators)
        BY <1>2 DEF Alone
    <2>2. stateInMap' = NoState => Whole' = {}
        BY <1>6, <1>7 DEF NoState
    <2>3. \A m \in Mutators : mutation'[m].at = "rest"
        BY <1>2, <1>4
    <2> QED BY <1>6, <1>11, <2>1, <2>2, <2>3 DEF NewestIsDurable
<1>14. MemoryStays'
    <2>1. Writing' = {} /\ Cardinality(Writing') = 0
        <3>1. Writing' = {}
            BY <1>2, <1>4 DEF Writing
        <3> QED BY <3>1, FS_EmptySet
    <2>2. 1 + 0 <= SnapshotCacheSize
        BY <1>5
    <2> QED BY <1>1, <1>7, <2>1, <2>2 DEF MemoryStays
<1>15. ShownStays'
    <2>1. queuedUpdate' = NoState /\ \A o \in Observers : drained'[o] = NoState
        BY <1>2, <1>4
    <2>2. {drained'[o] : o \in Observers} \ {NoState} = {}
        BY <2>1
    <2>3. Shown' = currentState'
        BY <2>1, <2>2 DEF Shown
    <2> QED BY <1>7, <2>1, <2>3 DEF ShownStays
<1> QED BY <1>8, <1>9, <1>10, <1>12, <1>13, <1>14, <1>15 DEF StateHandlerInv

\* What is left of a history is its newest part.
LEMMA RetainedNewest ==
    ASSUME NEW T, NEW g \in Seq(T), NEW q, q = retained(g)
    PROVE  /\ q \in Seq(T) /\ Len(q) <= SnapshotCacheSize /\ Len(q) <= Len(g)
           /\ \A i \in 1 .. Len(g) : i <= SnapshotCacheSize => i \in 1 .. Len(q)
           /\ \A i \in 1 .. Len(q) : i \in 1 .. Len(g) /\ q[i] = g[i]
<1>1. SnapshotCacheSize \in Nat /\ Len(g) \in Nat
    BY StateHandlerAssumption
<1>2. CASE Len(g) > SnapshotCacheSize
    <2>1. q = SubSeq(g, 1, SnapshotCacheSize)
        BY <1>2 DEF retained
    <2>2. q \in Seq(T) /\ Len(q) = SnapshotCacheSize
        BY <1>1, <1>2, <2>1
    <2>3. \A i \in 1 .. SnapshotCacheSize : i \in 1 .. Len(g) /\ q[i] = g[i]
        BY <1>1, <1>2, <2>1
    <2> QED BY <1>1, <1>2, <2>2, <2>3
<1>3. CASE ~(Len(g) > SnapshotCacheSize)
    BY <1>1, <1>3 DEF retained
<1> QED BY <1>2, <1>3

LEMMA IdsFinite ==
    ASSUME NEW g, Len(g) \in Nat
    PROVE  IsFiniteSet(IdsIn(g)) /\ Cardinality(IdsIn(g)) \in Nat /\ Cardinality(IdsIn(g)) <= Len(g)
<1>1. PICK n \in Nat : n = Len(g) OBVIOUS
<1>2. IsFiniteSet(1 .. n) /\ Cardinality(1 .. n) = n
    <2>1. 1 \in Int /\ n \in Int OBVIOUS
    <2>2. IsFiniteSet(1 .. n) /\ Cardinality(1 .. n) = IF 1 > n THEN 0 ELSE n - 1 + 1
        BY <2>1, FS_Interval
    <2> QED BY <2>2
<1>3. PICK f : f = [i \in 1 .. n |-> g[i].id] OBVIOUS
<1>4. f \in Surjection(1 .. n, IdsIn(g))
    <2>1. IdsIn(g) = {f[i] : i \in 1 .. n}
        BY <1>1, <1>3 DEF IdsIn
    <2>2. f \in [1 .. n -> IdsIn(g)]
        BY <1>3, <2>1
    <2> QED BY <2>1, <2>2 DEF Surjection
<1>5. IsFiniteSet(IdsIn(g)) /\ Cardinality(IdsIn(g)) <= Cardinality(1 .. n)
    BY <1>2, <1>4, FS_Surjection
<1> QED BY <1>1, <1>2, <1>5, FS_CardinalityType

\* Two finite sets together, and what is in them.
LEMMA WithinUnion ==
    ASSUME NEW A, IsFiniteSet(A), NEW B, IsFiniteSet(B), NEW C, C \subseteq A \cup B
    PROVE  Cardinality(C) \in Nat /\ Cardinality(C) <= Cardinality(A) + Cardinality(B)
<1>1. IsFiniteSet(A \cup B) /\ Cardinality(A \cup B) = Cardinality(A) + Cardinality(B) - Cardinality(A \cap B)
    BY FS_Union
<1>2. IsFiniteSet(A \cap B)
    BY FS_Subset
<1>3. IsFiniteSet(C) /\ Cardinality(C) <= Cardinality(A \cup B)
    BY <1>1, FS_Subset
<1>4. /\ Cardinality(A) \in Nat /\ Cardinality(B) \in Nat /\ Cardinality(C) \in Nat
      /\ Cardinality(A \cap B) \in Nat
    BY <1>2, <1>3, FS_CardinalityType
<1> QED BY <1>1, <1>3, <1>4

\* A snapshot is complete: it is the newest, and what is pruned leaves the history with its file
\* or is one more fault.
LEMMA UpdateKeeps ==
    ASSUME StateHandlerInv, Cardinality(Mutators) <= SnapshotCacheSize, NEW m \in Mutators, update(m)
    PROVE  StateHandlerInv'
<1> USE DEF StateHandlerInv
<1>1. PICK v, id : v = mutation[m].state /\ id = mutation[m].id OBVIOUS
<1>2. PICK e : e = [hash |-> v, id |-> id] OBVIOUS
<1>3. PICK g : g = <<e>> \o snapshotHistory OBVIOUS
<1>4. PICK q : q = retained(g) OBVIOUS
<1>5. PICK P : P = IdsIn(g) \ IdsIn(q) OBVIOUS
<1>6. PICK F : F = io_write(id, v) OBVIOUS
<1>7. PICK r : r = [at |-> "snapshot", state |-> v] OBVIOUS
<1>8. /\ mutation[m].at = "file" /\ snapshotHistory' = q
      /\ durable' = (IF durable > v THEN durable ELSE v) /\ mutation' = [mutation EXCEPT ![m] = r]
      /\ UNCHANGED <<stateUp, stateInMap, mapLock, mutators, stateClock, observerVars>>
    BY <1>1, <1>2, <1>3, <1>4, <1>7 DEF update
<1>9. PICK stays \in SUBSET P :
        /\ stateFaults' = stateFaults + Cardinality(stays) /\ stateFaults' <= MaxStateFaults
        /\ stateFiles' = [i \in DOMAIN F \ (P \ stays) |-> F[i]]
    BY <1>1, <1>2, <1>3, <1>4, <1>5, <1>6 DEF update
<1>10. v \in Nat /\ id \in Nat
    BY <1>1, <1>8 DEF StateTyped, Mutations, AtRest
<1>11. r \in Mutations /\ r.at = "snapshot" /\ r.state = v
    BY <1>7, <1>10 DEF Mutations
<1>12. mutation' \in [Mutators -> Mutations] /\ mutation'[m] = r /\ \A n \in Mutators \ {m} : mutation'[n] = mutation[n]
    BY <1>8, <1>11, OneMoves
<1>13. mutation[m] # AtRest /\ stateUp /\ stateInMap # NoState
    BY <1>8 DEF AtRest, NothingWhenDown, AllAtRest, LockHeld
<1>14. /\ id = stateClock /\ id \in DOMAIN stateFiles /\ stateFiles[id] = Torn
       /\ \A n \in Mutators \ {m} : mutation[n].at # "file"
    BY <1>1, <1>8 DEF OneWrites
<1>15. DOMAIN F = DOMAIN stateFiles /\ F[id] = v /\ \A i \in DOMAIN stateFiles \ {id} : F[i] = stateFiles[i]
    BY <1>6, <1>14 DEF io_write, state_ids_for_shard
<1>16. /\ stateFaults \in Nat /\ SnapshotCacheSize \in Nat \ {0} /\ stateClock \in Nat
       /\ snapshotHistory \in Seq([hash : Nat, id : Nat]) /\ Len(snapshotHistory) \in Nat
    BY StateHandlerAssumption DEF StateTyped
\* The history with the new snapshot.
<1>17. e \in [hash : Nat, id : Nat] /\ e.hash = v /\ e.id = id
    BY <1>2, <1>10
<1>18. /\ g \in Seq([hash : Nat, id : Nat]) /\ Len(g) = Len(snapshotHistory) + 1 /\ g[1] = e
       /\ \A i \in 1 .. Len(snapshotHistory) : g[i + 1] = snapshotHistory[i]
       /\ \A i \in 1 .. Len(g) : i = 1 \/ (i - 1 \in 1 .. Len(snapshotHistory) /\ g[i] = snapshotHistory[i - 1])
    <2>1. <<e>> \in Seq([hash : Nat, id : Nat]) /\ Len(<<e>>) = 1
        BY <1>17
    <2>2. g \in Seq([hash : Nat, id : Nat]) /\ Len(g) = Len(snapshotHistory) + 1
        BY <1>3, <1>16, <2>1
    <2>3. \A i \in 1 .. Len(g) : g[i] = IF i = 1 THEN e ELSE snapshotHistory[i - 1]
        BY <1>3, <1>16, <2>1, <2>2
    <2>4. g[1] = e
        BY <1>16, <2>2, <2>3
    <2>5. \A i \in 1 .. Len(snapshotHistory) : g[i + 1] = snapshotHistory[i]
        <3> SUFFICES ASSUME NEW i \in 1 .. Len(snapshotHistory) PROVE g[i + 1] = snapshotHistory[i]
            OBVIOUS
        <3>1. i + 1 \in 1 .. Len(g) /\ i + 1 # 1 /\ (i + 1) - 1 = i
            BY <1>16, <2>2
        <3> QED BY <2>3, <3>1
    <2>6. \A i \in 1 .. Len(g) : i = 1 \/ (i - 1 \in 1 .. Len(snapshotHistory) /\ g[i] = snapshotHistory[i - 1])
        <3> SUFFICES ASSUME NEW i \in 1 .. Len(g), i # 1
                     PROVE  i - 1 \in 1 .. Len(snapshotHistory) /\ g[i] = snapshotHistory[i - 1]
            OBVIOUS
        <3>1. i - 1 \in 1 .. Len(snapshotHistory)
            BY <1>16, <2>2
        <3> QED BY <2>3, <3>1
    <2> QED BY <2>2, <2>4, <2>5, <2>6
<1>19. /\ q \in Seq([hash : Nat, id : Nat]) /\ Len(q) <= SnapshotCacheSize /\ Len(q) \in Nat
       /\ \A i \in 1 .. Len(g) : i <= SnapshotCacheSize => i \in 1 .. Len(q)
       /\ \A i \in 1 .. Len(q) : i \in 1 .. Len(g) /\ q[i] = g[i]
    BY <1>4, <1>18, RetainedNewest
<1>20. 1 \in 1 .. Len(q) /\ q[1] = e
    BY <1>16, <1>18, <1>19
<1>21. IdsIn(g) = IdsIn(snapshotHistory) \cup {id} /\ id \in IdsIn(q)
    <2>1. id \in IdsIn(q)
        BY <1>17, <1>20 DEF IdsIn
    <2>2. ASSUME NEW x \in IdsIn(g) PROVE x \in IdsIn(snapshotHistory) \cup {id}
        <3>1. PICK i \in 1 .. Len(g) : x = g[i].id
            BY <2>2 DEF IdsIn
        <3> QED BY <1>17, <1>18, <3>1 DEF IdsIn
    <2>3. ASSUME NEW x \in IdsIn(snapshotHistory) PROVE x \in IdsIn(g)
        <3>1. PICK i \in 1 .. Len(snapshotHistory) : x = snapshotHistory[i].id
            BY <2>3 DEF IdsIn
        <3>2. i + 1 \in 1 .. Len(g) /\ g[i + 1] = snapshotHistory[i]
            BY <1>16, <1>18, <3>1
        <3> QED BY <3>1, <3>2 DEF IdsIn
    <2>4. id \in IdsIn(g)
        BY <1>16, <1>17, <1>18 DEF IdsIn
    <2> QED BY <2>1, <2>2, <2>3, <2>4
<1>22. id \notin P /\ P \subseteq IdsIn(snapshotHistory) /\ \A x \in IdsIn(snapshotHistory) : x \in IdsIn(q) \/ x \in P
    BY <1>5, <1>21
\* The files.
<1>23. \A x \in IdsIn(snapshotHistory) : x \in Whole
    <2>1. ASSUME NEW i \in 1 .. Len(snapshotHistory) PROVE snapshotHistory[i].id \in Whole
        <3>1. snapshotHistory[i].hash \in Nat
            <4>1. \A T : \A s \in Seq(T) : \A k \in 1 .. Len(s) : s[k] \in T
                OBVIOUS
            <4>2. snapshotHistory[i] \in [hash : Nat, id : Nat]
                BY <1>16, <4>1
            <4> QED BY <4>2
        <3> QED BY <3>1 DEF SnapshotsStand, Whole, Torn
    <2> QED BY <2>1 DEF IdsIn
<1>24. id \notin Whole /\ \A x \in Whole : x \in Nat /\ x < id /\ x \in DOMAIN stateFiles
    <2>1. id \notin Whole
        BY <1>14 DEF Whole
    <2>2. \A x \in Whole : x \in 1 .. stateClock /\ x \in DOMAIN stateFiles
        BY WholeFinite DEF Whole
    <2> QED BY <1>14, <1>16, <2>1, <2>2
<1>25. /\ DOMAIN stateFiles' = DOMAIN stateFiles \ (P \ stays)
       /\ id \in DOMAIN stateFiles' /\ stateFiles'[id] = v
       /\ \A i \in DOMAIN stateFiles' : i # id => stateFiles'[i] = stateFiles[i]
    BY <1>9, <1>14, <1>15, <1>22
<1>26. Whole' = (Whole \cup {id}) \ (P \ stays)
    <2>1. v # Torn
        BY <1>10 DEF Torn
    <2> QED BY <1>22, <1>25, <2>1 DEF Whole
<1>27. /\ IsFiniteSet(stays) /\ Cardinality(stays) \in Nat
       /\ stateFaults' \in 0 .. MaxStateFaults /\ stateFaults' >= stateFaults
    <2>1. IsFiniteSet(IdsIn(snapshotHistory))
        BY <1>16, IdsFinite
    <2>2. stays \in SUBSET IdsIn(snapshotHistory)
        BY <1>22
    <2>3. IsFiniteSet(stays) /\ Cardinality(stays) \in Nat
        BY <2>1, <2>2, FS_Subset, FS_CardinalityType
    <2> QED BY <1>9, <1>16, <2>3, StateHandlerAssumption
<1>28. StateTyped'
    <2>1. stateFiles' \in [DOMAIN stateFiles' -> Nat \cup {Torn}]
        <3>1. \A i \in DOMAIN stateFiles' : i \in DOMAIN stateFiles /\ stateFiles'[i] \in Nat \cup {Torn}
            BY <1>10, <1>25 DEF StateTyped
        <3>2. stateFiles' = [i \in DOMAIN stateFiles' |-> stateFiles'[i]]
            BY <1>9
        <3> QED BY <3>1, <3>2
    <2>2. DOMAIN stateFiles' \subseteq 1 .. stateClock' /\ stateClock' \in Nat
        BY <1>8, <1>25 DEF StateTyped
    <2>3. durable' \in Versions
        BY <1>8, <1>10 DEF StateTyped, Versions
    <2>4. snapshotHistory' \in Seq([hash : Nat, id : Nat])
        BY <1>8, <1>19
    <2> QED BY <1>8, <1>12, <1>27, <2>1, <2>2, <2>3, <2>4 DEF StateTyped, observerVars
<1>29. NothingWhenDown' /\ OneWrites'
    BY <1>8, <1>11, <1>12, <1>13, <1>14 DEF NothingWhenDown, OneWrites
<1>30. LockHeld'
    BY <1>8, <1>11, <1>12, <1>13 DEF LockHeld
<1>31. SnapshotsStand'
    <2>1. ASSUME NEW i \in 1 .. Len(q)
          PROVE  q[i].id \in DOMAIN stateFiles' /\ stateFiles'[q[i].id] = q[i].hash
        <3>1. CASE i = 1
            BY <1>17, <1>20, <1>25, <3>1
        <3>2. CASE i # 1
            <4>1. i - 1 \in 1 .. Len(snapshotHistory) /\ q[i] = snapshotHistory[i - 1]
                BY <1>18, <1>19, <3>2
            <4>2. /\ snapshotHistory[i - 1].id \in DOMAIN stateFiles
                  /\ stateFiles[snapshotHistory[i - 1].id] = snapshotHistory[i - 1].hash
                  /\ snapshotHistory[i - 1].id \in IdsIn(snapshotHistory)
                BY <4>1 DEF SnapshotsStand, IdsIn
            <4>3. q[i].id \notin P
                BY <1>5 DEF IdsIn
            <4>4. q[i].id # id
                BY <1>23, <1>24, <4>1, <4>2
            <4> QED BY <1>25, <4>1, <4>2, <4>3, <4>4
        <3> QED BY <3>1, <3>2
    <2>2. ASSUME NEW i \in 1 .. Len(q), NEW j \in 1 .. Len(q), i < j PROVE q[i].id > q[j].id
        <3>0. \A k \in 1 .. Len(q) : k # 1 => k - 1 \in 1 .. Len(snapshotHistory) /\ q[k] = snapshotHistory[k - 1]
            BY <1>18, <1>19
        <3>1. j - 1 \in 1 .. Len(snapshotHistory) /\ q[j] = snapshotHistory[j - 1]
            <4>1. j # 1
                BY <1>19, <2>2
            <4> QED BY <3>0, <4>1
        <3>2. CASE i = 1
            <4>1. q[j].id \in Whole
                BY <1>23, <3>1 DEF IdsIn
            <4> QED BY <1>10, <1>17, <1>20, <1>24, <3>2, <4>1
        <3>3. CASE i # 1
            <4>1. i - 1 \in 1 .. Len(snapshotHistory) /\ q[i] = snapshotHistory[i - 1] /\ i - 1 < j - 1
                <5>1. i - 1 < j - 1
                    BY <1>19, <2>2
                <5> QED BY <3>0, <3>3, <5>1
            <4> QED BY <3>1, <4>1 DEF SnapshotsStand
        <3> QED BY <3>2, <3>3
    <2>3. IsFiniteSet(Whole \ IdsIn(snapshotHistory)) /\ Cardinality(Whole \ IdsIn(snapshotHistory)) \in Nat
        BY WholeFinite, FS_Difference, FS_CardinalityType
    <2>4. Cardinality(Whole \ IdsIn(snapshotHistory)) <= stateFaults
        BY <1>13 DEF SnapshotsStand
    <2>5. PICK X : X = Whole' \ IdsIn(q) OBVIOUS
    <2>6. X \subseteq (Whole \ IdsIn(snapshotHistory)) \cup stays
        BY <1>21, <1>22, <1>26, <2>5
    <2>7. IsFiniteSet(X) /\ Cardinality(X) \in Nat /\ Cardinality(X) <= stateFaults'
        <3>1. Cardinality(X) \in Nat /\ Cardinality(X) <= Cardinality(Whole \ IdsIn(snapshotHistory)) + Cardinality(stays)
            BY <1>27, <2>3, <2>6, WithinUnion
        <3>2. IsFiniteSet((Whole \ IdsIn(snapshotHistory)) \cup stays)
            BY <1>27, <2>3, FS_Union
        <3>3. IsFiniteSet(X)
            BY <2>6, <3>2, FS_Subset
        <3> QED BY <1>9, <1>16, <1>27, <2>3, <2>4, <3>1, <3>3
    <2>8. IsFiniteSet(IdsIn(q)) /\ Cardinality(IdsIn(q)) \in Nat /\ Cardinality(IdsIn(q)) <= SnapshotCacheSize
        BY <1>16, <1>19, IdsFinite
    <2>9. Cardinality(Whole') <= SnapshotCacheSize + stateFaults'
        <3>1. Whole' \subseteq IdsIn(q) \cup X
            BY <2>5
        <3>2. Cardinality(Whole') \in Nat /\ Cardinality(Whole') <= Cardinality(IdsIn(q)) + Cardinality(X)
            BY <2>7, <2>8, <3>1, WithinUnion
        <3>3. stateFaults' \in Nat
            BY <1>27, StateHandlerAssumption
        <3> QED BY <1>16, <2>7, <2>8, <3>2, <3>3
    <2>10. Len(q) <= SnapshotCacheSize + stateFaults'
        BY <1>16, <1>19, <1>27, StateHandlerAssumption
    <2>11. IdsIn(snapshotHistory)' = IdsIn(q)
        BY <1>8 DEF IdsIn
    <2>12. Cardinality(Whole' \ IdsIn(snapshotHistory)') <= stateFaults'
        BY <2>5, <2>7, <2>11
    <2> QED BY <1>8, <2>1, <2>2, <2>9, <2>10, <2>12 DEF SnapshotsStand
<1>32. NewestIsDurable'
    <2>1. Alone(mutators)' = Alone(mutators)
        BY <1>8 DEF Alone
    <2>2. id \in Whole'
        BY <1>22, <1>26
    <2>3. ASSUME Alone(mutators) PROVE v = stateInMap /\ durable' = v
        <3>1. v = stateInMap /\ stateInMap >= durable
            BY <1>1, <1>8, <1>13, <2>3 DEF NewestIsDurable
        <3>2. durable \in Int
            BY DEF StateTyped, Versions, NoState
        <3> QED BY <1>8, <1>10, <3>1, <3>2
    <2>4. ASSUME NEW x \in Whole', \A y \in Whole' : y <= x PROVE x = id
        <3>1. id <= x
            BY <2>2, <2>4
        <3>2. x = id \/ x \in Whole
            BY <1>26, <2>4
        <3> QED BY <1>10, <1>24, <3>1, <3>2
    <2>5. ASSUME Alone(mutators), NEW n \in Mutators, mutation'[n].at \in {"map", "file", "snapshot"}
          PROVE  mutation'[n].state = stateInMap
        <3>1. CASE n = m
            BY <1>11, <1>12, <2>3, <2>5, <3>1
        <3>2. CASE n # m
            BY <1>12, <2>5, <3>2 DEF NewestIsDurable
        <3> QED BY <3>1, <3>2
    <2>6. Alone(mutators) => stateInMap >= durable'
        BY <1>10, <2>3
    <2>7. Alone(mutators) => stateFiles'[id] >= durable'
        BY <1>10, <1>25, <2>3
    <2> QED BY <1>8, <1>13, <2>1, <2>2, <2>4, <2>5, <2>6, <2>7 DEF NewestIsDurable
<1>33. MemoryStays'
    <2> SUFFICES ASSUME stateFaults' = 0
                 PROVE  \/ \E n \in Writing' : mutation'[n].state = stateInMap
                        \/ \E i \in 1 .. Len(q) : q[i].hash = stateInMap /\ i + Cardinality(Writing') <= SnapshotCacheSize
        BY <1>8 DEF MemoryStays
    <2>1. stateFaults = 0
        BY <1>9, <1>16, <1>27
    <2>2. Writing' = Writing \ {m} /\ m \in Writing
        BY <1>8, <1>11, <1>12 DEF Writing
    <2>3. IsFiniteSet(Writing) /\ Cardinality(Writing) <= Cardinality(Mutators)
        BY StateHandlerAssumption, FS_Subset DEF Writing
    <2>4. /\ IsFiniteSet(Writing') /\ Cardinality(Writing') = Cardinality(Writing) - 1
        BY <2>2, <2>3, FS_RemoveElement
    <2>5. Cardinality(Writing) \in Nat /\ Cardinality(Writing') \in Nat /\ Cardinality(Mutators) \in Nat
        BY <2>3, <2>4, StateHandlerAssumption, FS_CardinalityType
    <2>6. CASE v = stateInMap
        <3>1. 1 + Cardinality(Writing') <= SnapshotCacheSize
            BY <1>16, <2>3, <2>4, <2>5
        <3> QED BY <1>17, <1>20, <2>6, <3>1
    <2>7. ASSUME NEW n \in Writing, n # m, mutation[n].state = stateInMap
          PROVE  \E k \in Writing' : mutation'[k].state = stateInMap
        BY <1>12, <2>2, <2>7 DEF Writing
    <2>8. ASSUME NEW i \in 1 .. Len(snapshotHistory), snapshotHistory[i].hash = stateInMap,
                 i + Cardinality(Writing) <= SnapshotCacheSize
          PROVE  \E j \in 1 .. Len(q) : q[j].hash = stateInMap /\ j + Cardinality(Writing') <= SnapshotCacheSize
        <3>1. i + 1 \in 1 .. Len(g) /\ g[i + 1] = snapshotHistory[i]
            BY <1>16, <1>18
        <3>2. (i + 1) + Cardinality(Writing') <= SnapshotCacheSize /\ i + 1 <= SnapshotCacheSize
            BY <1>16, <2>4, <2>5, <2>8
        <3>3. i + 1 \in 1 .. Len(q) /\ q[i + 1] = g[i + 1]
            BY <1>19, <3>1, <3>2
        <3> QED BY <2>8, <3>1, <3>2, <3>3
    <2>9. \/ \E n \in Writing : mutation[n].state = stateInMap
          \/ \E i \in 1 .. Len(snapshotHistory) :
                snapshotHistory[i].hash = stateInMap /\ i + Cardinality(Writing) <= SnapshotCacheSize
        BY <1>13, <2>1 DEF MemoryStays
    <2> QED BY <1>1, <2>6, <2>7, <2>8, <2>9
<1>34. ShownStays'
    <2>1. Shown' = Shown /\ Alone(mutators)' = Alone(mutators) /\ Alone(observers)' = Alone(observers)
        BY <1>8 DEF Shown, observerVars, Alone
    <2>2. \A n \in Mutators : mutation[n].at \in {"map", "file", "snapshot"} =>
            mutation'[n].at \in {"map", "file", "snapshot"} /\ mutation'[n].state = mutation[n].state
        BY <1>1, <1>11, <1>12
    <2>3. stateFaults' = 0 => stateFaults = 0
        BY <1>9, <1>16, <1>27
    <2> QED BY <1>8, <2>1, <2>2, <2>3 DEF ShownStays, observerVars
<1> QED BY <1>28, <1>29, <1>30, <1>31, <1>32, <1>33, <1>34

LEMMA StateStep ==
    ASSUME Cardinality(Mutators) <= SnapshotCacheSize, StateHandlerInv, [StateHandlerNext]_stateHandlerVars
    PROVE  StateHandlerInv'
<1>1. CASE UNCHANGED stateHandlerVars
    <2>1. Whole' = Whole /\ Writing' = Writing /\ Shown' = Shown /\ IdsIn(snapshotHistory)' = IdsIn(snapshotHistory)
        BY <1>1 DEF stateHandlerVars, Whole, Writing, Shown, IdsIn
    <2>2. Alone(mutators)' = Alone(mutators) /\ Alone(observers)' = Alone(observers) /\ AllAtRest' = AllAtRest
        BY <1>1 DEF stateHandlerVars, Alone, AllAtRest
    <2> QED BY <1>1, <2>1, <2>2
            DEF stateHandlerVars, StateHandlerInv, StateTyped, NothingWhenDown, LockHeld, SnapshotsStand,
                OneWrites, NewestIsDurable, MemoryStays, ShownStays
<1>2. CASE load_snapshot_repository
    BY <1>2, LoadRepositoryKeeps
<1>3. ASSUME NEW m \in Mutators,
             \/ initialize_shard(m) \/ load_for_mutation(m) \/ drop_mutation(m) \/ write_after_mutation(m)
             \/ write_new_state(m) \/ update(m) \/ write_fails(m) \/ queue_state_update(m)
      PROVE  StateHandlerInv'
    BY <1>3, InitializeShardKeeps, LoadForMutationKeeps, DropMutationKeeps, WriteAfterMutationKeeps,
       WriteNewStateKeeps, UpdateKeeps, WriteFailsKeeps, QueueStateUpdateKeeps
<1>4. ASSUME NEW o \in Observers, drain_updates(o) \/ apply_pending_update(o) PROVE StateHandlerInv'
    BY <1>4, DrainUpdatesKeeps, ApplyPendingUpdateKeeps
<1>5. CASE crash_state
    BY <1>5, CrashStateKeeps
<1> QED BY <1>1, <1>2, <1>3, <1>4, <1>5 DEF StateHandlerNext

LEMMA AloneIsOne ==
    ASSUME NEW S, IsFiniteSet(S), Cardinality(S) <= 1
    PROVE  Alone(S)
<1>1. Cardinality(S) \in Nat
    BY FS_CardinalityType
<1>2. CASE Cardinality(S) = 0
    BY <1>2, FS_EmptySet DEF Alone
<1>3. CASE Cardinality(S) = 1
    <2>1. \E x : S = {x}
        BY <1>3, FS_Singleton
    <2> QED BY <2>1 DEF Alone
<1> QED BY <1>1, <1>2, <1>3

LEMMA StateInvImplies ==
    ASSUME StateHandlerInv
    PROVE  StateHandlerTypeOK /\ HistoryOnDisk /\ MemoryIsOnDisk /\ ObserverConverges
<1>1. StateHandlerTypeOK
    <2>1. \A m \in Mutators : mutation[m].at \in {"rest", "mutating", "map", "file", "snapshot"}
        BY DEF StateHandlerInv, StateTyped, Mutations, AtRest
    <2>2. \A id \in DOMAIN stateFiles : id \in 1 .. stateClock /\ stateFiles[id] \in Int
        BY DEF StateHandlerInv, StateTyped, Torn
    <2>3. stateInMap \in Int /\ queuedUpdate \in Int /\ currentState \in Int
        BY DEF StateHandlerInv, StateTyped, Versions, NoState
    <2>4. stateUp \in BOOLEAN /\ mapLock \in Mutators \cup {NoLock} /\ stateFaults \in 0 .. MaxStateFaults
        BY DEF StateHandlerInv, StateTyped
    <2> QED BY <2>1, <2>2, <2>3, <2>4 DEF StateHandlerTypeOK
<1>2. HistoryOnDisk
    BY DEF StateHandlerInv, SnapshotsStand, HistoryOnDisk
<1>3. AllAtRest => \A m \in Mutators : mutation[m].at = "rest"
    BY DEF AllAtRest, AtRest
<1>4. MemoryIsOnDisk
    <2>1. AllAtRest => Writing = {}
        BY <1>3 DEF Writing
    <2> QED BY <2>1 DEF StateHandlerInv, MemoryStays, MemoryIsOnDisk
<1>5. ObserverConverges
    <2> SUFFICES ASSUME stateUp, AllAtRest, stateFaults = 0, Cardinality(mutators) <= 1, Cardinality(observers) <= 1
                 PROVE  Shown = stateInMap
        BY DEF ObserverConverges, Shown
    <2>1. IsFiniteSet(mutators) /\ IsFiniteSet(observers)
        BY StateHandlerAssumption, FS_Subset DEF StateHandlerInv, StateTyped
    <2>2. Alone(mutators) /\ Alone(observers)
        BY <2>1, AloneIsOne
    <2> QED BY <1>3, <2>2 DEF StateHandlerInv, ShownStays
<1> QED BY <1>1, <1>2, <1>4, <1>5

\* A start finds the last complete snapshot, when one thread mutates.
LEMMA StartFindsSnapshots ==
    ASSUME StateHandlerInv, load_snapshot_repository, Cardinality(mutators) = 1
    PROVE  stateInMap' >= durable
<1>1. IsFiniteSet(mutators)
    BY StateHandlerAssumption, FS_Subset DEF StateHandlerInv, StateTyped
<1>2. Alone(mutators)
    BY <1>1, AloneIsOne
<1> QED BY <1>2, LoadRepositoryKeeps

\* The state in the map goes from one version to the next.
LEMMA MapInSequence ==
    ASSUME StateHandlerInv, [StateHandlerNext]_stateHandlerVars, stateUp, stateUp', stateInMap # NoState
    PROVE  stateInMap' \in {stateInMap, stateInMap + 1}
<1>1. ASSUME NEW m \in Mutators, write_after_mutation(m) PROVE stateInMap' = stateInMap + 1
    BY <1>1 DEF write_after_mutation, StateHandlerInv, LockHeld
<1>2. CASE stateInMap' = stateInMap
    BY <1>2
<1>3. ~load_snapshot_repository /\ ~crash_state /\ \A m \in Mutators : ~initialize_shard(m)
    BY DEF load_snapshot_repository, crash_state, initialize_shard
<1>4. \A m \in Mutators :
        load_for_mutation(m) \/ drop_mutation(m) \/ write_new_state(m) \/ update(m) \/ write_fails(m) \/ queue_state_update(m)
            => stateInMap' = stateInMap
    BY DEF load_for_mutation, drop_mutation, write_new_state, update, write_fails, queue_state_update
<1>5. \A o \in Observers : drain_updates(o) \/ apply_pending_update(o) => stateInMap' = stateInMap
    BY DEF drain_updates, apply_pending_update
<1>6. UNCHANGED stateHandlerVars => stateInMap' = stateInMap
    BY DEF stateHandlerVars
<1> QED BY <1>1, <1>3, <1>4, <1>5, <1>6 DEF StateHandlerNext

\* The history in memory is on disk and holds the state in memory, the observer gets to see it,
\* mutations come one after the other and a restart finds the last complete snapshot, while
\* no more threads mutate a shard than snapshots are kept (StateHandler, the snapshot repository
\* and the state observer).
THEOREM StateIsKeptHolds ==
    ASSUME Cardinality(Mutators) <= SnapshotCacheSize
    PROVE  StateHandlerSpec => StateIsKept
<1>1. StateHandlerInit => StateHandlerInv
    BY StateStarts
<1>2. StateHandlerInv /\ [StateHandlerNext]_stateHandlerVars => StateHandlerInv'
    BY StateStep
<1>3. StateHandlerInv => StateHandlerTypeOK /\ HistoryOnDisk /\ MemoryIsOnDisk /\ ObserverConverges
    BY StateInvImplies
<1>4. StateHandlerInv =>
        [load_snapshot_repository /\ durable # NoState /\ Cardinality(mutators) = 1
            => stateInMap' >= durable]_stateHandlerVars
    BY StartFindsSnapshots
<1>5. StateHandlerInv /\ [StateHandlerNext]_stateHandlerVars =>
        [stateUp /\ stateUp' /\ stateInMap # NoState => stateInMap' \in {stateInMap, stateInMap + 1}]_stateHandlerVars
    BY MapInSequence
<1> QED BY <1>1, <1>2, <1>3, <1>4, <1>5, PTL
        DEF StateHandlerSpec, StateIsKept, RestartKeepsSnapshots, MutationsInSequence
=============================================================================
