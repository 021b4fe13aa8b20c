----------------------------- MODULE Attestation ----------------------------
(***************************************************************************)
(* Remote attestation: IntelAttestationHandler inside the enclave, the     *)
(* ocalls it makes, and the service that asks for collateral.              *)
(*                                                                         *)
(* Several calls may be under way at a time: the registration, the         *)
(* provisioning server, a request for a quote.  Each is a session.  What   *)
(* comes from outside, the quoting enclave by way of the service or the    *)
(* attestation service of Intel, may be late, mixed up with the answer to  *)
(* another session, or an error.  A quote is known by the nonce of the     *)
(* session it was made for and by the enclave it speaks of.                *)
(***************************************************************************)
EXTENDS Integers, FiniteSets

CONSTANTS
    Sessions,        \* calls; each one is its own nonce
    AttestationOps   \* what they are for, out of Operations

Operations == {"ias_cert", "dcap_cert", "verify_quote", "collateral"}

\* Nonces are random: what another enclave asked for has the nonce of none of the sessions.
ASSUME AttestationAssumption ==
    /\ IsFiniteSet(Sessions) /\ AttestationOps \subseteq Operations
    /\ 0 \notin Sessions

VARIABLES
    attOp,           \* session -> its operation
    attStep,         \* session -> the next step, or how it ended
    sigrl,           \* session -> the revocation list it goes on with
    held,            \* session -> the quote it goes on with
    evidence,        \* session -> what its certificate carries
    issued,          \* quotes the quoting enclave made
    openSockets,     \* sessions whose file descriptor nobody closed
    collaterals,     \* sessions whose collateral is allocated
    mrEnclave        \* MY_MRENCLAVE: the cached measurement

attestationVars == <<attOp, attStep, sigrl, held, evidence, issued, openSockets, collaterals, mrEnclave>>

Ended == {"ok", "err", "fetch_failed", "panicked"}
NoQuote == [nonce |-> 0, enclave |-> "none"]
OwnQuote(s) == [nonce |-> s, enclave |-> "self"]
\* A quote another enclave of the platform got once.
ForeignQuote == [nonce |-> 0, enclave |-> "other"]

FirstStep(op) ==
    CASE op = "ias_cert" -> "init_quote"
      [] op = "dcap_cert" -> "target_info"
      [] op = "verify_quote" -> "qve"
      [] op = "collateral" -> "get_collateral"

AttestationInit ==
    /\ attOp \in [Sessions -> AttestationOps]
    /\ attStep = [s \in Sessions |-> FirstStep(attOp[s])]
    /\ sigrl = [s \in Sessions |-> "none"] /\ held = [s \in Sessions |-> NoQuote]
    /\ evidence = [s \in Sessions |-> NoQuote]
    /\ issued = {ForeignQuote} /\ openSockets = {} /\ collaterals = {} /\ mrEnclave = "none"

Goto(s, step) == attStep' = [attStep EXCEPT ![s] = step]

\* Every call across the boundary has two results, its own and the one of the
\* transition; both must be SGX_SUCCESS.
Statuses == {"SGX_SUCCESS", "SGX_ERROR"}
ensure(result, retval) == result = "SGX_SUCCESS" /\ retval = "SGX_SUCCESS"

\* An ocall or library call of the session fails; what it holds stays with it.
ocall_fails(s) ==
    /\ attStep[s] \notin Ended \cup {"cert", "get_collateral", "use_collateral"}
    /\ \E result, retval \in Statuses : ~ensure(result, retval)
    /\ Goto(s, "err")
    /\ UNCHANGED <<attOp, sigrl, held, evidence, issued, openSockets, collaterals, mrEnclave>>
-----------------------------------------------------------------------------
(* EPID: create_epid_attestation_report *)

sgx_init_quote(s) ==
    /\ attStep[s] = "init_quote"
    /\ Goto(s, "socket")
    /\ UNCHANGED <<attOp, sigrl, held, evidence, issued, openSockets, collaterals, mrEnclave>>

\* The service opens the connection and gives the descriptor away.
get_ias_socket(s) ==
    /\ attStep[s] = "socket"
    /\ openSockets' = openSockets \cup {s}
    /\ Goto(s, "sigrl")
    /\ UNCHANGED <<attOp, sigrl, held, evidence, issued, collaterals, mrEnclave>>

\* parse_response_sigrl knows the header "content-length" only in this spelling; the
\* status of the response is logged.
parse_response_sigrl(response) == IF response.header = "content-length" THEN response.body ELSE "empty"

\* The stream owns the descriptor and closes it.
get_sigrl_from_intel(s) ==
    /\ attStep[s] = "sigrl"
    /\ \E header \in {"content-length", "Content-Length"}, body \in {"empty", "short", "long"} :
          sigrl' = [sigrl EXCEPT ![s] = parse_response_sigrl([header |-> header, body |-> body])]
    /\ openSockets' = openSockets \ {s}
    /\ Goto(s, "quote")
    /\ UNCHANGED <<attOp, held, evidence, issued, collaterals, mrEnclave>>

\* The quoting enclave signs the report, for the nonce of the session.
create_quote(s) ==
    /\ attStep[s] = "quote" /\ OwnQuote(s) \notin issued
    /\ issued' = issued \cup {OwnQuote(s)}
    /\ UNCHANGED <<attOp, attStep, sigrl, held, evidence, openSockets, collaterals, mrEnclave>>

\* calc_quote_size: a quote grows with the revocation list; the enclave has a buffer
\* of RET_QUOTE_BUF_LEN.
exceeds_quote_buffer(list) == list = "long"

\* The quoting enclave's report on a quote holds the hash of the quote and the nonce
\* it was asked with.
qe_report(quote) == [nonce |-> quote.nonce, quote |-> quote]

\* The quote is not compared with the report of the quoting enclave.
quote_is_tampered_mut(s, quote, report) == FALSE

quote_is_tampered(s, quote, report) == [nonce |-> s, quote |-> quote] # report

\* get_quote returns the quote with a report on it, perhaps those of another session;
\* the report is of this platform. Then the second socket is opened, and only then
\* the hash is looked at: an error leaves the socket open.
get_quote(s) ==
    /\ attStep[s] = "quote" /\ OwnQuote(s) \in issued
    /\ IF exceeds_quote_buffer(sigrl[s]) THEN Goto(s, "err") /\ UNCHANGED <<held, openSockets>>
       ELSE \E quote \in issued, about \in issued :
              /\ openSockets' = openSockets \cup {s}
              /\ held' = [held EXCEPT ![s] = quote]
              /\ Goto(s, IF quote_is_tampered(s, quote, qe_report(about)) THEN "err" ELSE "report")
    /\ UNCHANGED <<attOp, sigrl, evidence, issued, collaterals, mrEnclave>>

\* parse_response_attn_report: without a signing certificate the index panics;
\* without "Content-Length" in this spelling the report is empty.
get_report_from_intel(s) ==
    /\ attStep[s] = "report"
    /\ openSockets' = openSockets \ {s}
    /\ \/ Goto(s, "panicked") /\ UNCHANGED evidence
       \/ /\ Goto(s, "cert")
          /\ \E report \in {NoQuote, held[s]} : evidence' = [evidence EXCEPT ![s] = report]
    /\ UNCHANGED <<attOp, sigrl, held, issued, collaterals, mrEnclave>>

\* gen_ecc_cert over whatever the payload is.
gen_ecc_cert(s) ==
    /\ attStep[s] = "cert"
    /\ Goto(s, "ok")
    /\ UNCHANGED <<attOp, sigrl, held, evidence, issued, openSockets, collaterals, mrEnclave>>
-----------------------------------------------------------------------------
(* DCAP: retrieve_qe_dcap_quote and ecdsa_quote_verification *)

\* The service asks the quoting enclave for its target info and the quote's size.
qe_get_target_info(s) ==
    /\ attStep[s] = "target_info"
    /\ issued' = issued \cup {OwnQuote(s)}
    /\ Goto(s, "dcap_quote")
    /\ UNCHANGED <<attOp, sigrl, held, evidence, openSockets, collaterals, mrEnclave>>

\* Any quote is taken.
same_mr_enclave_mut(quote) == TRUE

\* The quote speaks of this enclave. Neither its nonce nor its report data is looked
\* at: the quote of an earlier session serves as well.
same_mr_enclave(quote) == quote.enclave = "self"

retrieve_qe_dcap_quote(s) ==
    /\ attStep[s] = "dcap_quote"
    /\ \E quote \in issued :
          IF same_mr_enclave(quote)
          THEN Goto(s, "cert") /\ evidence' = [evidence EXCEPT ![s] = quote]
          ELSE Goto(s, "err") /\ UNCHANGED evidence
    /\ UNCHANGED <<attOp, sigrl, held, issued, openSockets, collaterals, mrEnclave>>

\* The report of the quote verification enclave for a session. What it found, terminal
\* or not, is logged; without the library's policy and its size of the supplemental
\* data there is none.
QvResults == {"OK", "OUT_OF_DATE", "REVOKED"}
get_qve_report_on_quote(answered, found) == [nonce |-> answered, result |-> found]

\* The report is for the nonce sent: that of another session is refused. The trusted
\* library checks the report and the identity of its maker, whatever it found.
ecdsa_quote_verification(s) ==
    /\ attStep[s] = "qve"
    /\ \E answered \in Sessions, found \in QvResults :
          Goto(s, IF get_qve_report_on_quote(answered, found).nonce = s THEN "ok" ELSE "err")
    /\ UNCHANGED <<attOp, sigrl, held, evidence, issued, openSockets, collaterals, mrEnclave>>
-----------------------------------------------------------------------------
(* Collateral, in the service *)

\* The library allocates; with an error it may have allocated or not, and what it
\* has is not freed.
get_dcap_collateral(s) ==
    /\ attStep[s] = "get_collateral"
    /\ \/ collaterals' = collaterals \cup {s} /\ Goto(s, "use_collateral")
       \/ collaterals' \in {collaterals, collaterals \cup {s}} /\ Goto(s, "fetch_failed")
    /\ UNCHANGED <<attOp, sigrl, held, evidence, issued, openSockets, mrEnclave>>

\* The collateral is freed when the ecall made the extrinsic.
free_quote_verification_collateral_mut(s, result, retval) ==
    IF ensure(result, retval) THEN collaterals \ {s} ELSE collaterals

free_quote_verification_collateral(s, result, retval) == collaterals \ {s}

\* The TCB info or the identity of the quoting enclave is taken apart; without a
\* signature in it the ecall fails.
separate_json_data_and_signature(json) == IF json = "signed" THEN "SGX_SUCCESS" ELSE "SGX_ERROR"

\* generate_register_quoting_enclave_extrinsic, the one for the TCB info, and the dump:
\* the ecall, then the collateral is freed whatever its result was.
use_dcap_collateral(s) ==
    /\ attStep[s] = "use_collateral"
    /\ \E result \in Statuses, json \in {"signed", "unsigned"} :
          LET retval == separate_json_data_and_signature(json) IN
          /\ collaterals' = free_quote_verification_collateral(s, result, retval)
          /\ Goto(s, IF ensure(result, retval) THEN "ok" ELSE "err")
    /\ UNCHANGED <<attOp, sigrl, held, evidence, issued, openSockets, mrEnclave>>
-----------------------------------------------------------------------------
\* get_mrenclave_of_self, at any time of any session: the first report is remembered.
get_mrenclave_of_self ==
    /\ mrEnclave = "none" /\ mrEnclave' = "self"
    /\ UNCHANGED <<attOp, attStep, sigrl, held, evidence, issued, openSockets, collaterals>>

AttestationNext ==
    \/ get_mrenclave_of_self
    \/ \E s \in Sessions :
          \/ ocall_fails(s) \/ sgx_init_quote(s) \/ get_ias_socket(s) \/ get_sigrl_from_intel(s) \/ create_quote(s) \/ get_quote(s)
          \/ get_report_from_intel(s) \/ gen_ecc_cert(s) \/ qe_get_target_info(s) \/ retrieve_qe_dcap_quote(s)
          \/ ecdsa_quote_verification(s) \/ get_dcap_collateral(s) \/ use_dcap_collateral(s)
-----------------------------------------------------------------------------
\* An EPID certificate that carries a report carries one on the quote of its own
\* session, though the answers of the service to several sessions may get mixed up:
\* the quoting enclave's report on the quote is checked against the nonce.
EvidenceIsFresh ==
    \A s \in Sessions : attOp[s] = "ias_cert" /\ evidence[s] # NoQuote => evidence[s] = OwnQuote(s)

\* No certificate of either kind carries a quote of another enclave.
EvidenceIsOurs == \A s \in Sessions : evidence[s].enclave \in {"none", "self"}

\* What a session allocated outside the enclave is given back however it ends; what
\* stays behind belongs to a session whose fetch of the collateral failed, or that
\* failed while it had a connection to the attestation service.
NothingLeaks ==
    \A s \in Sessions : attStep[s] \in Ended =>
        (s \in openSockets => attStep[s] = "err") /\ (s \in collaterals => attStep[s] = "fetch_failed")

\* The evidence is of this enclave and of this session, and what a session took outside
\* the enclave is given back, whatever the host and the other sessions do.
EvidenceIsSound == EvidenceIsFresh /\ EvidenceIsOurs /\ NothingLeaks
=============================================================================
