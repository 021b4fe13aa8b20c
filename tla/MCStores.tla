------------------------------ MODULE MCStores ------------------------------
(* What a worker keeps, hands out and is asked for, one component per       *)
(* behaviour: block storage, state files, sealed keys, provisioning,        *)
(* attestation, fork tree, and the TOP pool with its server and clients.    *)
(* The components share no variable; `part` says which one moves.           *)
EXTENDS SidechainStorage, StateHandler, Provisioning, ForkTree, BasePool, PoolMaintenance,
        DirectRequest

VARIABLE part

\* Clients: one runs another enclave on a platform that is out of date, the other
\* runs another enclave on a sound one.
Certs == [c |-> Report(TRUE, "GROUP_OUT_OF_DATE", "other"), d |-> Report(TRUE, "OK", "other")]

\* Two branches above a1, one of them forking again, and a second root.
Parents == [a1 |-> "genesis", a2 |-> "a1", a3 |-> "a2", b3 |-> "a2", b2 |-> "a1", c1 |-> "genesis"]

\* Operations 1 and 4 provide the first tag, 2 and 5 build on it, 3 on those.
TagsRequired == <<{}, {1}, {2}, {}, {1}>>
TagsProvided == <<{1}, {2}, {3}, {1}, {2}>>
Priorities == <<1, 1, 1, 2, 2>>

\* Two calls with the same tag, of which one expires, and a call that expires later.
Tags == [a |-> "t", b |-> "t", c |-> "u"]
Till == [a |-> 1, b |-> 9, c |-> 2]

\* Two calls of one account with the same nonce, a getter and an indirect call.
Kinds == <<"direct_call", "direct_call", "get", "indirect_call">>
Senders == <<"a", "a", "a", "a">>
Nonces == <<0, 0, 0, 1>>

\* A component that does not move has one initial state.
Resting ==
    /\ part # "storage" => head = [s \in Shards |-> 0]
    /\ part # "provisioning" => ~skipRa /\ ~isDcap /\ providerCert.signed /\ provisioning = ProvisioningPayload["Sidechain"]
    /\ part # "attestation" => attOp = [s \in Sessions |-> "ias_cert"]

StoresInit ==
    /\ part \in {"storage", "state", "keys", "provisioning", "attestation", "forktree",
                 "basepool", "maintenance", "toppool", "server", "client"}
    /\ Init /\ StateHandlerInit /\ SealedKeysInit /\ ProvisioningInit /\ AttestationInit
    /\ ForkTreeInit /\ BasePoolInit /\ PoolMaintenanceInit /\ TopPoolInit /\ WebSocketInit
    /\ DirectRequestInit
    /\ Resting

keptVars == <<vars, stateHandlerVars, sealedKeyVars, provisioningVars, attestationVars>>
servedVars == <<forkTreeVars, basePoolVars, maintenanceVars, topPoolVars, webSocketVars, directRequestVars>>

KeptNext ==
    \/ /\ part = "storage" /\ Next
       /\ UNCHANGED <<stateHandlerVars, sealedKeyVars, provisioningVars, attestationVars>>
    \/ /\ part = "state" /\ StateHandlerNext
       /\ UNCHANGED <<vars, sealedKeyVars, provisioningVars, attestationVars>>
    \/ /\ part = "keys" /\ SealedKeysNext
       /\ UNCHANGED <<vars, stateHandlerVars, provisioningVars, attestationVars>>
    \/ /\ part = "provisioning" /\ ProvisioningNext
       /\ UNCHANGED <<vars, stateHandlerVars, sealedKeyVars, attestationVars>>
    \/ /\ part = "attestation" /\ AttestationNext
       /\ UNCHANGED <<vars, stateHandlerVars, sealedKeyVars, provisioningVars>>

ServedNext ==
    \/ /\ part = "forktree" /\ ForkTreeNext
       /\ UNCHANGED <<basePoolVars, maintenanceVars, topPoolVars, webSocketVars, directRequestVars>>
    \/ /\ part = "basepool" /\ BasePoolNext
       /\ UNCHANGED <<forkTreeVars, maintenanceVars, topPoolVars, webSocketVars, directRequestVars>>
    \/ /\ part = "maintenance" /\ PoolMaintenanceNext
       /\ UNCHANGED <<forkTreeVars, basePoolVars, topPoolVars, webSocketVars, directRequestVars>>
    \/ /\ part = "toppool" /\ TopPoolNext
       /\ UNCHANGED <<forkTreeVars, basePoolVars, maintenanceVars, webSocketVars, directRequestVars>>
    \/ /\ part = "server" /\ WebSocketNext
       /\ UNCHANGED <<forkTreeVars, basePoolVars, maintenanceVars, topPoolVars, directRequestVars>>
    \/ /\ part = "client" /\ DirectRequestNext
       /\ UNCHANGED <<forkTreeVars, basePoolVars, maintenanceVars, topPoolVars, webSocketVars>>

StoresNext ==
    /\ UNCHANGED part
    /\ \/ KeptNext /\ UNCHANGED servedVars
       \/ ServedNext /\ UNCHANGED keptVars

StoresSpec == StoresInit /\ [][StoresNext]_<<keptVars, servedVars, part>>
-----------------------------------------------------------------------------
\* The pool forgets no operation, hands out all that are ready and in order, and pruning
\* a block takes the block's operations out and no others.
PoolLosesNothing ==
    /\ [](BasePoolTypeOK /\ QueuesConsistent /\ HandedOutInOrder /\ NoneWaitsInVain /\ NoSilentLoss)
    /\ PruningKeepsBlockOut /\ PruningKeepsOthers
=============================================================================
