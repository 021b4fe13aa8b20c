------------------------------ MODULE SealedKeys ------------------------------
(***************************************************************************)
(* The enclave's keys and their sealed files: the signing key, the         *)
(* shielding key and the state key.  A start opens each repository,        *)
(* creating the key when its file is absent, and reads the file back;      *)
(* provisioning replaces the shielding and the state key.  A file is       *)
(* truncated and then written, and the host may stop in between: what is   *)
(* left cannot be unsealed.                                                *)
(***************************************************************************)
EXTENDS Integers

CONSTANT MaxKeys            \* bound of the model: keys made or received

ASSUME SealedKeysAssumption == MaxKeys \in Nat

VARIABLES
    key_file,       \* kind -> AbsentKey, TornFile or the key
    key_memory,     \* kind -> the repository's key, or AbsentKey before it is open
    key_op,         \* kind -> what its repository is doing, and with which key
    keys_known,     \* kind -> keys the repository handed out or was given
    keys_made

sealedKeyVars == <<key_file, key_memory, key_op, keys_known, keys_made>>

KeyKinds == {"ed25519", "rsa3072", "aes"}
AbsentKey == 0
TornFile == -1
KeyOp(phase, key) == [phase |-> phase, key |-> key]
NoKeyOp == KeyOp("none", AbsentKey)

SealedKeysInit ==
    /\ key_file = [k \in KeyKinds |-> AbsentKey]
    /\ key_memory = [k \in KeyKinds |-> AbsentKey]
    /\ key_op = [k \in KeyKinds |-> NoKeyOp]
    /\ keys_known = [k \in KeyKinds |-> {}]
    /\ keys_made = 0

\* The state key asks whether its file opens, the other two whether it is there.
exists_mut(k) == key_file[k] > AbsentKey

exists(k) == IF k = "aes" THEN key_file[k] > AbsentKey ELSE key_file[k] # AbsentKey

\* The global components are set up one after the other.
get_repository(k) ==
    /\ key_memory[k] = AbsentKey /\ \A j \in KeyKinds : key_op[j] = NoKeyOp
    /\ exists(k) \/ keys_made < MaxKeys
    /\ IF exists(k)
       THEN key_op' = [key_op EXCEPT ![k] = KeyOp("unseal", AbsentKey)] /\ UNCHANGED keys_made
       ELSE /\ key_op' = [key_op EXCEPT ![k] = KeyOp("create", keys_made + 1)]
            /\ keys_made' = keys_made + 1
    /\ UNCHANGED <<key_file, key_memory, keys_known>>

\* Another worker's key, under the write lock of the repository.
update_key(k) ==
    /\ k # "ed25519" /\ key_memory[k] # AbsentKey /\ key_op[k] = NoKeyOp
    /\ keys_made < MaxKeys
    /\ keys_made' = keys_made + 1
    /\ key_op' = [key_op EXCEPT ![k] = KeyOp("create", keys_made + 1)]
    /\ keys_known' = [keys_known EXCEPT ![k] = @ \cup {keys_made + 1}]
    /\ UNCHANGED <<key_file, key_memory>>

\* seal: the file is created empty and then written.
create_file(k) ==
    /\ key_op[k].phase = "create"
    /\ key_file' = [key_file EXCEPT ![k] = TornFile]
    /\ key_op' = [key_op EXCEPT ![k].phase = "write"]
    /\ UNCHANGED <<key_memory, keys_known, keys_made>>

write_file(k) ==
    /\ key_op[k].phase = "write"
    /\ key_file' = [key_file EXCEPT ![k] = key_op[k].key]
    /\ key_op' = [key_op EXCEPT ![k] = KeyOp("unseal", AbsentKey)]
    /\ UNCHANGED <<key_memory, keys_known, keys_made>>

unseal_key(k) ==
    /\ key_op[k].phase = "unseal" /\ key_file[k] > AbsentKey
    /\ key_memory' = [key_memory EXCEPT ![k] = key_file[k]]
    /\ keys_known' = [keys_known EXCEPT ![k] = @ \cup {key_file[k]}]
    /\ key_op' = [key_op EXCEPT ![k] = NoKeyOp]
    /\ UNCHANGED <<key_file, keys_made>>

\* An update that fails to write or to read back leaves the old key in memory;
\* while the enclave starts, an error ends it.
key_error(k) ==
    /\ key_op[k].phase \in {"write", "unseal"}
    /\ key_memory[k] # AbsentKey
    /\ key_op' = [key_op EXCEPT ![k] = NoKeyOp]
    /\ UNCHANGED <<key_file, key_memory, keys_known, keys_made>>

stop_enclave ==
    /\ key_memory' = [k \in KeyKinds |-> AbsentKey]
    /\ key_op' = [k \in KeyKinds |-> NoKeyOp]
    /\ UNCHANGED <<key_file, keys_known, keys_made>>

SealedKeysNext ==
    \/ \E k \in KeyKinds :
          \/ get_repository(k) \/ update_key(k)
          \/ create_file(k) \/ write_file(k) \/ unseal_key(k) \/ key_error(k)
    \/ stop_enclave

(***************************************************************************)
(* Properties                                                              *)
(***************************************************************************)

\* A start never comes up with a signing or shielding key that is neither one
\* it had before nor one it was given, whatever a crash left of the file: the
\* parentchain knows the worker by the one, and clients encrypt to the other.
\* (The state key's repository takes an unreadable file for an absent one and
\* creates a new key.)
KeyNeverReplaced ==
    [][\A k \in {"ed25519", "rsa3072"} :
          keys_known[k] # {} /\ key_memory'[k] # AbsentKey => key_memory'[k] \in keys_known[k]]_sealedKeyVars
=============================================================================
