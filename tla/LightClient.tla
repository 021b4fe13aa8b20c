----------------------------- MODULE LightClient -----------------------------
(***************************************************************************)
(* The light client of one parentchain: the relay state that submit_block  *)
(* advances (core/parentchain/light-client), and the sealed file that      *)
(* execute_mut_on_validator writes after every access, with its backup.    *)
(*                                                                         *)
(* Headers are their numbers, 0 is the genesis header.  An authority set is*)
(* the number of the block whose digest announced it, 0 the genesis set.   *)
(* Files are written in place, so a crash in a write leaves a torn file.   *)
(***************************************************************************)
EXTENDS Integers, Sequences, FiniteSets

CONSTANTS
    MaxHeight,      \* bound: parentchain blocks
    Grandpa,        \* GrandpaFinality, else ParachainFinality
    Justified,      \* blocks the chain has a justification for
    Change,         \* Change[n]: delay of the authority change in the digest of n
    Honest,         \* the node delivers every justification, and no other
    Pruning,        \* PARENTCHAIN_HEADER_PRUNING
    MaxCrashes,     \* bound: crashes of the worker
    MaxFailures     \* bound: file operations that fail

Heights == 1 .. MaxHeight

\* No authority change in a digest.
NoChange == -1

ASSUME LightClientAssumption ==
    /\ MaxHeight \in Nat /\ Pruning \in Nat \ {0}
    /\ MaxCrashes \in Nat /\ MaxFailures \in Nat
    /\ Grandpa \in BOOLEAN /\ Honest \in BOOLEAN
    /\ Justified \subseteq Heights
    /\ Change \in [Heights -> Nat \cup {NoChange}]

\* The changes that the chain's digests announce.
Announced == {a \in Heights : Change[a] # NoChange}

\* The changes in force when block n is voted on; the set is the last of them.
Enacted(n) == {a \in Announced : a + Change[a] < n}
InForce(n) ==
    IF Enacted(n) = {} THEN 0 ELSE CHOOSE a \in Enacted(n) : \A b \in Enacted(n) : b <= a

NoSchedule == [at_block |-> 0, next |-> 0]

\* RelayState.  Header hashes are kept for the last Pruning headers only.
Relay == [last : 0 .. MaxHeight, penultimate : 0 .. MaxHeight,
          header_hashes : Seq(0 .. MaxHeight), unjustified_headers : Seq(0 .. MaxHeight),
          validator_set : 0 .. MaxHeight, validator_set_id : Nat,
          scheduled_change : [at_block : Nat, next : 0 .. MaxHeight]]

\* RelayState::new
Genesis == [last |-> 0, penultimate |-> 0, header_hashes |-> <<0>>,
            unjustified_headers |-> <<>>, validator_set |-> 0, validator_set_id |-> 0,
            scheduled_change |-> NoSchedule]

\* A file is missing, torn by a write that did not end, or holds a relay state.
Missing == [kind |-> "missing", relay |-> Genesis]
Torn == [kind |-> "torn", relay |-> Genesis]
Sealed(r) == [kind |-> "sealed", relay |-> r]

VARIABLES
    relay,      \* ValidatorAccessor.light_validation, in memory
    phase,      \* where execute_mut_on_validator, or the start-up, is
    starting,   \* the seal that runs is that of read_or_init_*_validator
    ok,         \* the mutating function returned Ok
    db,         \* db.bin
    backup,     \* db.bin.backup
    acked,      \* history: last header a caller was told to be in; -1 before the first start
    crashes, failures

vars == <<relay, phase, starting, ok, db, backup, acked, crashes, failures>>

TypeOK ==
    /\ relay \in Relay
    /\ phase \in {"down", "ready", "backup", "copying", "write", "writing"}
    /\ starting \in BOOLEAN /\ ok \in BOOLEAN
    /\ db.kind \in {"missing", "torn", "sealed"} /\ db.relay \in Relay
    /\ backup.kind \in {"missing", "torn", "sealed"} /\ backup.relay \in Relay
    /\ acked \in -1 .. MaxHeight
    /\ crashes \in 0 .. MaxCrashes /\ failures \in 0 .. MaxFailures

Init ==
    /\ relay = Genesis
    /\ phase = "down" /\ starting = FALSE /\ ok = TRUE
    /\ db = Missing /\ backup = Missing
    /\ acked = -1
    /\ crashes = 0 /\ failures = 0

-----------------------------------------------------------------------------
(* submit_block                                                            *)

\* Mutant: the header after the new one is named the last.
SetLast_mut(r, h) == [r EXCEPT !.penultimate = r.last, !.last = h + 1]

\* set_last_finalized_block_header
SetLast(r, h) == [r EXCEPT !.penultimate = r.last, !.last = h]

\* Mutant: a scheduled change is applied to the next block, whatever it says.
apply_validator_set_change_mut(r, h) ==
    LET change == r.scheduled_change IN
    IF change # NoSchedule
    THEN [r EXCEPT !.scheduled_change = NoSchedule, !.validator_set = change.next,
                   !.validator_set_id = @ + 1]
    ELSE r

\* The scheduled change is taken out by the next block, and applied if that
\* block is the one it is meant for.
apply_validator_set_change(r, h) ==
    LET change == r.scheduled_change
        taken == [r EXCEPT !.scheduled_change = NoSchedule]
    IN  IF change # NoSchedule /\ change.at_block = h
        THEN [taken EXCEPT !.validator_set = change.next, !.validator_set_id = @ + 1]
        ELSE taken

schedule_validator_set_change(r, h) ==
    IF h \in Announced
    THEN [r EXCEPT !.scheduled_change = [at_block |-> h + Change[h], next |-> h]]
    ELSE r

\* Without a (valid) justification the header is taken in all the same.
Unjustified(r, h) == [SetLast(r, h) EXCEPT !.unjustified_headers = Append(@, h)]

\* The last Pruning elements.
Prune(s) == IF Len(s) <= Pruning THEN s ELSE SubSeq(s, Len(s) - Pruning + 1, Len(s))

\* Mutant: the headers without justification are dropped.
JustifyHeaders_mut(r, h) ==
    [SetLast(r, h) EXCEPT !.unjustified_headers = <<>>,
                          !.header_hashes = Prune(Append(r.header_hashes, h))]

\* justify_headers and push_header_hash.
JustifyHeaders(r, h) ==
    [SetLast(r, h) EXCEPT !.unjustified_headers = <<>>,
                          !.header_hashes =
                             Prune(r.header_hashes \o r.unjustified_headers \o <<h>>)]

\* What the node may send with block h.
Justifications(h) ==
    IF Honest THEN {IF h \in Justified THEN "genuine" ELSE "none"}
    ELSE {"none", "bogus"} \cup (IF h \in Justified THEN {"genuine"} ELSE {})

\* decode_and_verify_finalizes with the set in force before this block.
Verifies(r, h, justification) ==
    justification = "genuine"
        /\ r.validator_set = InForce(h) /\ r.validator_set_id = Cardinality(Enacted(h))

\* The relay state after the child h of the last header was submitted.
Submitted(r, h, justification) ==
    LET applied == IF Grandpa THEN apply_validator_set_change(r, h) ELSE r IN
    IF Grandpa /\ ~Verifies(r, h, justification)
    THEN Unjustified(applied, h)
    ELSE JustifyHeaders(IF Grandpa THEN schedule_validator_set_change(applied, h) ELSE r, h)

\* A justification that does not verify is an error, a missing one is not.
SubmitOk(r, h, justification) ==
    Grandpa => justification = "none" \/ Verifies(r, h, justification)

\* execute_mut_on_validator with submit_block.  A block that is no child of the
\* last header changes nothing; the state is sealed in any case.
submit_block(h, justification) ==
    /\ phase = "ready"
    /\ IF h = relay.last + 1
       THEN relay' = Submitted(relay, h, justification) /\ ok' = SubmitOk(relay, h, justification)
       ELSE relay' = relay /\ ok' = FALSE
    /\ phase' = "backup"
    /\ UNCHANGED <<starting, db, backup, acked, crashes, failures>>

\* execute_mut_on_validator with send_extrinsics, which may fail.
send_extrinsics(sent) ==
    /\ phase = "ready"
    /\ ok' = sent
    /\ phase' = "backup"
    /\ UNCHANGED <<relay, starting, db, backup, acked, crashes, failures>>

-----------------------------------------------------------------------------
(* LightClientStateSeal::seal                                              *)

\* The copy of db.bin is begun, if there is one.
BeginBackup ==
    /\ phase = "backup"
    /\ IF db.kind = "missing"
       THEN phase' = "write" /\ UNCHANGED backup
       ELSE phase' = "copying" /\ backup' = Torn
    /\ UNCHANGED <<relay, starting, ok, db, acked, crashes, failures>>

\* Mutant: nothing is copied.
BackupCopy_mut == Torn

BackupCopy == db

EndBackup ==
    /\ phase = "copying"
    /\ backup' = BackupCopy
    /\ phase' = "write"
    /\ UNCHANGED <<relay, starting, ok, db, acked, crashes, failures>>

\* A backup that fails is only a warning.
BackupFails ==
    /\ phase \in {"backup", "copying"} /\ failures < MaxFailures
    /\ failures' = failures + 1
    /\ phase' = "write"
    /\ UNCHANGED <<relay, starting, ok, db, backup, acked, crashes>>

BeginWrite ==
    /\ phase = "write"
    /\ db' = Torn
    /\ phase' = "writing"
    /\ UNCHANGED <<relay, starting, ok, backup, acked, crashes, failures>>

\* The caller gets the result of its function.
EndWrite ==
    /\ phase = "writing"
    /\ db' = Sealed(relay)
    /\ phase' = "ready" /\ starting' = FALSE
    /\ acked' = IF ok THEN relay.last ELSE acked
    /\ UNCHANGED <<relay, ok, backup, crashes, failures>>

\* The caller gets an error; at the start the worker gives up.
WriteFails ==
    /\ phase \in {"write", "writing"} /\ failures < MaxFailures
    /\ failures' = failures + 1
    /\ phase' = IF starting THEN "down" ELSE "ready"
    /\ starting' = FALSE
    /\ UNCHANGED <<relay, ok, db, backup, acked, crashes>>

-----------------------------------------------------------------------------
(* Crash, and read_or_init_*_validator                                     *)

Crash ==
    /\ phase # "down" /\ crashes < MaxCrashes
    /\ crashes' = crashes + 1
    /\ phase' = "down" /\ starting' = FALSE
    /\ relay' = Genesis /\ ok' = TRUE
    /\ UNCHANGED <<db, backup, acked, failures>>

\* What unseal reads: db.bin, or the backup copied over a torn db.bin.
Recovered == IF db.kind = "torn" /\ backup.kind # "missing" THEN backup ELSE db

\* exists is false only before the first seal.  If neither file can be unsealed
\* the start fails.
Start ==
    /\ phase = "down"
    /\ Recovered.kind # "torn"
    /\ db' = Recovered
    /\ relay' = Recovered.relay
    /\ phase' = "backup" /\ starting' = TRUE /\ ok' = TRUE
    /\ UNCHANGED <<backup, acked, crashes, failures>>

-----------------------------------------------------------------------------
Next ==
    \/ \E h \in Heights : \E justification \in Justifications(h) : submit_block(h, justification)
    \/ \E sent \in BOOLEAN : send_extrinsics(sent)
    \/ BeginBackup \/ EndBackup \/ BackupFails
    \/ BeginWrite \/ EndWrite \/ WriteFails
    \/ Crash \/ Start

Spec == Init /\ [][Next]_vars
-----------------------------------------------------------------------------
(* Properties.                                                             *)

\* A relay state whose header hashes and unjustified headers are the last
\* headers of the chain, all of them, in order.
Consistent(r) ==
    LET hashes == r.header_hashes \o r.unjustified_headers IN
    /\ Len(r.header_hashes) \in 1 .. Pruning
    /\ \A i \in 1 .. Len(hashes) : hashes[i] = r.last - Len(hashes) + i
    /\ r.penultimate = (IF r.last = 0 THEN 0 ELSE r.last - 1)

\* Whatever justifications are missing, invalid or late, no header that was
\* taken in is left out or listed twice, in memory and in every file that can
\* be unsealed.
HeaderRun == Consistent(relay) /\ Consistent(db.relay) /\ Consistent(backup.relay)

\* A crash at any point of a seal, of the start-up, or of the seal at start-up
\* loses no header that a caller was told to be in: one of the two files can
\* be unsealed and has it.
Durable ==
    failures = 0 /\ acked # -1 => Recovered.kind = "sealed" /\ Recovered.relay.last >= acked

\* The light client never counts the votes of an authority set before the block
\* at which the chain hands over to it, nor more hand-overs than there were.
NeverEarly ==
    /\ relay.validator_set \in Enacted(relay.last + 1) \cup {0}
    /\ relay.validator_set_id <= Cardinality(Enacted(relay.last + 1))

\* io.rs: "unseals db with automatic failover to db backup".  Once a state was
\* sealed, a crash finds one of the two files intact.
Failover == phase = "down" /\ acked # -1 => Recovered.kind = "sealed"

\* state.rs: scheduled_change is the "Scheduled Authorities change as indicated in
\* the header's digest".
FollowsDigest == phase = "ready" => relay.validator_set = InForce(relay.last + 1)
=============================================================================
