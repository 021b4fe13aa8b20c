------------------------------- MODULE Stf ----------------------------------
(***************************************************************************)
(* The state transition function of a shard: its accounts, the trusted     *)
(* calls and getters, and how the parentchain blocks are turned into       *)
(* trusted calls that the enclave signs itself.                            *)
(*                                                                         *)
(* A state is a record of the balances and nonces, the vault and the times *)
(* of the parentchains.  The balances pallet is external: an account that  *)
(* falls below the existential deposit is removed with its nonce.          *)
(* Calls of the EVM are left out.                                          *)
(***************************************************************************)
EXTENDS Integers, Sequences, FiniteSets, SequencesExt

CONSTANTS
    StfAccounts,        \* accounts of users
    STF_TX_FEE,
    ExistentialDeposit,
    Endowment           \* genesis balance of the users

ASSUME StfAssumption ==
    /\ "enclave" \notin StfAccounts /\ IsFiniteSet(StfAccounts)
    /\ STF_TX_FEE \in Nat /\ ExistentialDeposit \in Nat /\ Endowment \in Nat

AllParentchains == <<"Integritee", "TargetA", "TargetB">>
ChainIds == {AllParentchains[i] : i \in 1 .. 3}
NoVault == "none"
AllAccounts == StfAccounts \cup {"enclave"}
Root == "alice"
-----------------------------------------------------------------------------
(* The pallets *)

force_set_balance(s, who, new_free) ==
    LET free == IF new_free < ExistentialDeposit THEN 0 ELSE new_free
        reaped == free = 0 /\ s.free[who] > 0 IN
    [s EXCEPT !.free[who] = free, !.nonce[who] = IF reaped THEN 0 ELSE @]

CanTransfer(s, from, dest, value) ==
    s.free[from] >= value /\ (from = dest \/ s.free[dest] + value >= ExistentialDeposit)

transfer(s, from, dest, value) ==
    IF from = dest THEN s
    ELSE LET paid == force_set_balance(s, from, s.free[from] - value) IN
         [paid EXCEPT !.free[dest] = @ + value]

\* create_enclave_self_account: 1000, set by force.
create_enclave_self_account(s) == force_set_balance(s, "enclave", 1000)

endow(s, accounts) == [s EXCEPT !.free = [a \in AllAccounts |-> IF a \in accounts THEN Endowment ELSE @[a]]]

init_state ==
    create_enclave_self_account(endow(
        [free |-> [a \in AllAccounts |-> 0], nonce |-> [a \in AllAccounts |-> 0],
         vault |-> [c \in ChainIds |-> NoVault], now |-> [c \in ChainIds |-> 0],
         created |-> FALSE],
        StfAccounts))

\* get_shard_vaults: the chains with a vault, in the order they are asked.
get_shard_vaults(s) == SelectSeq(AllParentchains, LAMBDA c : s.vault[c] # NoVault)

has_vault(s) == get_shard_vaults(s) # <<>>
shard_vault(s) == Head(get_shard_vaults(s))

\* A vault on another chain, or another vault, is refused; the same one is fine.
init_shard_vault_account(s, vault, chain) ==
    IF get_shard_vaults(s) = <<>> THEN [s EXCEPT !.vault[chain] = vault] ELSE s
-----------------------------------------------------------------------------
(* The trusted calls *)

Result(ok, s, calls) == [ok |-> ok, state |-> s, calls |-> calls]

burn_funds(s, account, amount) == force_set_balance(s, account, s.free[account] - amount)

ShieldFee(amount) == amount \div 571

\* The fee is endowed on top of the amount.
shield_funds_mut(s, account, amount) ==
    LET fee == ShieldFee(amount)
        endowed == force_set_balance(s, "enclave", s.free["enclave"] + fee) IN
    force_set_balance(endowed, account, endowed.free[account] + amount)

shield_funds(s, account, amount) ==
    LET fee == ShieldFee(amount)
        endowed == force_set_balance(s, "enclave", s.free["enclave"] + fee) IN
    force_set_balance(endowed, account, endowed.free[account] + amount - fee)

balance_set_balance(s, c) ==
    IF c.sender # Root THEN Result(FALSE, s, <<>>)
    ELSE Result(TRUE, force_set_balance(s, c.who, c.value), <<>>)

\* The fee is taken first, and kept when the transfer fails.
balance_transfer(s, c) ==
    IF ~CanTransfer(s, c.sender, "enclave", STF_TX_FEE) THEN Result(FALSE, s, <<>>)
    ELSE LET charged == transfer(s, c.sender, "enclave", STF_TX_FEE) IN
         IF ~CanTransfer(charged, c.sender, c.who, c.value) THEN Result(FALSE, charged, <<>>)
         ELSE Result(TRUE, transfer(charged, c.sender, c.who, c.value), <<>>)

\* Fee, then burn; only then the vault and the call indexes of its chain are looked up,
\* and what was burned stays burned.
balance_unshield(s, c, metadata) ==
    LET fee == STF_TX_FEE * 3
        charged == transfer(s, c.sender, "enclave", fee)
        burned == burn_funds(charged, c.sender, c.value) IN
    CASE ~CanTransfer(s, c.sender, "enclave", fee) -> Result(FALSE, s, <<>>)
      [] CanTransfer(s, c.sender, "enclave", fee) /\ charged.free[c.sender] < c.value ->
            Result(FALSE, charged, <<>>)
      [] OTHER ->
            IF ~has_vault(s) \/ "proxy" \notin metadata THEN Result(FALSE, burned, <<>>)
            ELSE Result(TRUE, burned,
                        <<[chain |-> shard_vault(s), kind |-> "proxy_transfer", value |-> c.value]>>)

\* ensure_enclave_signer_account; the vault must be on the chain of the deposit. The
\* funds are there also when the call index for the proof is missing.
balance_shield(s, c, metadata) ==
    LET shielded == shield_funds(s, c.who, c.value) IN
    IF c.sender # "enclave" \/ ~has_vault(s) \/ (has_vault(s) /\ shard_vault(s) # c.chain)
    THEN Result(FALSE, s, <<>>)
    ELSE IF "publish_hash" \notin metadata THEN Result(FALSE, shielded, <<>>)
    ELSE Result(TRUE, shielded, <<[chain |-> "Integritee", kind |-> "publish_hash", value |-> 0]>>)

\* The first time of the Integritee chain is also the creation time.
timestamp_set(s, c) ==
    IF c.sender # "enclave" THEN Result(FALSE, s, <<>>)
    ELSE Result(TRUE, [s EXCEPT !.now[c.chain] = c.value, !.created = @ \/ c.chain = "Integritee"], <<>>)

Dispatch(s, c, metadata) ==
    CASE c.kind = "noop" -> Result(TRUE, s, <<>>)
      [] c.kind = "set_balance" -> balance_set_balance(s, c)
      [] c.kind = "transfer" -> balance_transfer(s, c)
      [] c.kind = "unshield" -> balance_unshield(s, c, metadata)
      [] c.kind = "shield" -> balance_shield(s, c, metadata)
      [] c.kind = "timestamp" -> timestamp_set(s, c)

\* The nonce is used up whether the call succeeds or not, and what a failing call wrote
\* stays; its parentchain calls are dropped by execute_trusted_call_on_stf.
execute(s, c, metadata) ==
    LET used == [s EXCEPT !.nonce[c.sender] = @ + 1]
        done == Dispatch(used, c, metadata) IN
    IF c.nonce # s.nonce[c.sender] THEN Result(FALSE, s, <<>>)
    ELSE IF done.ok THEN done ELSE Result(FALSE, done.state, <<>>)

\* Calls in order, with those that succeeded and those that failed.
execute_all(s, calls, metadata) ==
    FoldLeft(LAMBDA acc, c :
                 LET r == execute(acc.state, c, metadata) IN
                 [state |-> r.state, calls |-> acc.calls \o r.calls,
                  executed |-> IF r.ok THEN Append(acc.executed, c) ELSE acc.executed,
                  failed |-> IF r.ok THEN acc.failed ELSE acc.failed \cup {c}],
             [state |-> s, calls |-> <<>>, executed |-> <<>>, failed |-> {}], calls)
-----------------------------------------------------------------------------
(* The getters *)

\* TrustedGetter: signed by the account it asks about, a PublicGetter by nobody.
is_authorized(getter) == getter.public \/ getter.signer = getter.account

get_state(s, getter) ==
    IF getter.public THEN 42
    ELSE IF getter.what = "nonce" THEN s.nonce[getter.account] ELSE s.free[getter.account]
-----------------------------------------------------------------------------
(* Indirect calls: from a parentchain block to calls for the pool. A call without a    *)
(* signature yet has nonce -1: sign_call_with_self.                                     *)

Unsigned(kind, who, value, chain, origin) ==
    [kind |-> kind, sender |-> "enclave", nonce |-> -1, who |-> who, value |-> value,
     chain |-> chain, origin |-> origin]

\* get_transfer_events: those that decode.
get_transfer_events(block) == SelectSeq(block.transfers, LAMBDA t : t.decodes)

\* Target B shields nothing.
ShieldsTransfers(chain) == chain # "TargetB"

\* handle_events: the transfers to the vault account, whatever chain the vault is on.
handle_events(block, vault) ==
    LET transfers == SelectSeq(get_transfer_events(block),
                               LAMBDA t : ShieldsTransfers(block.chain) /\ t.to = vault) IN
    [i \in 1 .. Len(transfers) |->
        Unsigned("shield", transfers[i].from, transfers[i].amount, block.chain, <<block.number, "event", i>>)]

\* filter_into_from_metadata: a target chain knows the time only.
TargetIndirectCalls == {"timestamp"}
IndirectCalls(chain) ==
    IF chain = "Integritee" THEN {"shield_funds", "invoke", "timestamp"} ELSE TargetIndirectCalls

TimestampSetArgs(block, i) ==
    <<Unsigned("timestamp", "enclave", block.xts[i].value, block.chain, <<block.number, "xt", i>>)>>

\* An account that cannot be decrypted is an error and gives no call.
ShieldFundsArgs(block, i) ==
    IF block.xts[i].who \notin StfAccounts THEN <<>>
    ELSE <<Unsigned("shield", block.xts[i].who, block.xts[i].value, "Integritee", <<block.number, "xt", i>>)>>

\* The call as its sender signed it.
InvokeArgs(block, i) == <<block.xts[i].call>>

\* dispatch of the call in an extrinsic.
dispatch_indirect(block, i) ==
    CASE block.xts[i].kind = "timestamp" -> TimestampSetArgs(block, i)
      [] block.xts[i].kind = "shield_funds" -> ShieldFundsArgs(block, i)
      [] block.xts[i].kind = "invoke" -> InvokeArgs(block, i)

\* The extrinsics that succeeded and have a call for the enclave.
IsIndirect(block, xt) == xt.kind \in IndirectCalls(block.chain) /\ xt.success

\* Events first, then the extrinsics in their order.
execute_indirect_calls_in_extrinsics(block, vault) ==
    handle_events(block, vault)
    \o FlattenSeq([i \in 1 .. Len(block.xts) |->
                     IF IsIndirect(block, block.xts[i]) THEN dispatch_indirect(block, i) ELSE <<>>])
=============================================================================
