------------------------- MODULE MCShardParentchains -------------------------
(* An instance of ShardParentchains for TLC: a shard that follows two chains. *)
EXTENDS ShardParentchains

\* One block of each chain, with a transfer to an account that may be the vault.
OneBlockEach == [c \in Parentchains |-> <<[time |-> 1, transfers |-> <<"va">>, parses |-> TRUE]>>]

ShardParentchainsSpec == ShardParentchainsInit /\ [][ShardParentchainsNext]_shardParentchainsVars
=============================================================================
