-------------------------- MODULE ShardSetupProofs --------------------------
(***************************************************************************)
(* Proofs about the set-up of a shard and about what a worker does with    *)
(* its host and its parentchains before a sidechain or without one, for    *)
(* any number of workers, starts, threads, parentchains and blocks.        *)
(*                                                                         *)
(* Startup: at every moment of a start the threads find their components,  *)
(* workers that came to the end agree on the set-up of the shard, and only *)
(* a worker that is complete says it is initialized.                       *)
(* ShardParentchains: the shard has its vault on one parentchain, and what *)
(* it knows of its creation does not change any more.                      *)
(* EnclaveBridge: what an ecall or an ocall reports is what happened.      *)
(* OffchainWorker: with one parentchain thread the effects of a call are   *)
(* sent at most once, and what was executed stays in the state.            *)
(***************************************************************************)
EXTENDS Startup, ShardParentchains, EnclaveBridge, OffchainWorker,
        FiniteSetTheorems, SequenceTheorems, TLAPS

\* The components, each on its own.
StartupSpec == StartupInit /\ [][StartupNext]_startupVars
ShardParentchainsSpec == ShardParentchainsInit /\ [][ShardParentchainsNext]_shardParentchainsVars

-----------------------------------------------------------------------------
(* Startup: types.                                                         *)

\* The way through main and start_worker, from the registration and from the mode on.
Following == {"targets", "target_metadata", "production", "running"}
FromRegister == {"register", "primary", "shard_config", "mode"} \cup Following
FromPrimary ==
    {"primary", "shard_config", "reinit_integritee", "reset_metadata", "mode"} \cup Following
Points ==
    {"down", "servers", "init_integritee", "set_metadata"} \cup FromRegister \cup FromPrimary

\* The threads: the servers, those that follow the chains, and one for each target.
Servers == {"provisioning_server", "direct_invocation", "untrusted_rpc"}
Followers == {"Integritee", "polling", "reregistration", "market_update", "block_production"}

Components ==
    init_enclave \cup SidechainComponents \cup {"WEB_SOCKET_SERVER"}
    \cup {Handler(c) : c \in StartChains}
Told == {"registered_on_parentchain", "worker_for_shard_registered", "sidechain_block_produced"}

TargetLists == {<<>>, <<"TargetA">>, <<"TargetB">>, <<"TargetA", "TargetB">>}
Todos == {s \in TargetLists : Range(s) \subseteq Targets}
Accounts == StartWorkers \cup {Nobody}
Setups == [exists : BOOLEAN, creation : [StartChains -> Accounts], vault : Accounts]

StartupTyped ==
    /\ workerMode \in {"Sidechain", "OffChainWorker", "Teeracle"}
    /\ startPc \in [StartWorkers -> Points]
    /\ todoTargets \in [StartWorkers -> Todos]
    /\ global_components \in [StartWorkers -> SUBSET Components]
    /\ metadataOf \in [StartWorkers -> SUBSET StartChains]
    /\ nonceOf \in [StartWorkers -> SUBSET StartChains]
    /\ threads \in [StartWorkers -> SUBSET (Servers \cup Followers \cup Targets)]
    /\ isPrimary \in [StartWorkers -> BOOLEAN]
    /\ progress \in [StartWorkers -> SUBSET Told]
    /\ shardSetup \in [StartWorkers -> Setups]
    /\ enclaves \in SUBSET StartWorkers
    /\ shardStatus \in Seq(StartWorkers)
    /\ founders \in SUBSET StartWorkers /\ IsFiniteSet(founders)

-----------------------------------------------------------------------------
(* The inductive invariant: each worker by itself.                         *)

\* What the process of a worker has at each point of its way.
Process(w) ==
    /\ startPc[w] = "down" => threads[w] = {} /\ progress[w] = {}
    /\ startPc[w] # "down" => init_enclave \subseteq global_components[w]
    /\ startPc[w] \notin {"down", "servers", "init_integritee"} => shardSetup[w].exists
    /\ startPc[w] \in FromRegister => CanCreateExtrinsics(w, "Integritee")
    /\ startPc[w] \in FromPrimary => w \in enclaves
    /\ startPc[w] \in {"production", "running"} => shardSetup[w].vault # Nobody

\* What its threads rely on.
ThreadsServed(w) ==
    /\ startPc[w] \notin Following => threads[w] \subseteq Servers
    /\ "direct_invocation" \in threads[w] => "WEB_SOCKET_SERVER" \in global_components[w]
    /\ \A c \in Targets : c \in threads[w] =>
          CanCreateExtrinsics(w, c) /\ c \notin Range(todoTargets[w])
    /\ "block_production" \in threads[w] =>
          /\ startPc[w] = "running" /\ workerMode = "Sidechain"
          /\ SidechainComponents \subseteq global_components[w]

\* What its initialization handler was told is so.
ProgressTrue(w) ==
    /\ "worker_for_shard_registered" \in progress[w] => shardStatus # <<>>
    /\ "sidechain_block_produced" \in progress[w] => startPc[w] = "running"

WorkerInv(w) == Process(w) /\ ThreadsServed(w) /\ ProgressTrue(w)

-----------------------------------------------------------------------------
(* The inductive invariant: the shard.                                     *)

\* The primary is a founder that the parentchain knows as a signer.
Founding ==
    /\ workerMode = "Teeracle" => shardStatus = <<>>
    /\ shardStatus # <<>> => Head(shardStatus) \in founders
    /\ \A w \in StartWorkers : startPc[w] = "shard_config" =>
          w \in founders /\ workerMode # "Teeracle"
    /\ \A w \in StartWorkers : isPrimary[w] /\ workerMode # "Teeracle" =>
          w \in founders /\ Contains(shardStatus, w)

\* The shard is untouched by the two things that break it.
Orderly ==
    /\ \A u, v \in founders : u = v
    /\ wiped = {} /\ workerMode # "Teeracle"

FullSetup(s, f) == s.exists /\ s.vault = f /\ \A c \in StartChains : s.creation[c] = f

\* What the founder has in its state is its own, and grows on its way.
FounderSetup(f) ==
    /\ \A c \in StartChains : shardSetup[f].creation[c] \in {Nobody, f}
    /\ startPc[f] = "shard_config" \/ Contains(shardStatus, f) =>
          shardSetup[f].creation["Integritee"] = f
    /\ startPc[f] \in {"targets", "target_metadata"} =>
          \A c \in Targets : c \in Range(todoTargets[f]) \/ shardSetup[f].creation[c] = f
    /\ startPc[f] = "target_metadata" /\ todoTargets[f] # <<>> =>
          shardSetup[f].creation[Head(todoTargets[f])] = f

\* A state with a vault is the whole state of the founder.
Settled ==
    Orderly =>
        /\ \A f \in founders : FounderSetup(f)
        /\ \A w \in StartWorkers : shardSetup[w].vault # Nobody =>
              \E f \in founders : FullSetup(shardSetup[w], f)

StartInv ==
    /\ StartupTyped
    /\ \A w \in StartWorkers : WorkerInv(w)
    /\ Founding /\ Settled

-----------------------------------------------------------------------------
(* Lemmas about the model's operators.                                     *)

\* The lists of targets that are still to initialize: their head is the next one.
LEMMA TodoLists ==
    /\ <<>> \in Todos /\ Range(<<>>) = {}
    /\ ConfiguredTargets \in Todos /\ Range(ConfiguredTargets) = Targets
    /\ \A s \in Todos : s # <<>> =>
          /\ Head(s) \in Targets /\ Tail(s) \in Todos
          /\ Head(s) \notin Range(Tail(s))
          /\ Range(s) = {Head(s)} \cup Range(Tail(s))
<1>1. /\ Range(<<>>) = {}
      /\ Range(<<"TargetA">>) = {"TargetA"} /\ Range(<<"TargetB">>) = {"TargetB"}
      /\ Range(<<"TargetA", "TargetB">>) = {"TargetA", "TargetB"}
  <2>1. DOMAIN <<>> = {} /\ DOMAIN <<"TargetA">> = {1} /\ DOMAIN <<"TargetB">> = {1}
    OBVIOUS
  <2>2. DOMAIN <<"TargetA", "TargetB">> = {1, 2}
    OBVIOUS
  <2>3. Range(<<>>) = {}
    <3>1. \A e : e \notin Range(<<>>)
      BY <2>1 DEF Range
    <3> QED BY <3>1
  <2>4. Range(<<"TargetA">>) = {"TargetA"} /\ Range(<<"TargetB">>) = {"TargetB"}
    BY <2>1 DEF Range
  <2>5. Range(<<"TargetA", "TargetB">>) = {"TargetA", "TargetB"}
    BY <2>2 DEF Range
  <2> QED BY <2>3, <2>4, <2>5
<1>2. /\ Head(<<"TargetA">>) = "TargetA" /\ Tail(<<"TargetA">>) = <<>>
      /\ Head(<<"TargetB">>) = "TargetB" /\ Tail(<<"TargetB">>) = <<>>
      /\ Head(<<"TargetA", "TargetB">>) = "TargetA"
      /\ Tail(<<"TargetA", "TargetB">>) = <<"TargetB">>
  OBVIOUS
<1>3. <<>> \in Todos
  BY <1>1 DEF Todos, TargetLists
<1>4. ConfiguredTargets \in TargetLists /\ Range(ConfiguredTargets) = Targets
  <2>1. CASE "TargetA" \in Targets /\ "TargetB" \in Targets
    <3>1. ConfiguredTargets = <<"TargetA", "TargetB">>
      <4> DEFINE two == <<"TargetA">> \o <<"TargetB">>
                 both == <<"TargetA", "TargetB">>
      <4>1. /\ two \in Seq({"TargetA", "TargetB"})
            /\ Len(two) = 2 /\ two[1] = "TargetA" /\ two[2] = "TargetB"
        OBVIOUS
      <4>2. /\ both \in Seq({"TargetA", "TargetB"})
            /\ Len(both) = 2 /\ both[1] = "TargetA" /\ both[2] = "TargetB"
        OBVIOUS
      <4>3. ConfiguredTargets = two
        BY <2>1 DEF ConfiguredTargets
      <4> HIDE DEF two, both
      <4>4. \A i \in 1..Len(two) : two[i] = both[i]
        BY <4>1, <4>2
      <4>5. two = both
        BY <4>1, <4>2, <4>4, SeqEqual
      <4> QED BY <4>3, <4>5 DEF both
    <3> QED BY <3>1, <2>1, <1>1, StartupAssumption DEF TargetLists
  <2>2. CASE "TargetA" \in Targets /\ "TargetB" \notin Targets
    <3>1. ConfiguredTargets = <<"TargetA">>
      BY <2>2 DEF ConfiguredTargets
    <3> QED BY <3>1, <2>2, <1>1, StartupAssumption DEF TargetLists
  <2>3. CASE "TargetA" \notin Targets /\ "TargetB" \in Targets
    <3>1. ConfiguredTargets = <<"TargetB">>
      BY <2>3 DEF ConfiguredTargets
    <3> QED BY <3>1, <2>3, <1>1, StartupAssumption DEF TargetLists
  <2>4. CASE "TargetA" \notin Targets /\ "TargetB" \notin Targets
    <3>1. ConfiguredTargets = <<>>
      BY <2>4 DEF ConfiguredTargets
    <3> QED BY <3>1, <2>4, <1>1, StartupAssumption DEF TargetLists
  <2> QED BY <2>1, <2>2, <2>3, <2>4
<1>5. ASSUME NEW s \in Todos, s # <<>>
      PROVE /\ Head(s) \in Targets /\ Tail(s) \in Todos
            /\ Head(s) \notin Range(Tail(s))
            /\ Range(s) = {Head(s)} \cup Range(Tail(s))
  <2>1. CASE s = <<"TargetA">>
    BY <2>1, <1>1, <1>2 DEF Todos, TargetLists
  <2>2. CASE s = <<"TargetB">>
    BY <2>2, <1>1, <1>2 DEF Todos, TargetLists
  <2>3. CASE s = <<"TargetA", "TargetB">>
    BY <2>3, <1>1, <1>2 DEF Todos, TargetLists
  <2> QED BY <2>1, <2>2, <2>3, <1>5 DEF Todos, TargetLists
<1> QED BY <1>1, <1>3, <1>4, <1>5 DEF Todos

\* The handler that init of a parentchain sets is the one the others look for.
LEMMA HandlerIsFound ==
    ASSUME NEW c \in StartChains
    PROVE Handler(c) \in {HandlersOf[c].Solochain, HandlersOf[c].Parachain}
<1>1. c \in {"Integritee", "TargetA", "TargetB"}
  BY StartupAssumption DEF StartChains
<1>2. CASE c = "Integritee"
  <2>1. /\ HandlersOf[c]["Solochain"] = "INTEGRITEE_SOLOCHAIN_HANDLER"
        /\ HandlersOf[c].Solochain = "INTEGRITEE_SOLOCHAIN_HANDLER"
        /\ HandlersOf[c]["Parachain"] = "INTEGRITEE_PARACHAIN_HANDLER"
        /\ HandlersOf[c].Parachain = "INTEGRITEE_PARACHAIN_HANDLER"
    BY <1>2 DEF HandlersOf
  <2>2. CASE c \in GrandpaChains
    BY <2>1, <2>2 DEF Handler, InitParams
  <2>3. CASE c \notin GrandpaChains
    BY <2>1, <2>3 DEF Handler, InitParams
  <2> QED BY <2>2, <2>3
<1>3. CASE c = "TargetA"
  <2>1. /\ HandlersOf[c]["Solochain"] = "TARGET_A_SOLOCHAIN_HANDLER"
        /\ HandlersOf[c].Solochain = "TARGET_A_SOLOCHAIN_HANDLER"
        /\ HandlersOf[c]["Parachain"] = "TARGET_A_PARACHAIN_HANDLER"
        /\ HandlersOf[c].Parachain = "TARGET_A_PARACHAIN_HANDLER"
    BY <1>3 DEF HandlersOf
  <2>2. CASE c \in GrandpaChains
    BY <2>1, <2>2 DEF Handler, InitParams
  <2>3. CASE c \notin GrandpaChains
    BY <2>1, <2>3 DEF Handler, InitParams
  <2> QED BY <2>2, <2>3
<1>4. CASE c = "TargetB"
  <2>1. /\ HandlersOf[c]["Solochain"] = "TARGET_B_SOLOCHAIN_HANDLER"
        /\ HandlersOf[c].Solochain = "TARGET_B_SOLOCHAIN_HANDLER"
        /\ HandlersOf[c]["Parachain"] = "TARGET_B_PARACHAIN_HANDLER"
        /\ HandlersOf[c].Parachain = "TARGET_B_PARACHAIN_HANDLER"
    BY <1>4 DEF HandlersOf
  <2>2. CASE c \in GrandpaChains
    BY <2>1, <2>2 DEF Handler, InitParams
  <2>3. CASE c \notin GrandpaChains
    BY <2>1, <2>3 DEF Handler, InitParams
  <2> QED BY <2>2, <2>3
<1> QED BY <1>1, <1>2, <1>3, <1>4

\* A signer that is added is one of the signers, and the primary stays.
LEMMA SignerAdded ==
    ASSUME NEW s \in Seq(StartWorkers), NEW w \in StartWorkers,
           NEW t, t = IF Contains(s, w) THEN s ELSE Append(s, w)
    PROVE /\ t \in Seq(StartWorkers) /\ t # <<>>
          /\ s # <<>> => Head(t) = Head(s)
          /\ s = <<>> => Head(t) = w
          /\ \A v \in StartWorkers : Contains(t, v) <=> Contains(s, v) \/ v = w
<1>1. CASE Contains(s, w)
  BY <1>1 DEF Contains
<1>2. CASE ~Contains(s, w)
  <2>1. t = Append(s, w) /\ Len(t) = Len(s) + 1 /\ t[Len(t)] = w /\ t \in Seq(StartWorkers)
    BY <1>2
  <2>2. \A i \in 1..Len(s) : t[i] = s[i]
    BY <2>1
  <2>3. \A v \in StartWorkers : Contains(t, v) <=> Contains(s, v) \/ v = w
    BY <2>1, <2>2 DEF Contains
  <2> QED BY <2>1, <2>2, <2>3
<1> QED BY <1>1, <1>2

\* The sets that the types are made of.
LEMMA Parts ==
    /\ init_enclave \subseteq Components /\ SidechainComponents \subseteq Components
    /\ "WEB_SOCKET_SERVER" \in Components
    /\ \A c \in StartChains : Handler(c) \in Components
    /\ "Integritee" \in StartChains /\ Targets \subseteq StartChains
    /\ "Integritee" \notin Targets
BY StartupAssumption DEF Components, StartChains

\* The state of a shard that was just initialized: nothing is set up yet.
LEMMA InitialSetups ==
    /\ NoSetup \in Setups /\ NoSetup.vault = Nobody
    /\ InitialSetup \in Setups /\ InitialSetup.exists /\ InitialSetup.vault = Nobody
    /\ \A c \in StartChains : InitialSetup.creation[c] = Nobody
<1>1. NoSetup \in Setups /\ NoSetup.vault = Nobody
  BY DEF NoSetup, Setups, Accounts
<1>2. InitialSetup \in Setups
  BY <1>1 DEF InitialSetup, Setups
<1>3. InitialSetup.exists /\ InitialSetup.vault = NoSetup.vault
      /\ InitialSetup.creation = NoSetup.creation
  BY <1>1 DEF InitialSetup, Setups
<1>4. \A c \in StartChains : NoSetup.creation[c] = Nobody
  BY DEF NoSetup
<1> QED BY <1>1, <1>2, <1>3, <1>4

-----------------------------------------------------------------------------
(* Steps of one worker.                                                    *)

SameRow(v) ==
    /\ startPc'[v] = startPc[v] /\ todoTargets'[v] = todoTargets[v]
    /\ global_components'[v] = global_components[v]
    /\ metadataOf'[v] = metadataOf[v] /\ nonceOf'[v] = nonceOf[v]
    /\ threads'[v] = threads[v] /\ progress'[v] = progress[v]
    /\ isPrimary'[v] = isPrimary[v] /\ shardSetup'[v] = shardSetup[v]

\* A step of w: the others keep what they have, and the parentchain forgets nothing.
StepOf(w) ==
    /\ \A v \in StartWorkers \ {w} : SameRow(v)
    /\ workerMode' = workerMode
    /\ enclaves \subseteq enclaves' /\ (shardStatus # <<>> => shardStatus' # <<>>)

\* A step of w that leaves the shard as it is.
QuietStep(w) ==
    /\ StepOf(w)
    /\ shardStatus' = shardStatus /\ founders' = founders /\ wiped' = wiped
    /\ shardSetup' = shardSetup
    /\ isPrimary'[w] => isPrimary[w]
    /\ startPc'[w] = "shard_config" => startPc[w] = "shard_config"
    /\ startPc'[w] \in {"targets", "target_metadata"} =>
          startPc'[w] = startPc[w] /\ todoTargets'[w] = todoTargets[w]

\* The other workers' rows and what they rely on stay.
LEMMA OthersStay ==
    ASSUME NEW w \in StartWorkers, StepOf(w), NEW v \in StartWorkers \ {w}, WorkerInv(v)
    PROVE WorkerInv(v)'
<1>1. SameRow(v) /\ workerMode' = workerMode /\ enclaves \subseteq enclaves'
      /\ (shardStatus # <<>> => shardStatus' # <<>>)
  BY DEF StepOf
<1>2. \A c : CanCreateExtrinsics(v, c) => CanCreateExtrinsics(v, c)'
  BY <1>1, Zenon DEF CanCreateExtrinsics, get_extrinsic_factory, SoloOrParachain, SameRow
<1>3. Process(v)'
  BY <1>1, <1>2 DEF WorkerInv, Process, SameRow
<1>4. ThreadsServed(v)'
  BY <1>1, <1>2 DEF WorkerInv, ThreadsServed, SameRow
<1>5. ProgressTrue(v)'
  BY <1>1 DEF WorkerInv, ProgressTrue, SameRow
<1> QED BY <1>3, <1>4, <1>5 DEF WorkerInv

\* A quiet step only has to keep what its own worker relies on.
LEMMA QuietSteps ==
    ASSUME StartInv, NEW w \in StartWorkers, QuietStep(w), StartupTyped', WorkerInv(w)'
    PROVE StartInv'
<1>1. StepOf(w)
  BY DEF QuietStep
<1>2. \A v \in StartWorkers : WorkerInv(v)'
  BY <1>1, OthersStay DEF StartInv
<1>3. \A v \in StartWorkers \ {w} : SameRow(v)
  BY <1>1 DEF StepOf
<1>4. Founding'
  BY <1>1, <1>3 DEF StartInv, Founding, QuietStep, StepOf, SameRow
<1>5. Settled'
  <2> SUFFICES ASSUME Orderly' PROVE Settled!2'
    BY DEF Settled
  <2>1. Orderly
    BY <1>1 DEF Orderly, QuietStep, StepOf
  <2>2. /\ \A f \in founders : FounderSetup(f)
        /\ \A v \in StartWorkers : shardSetup[v].vault # Nobody =>
              \E f \in founders : FullSetup(shardSetup[v], f)
    BY <2>1 DEF StartInv, Settled
  <2>3. ASSUME NEW f \in founders PROVE FounderSetup(f)'
    <3>1. FounderSetup(f) /\ f \in StartWorkers
      BY <2>2 DEF StartInv, StartupTyped
    <3>2. CASE f = w
      BY <3>1, <3>2 DEF FounderSetup, QuietStep
    <3>3. CASE f # w
      BY <3>1, <3>3, <1>3 DEF FounderSetup, QuietStep, SameRow
    <3> QED BY <3>2, <3>3
  <2> QED BY <2>2, <2>3 DEF QuietStep
<1> QED BY <1>2, <1>4, <1>5 DEF StartInv

\* A worker that stops loses its process; what it has in its state stays.
LEMMA Stops ==
    ASSUME StartInv, NEW w \in StartWorkers, stop(w)
    PROVE StartInv'
<1>1. StartupTyped'
  BY DEF StartInv, StartupTyped, stop, Goto, Points, chainVars, historyVars
<1>2. QuietStep(w)
  BY DEF StartInv, StartupTyped, stop, Goto, QuietStep, StepOf, SameRow, chainVars, historyVars
<1>3. startPc'[w] = "down" /\ threads'[w] = {} /\ progress'[w] = {}
  BY DEF StartInv, StartupTyped, stop, Goto
<1>4. WorkerInv(w)'
  BY <1>3 DEF WorkerInv, Process, ThreadsServed, ProgressTrue, FromRegister, FromPrimary, Following
<1> QED BY <1>1, <1>2, <1>4, QuietSteps

\* main initializes the components of the enclave. A clean reset of a worker that is
\* no signer leaves nothing to disagree about.
LEMMA Mains ==
    ASSUME StartInv, NEW w \in StartWorkers, NEW clean \in BOOLEAN, main(w, clean)
    PROVE StartInv'
<1>1. shardSetup' = IF clean THEN [shardSetup EXCEPT ![w] = InitialSetup] ELSE shardSetup
  BY DEF main
<1>2. shardSetup' \in [StartWorkers -> Setups]
  BY <1>1, InitialSetups DEF StartInv, StartupTyped
<1>3. StartupTyped'
  BY <1>2, Parts DEF StartInv, StartupTyped, main, init, Goto, Points, chainVars
<1>4. StepOf(w)
  BY DEF StartInv, StartupTyped, main, init, Goto, StepOf, SameRow, chainVars
<1>5. /\ startPc[w] = "down" /\ startPc'[w] = "servers"
      /\ global_components'[w] = init_enclave
      /\ threads'[w] = threads[w] /\ progress'[w] = progress[w]
  BY DEF StartInv, StartupTyped, main, init, Goto
<1>6. threads[w] = {} /\ progress[w] = {}
  BY <1>5 DEF StartInv, WorkerInv, Process
<1>7. WorkerInv(w)'
  BY <1>5, <1>6
    DEF WorkerInv, Process, ThreadsServed, ProgressTrue, FromRegister, FromPrimary, Following
<1>8. \A v \in StartWorkers : WorkerInv(v)'
  BY <1>4, <1>7, OthersStay DEF StartInv
<1>9. Founding'
  BY <1>5 DEF StartInv, StartupTyped, Founding, main, Goto, chainVars
<1>10. Settled'
  <2> SUFFICES ASSUME Orderly' PROVE Settled!2'
    BY DEF Settled
  <2>1. Orderly /\ founders' = founders /\ shardStatus' = shardStatus
    BY DEF Orderly, main, chainVars
  <2>2. clean => ~Contains(shardStatus, w)
    BY DEF Orderly, main
  <2>3. /\ \A f \in founders : FounderSetup(f)
        /\ \A v \in StartWorkers : shardSetup[v].vault # Nobody =>
              \E f \in founders : FullSetup(shardSetup[v], f)
    BY <2>1 DEF StartInv, Settled
  <2>4. ASSUME NEW f \in founders PROVE FounderSetup(f)'
    <3>1. FounderSetup(f) /\ f \in StartWorkers
      BY <2>3 DEF StartInv, StartupTyped
    <3>2. CASE f = w /\ clean
      <4>1. shardSetup'[w] = InitialSetup
        BY <1>1, <3>2 DEF StartInv, StartupTyped
      <4> QED BY <3>2, <4>1, <2>1, <2>2, <1>5, InitialSetups DEF FounderSetup
    <3>3. CASE f = w /\ ~clean
      BY <3>1, <3>3, <2>1, <1>1, <1>5 DEF FounderSetup
    <3>4. CASE f # w
      <4>1. SameRow(f)
        BY <3>1, <3>4, <1>4 DEF StepOf
      <4> QED BY <3>1, <4>1, <2>1 DEF FounderSetup, SameRow
    <3> QED BY <3>2, <3>3, <3>4
  <2>5. ASSUME NEW v \in StartWorkers, shardSetup'[v].vault # Nobody
        PROVE \E f \in founders : FullSetup(shardSetup'[v], f)
    <3>1. shardSetup'[v] = shardSetup[v]
      BY <2>5, <1>1, InitialSetups DEF StartInv, StartupTyped
    <3> QED BY <3>1, <2>3, <2>5
  <2> QED BY <2>1, <2>4, <2>5
<1> QED BY <1>3, <1>8, <1>9, <1>10 DEF StartInv

\* The servers start with what init set.
LEMMA Serves ==
    ASSUME StartInv, NEW w \in StartWorkers, start_servers(w)
    PROVE StartInv'
<1> DEFINE web == init_direct_invocation_server(w)
<1>1. /\ threads' = [threads EXCEPT ![w] =
              {"provisioning_server"}
              \cup (IF workerMode # "Teeracle" THEN {"direct_invocation"} ELSE {})
              \cup (IF workerMode = "Sidechain" THEN {"untrusted_rpc"} ELSE {})]
      /\ global_components' =
            [global_components EXCEPT ![w] = global_components[w] \cup web]
      /\ startPc' = [startPc EXCEPT ![w] = "init_integritee"] /\ startPc[w] = "servers"
      /\ UNCHANGED <<todoTargets, metadataOf, nonceOf, isPrimary, progress, shardSetup>>
      /\ UNCHANGED <<enclaves, shardStatus, workerMode, starts, founders, wiped>>
  BY DEF start_servers, Goto, chainVars, historyVars
<1>2. web \subseteq Components
  BY Parts DEF init_direct_invocation_server
<1>3. init_enclave \subseteq global_components[w] /\ threads[w] \subseteq Servers
      /\ ("sidechain_block_produced" \in progress[w] => startPc[w] = "running")
      /\ ("worker_for_shard_registered" \in progress[w] => shardStatus # <<>>)
  BY <1>1 DEF StartInv, WorkerInv, Process, ThreadsServed, ProgressTrue, Following
<1>4. workerMode # "Teeracle" => "WEB_SOCKET_SERVER" \in web
  BY <1>3 DEF init_direct_invocation_server, init_enclave, KeyRepositories
<1> HIDE DEF web
<1>5. StartupTyped'
  BY <1>1, <1>2 DEF StartInv, StartupTyped, Points, Servers
<1>6. QuietStep(w)
  BY <1>1 DEF StartInv, StartupTyped, QuietStep, StepOf, SameRow
<1>7. /\ startPc'[w] = "init_integritee" /\ threads'[w] \subseteq Servers
      /\ global_components'[w] = global_components[w] \cup web
      /\ "direct_invocation" \in threads'[w] => workerMode # "Teeracle"
  BY <1>1 DEF StartInv, StartupTyped, Servers
<1>8. WorkerInv(w)'
  <2>1. Process(w)'
    BY <1>3, <1>7 DEF Process, FromRegister, FromPrimary, Following
  <2>2. ThreadsServed(w)'
    BY <1>4, <1>7, StartupAssumption DEF ThreadsServed, Servers
  <2>3. ProgressTrue(w)'
    BY <1>1, <1>3 DEF ProgressTrue
  <2> QED BY <2>1, <2>2, <2>3 DEF WorkerInv
<1> QED BY <1>5, <1>6, <1>8, QuietSteps

\* Adding components, nonces or the metadata of a chain takes nothing from the others.
LEMMA HandlersGrow ==
    ASSUME NEW w \in StartWorkers, NEW c,
           global_components[w] \subseteq global_components'[w],
           nonceOf[w] \subseteq nonceOf'[w],
           c \in metadataOf[w] => c \in metadataOf'[w],
           CanCreateExtrinsics(w, c)
    PROVE CanCreateExtrinsics(w, c)'
BY Zenon DEF CanCreateExtrinsics, get_extrinsic_factory, SoloOrParachain

\* A handler with nonce and metadata makes extrinsics.
LEMMA HandlerIsReady ==
    ASSUME NEW w \in StartWorkers, NEW c, get_node_metadata_repository(w, c),
           global_components' = global_components,
           c \in nonceOf'[w], c \in metadataOf'[w]
    PROVE CanCreateExtrinsics(w, c)'
BY DEF CanCreateExtrinsics, get_extrinsic_factory, SoloOrParachain, get_node_metadata_repository

\* The handler of the Integritee parentchain: while it is new there are only servers.
LEMMA InitializesIntegritee ==
    ASSUME StartInv, NEW w \in StartWorkers, init_integritee(w)
    PROVE StartInv'
<1>1. CASE stop(w)
  BY <1>1, Stops
<1>2. CASE /\ startPc[w] \in {"init_integritee", "reinit_integritee"}
           /\ init_parentchain_components(w, "Integritee")
           /\ Goto(w, IF startPc[w] = "init_integritee" THEN "set_metadata" ELSE "reset_metadata")
           /\ UNCHANGED <<todoTargets, threads, isPrimary, progress, shardSetup>>
           /\ UNCHANGED <<chainVars, historyVars>>
  <2>1. /\ startPc[w] \in {"init_integritee", "reinit_integritee"} /\ shardSetup[w].exists
        /\ startPc' = [startPc EXCEPT ![w] =
              IF startPc[w] = "init_integritee" THEN "set_metadata" ELSE "reset_metadata"]
        /\ global_components' =
              [global_components EXCEPT ![w] = global_components[w] \cup {Handler("Integritee")}]
        /\ metadataOf' = [metadataOf EXCEPT ![w] = metadataOf[w] \ {"Integritee"}]
        /\ UNCHANGED <<nonceOf, todoTargets, threads, isPrimary, progress, shardSetup>>
        /\ UNCHANGED <<enclaves, shardStatus, workerMode, starts, founders, wiped>>
    BY <1>2 DEF init_parentchain_components, Goto, chainVars, historyVars
  <2>2. /\ init_enclave \subseteq global_components[w] /\ threads[w] \subseteq Servers
        /\ startPc[w] = "reinit_integritee" => w \in enclaves
        /\ "direct_invocation" \in threads[w] => "WEB_SOCKET_SERVER" \in global_components[w]
        /\ "sidechain_block_produced" \notin progress[w]
        /\ "worker_for_shard_registered" \in progress[w] => shardStatus # <<>>
    BY <2>1 DEF StartInv, WorkerInv, Process, ThreadsServed, ProgressTrue, Following, FromPrimary
  <2>3. StartupTyped'
    BY <2>1, Parts DEF StartInv, StartupTyped, Points, FromPrimary
  <2>4. QuietStep(w)
    BY <2>1 DEF StartInv, StartupTyped, QuietStep, StepOf, SameRow
  <2>5. /\ startPc[w] = "init_integritee" => startPc'[w] = "set_metadata"
        /\ startPc[w] = "reinit_integritee" => startPc'[w] = "reset_metadata"
        /\ global_components[w] \subseteq global_components'[w]
    BY <2>1 DEF StartInv, StartupTyped
  <2>6. Process(w)'
    BY <2>1, <2>2, <2>5 DEF Process, FromRegister, FromPrimary, Following
  <2>7. ThreadsServed(w)'
    BY <2>1, <2>2, <2>5, StartupAssumption DEF ThreadsServed, Servers
  <2>8. ProgressTrue(w)'
    BY <2>1, <2>2 DEF ProgressTrue
  <2> QED BY <2>3, <2>4, <2>6, <2>7, <2>8, QuietSteps DEF WorkerInv
<1>3. CASE /\ startPc[w] \in {"set_metadata", "reset_metadata"}
           /\ set_nonce_and_metadata(w, "Integritee")
           /\ Goto(w, IF startPc[w] = "set_metadata" THEN "register" ELSE "mode")
           /\ UNCHANGED <<todoTargets, threads, isPrimary, progress, shardSetup>>
           /\ UNCHANGED <<chainVars, historyVars>>
  <2>1. /\ startPc[w] \in {"set_metadata", "reset_metadata"}
        /\ startPc' = [startPc EXCEPT ![w] =
              IF startPc[w] = "set_metadata" THEN "register" ELSE "mode"]
        /\ nonceOf' = [nonceOf EXCEPT ![w] = nonceOf[w] \cup {"Integritee"}]
        /\ metadataOf' = [metadataOf EXCEPT ![w] = metadataOf[w] \cup {"Integritee"}]
        /\ get_node_metadata_repository(w, "Integritee")
        /\ UNCHANGED <<global_components, todoTargets, threads, isPrimary, progress, shardSetup>>
        /\ UNCHANGED <<enclaves, shardStatus, workerMode, starts, founders, wiped>>
    BY <1>3 DEF set_nonce_and_metadata, Goto, chainVars, historyVars
  <2>2. /\ init_enclave \subseteq global_components[w] /\ threads[w] \subseteq Servers
        /\ startPc[w] = "reset_metadata" => w \in enclaves
        /\ shardSetup[w].exists
        /\ "direct_invocation" \in threads[w] => "WEB_SOCKET_SERVER" \in global_components[w]
        /\ "sidechain_block_produced" \notin progress[w]
        /\ "worker_for_shard_registered" \in progress[w] => shardStatus # <<>>
    BY <2>1 DEF StartInv, WorkerInv, Process, ThreadsServed, ProgressTrue, Following, FromPrimary
  <2>3. StartupTyped'
    BY <2>1, Parts DEF StartInv, StartupTyped, Points, FromRegister
  <2>4. QuietStep(w)
    BY <2>1 DEF StartInv, StartupTyped, QuietStep, StepOf, SameRow
  <2>5. /\ startPc[w] = "set_metadata" => startPc'[w] = "register"
        /\ startPc[w] = "reset_metadata" => startPc'[w] = "mode"
        /\ "Integritee" \in nonceOf'[w] /\ "Integritee" \in metadataOf'[w]
    BY <2>1 DEF StartInv, StartupTyped
  <2>6. CanCreateExtrinsics(w, "Integritee")'
    BY <2>1, <2>5, HandlerIsReady
  <2>7. Process(w)'
    BY <2>1, <2>2, <2>5, <2>6 DEF Process, FromRegister, FromPrimary, Following
  <2>8. ThreadsServed(w)'
    BY <2>1, <2>2, <2>5, StartupAssumption DEF ThreadsServed, Servers
  <2>9. ProgressTrue(w)'
    BY <2>1, <2>2 DEF ProgressTrue
  <2> QED BY <2>3, <2>4, <2>7, <2>8, <2>9, QuietSteps DEF WorkerInv
<1> QED BY <1>1, <1>2, <1>3 DEF init_integritee

\* The enclave is registered before anything is asked about the shard.
LEMMA Registers ==
    ASSUME StartInv, NEW w \in StartWorkers, register_enclave(w)
    PROVE StartInv'
<1>1. /\ startPc[w] = "register" /\ startPc' = [startPc EXCEPT ![w] = "primary"]
      /\ enclaves' = enclaves \cup {w}
      /\ UNCHANGED <<global_components, metadataOf, nonceOf, todoTargets, threads>>
      /\ UNCHANGED <<isPrimary, progress, shardSetup>>
      /\ UNCHANGED <<shardStatus, workerMode, starts, founders, wiped>>
  BY DEF register_enclave, Goto, enclaveVars, historyVars
<1>2. WorkerInv(w) /\ CanCreateExtrinsics(w, "Integritee")
  BY DEF StartInv, register_enclave
<1>3. StartupTyped'
  BY <1>1 DEF StartInv, StartupTyped, Points, FromRegister
<1>4. QuietStep(w)
  BY <1>1 DEF StartInv, StartupTyped, QuietStep, StepOf, SameRow
<1>5. startPc'[w] = "primary"
  BY <1>1 DEF StartInv, StartupTyped
<1>6. CanCreateExtrinsics(w, "Integritee")'
  BY <1>1, <1>2, HandlersGrow
<1>7. Process(w)'
  BY <1>1, <1>2, <1>5, <1>6 DEF WorkerInv, Process, FromRegister, FromPrimary, Following
<1>8. ThreadsServed(w)' /\ ProgressTrue(w)'
  <2>1. threads[w] \subseteq Servers /\ "sidechain_block_produced" \notin progress[w]
    BY <1>1, <1>2 DEF WorkerInv, ThreadsServed, ProgressTrue, Following
  <2> QED BY <1>1, <1>2, <1>5, <2>1, StartupAssumption
        DEF WorkerInv, ThreadsServed, ProgressTrue, Servers
<1> QED BY <1>3, <1>4, <1>7, <1>8, QuietSteps DEF WorkerInv

\* On the way from the question who is the primary, only the state and the progress change.
LEMMA PrimaryGoesOn ==
    ASSUME StartInv, NEW w \in StartWorkers, startPc[w] \in {"primary", "shard_config"},
           startPc'[w] \in {"shard_config", "reinit_integritee", "mode"},
           shardSetup'[w].exists,
           progress'[w] \subseteq progress[w] \cup {"registered_on_parentchain"},
           UNCHANGED <<global_components, metadataOf, nonceOf, threads, workerMode, enclaves>>,
           shardStatus # <<>> => shardStatus' # <<>>
    PROVE WorkerInv(w)'
<1>1. WorkerInv(w) /\ threads[w] \subseteq Servers /\ "sidechain_block_produced" \notin progress[w]
  BY DEF StartInv, WorkerInv, ThreadsServed, ProgressTrue, Following
<1>2. CanCreateExtrinsics(w, "Integritee") /\ w \in enclaves
      /\ init_enclave \subseteq global_components[w]
  BY <1>1 DEF WorkerInv, Process, FromRegister, FromPrimary
<1>3. CanCreateExtrinsics(w, "Integritee")'
  BY <1>2, HandlersGrow
<1>4. Process(w)'
  BY <1>2, <1>3 DEF Process, Following
<1>5. ThreadsServed(w)'
  BY <1>1, StartupAssumption DEF WorkerInv, ThreadsServed, Servers
<1>6. ProgressTrue(w)'
  BY <1>1 DEF WorkerInv, ProgressTrue
<1> QED BY <1>4, <1>5, <1>6 DEF WorkerInv

\* The primary is the founder: it goes on with the set-up that it has.
LEMMA StaysPrimary ==
    ASSUME StartInv, NEW w \in StartWorkers, was_primary(w)
    PROVE StartInv'
<1>1. /\ startPc[w] = "primary" /\ startPc' = [startPc EXCEPT ![w] = "mode"]
      /\ isPrimary' = [isPrimary EXCEPT ![w] = TRUE]
      /\ progress' = [progress EXCEPT ![w] = progress[w] \cup {"registered_on_parentchain"}]
      /\ UNCHANGED <<global_components, metadataOf, nonceOf, todoTargets, threads, shardSetup>>
      /\ UNCHANGED <<enclaves, shardStatus, workerMode, starts, founders, wiped>>
  BY DEF was_primary, Registered, Goto, enclaveVars, chainVars, historyVars
<1>2. shardStatus # <<>> /\ Head(shardStatus) = w
  BY StartupAssumption DEF was_primary, primary_worker_for_shard, Nobody
<1>3. w \in founders /\ Contains(shardStatus, w)
  <2>1. shardStatus[1] = w /\ 1 \in 1..Len(shardStatus)
    BY <1>2 DEF StartInv, StartupTyped
  <2> QED BY <2>1, <1>2 DEF StartInv, Founding, Contains
<1>4. StartupTyped'
  BY <1>1 DEF StartInv, StartupTyped, Points, FromRegister, Told
<1>5. StepOf(w)
  BY <1>1 DEF StartInv, StartupTyped, StepOf, SameRow
<1>6. startPc'[w] = "mode" /\ progress'[w] = progress[w] \cup {"registered_on_parentchain"}
  BY <1>1 DEF StartInv, StartupTyped
<1>7. shardSetup'[w].exists
  BY <1>1 DEF StartInv, WorkerInv, Process
<1>8. WorkerInv(w)'
  BY <1>1, <1>6, <1>7, PrimaryGoesOn
<1>9. \A v \in StartWorkers : WorkerInv(v)'
  BY <1>5, <1>8, OthersStay DEF StartInv
<1>10. Founding'
  BY <1>1, <1>3 DEF StartInv, StartupTyped, Founding
<1>11. Settled'
  <2> SUFFICES ASSUME Orderly' PROVE Settled!2'
    BY DEF Settled
  <2>1. /\ \A f \in founders : FounderSetup(f)
        /\ \A v \in StartWorkers : shardSetup[v].vault # Nobody =>
              \E f \in founders : FullSetup(shardSetup[v], f)
    BY <1>1 DEF StartInv, Settled, Orderly
  <2>2. ASSUME NEW f \in founders PROVE FounderSetup(f)'
    <3>1. FounderSetup(f) /\ f \in StartWorkers
      BY <2>1 DEF StartInv, StartupTyped
    <3>2. startPc'[f] \in {startPc[f], "mode"}
      BY <3>1, <1>1 DEF StartInv, StartupTyped
    <3> QED BY <3>1, <3>2, <1>1 DEF FounderSetup
  <2> QED BY <2>1, <2>2, <1>1
<1> QED BY <1>4, <1>9, <1>10, <1>11 DEF StartInv

\* Who founds the shard starts with a new state. Whatever vault is there is the founder's.
LEMMA Founds ==
    ASSUME StartInv, NEW w \in StartWorkers, found_shard(w)
    PROVE StartInv'
<1> DEFINE mine == IF workerMode = "Teeracle" THEN InitialSetup
                   ELSE [InitialSetup EXCEPT !.creation["Integritee"] = w]
<1>1. /\ startPc[w] = "primary" /\ founders' = founders \cup {w} /\ shardStatus = <<>>
      /\ shardSetup' = [shardSetup EXCEPT ![w] = mine]
      /\ UNCHANGED <<global_components, metadataOf, nonceOf, todoTargets, threads>>
      /\ UNCHANGED <<enclaves, shardStatus, workerMode, starts, wiped>>
  <2>1. shardStatus = <<>>
    <3> SUFFICES ASSUME shardStatus # <<>> PROVE FALSE
      OBVIOUS
    <3>1. Head(shardStatus) \in StartWorkers /\ Head(shardStatus) = "nobody"
      BY DEF found_shard, primary_worker_for_shard, Nobody, StartInv, StartupTyped
    <3> QED BY <3>1, StartupAssumption
  <2> QED BY <2>1 DEF found_shard, enclaveVars, chainVars
<1>2. /\ mine \in Setups /\ mine.exists /\ mine.vault = Nobody
      /\ \A c \in StartChains : mine.creation[c] \in {Nobody, w}
      /\ workerMode # "Teeracle" => mine.creation["Integritee"] = w
  <2>1. InitialSetup.creation \in [StartChains -> Accounts]
    BY InitialSetups DEF Setups
  <2>2. [InitialSetup.creation EXCEPT !["Integritee"] = w] \in [StartChains -> Accounts]
    BY <2>1, Parts DEF Accounts
  <2>3. CASE workerMode = "Teeracle"
    BY <2>3, InitialSetups
  <2>4. CASE workerMode # "Teeracle"
    <3>1. mine \in Setups
      BY <2>2, <2>4, InitialSetups DEF Setups
    <3>2. mine.exists = InitialSetup.exists /\ mine.vault = InitialSetup.vault
          /\ mine.creation = [InitialSetup.creation EXCEPT !["Integritee"] = w]
      BY <2>4, InitialSetups DEF Setups
    <3>3. \A c \in StartChains : mine.creation[c] \in {Nobody, w}
      BY <3>2, <2>1, InitialSetups
    <3>4. mine.creation["Integritee"] = w
      BY <3>2, <2>1, Parts
    <3>5. mine.exists /\ mine.vault = Nobody
      BY <3>2, InitialSetups
    <3> HIDE DEF mine
    <3> QED BY <3>1, <3>3, <3>4, <3>5
  <2> QED BY <2>3, <2>4
<1> HIDE DEF mine
<1>3. \/ /\ workerMode = "Teeracle" /\ startPc' = [startPc EXCEPT ![w] = "mode"]
         /\ isPrimary' = [isPrimary EXCEPT ![w] = TRUE]
         /\ progress' = [progress EXCEPT ![w] = progress[w] \cup {"registered_on_parentchain"}]
      \/ /\ workerMode # "Teeracle" /\ startPc' = [startPc EXCEPT ![w] = "shard_config"]
         /\ UNCHANGED <<isPrimary, progress>>
  BY DEF found_shard, Registered, Goto
<1>4. StartupTyped'
  <2>1. IsFiniteSet(founders')
    BY <1>1, FS_AddElement DEF StartInv, StartupTyped
  <2>2. /\ startPc' \in [StartWorkers -> Points] /\ isPrimary' \in [StartWorkers -> BOOLEAN]
        /\ progress' \in [StartWorkers -> SUBSET Told]
    BY <1>3 DEF StartInv, StartupTyped, Points, FromRegister, Told
  <2> QED BY <1>1, <1>2, <2>1, <2>2 DEF StartInv, StartupTyped
<1>5. StepOf(w)
  BY <1>1, <1>3 DEF StartInv, StartupTyped, StepOf, SameRow
<1>6. /\ workerMode = "Teeracle" => startPc'[w] = "mode"
      /\ workerMode # "Teeracle" => startPc'[w] = "shard_config"
      /\ progress'[w] \subseteq progress[w] \cup {"registered_on_parentchain"}
      /\ shardSetup'[w] = mine
  BY <1>1, <1>3 DEF StartInv, StartupTyped
<1>7. WorkerInv(w)'
  BY <1>1, <1>2, <1>6, PrimaryGoesOn
<1>8. \A v \in StartWorkers : WorkerInv(v)'
  BY <1>5, <1>7, OthersStay DEF StartInv
<1>9. Founding'
  BY <1>1, <1>3 DEF StartInv, StartupTyped, Founding
<1>10. Settled'
  <2> SUFFICES ASSUME Orderly' PROVE Settled!2'
    BY DEF Settled
  <2>1. workerMode # "Teeracle" /\ Orderly /\ \A f \in founders' : f = w
    BY <1>1 DEF Orderly
  <2>2. \A v \in StartWorkers : shardSetup[v].vault # Nobody =>
              \E f \in founders : FullSetup(shardSetup[v], f)
    BY <2>1 DEF StartInv, Settled
  <2>3. FounderSetup(w)'
    <3>1. startPc'[w] = "shard_config" /\ ~Contains(shardStatus', w)
      BY <1>1, <1>6, <2>1 DEF Contains
    <3>2. /\ \A c \in StartChains : shardSetup'[w].creation[c] \in {Nobody, w}
          /\ shardSetup'[w].creation["Integritee"] = w
      BY <1>2, <1>6, <2>1
    <3> QED BY <3>1, <3>2 DEF FounderSetup
  <2>4. ASSUME NEW v \in StartWorkers, shardSetup'[v].vault # Nobody
        PROVE \E f \in founders' : FullSetup(shardSetup'[v], f)
    <3>1. v # w
      BY <2>4, <1>2, <1>6
    <3>2. shardSetup'[v] = shardSetup[v]
      BY <3>1, <1>1 DEF StartInv, StartupTyped
    <3>3. PICK f \in founders : FullSetup(shardSetup[v], f)
      BY <3>2, <2>4, <2>2
    <3> QED BY <3>2, <3>3, <1>1
  <2> QED BY <2>1, <2>3, <2>4
<1> QED BY <1>4, <1>8, <1>9, <1>10 DEF StartInv

\* A founder keeps its set-up when another worker takes a step.
LEMMA FounderStays ==
    ASSUME NEW f \in StartWorkers, FounderSetup(f), SameRow(f),
           Contains(shardStatus', f) => Contains(shardStatus, f)
    PROVE FounderSetup(f)'
BY DEF FounderSetup, SameRow

\* init_shard_config: the founder becomes a signer, the primary if it is the first.
LEMMA ConfiguresShard ==
    ASSUME StartInv, NEW w \in StartWorkers, init_shard_config(w)
    PROVE StartInv'
<1>1. /\ startPc[w] = "shard_config" /\ startPc' = [startPc EXCEPT ![w] = "reinit_integritee"]
      /\ shardStatus' = IF Contains(shardStatus, w) THEN shardStatus ELSE Append(shardStatus, w)
      /\ isPrimary' = [isPrimary EXCEPT ![w] = TRUE]
      /\ progress' = [progress EXCEPT ![w] = progress[w] \cup {"registered_on_parentchain"}]
      /\ UNCHANGED <<global_components, metadataOf, nonceOf, todoTargets, threads, shardSetup>>
      /\ UNCHANGED <<enclaves, workerMode, starts, founders, wiped>>
  BY DEF init_shard_config, Registered, Goto, enclaveVars, historyVars
<1>2. /\ shardStatus' \in Seq(StartWorkers) /\ shardStatus' # <<>>
      /\ shardStatus # <<>> => Head(shardStatus') = Head(shardStatus)
      /\ shardStatus = <<>> => Head(shardStatus') = w
      /\ \A v \in StartWorkers : Contains(shardStatus', v) <=> Contains(shardStatus, v) \/ v = w
  <2>1. shardStatus \in Seq(StartWorkers)
    BY DEF StartInv, StartupTyped
  <2> QED BY <1>1, <2>1, SignerAdded
<1>3. w \in founders /\ workerMode # "Teeracle"
  BY <1>1 DEF StartInv, Founding
<1>4. StartupTyped'
  BY <1>1, <1>2 DEF StartInv, StartupTyped, Points, FromPrimary, Told
<1>5. StepOf(w)
  BY <1>1, <1>2 DEF StartInv, StartupTyped, StepOf, SameRow
<1>6. startPc'[w] = "reinit_integritee"
      /\ progress'[w] = progress[w] \cup {"registered_on_parentchain"}
  BY <1>1 DEF StartInv, StartupTyped
<1>7. shardSetup'[w].exists
  BY <1>1 DEF StartInv, WorkerInv, Process
<1>8. WorkerInv(w)'
  BY <1>1, <1>2, <1>6, <1>7, PrimaryGoesOn
<1>9. \A v \in StartWorkers : WorkerInv(v)'
  BY <1>5, <1>8, OthersStay DEF StartInv
<1>10. Founding'
  <2>1. Head(shardStatus') \in founders'
    BY <1>1, <1>2, <1>3 DEF StartInv, Founding
  <2>2. \A v \in StartWorkers : startPc'[v] = "shard_config" => v \in founders'
    BY <1>1 DEF StartInv, StartupTyped, Founding
  <2>3. ASSUME NEW v \in StartWorkers, isPrimary'[v]
        PROVE v \in founders' /\ Contains(shardStatus', v)
    <3>1. CASE v = w
      BY <3>1, <1>1, <1>2, <1>3
    <3>2. CASE v # w
      <4>1. isPrimary[v]
        BY <2>3, <3>2, <1>1 DEF StartInv, StartupTyped
      <4> QED BY <4>1, <1>1, <1>2, <1>3 DEF StartInv, Founding
    <3> QED BY <3>1, <3>2
  <2> QED BY <2>1, <2>2, <2>3, <1>1, <1>3 DEF Founding
<1>11. Settled'
  <2> SUFFICES ASSUME Orderly' PROVE Settled!2'
    BY DEF Settled
  <2>1. /\ \A f \in founders : FounderSetup(f)
        /\ \A v \in StartWorkers : shardSetup[v].vault # Nobody =>
              \E f \in founders : FullSetup(shardSetup[v], f)
    BY <1>1 DEF StartInv, Settled, Orderly
  <2>2. FounderSetup(w)'
    <3>1. FounderSetup(w)
      BY <2>1, <1>3
    <3> QED BY <3>1, <1>1, <1>6 DEF FounderSetup
  <2>3. ASSUME NEW f \in founders PROVE FounderSetup(f)'
    <3>1. FounderSetup(f) /\ f \in StartWorkers
      BY <2>1 DEF StartInv, StartupTyped
    <3>2. CASE f = w
      BY <3>2, <2>2
    <3>3. CASE f # w
      BY <3>1, <3>3, <1>2, <1>5, FounderStays DEF StepOf
    <3> QED BY <3>2, <3>3
  <2> QED BY <2>1, <2>3, <1>1
<1> QED BY <1>4, <1>9, <1>10, <1>11 DEF StartInv

\* Not the primary, with a state of an earlier run.
LEMMA KeepsState ==
    ASSUME StartInv, NEW w \in StartWorkers, keep_state(w)
    PROVE StartInv'
<1>1. /\ startPc[w] = "primary" /\ startPc' = [startPc EXCEPT ![w] = "reinit_integritee"]
      /\ isPrimary' = [isPrimary EXCEPT ![w] = FALSE]
      /\ progress' = [progress EXCEPT ![w] = progress[w] \cup {"registered_on_parentchain"}]
      /\ UNCHANGED <<global_components, metadataOf, nonceOf, todoTargets, threads, shardSetup>>
      /\ UNCHANGED <<enclaves, shardStatus, workerMode, starts, founders, wiped>>
  BY DEF keep_state, IsSecondary, Registered, Goto, enclaveVars, chainVars, historyVars
<1>2. StartupTyped'
  BY <1>1 DEF StartInv, StartupTyped, Points, FromPrimary, Told
<1>3. QuietStep(w)
  BY <1>1 DEF StartInv, StartupTyped, QuietStep, StepOf, SameRow
<1>4. startPc'[w] = "reinit_integritee"
      /\ progress'[w] = progress[w] \cup {"registered_on_parentchain"}
  BY <1>1 DEF StartInv, StartupTyped
<1>5. shardSetup'[w].exists
  BY <1>1 DEF StartInv, WorkerInv, Process
<1>6. WorkerInv(w)'
  BY <1>1, <1>4, <1>5, PrimaryGoesOn
<1> QED BY <1>2, <1>3, <1>6, QuietSteps

\* sync_state: a state with a vault is the founder's, whoever it is taken from.
LEMMA SyncsState ==
    ASSUME StartInv, NEW w \in StartWorkers, sync_state(w)
    PROVE StartInv'
<1>1. shardStatus # <<>> /\ Head(shardStatus) # w /\ startPc[w] = "primary"
  BY DEF sync_state, IsSecondary, primary_worker_for_shard
<1>2. workerMode # "Teeracle"
  BY <1>1 DEF StartInv, Founding
<1>3. PICK p \in Providers(w) :
          IF "provisioning_server" \in threads[p] /\ shardSetup[p].exists
          THEN /\ shardSetup' = [shardSetup EXCEPT ![w] =
                     IF workerMode = "Teeracle" THEN InitialSetup ELSE shardSetup[p]]
               /\ shardStatus' =
                     IF Contains(shardStatus, w) THEN shardStatus ELSE Append(shardStatus, w)
               /\ Registered(w, FALSE, "reinit_integritee")
               /\ UNCHANGED <<todoTargets, enclaveVars, threads, enclaves, historyVars>>
          ELSE stop(w)
  BY DEF sync_state
<1>4. p \in StartWorkers
  BY <1>2 DEF Providers, StartInv, StartupTyped
<1>5. CASE stop(w)
  BY <1>5, Stops
<1>6. CASE ~stop(w)
  <2>1. /\ shardSetup[p].exists /\ startPc' = [startPc EXCEPT ![w] = "reinit_integritee"]
        /\ shardSetup' = [shardSetup EXCEPT ![w] = shardSetup[p]]
        /\ shardStatus' = IF Contains(shardStatus, w) THEN shardStatus ELSE Append(shardStatus, w)
        /\ isPrimary' = [isPrimary EXCEPT ![w] = FALSE]
        /\ progress' = [progress EXCEPT ![w] = progress[w] \cup {"registered_on_parentchain"}]
        /\ UNCHANGED <<global_components, metadataOf, nonceOf, todoTargets, threads>>
        /\ UNCHANGED <<enclaves, workerMode, starts, founders, wiped>>
    BY <1>2, <1>3, <1>6 DEF Registered, Goto, enclaveVars, historyVars
  <2>2. /\ shardStatus' \in Seq(StartWorkers) /\ shardStatus' # <<>>
        /\ Head(shardStatus') = Head(shardStatus)
        /\ \A v \in StartWorkers : Contains(shardStatus', v) <=> Contains(shardStatus, v) \/ v = w
    <3>1. shardStatus \in Seq(StartWorkers)
      BY DEF StartInv, StartupTyped
    <3> QED BY <1>1, <2>1, <3>1, SignerAdded
  <2>3. StartupTyped'
    BY <1>4, <2>1, <2>2 DEF StartInv, StartupTyped, Points, FromPrimary, Told
  <2>4. StepOf(w)
    BY <2>1, <2>2 DEF StartInv, StartupTyped, StepOf, SameRow
  <2>5. /\ startPc'[w] = "reinit_integritee" /\ shardSetup'[w] = shardSetup[p]
        /\ progress'[w] = progress[w] \cup {"registered_on_parentchain"}
    BY <2>1 DEF StartInv, StartupTyped
  <2>6. WorkerInv(w)'
    BY <1>1, <2>1, <2>2, <2>5, PrimaryGoesOn
  <2>7. \A v \in StartWorkers : WorkerInv(v)'
    BY <2>4, <2>6, OthersStay DEF StartInv
  <2>8. Founding'
    <3>1. Head(shardStatus') \in founders'
      BY <1>1, <2>1, <2>2 DEF StartInv, Founding
    <3>2. \A v \in StartWorkers : startPc'[v] = "shard_config" => v \in founders'
      BY <2>1 DEF StartInv, StartupTyped, Founding
    <3>3. ASSUME NEW v \in StartWorkers, isPrimary'[v]
          PROVE v \in founders' /\ Contains(shardStatus', v)
      <4>1. isPrimary[v]
        BY <3>3, <2>1 DEF StartInv, StartupTyped
      <4> QED BY <4>1, <1>2, <2>1, <2>2 DEF StartInv, Founding
    <3> QED BY <3>1, <3>2, <3>3, <1>2, <2>1 DEF Founding
  <2>9. Settled'
    <3> SUFFICES ASSUME Orderly' PROVE Settled!2'
      BY DEF Settled
    <3>1. /\ \A f \in founders : FounderSetup(f)
          /\ \A v \in StartWorkers : shardSetup[v].vault # Nobody =>
                \E f \in founders : FullSetup(shardSetup[v], f)
      BY <2>1 DEF StartInv, Settled, Orderly
    <3>2. w \notin founders
      <4>1. Head(shardStatus) \in founders /\ \A u, v \in founders : u = v
        BY <1>1, <2>1 DEF StartInv, Founding, Orderly
      <4> QED BY <4>1, <1>1
    <3>3. ASSUME NEW f \in founders PROVE FounderSetup(f)'
      <4>1. FounderSetup(f) /\ f \in StartWorkers /\ f # w
        BY <3>1, <3>2 DEF StartInv, StartupTyped
      <4> QED BY <4>1, <2>2, <2>4, FounderStays DEF StepOf
    <3>4. ASSUME NEW v \in StartWorkers, shardSetup'[v].vault # Nobody
          PROVE \E f \in founders : FullSetup(shardSetup'[v], f)
      <4>1. CASE v = w
        BY <4>1, <3>4, <3>1, <1>4, <2>5
      <4>2. CASE v # w
        <5>1. shardSetup'[v] = shardSetup[v]
          BY <4>2, <2>1 DEF StartInv, StartupTyped
        <5> QED BY <5>1, <3>4, <3>1
      <4> QED BY <4>1, <4>2
    <3> QED BY <3>3, <3>4, <2>1
  <2> QED BY <2>3, <2>7, <2>8, <2>9 DEF StartInv
<1> QED BY <1>5, <1>6

\* The threads of the mode find the handler; the targets come next.
LEMMA StartsMode ==
    ASSUME StartInv, NEW w \in StartWorkers, start_mode(w)
    PROVE StartInv'
<1> DEFINE new == CASE workerMode = "Teeracle" -> {"reregistration", "market_update"}
                    [] workerMode = "OffChainWorker" -> {"Integritee"}
                    [] OTHER -> {"Integritee", "polling"}
<1>1. /\ startPc[w] = "mode" /\ startPc' = [startPc EXCEPT ![w] = "targets"]
      /\ threads' = [threads EXCEPT ![w] = threads[w] \cup new]
      /\ todoTargets' = [todoTargets EXCEPT ![w] = ConfiguredTargets]
      /\ UNCHANGED <<global_components, metadataOf, nonceOf, isPrimary, progress, shardSetup>>
      /\ UNCHANGED <<enclaves, shardStatus, workerMode, starts, founders, wiped>>
  BY DEF start_mode, Goto, enclaveVars, chainVars, historyVars
<1>2. new \subseteq {"Integritee", "polling", "reregistration", "market_update"}
  OBVIOUS
<1> HIDE DEF new
<1>3. StartupTyped'
  BY <1>1, <1>2, TodoLists DEF StartInv, StartupTyped, Points, FromRegister, Following, Followers
<1>4. StepOf(w)
  BY <1>1 DEF StartInv, StartupTyped, StepOf, SameRow
<1>5. /\ startPc'[w] = "targets" /\ threads'[w] = threads[w] \cup new
      /\ todoTargets'[w] = ConfiguredTargets
  BY <1>1 DEF StartInv, StartupTyped
<1>6. WorkerInv(w) /\ threads[w] \subseteq Servers /\ "sidechain_block_produced" \notin progress[w]
  BY <1>1 DEF StartInv, WorkerInv, ThreadsServed, ProgressTrue, Following
<1>7. CanCreateExtrinsics(w, "Integritee")'
  <2>1. CanCreateExtrinsics(w, "Integritee")
    BY <1>1, <1>6 DEF WorkerInv, Process, FromRegister
  <2> QED BY <2>1, <1>1, HandlersGrow
<1>8. Process(w)'
  BY <1>1, <1>5, <1>6, <1>7 DEF WorkerInv, Process, FromPrimary
<1>9. ThreadsServed(w)'
  <2>1. threads'[w] \cap Targets = {} /\ "block_production" \notin threads'[w]
        /\ ("direct_invocation" \in threads'[w] => "direct_invocation" \in threads[w])
    BY <1>2, <1>5, <1>6, StartupAssumption DEF Servers
  <2> QED BY <2>1, <1>1, <1>5, <1>6 DEF WorkerInv, ThreadsServed, Following
<1>10. ProgressTrue(w)'
  BY <1>1, <1>6 DEF WorkerInv, ProgressTrue
<1>11. \A v \in StartWorkers : WorkerInv(v)'
  BY <1>4, <1>8, <1>9, <1>10, OthersStay DEF StartInv, WorkerInv
<1>12. Founding'
  BY <1>1 DEF StartInv, StartupTyped, Founding
<1>13. Settled'
  <2> SUFFICES ASSUME Orderly' PROVE Settled!2'
    BY DEF Settled
  <2>1. /\ \A f \in founders : FounderSetup(f)
        /\ \A v \in StartWorkers : shardSetup[v].vault # Nobody =>
              \E f \in founders : FullSetup(shardSetup[v], f)
    BY <1>1 DEF StartInv, Settled, Orderly
  <2>2. ASSUME NEW f \in founders PROVE FounderSetup(f)'
    <3>1. FounderSetup(f) /\ f \in StartWorkers
      BY <2>1 DEF StartInv, StartupTyped
    <3>2. CASE f = w
      BY <3>1, <3>2, <1>1, <1>5, TodoLists DEF FounderSetup
    <3>3. CASE f # w
      BY <3>1, <3>3, <1>1, <1>4, FounderStays DEF StepOf
    <3> QED BY <3>2, <3>3
  <2> QED BY <2>1, <2>2, <1>1
<1> QED BY <1>3, <1>11, <1>12, <1>13 DEF StartInv

\* The creation header of a target is set once, and before its handler; a state with a
\* vault has it already.
LEMMA InitializesTarget ==
    ASSUME StartInv, NEW w \in StartWorkers, NEW c, todoTargets[w] # <<>>,
           c = Head(todoTargets[w]), startPc[w] = "targets",
           init_shard_creation_parentchain_header(w, c),
           global_components' =
              [global_components EXCEPT ![w] = global_components[w] \cup {Handler(c)}],
           metadataOf' = [metadataOf EXCEPT ![w] = metadataOf[w] \ {c}],
           startPc' = [startPc EXCEPT ![w] = "target_metadata"],
           UNCHANGED <<nonceOf, todoTargets, threads, isPrimary, progress, enclaves>>,
           UNCHANGED <<shardStatus, workerMode, starts, founders, wiped>>
    PROVE StartInv'
<1>1. /\ todoTargets[w] \in Todos /\ c \in Targets /\ c \in StartChains
      /\ c # "Integritee" /\ c \in Range(todoTargets[w])
  <2>1. todoTargets[w] \in Todos
    BY DEF StartInv, StartupTyped
  <2>2. c \in Targets /\ c \in Range(todoTargets[w])
    BY <2>1, TodoLists
  <2> QED BY <2>1, <2>2, Parts
<1>2. shardSetup[w] \in Setups
  BY DEF StartInv, StartupTyped
<1> DEFINE set == [shardSetup[w].creation EXCEPT ![c] = w]
           mine == [shardSetup[w] EXCEPT !.creation = set]
<1>3. /\ mine \in Setups /\ mine.vault = shardSetup[w].vault
      /\ (mine.exists <=> shardSetup[w].exists)
      /\ mine.creation[c] = w
      /\ \A d \in StartChains : d # c => mine.creation[d] = shardSetup[w].creation[d]
  <2>1. set \in [StartChains -> Accounts] /\ set[c] = w
        /\ \A d \in StartChains : d # c => set[d] = shardSetup[w].creation[d]
    BY <1>1, <1>2 DEF Setups, Accounts
  <2> HIDE DEF set
  <2>2. mine \in Setups
    BY <1>2, <2>1 DEF Setups
  <2>3. mine.creation = set /\ mine.vault = shardSetup[w].vault
        /\ (mine.exists <=> shardSetup[w].exists)
    BY <1>2, <2>1 DEF Setups
  <2> QED BY <2>1, <2>2, <2>3
<1>4. shardSetup' = IF shardSetup[w].creation[c] = Nobody
                    THEN [shardSetup EXCEPT ![w] = mine] ELSE shardSetup
  BY DEF init_shard_creation_parentchain_header, StartInv, StartupTyped
<1> HIDE DEF mine
<1>5. \/ shardSetup[w].creation[c] = Nobody /\ shardSetup'[w] = mine
      \/ shardSetup[w].creation[c] # Nobody /\ shardSetup'[w] = shardSetup[w]
  BY <1>4 DEF StartInv, StartupTyped
<1>6. StartupTyped'
  <2>1. shardSetup' \in [StartWorkers -> Setups]
    BY <1>3, <1>4 DEF StartInv, StartupTyped
  <2>2. global_components' \in [StartWorkers -> SUBSET Components]
    BY <1>1, Parts DEF StartInv, StartupTyped
  <2> QED BY <2>1, <2>2 DEF StartInv, StartupTyped, Points, FromRegister, Following
<1>7. StepOf(w)
  BY <1>4 DEF StartInv, StartupTyped, StepOf, SameRow
<1>8. /\ startPc'[w] = "target_metadata"
      /\ global_components[w] \subseteq global_components'[w]
      /\ metadataOf'[w] = metadataOf[w] \ {c}
      /\ (shardSetup'[w].exists <=> shardSetup[w].exists)
      /\ shardSetup'[w].vault = shardSetup[w].vault
  BY <1>3, <1>5 DEF StartInv, StartupTyped
<1>9. WorkerInv(w)
  BY DEF StartInv
<1>10. ASSUME NEW d, d # c, CanCreateExtrinsics(w, d) PROVE CanCreateExtrinsics(w, d)'
  BY <1>10, <1>8, HandlersGrow
<1>11. Process(w)'
  <2>1. /\ init_enclave \subseteq global_components[w] /\ shardSetup[w].exists
        /\ CanCreateExtrinsics(w, "Integritee") /\ w \in enclaves
    BY <1>9 DEF WorkerInv, Process, FromRegister, FromPrimary, Following
  <2> QED BY <2>1, <1>1, <1>8, <1>10 DEF Process
<1>12. ThreadsServed(w)'
  BY <1>1, <1>8, <1>9, <1>10 DEF WorkerInv, ThreadsServed, Following
<1>13. ProgressTrue(w)'
  BY <1>8, <1>9 DEF WorkerInv, ProgressTrue
<1>14. \A v \in StartWorkers : WorkerInv(v)'
  BY <1>7, <1>11, <1>12, <1>13, OthersStay DEF StartInv, WorkerInv
<1>15. Founding'
  BY DEF StartInv, StartupTyped, Founding
<1>16. Settled'
  <2> SUFFICES ASSUME Orderly' PROVE Settled!2'
    BY DEF Settled
  <2>1. /\ \A f \in founders : FounderSetup(f)
        /\ \A v \in StartWorkers : shardSetup[v].vault # Nobody =>
              \E f \in founders : FullSetup(shardSetup[v], f)
    BY DEF StartInv, Settled, Orderly
  <2>2. ASSUME NEW f \in founders PROVE FounderSetup(f)'
    <3>1. FounderSetup(f) /\ f \in StartWorkers
      BY <2>1 DEF StartInv, StartupTyped
    <3>2. CASE f = w
      <4>1. \A d \in StartChains : shardSetup[w].creation[d] \in {Nobody, w}
        BY <3>1, <3>2 DEF FounderSetup
      <4>2. shardSetup'[w].creation[c] = w
        BY <4>1, <1>1, <1>3, <1>5
      <4>3. \A d \in StartChains : d # c => shardSetup'[w].creation[d] = shardSetup[w].creation[d]
        BY <1>3, <1>5
      <4>4. \A d \in StartChains : shardSetup'[w].creation[d] \in {Nobody, w}
        BY <4>1, <4>2, <4>3
      <4>5. Contains(shardStatus, w) => shardSetup'[w].creation["Integritee"] = w
        BY <4>3, <3>1, <3>2, <1>1, Parts DEF FounderSetup
      <4>6. \A d \in Targets : d \in Range(todoTargets[w]) \/ shardSetup'[w].creation[d] = w
        BY <4>2, <4>3, <3>1, <3>2, Parts DEF FounderSetup
      <4> QED BY <4>2, <4>4, <4>5, <4>6, <3>2, <1>8 DEF FounderSetup
    <3>3. CASE f # w
      BY <3>1, <3>3, <1>7, FounderStays DEF StepOf
    <3> QED BY <3>2, <3>3
  <2>3. ASSUME NEW v \in StartWorkers, shardSetup'[v].vault # Nobody
        PROVE \E f \in founders : FullSetup(shardSetup'[v], f)
    <3>1. shardSetup[v].vault # Nobody
      BY <2>3, <1>7, <1>8 DEF StepOf, SameRow
    <3>2. PICK f \in founders : FullSetup(shardSetup[v], f)
      BY <3>1, <2>1
    <3>3. shardSetup[v].creation[c] # Nobody
      <4>1. f \in StartWorkers /\ f # Nobody
        BY StartupAssumption DEF StartInv, StartupTyped, Nobody
      <4> QED BY <3>2, <4>1, <1>1 DEF FullSetup
    <3>4. shardSetup'[v] = shardSetup[v]
      BY <3>3, <1>5, <1>7 DEF StepOf, SameRow
    <3> QED BY <3>2, <3>4
  <2> QED BY <2>2, <2>3
<1> QED BY <1>6, <1>14, <1>15, <1>16 DEF StartInv

\* A target with nonce and metadata gets its thread and is done.
LEMMA FollowsTarget ==
    ASSUME StartInv, NEW w \in StartWorkers, NEW c, todoTargets[w] # <<>>,
           c = Head(todoTargets[w]), startPc[w] = "target_metadata",
           set_nonce_and_metadata(w, c),
           threads' = IF workerMode = "Teeracle" THEN threads
                      ELSE [threads EXCEPT ![w] = threads[w] \cup {c}],
           todoTargets' = [todoTargets EXCEPT ![w] = Tail(todoTargets[w])],
           startPc' = [startPc EXCEPT ![w] = "targets"],
           UNCHANGED <<isPrimary, progress, shardSetup, enclaves>>,
           UNCHANGED <<shardStatus, workerMode, starts, founders, wiped>>
    PROVE StartInv'
<1> DEFINE rest == Tail(todoTargets[w])
<1>1. /\ todoTargets[w] \in Todos /\ c \in Targets /\ c \in StartChains /\ c # "Integritee"
      /\ rest \in Todos /\ c \notin Range(rest) /\ Range(todoTargets[w]) = {c} \cup Range(rest)
  <2>1. todoTargets[w] \in Todos
    BY DEF StartInv, StartupTyped
  <2> QED BY <2>1, TodoLists, Parts
<1> HIDE DEF rest
<1>2. /\ nonceOf' = [nonceOf EXCEPT ![w] = nonceOf[w] \cup {c}]
      /\ metadataOf' = [metadataOf EXCEPT ![w] = metadataOf[w] \cup {c}]
      /\ get_node_metadata_repository(w, c) /\ global_components' = global_components
  BY DEF set_nonce_and_metadata
<1>3. todoTargets' = [todoTargets EXCEPT ![w] = rest]
  BY DEF rest
<1>4. StartupTyped'
  <2>1. threads' \in [StartWorkers -> SUBSET (Servers \cup Followers \cup Targets)]
    BY <1>1 DEF StartInv, StartupTyped
  <2> QED BY <2>1, <1>1, <1>2, <1>3
        DEF StartInv, StartupTyped, Points, FromRegister, Following
<1>5. StepOf(w)
  BY <1>2, <1>3 DEF StartInv, StartupTyped, StepOf, SameRow
<1>6. /\ startPc'[w] = "targets" /\ todoTargets'[w] = rest
      /\ threads'[w] \subseteq threads[w] \cup {c}
      /\ metadataOf'[w] = metadataOf[w] \cup {c} /\ nonceOf'[w] = nonceOf[w] \cup {c}
  BY <1>2, <1>3 DEF StartInv, StartupTyped
<1>7. WorkerInv(w)
  BY DEF StartInv
<1>8. ASSUME NEW d, CanCreateExtrinsics(w, d) PROVE CanCreateExtrinsics(w, d)'
  BY <1>8, <1>2, <1>6, HandlersGrow
<1>9. CanCreateExtrinsics(w, c)'
  BY <1>2, <1>6, HandlerIsReady
<1>10. Process(w)'
  <2>1. /\ init_enclave \subseteq global_components[w] /\ shardSetup[w].exists
        /\ CanCreateExtrinsics(w, "Integritee") /\ w \in enclaves
    BY <1>7 DEF WorkerInv, Process, FromRegister, FromPrimary, Following
  <2> QED BY <2>1, <1>2, <1>6, <1>8 DEF Process
<1>11. ThreadsServed(w)'
  <2>1. ASSUME NEW d \in Targets, d \in threads'[w]
        PROVE CanCreateExtrinsics(w, d)' /\ d \notin Range(rest)
    BY <2>1, <1>1, <1>6, <1>7, <1>8, <1>9 DEF WorkerInv, ThreadsServed
  <2>2. "direct_invocation" \in threads'[w] => "WEB_SOCKET_SERVER" \in global_components[w]
    BY <1>1, <1>6, <1>7, StartupAssumption DEF WorkerInv, ThreadsServed
  <2>3. "block_production" \notin threads'[w]
    BY <1>1, <1>6, <1>7, StartupAssumption DEF WorkerInv, ThreadsServed
  <2> QED BY <2>1, <2>2, <2>3, <1>2, <1>6 DEF ThreadsServed, Following
<1>12. ProgressTrue(w)'
  BY <1>6, <1>7 DEF WorkerInv, ProgressTrue
<1>13. \A v \in StartWorkers : WorkerInv(v)'
  BY <1>5, <1>10, <1>11, <1>12, OthersStay DEF StartInv, WorkerInv
<1>14. Founding'
  BY DEF StartInv, StartupTyped, Founding
<1>15. Settled'
  <2> SUFFICES ASSUME Orderly' PROVE Settled!2'
    BY DEF Settled
  <2>1. /\ \A f \in founders : FounderSetup(f)
        /\ \A v \in StartWorkers : shardSetup[v].vault # Nobody =>
              \E f \in founders : FullSetup(shardSetup[v], f)
    BY DEF StartInv, Settled, Orderly
  <2>2. ASSUME NEW f \in founders PROVE FounderSetup(f)'
    <3>1. FounderSetup(f) /\ f \in StartWorkers
      BY <2>1 DEF StartInv, StartupTyped
    <3>2. CASE f = w
      <4>1. shardSetup[w].creation[c] = w
        BY <3>1, <3>2 DEF FounderSetup
      <4>2. \A d \in Targets : d \in Range(rest) \/ shardSetup[w].creation[d] = w
        BY <4>1, <3>1, <3>2, <1>1 DEF FounderSetup
      <4> QED BY <4>2, <3>1, <3>2, <1>6 DEF FounderSetup
    <3>3. CASE f # w
      BY <3>1, <3>3, <1>5, FounderStays DEF StepOf
    <3> QED BY <3>2, <3>3
  <2> QED BY <2>1, <2>2
<1> QED BY <1>4, <1>13, <1>14, <1>15 DEF StartInv

\* The vault: the primary, whose set-up is complete but for it, or a worker that has it.
LEMMA InitializesVault ==
    ASSUME StartInv, NEW w \in StartWorkers, init_provided_shard_vault(w)
    PROVE StartInv'
<1> DEFINE mine == [shardSetup[w] EXCEPT !.vault = w]
<1>1. CASE stop(w)
  BY <1>1, Stops
<1>2. CASE ~stop(w)
  <2>1. /\ startPc[w] = "targets" /\ todoTargets[w] = <<>>
        /\ startPc' = [startPc EXCEPT ![w] = "production"]
        /\ UNCHANGED <<global_components, metadataOf, nonceOf, todoTargets, threads>>
        /\ UNCHANGED <<isPrimary, progress, enclaves, shardStatus, workerMode>>
        /\ UNCHANGED <<starts, founders, wiped>>
    BY <1>2 DEF init_provided_shard_vault, Goto, enclaveVars, chainVars, historyVars
  <2>2. \/ shardSetup[w].vault # Nobody /\ shardSetup' = shardSetup
        \/ /\ shardSetup[w].vault = Nobody /\ isPrimary[w]
           /\ shardSetup' = [shardSetup EXCEPT ![w] = mine]
    <3>1. \/ shardSetup[w].vault # Nobody /\ shardSetup' = shardSetup
          \/ /\ shardSetup[w].vault = Nobody /\ isPrimary[w]
             /\ shardSetup' = [shardSetup EXCEPT ![w].vault = w]
      BY <1>2 DEF init_provided_shard_vault, init_proxied_shard_vault, get_shard_vault
    <3> QED BY <3>1 DEF StartInv, StartupTyped
  <2>3. /\ shardSetup[w] \in Setups /\ mine \in Setups /\ mine.vault = w
        /\ mine.creation = shardSetup[w].creation /\ (mine.exists <=> shardSetup[w].exists)
    <3>1. shardSetup[w] \in Setups
      BY DEF StartInv, StartupTyped
    <3> QED BY <3>1 DEF Setups, Accounts
  <2> HIDE DEF mine
  <2>4. StartupTyped'
    BY <2>1, <2>2, <2>3 DEF StartInv, StartupTyped, Points, FromRegister, Following
  <2>5. StepOf(w)
    BY <2>1, <2>2 DEF StartInv, StartupTyped, StepOf, SameRow
  <2>6. /\ startPc'[w] = "production"
        /\ (shardSetup'[w].exists <=> shardSetup[w].exists)
        /\ shardSetup'[w].creation = shardSetup[w].creation
        /\ shardSetup'[w].vault # Nobody
    BY <2>1, <2>2, <2>3, StartupAssumption DEF StartInv, StartupTyped, Nobody
  <2>7. WorkerInv(w)
    BY DEF StartInv
  <2>8. Process(w)'
    <3>1. /\ init_enclave \subseteq global_components[w] /\ shardSetup[w].exists
          /\ CanCreateExtrinsics(w, "Integritee") /\ w \in enclaves
      BY <2>1, <2>7 DEF WorkerInv, Process, FromRegister, FromPrimary, Following
    <3>2. CanCreateExtrinsics(w, "Integritee")'
      BY <3>1, <2>1, HandlersGrow
    <3> QED BY <3>1, <3>2, <2>1, <2>6 DEF Process
  <2>9. ThreadsServed(w)'
    <3>1. \A d \in Targets : CanCreateExtrinsics(w, d) => CanCreateExtrinsics(w, d)'
      BY <2>1, HandlersGrow
    <3> QED BY <3>1, <2>1, <2>6, <2>7 DEF WorkerInv, ThreadsServed, Following
  <2>10. ProgressTrue(w)'
    BY <2>1, <2>6, <2>7 DEF WorkerInv, ProgressTrue
  <2>11. \A v \in StartWorkers : WorkerInv(v)'
    BY <2>5, <2>8, <2>9, <2>10, OthersStay DEF StartInv, WorkerInv
  <2>12. Founding'
    BY <2>1 DEF StartInv, StartupTyped, Founding
  <2>13. Settled'
    <3> SUFFICES ASSUME Orderly' PROVE Settled!2'
      BY DEF Settled
    <3>1. /\ \A f \in founders : FounderSetup(f)
          /\ \A v \in StartWorkers : shardSetup[v].vault # Nobody =>
                \E f \in founders : FullSetup(shardSetup[v], f)
      BY <2>1 DEF StartInv, Settled, Orderly
    <3>2. ASSUME NEW f \in founders PROVE FounderSetup(f)'
      <4>1. FounderSetup(f) /\ f \in StartWorkers
        BY <3>1 DEF StartInv, StartupTyped
      <4>2. CASE f = w
        BY <4>1, <4>2, <2>1, <2>6 DEF FounderSetup
      <4>3. CASE f # w
        BY <4>1, <4>3, <2>1, <2>5, FounderStays DEF StepOf
      <4> QED BY <4>2, <4>3
    <3>3. ASSUME NEW v \in StartWorkers, shardSetup'[v].vault # Nobody
          PROVE \E f \in founders : FullSetup(shardSetup'[v], f)
      <4>1. CASE shardSetup'[v] = shardSetup[v]
        BY <4>1, <3>1, <3>3
      <4>2. CASE shardSetup'[v] # shardSetup[v]
        <5>1. v = w /\ shardSetup'[w] = mine /\ isPrimary[w]
          BY <4>2, <2>2 DEF StartInv, StartupTyped
        <5>2. w \in founders /\ Contains(shardStatus, w)
          BY <5>1, <2>1 DEF StartInv, Founding, Orderly
        <5>3. FounderSetup(w)
          BY <5>2, <3>1
        <5>4. \A c \in Targets : shardSetup[w].creation[c] = w
          BY <5>3, <2>1, TodoLists DEF FounderSetup
        <5>5. \A c \in StartChains : shardSetup[w].creation[c] = w
          BY <5>2, <5>3, <5>4 DEF FounderSetup, StartChains
        <5>6. shardSetup[w].exists
          BY <2>1, <2>7 DEF WorkerInv, Process
        <5>7. FullSetup(mine, w)
          BY <5>5, <5>6, <2>3 DEF FullSetup
        <5> QED BY <5>1, <5>2, <5>7
      <4> QED BY <4>1, <4>2
    <3> QED BY <3>2, <3>3, <2>1
  <2> QED BY <2>4, <2>11, <2>12, <2>13 DEF StartInv
<1> QED BY <1>1, <1>2

\* The components of the block production are there before its thread.
LEMMA StartsProduction ==
    ASSUME StartInv, NEW w \in StartWorkers, init_block_production(w)
    PROVE StartInv'
<1>1. /\ startPc[w] = "production" /\ startPc' = [startPc EXCEPT ![w] = "running"]
      /\ UNCHANGED <<metadataOf, nonceOf, todoTargets, isPrimary, progress, shardSetup>>
      /\ UNCHANGED <<enclaves, shardStatus, workerMode, starts, founders, wiped>>
  BY DEF init_block_production, Goto, chainVars, historyVars
<1>2. \/ /\ workerMode = "Sidechain"
         /\ global_components' =
               [global_components EXCEPT ![w] = global_components[w] \cup SidechainComponents]
         /\ threads' = [threads EXCEPT ![w] = threads[w] \cup {"block_production"}]
      \/ workerMode # "Sidechain" /\ UNCHANGED <<global_components, threads>>
  BY DEF init_block_production
<1>3. StartupTyped'
  <2>1. global_components' \in [StartWorkers -> SUBSET Components]
    BY <1>2, Parts DEF StartInv, StartupTyped
  <2>2. threads' \in [StartWorkers -> SUBSET (Servers \cup Followers \cup Targets)]
    BY <1>2 DEF StartInv, StartupTyped, Followers
  <2> QED BY <1>1, <2>1, <2>2 DEF StartInv, StartupTyped, Points, FromRegister, Following
<1>4. QuietStep(w)
  BY <1>1, <1>2 DEF StartInv, StartupTyped, QuietStep, StepOf, SameRow
<1>5. /\ startPc'[w] = "running" /\ global_components[w] \subseteq global_components'[w]
      /\ threads'[w] \subseteq threads[w] \cup {"block_production"}
      /\ "block_production" \in threads'[w] /\ "block_production" \notin threads[w] =>
            workerMode = "Sidechain" /\ SidechainComponents \subseteq global_components'[w]
  BY <1>1, <1>2 DEF StartInv, StartupTyped
<1>6. WorkerInv(w)
  BY DEF StartInv
<1>7. ASSUME NEW d, CanCreateExtrinsics(w, d) PROVE CanCreateExtrinsics(w, d)'
  BY <1>7, <1>1, <1>5, HandlersGrow
<1>8. Process(w)'
  <2>1. /\ init_enclave \subseteq global_components[w] /\ shardSetup[w].exists
        /\ CanCreateExtrinsics(w, "Integritee") /\ w \in enclaves /\ shardSetup[w].vault # Nobody
    BY <1>1, <1>6 DEF WorkerInv, Process, FromRegister, FromPrimary, Following
  <2> QED BY <2>1, <1>1, <1>5, <1>7 DEF Process
<1>9. ThreadsServed(w)'
  <2>1. "block_production" \notin threads[w]
    BY <1>1, <1>6 DEF WorkerInv, ThreadsServed
  <2>2. ASSUME NEW d \in Targets, d \in threads'[w]
        PROVE CanCreateExtrinsics(w, d)' /\ d \notin Range(todoTargets'[w])
    BY <2>2, <1>1, <1>5, <1>6, <1>7, StartupAssumption DEF WorkerInv, ThreadsServed
  <2>3. "direct_invocation" \in threads'[w] => "WEB_SOCKET_SERVER" \in global_components'[w]
    BY <1>5, <1>6 DEF WorkerInv, ThreadsServed
  <2> QED BY <2>1, <2>2, <2>3, <1>1, <1>5 DEF ThreadsServed, Following
<1>10. ProgressTrue(w)'
  BY <1>1, <1>5, <1>6 DEF WorkerInv, ProgressTrue
<1> QED BY <1>3, <1>4, <1>8, <1>9, <1>10, QuietSteps DEF WorkerInv

\* What the initialization handler is told by the threads is so.
LEMMA Reports ==
    ASSUME StartInv, NEW w \in StartWorkers, poll_worker_for_shard(w) \/ produce_first_block(w)
    PROVE StartInv'
<1>1. /\ UNCHANGED <<startPc, metadataOf, nonceOf, todoTargets, isPrimary, shardSetup>>
      /\ UNCHANGED <<global_components, enclaves, shardStatus, workerMode>>
      /\ UNCHANGED <<starts, founders, wiped>>
  BY DEF poll_worker_for_shard, produce_first_block, enclaveVars, chainVars, historyVars
<1>2. \/ /\ "polling" \in threads[w] /\ shardStatus # <<>>
         /\ progress' = [progress EXCEPT ![w] = progress[w] \cup {"worker_for_shard_registered"}]
         /\ threads' = [threads EXCEPT ![w] = threads[w] \ {"polling"}]
      \/ /\ "block_production" \in threads[w] /\ threads' = threads
         /\ progress' = [progress EXCEPT ![w] = progress[w] \cup {"sidechain_block_produced"}]
  BY DEF poll_worker_for_shard, produce_first_block, primary_worker_for_shard
<1>3. StartupTyped'
  <2>1. progress' \in [StartWorkers -> SUBSET Told]
    BY <1>2 DEF StartInv, StartupTyped, Told
  <2>2. threads' \in [StartWorkers -> SUBSET (Servers \cup Followers \cup Targets)]
    BY <1>2 DEF StartInv, StartupTyped
  <2> QED BY <1>1, <2>1, <2>2 DEF StartInv, StartupTyped
<1>4. QuietStep(w)
  BY <1>1, <1>2 DEF StartInv, StartupTyped, QuietStep, StepOf, SameRow
<1>5. WorkerInv(w)
  BY DEF StartInv
<1>6. startPc[w] # "down" /\ threads'[w] \subseteq threads[w]
  BY <1>2, <1>5 DEF WorkerInv, Process, StartInv, StartupTyped
<1>7. ASSUME NEW d, CanCreateExtrinsics(w, d) PROVE CanCreateExtrinsics(w, d)'
  BY <1>7, <1>1, HandlersGrow
<1>8. Process(w)'
  BY <1>1, <1>5, <1>6, <1>7 DEF WorkerInv, Process
<1>9. ThreadsServed(w)'
  BY <1>1, <1>5, <1>6, <1>7 DEF WorkerInv, ThreadsServed
<1>10. ProgressTrue(w)'
  <2>1. "block_production" \in threads[w] => startPc[w] = "running"
    BY <1>5 DEF WorkerInv, ThreadsServed
  <2>2. \/ shardStatus # <<>> /\ progress'[w] = progress[w] \cup {"worker_for_shard_registered"}
        \/ /\ startPc[w] = "running"
           /\ progress'[w] = progress[w] \cup {"sidechain_block_produced"}
    BY <1>2, <2>1 DEF StartInv, StartupTyped
  <2> QED BY <2>2, <1>1, <1>5 DEF WorkerInv, ProgressTrue
<1> QED BY <1>3, <1>4, <1>8, <1>9, <1>10, QuietSteps DEF WorkerInv

-----------------------------------------------------------------------------
(* The theorems about Startup.                                             *)

\* Every worker is down, nobody founded the shard and the parentchain knows nothing of it.
LEMMA StartInvInit == StartupInit => StartInv
<1> SUFFICES ASSUME StartupInit PROVE StartInv
  OBVIOUS
<1>1. StartupTyped
  <2>1. shardSetup \in [StartWorkers -> Setups]
    BY InitialSetups DEF StartupInit
  <2>2. todoTargets \in [StartWorkers -> Todos]
    BY TodoLists DEF StartupInit
  <2>3. founders \in SUBSET StartWorkers /\ IsFiniteSet(founders)
    BY FS_EmptySet DEF StartupInit
  <2>4. shardStatus \in Seq(StartWorkers)
    BY DEF StartupInit
  <2> QED BY <2>1, <2>2, <2>3, <2>4, StartupAssumption DEF StartupInit, StartupTyped, Points
<1>2. ASSUME NEW w \in StartWorkers PROVE WorkerInv(w)
  <2>1. startPc[w] = "down" /\ threads[w] = {} /\ progress[w] = {}
    BY DEF StartupInit
  <2> QED BY <2>1
        DEF WorkerInv, Process, ThreadsServed, ProgressTrue, FromRegister, FromPrimary, Following
<1>3. Founding
  BY DEF StartupInit, Founding
<1>4. Settled
  BY InitialSetups DEF StartupInit, Settled
<1> QED BY <1>1, <1>2, <1>3, <1>4 DEF StartInv

\* Whatever worker takes whatever step, the invariant holds after it.
LEMMA StartInvStep == StartInv /\ [StartupNext]_startupVars => StartInv'
<1> SUFFICES ASSUME StartInv, [StartupNext]_startupVars PROVE StartInv'
  OBVIOUS
<1>1. CASE UNCHANGED startupVars
  <2>1. UNCHANGED <<workerMode, startPc, todoTargets, global_components, metadataOf, nonceOf>>
        /\ UNCHANGED <<threads, isPrimary, progress, shardSetup, enclaves, shardStatus>>
        /\ UNCHANGED <<starts, founders, wiped>>
    BY <1>1 DEF startupVars
  <2>2. StartupTyped'
    BY <2>1 DEF StartInv, StartupTyped
  <2>3. ASSUME NEW w \in StartWorkers PROVE WorkerInv(w)'
    <3>1. WorkerInv(w)
      BY DEF StartInv
    <3>2. \A c : CanCreateExtrinsics(w, c) => CanCreateExtrinsics(w, c)'
      BY <2>1, Zenon DEF CanCreateExtrinsics, get_extrinsic_factory, SoloOrParachain
    <3> QED BY <2>1, <3>1, <3>2 DEF WorkerInv, Process, ThreadsServed, ProgressTrue
  <2>4. Founding'
    BY <2>1 DEF StartInv, Founding
  <2>5. Settled'
    BY <2>1 DEF StartInv, Settled, Orderly, FounderSetup
  <2> QED BY <2>2, <2>3, <2>4, <2>5 DEF StartInv
<1>2. CASE StartupNext
  <2>1. PICK w \in StartWorkers :
           \/ crash_worker(w) \/ \E clean \in BOOLEAN : main(w, clean)
           \/ start_servers(w) \/ init_integritee(w) \/ register_enclave(w)
           \/ was_primary(w) \/ found_shard(w) \/ init_shard_config(w)
           \/ keep_state(w) \/ sync_state(w)
           \/ start_mode(w) \/ init_target_parentchain(w) \/ init_provided_shard_vault(w)
           \/ init_block_production(w) \/ poll_worker_for_shard(w) \/ produce_first_block(w)
    BY <1>2 DEF StartupNext
  <2>2. CASE crash_worker(w)
    BY <2>2, Stops DEF crash_worker
  <2>3. CASE \E clean \in BOOLEAN : main(w, clean)
    BY <2>3, Mains
  <2>4. CASE start_servers(w)
    BY <2>4, Serves
  <2>5. CASE init_integritee(w)
    BY <2>5, InitializesIntegritee
  <2>6. CASE register_enclave(w)
    BY <2>6, Registers
  <2>7. CASE was_primary(w)
    BY <2>7, StaysPrimary
  <2>8. CASE found_shard(w)
    BY <2>8, Founds
  <2>9. CASE init_shard_config(w)
    BY <2>9, ConfiguresShard
  <2>10. CASE keep_state(w)
    BY <2>10, KeepsState
  <2>11. CASE sync_state(w)
    BY <2>11, SyncsState
  <2>12. CASE start_mode(w)
    BY <2>12, StartsMode
  <2>13. CASE init_target_parentchain(w)
    <3> DEFINE c == Head(todoTargets[w])
    <3>1. CASE startPc[w] = "targets"
      <4>1. /\ todoTargets[w] # <<>> /\ init_shard_creation_parentchain_header(w, c)
            /\ global_components' =
                  [global_components EXCEPT ![w] = global_components[w] \cup {Handler(c)}]
            /\ metadataOf' = [metadataOf EXCEPT ![w] = metadataOf[w] \ {c}]
            /\ startPc' = [startPc EXCEPT ![w] = "target_metadata"]
            /\ UNCHANGED <<nonceOf, todoTargets, threads, isPrimary, progress, enclaves>>
            /\ UNCHANGED <<shardStatus, workerMode, starts, founders, wiped>>
        BY <2>13, <3>1 DEF init_target_parentchain, Goto, chainVars, historyVars
      <4> HIDE DEF c
      <4>2. c = Head(todoTargets[w])
        BY DEF c
      <4> QED BY <4>1, <4>2, <3>1, InitializesTarget
    <3>2. CASE startPc[w] # "targets"
      <4>1. /\ todoTargets[w] # <<>> /\ startPc[w] = "target_metadata"
            /\ set_nonce_and_metadata(w, c)
            /\ threads' = IF workerMode = "Teeracle" THEN threads
                          ELSE [threads EXCEPT ![w] = threads[w] \cup {c}]
            /\ todoTargets' = [todoTargets EXCEPT ![w] = Tail(todoTargets[w])]
            /\ startPc' = [startPc EXCEPT ![w] = "targets"]
            /\ UNCHANGED <<isPrimary, progress, shardSetup, enclaves>>
            /\ UNCHANGED <<shardStatus, workerMode, starts, founders, wiped>>
        BY <2>13, <3>2 DEF init_target_parentchain, Goto, chainVars, historyVars
      <4> HIDE DEF c
      <4>2. c = Head(todoTargets[w])
        BY DEF c
      <4> QED BY <4>1, <4>2, FollowsTarget
    <3> QED BY <3>1, <3>2
  <2>14. CASE init_provided_shard_vault(w)
    BY <2>14, InitializesVault
  <2>15. CASE init_block_production(w)
    BY <2>15, StartsProduction
  <2>16. CASE poll_worker_for_shard(w) \/ produce_first_block(w)
    BY <2>16, Reports
  <2> QED BY <2>1, <2>2, <2>3, <2>4, <2>5, <2>6, <2>7, <2>8, <2>9, <2>10, <2>11, <2>12,
             <2>13, <2>14, <2>15, <2>16
<1> QED BY <1>1, <1>2

\* StartInv holds at every moment of every start, with crashes and restarts in between.
THEOREM StartInvHolds == StartupSpec => []StartInv
BY StartInvInit, StartInvStep, PTL DEF StartupSpec

\* A thread that runs finds what it gets from the containers of the enclave (ThreadFinds).
LEMMA ThreadsFind == StartInv => ThreadsFindComponents
<1> SUFFICES ASSUME StartInv, NEW w \in StartWorkers, NEW t \in threads[w]
             PROVE ThreadFinds(w, t)
  BY DEF ThreadsFindComponents
<1>1. WorkerInv(w) /\ t \in Servers \cup Followers \cup Targets
  BY DEF StartInv, StartupTyped
<1>2. init_enclave \subseteq global_components[w]
  BY <1>1 DEF WorkerInv, Process
<1>3. t \notin Servers => startPc[w] \in Following
  BY <1>1 DEF WorkerInv, ThreadsServed
<1>4. t \notin Servers => CanCreateExtrinsics(w, "Integritee") /\ shardSetup[w].exists
  BY <1>1, <1>3 DEF WorkerInv, Process, FromRegister, Following
<1>5. \A c : CanCreateExtrinsics(w, c) => SoloOrParachain(w, c)
  BY DEF CanCreateExtrinsics, get_extrinsic_factory
<1>6. StartChains = {"Integritee"} \cup Targets /\ Targets \subseteq {"TargetA", "TargetB"}
  BY StartupAssumption DEF StartChains
<1>7. CASE t = "provisioning_server"
  <2>1. KeyRepositories \cup {"STATE_HANDLER", "ATTESTATION_HANDLER"} \subseteq init_enclave
    BY DEF init_enclave
  <2>2. KeyRepositories \cup {"STATE_HANDLER", "ATTESTATION_HANDLER"}
           \subseteq global_components[w]
    BY <1>2, <2>1
  <2> QED BY <1>6, <1>7, <2>2 DEF ThreadFinds
<1>8. CASE t = "direct_invocation"
  <2>1. "RPC_WS_HANDLER" \in init_enclave
    BY DEF init_enclave
  <2>2. "WEB_SOCKET_SERVER" \in global_components[w]
    BY <1>1, <1>8 DEF WorkerInv, ThreadsServed
  <2> QED BY <1>2, <1>6, <1>8, <2>1, <2>2 DEF ThreadFinds
<1>9. CASE t = "untrusted_rpc"
  <2>1. "SIDECHAIN_IMPORT_QUEUE" \in init_enclave
    BY DEF init_enclave
  <2> QED BY <1>2, <1>6, <1>9, <2>1 DEF ThreadFinds
<1>10. CASE t \in StartChains
  <2>1. CanCreateExtrinsics(w, t)
    BY <1>1, <1>4, <1>6, <1>10 DEF Servers, WorkerInv, ThreadsServed
  <2>2. dispatch_parentchain_blocks_for_import(w, t)
    BY <2>1, <1>5 DEF dispatch_parentchain_blocks_for_import
  <2>3. ThreadFinds(w, t) <=> /\ dispatch_parentchain_blocks_for_import(w, t)
                              /\ workerMode = "OffChainWorker" => CanCreateExtrinsics(w, t)
    BY <1>6, <1>10 DEF ThreadFinds
  <2> QED BY <2>1, <2>2, <2>3
<1>11. CASE t = "block_production"
  <2>1. /\ workerMode = "Sidechain" /\ SidechainComponents \subseteq global_components[w]
        /\ CanCreateExtrinsics(w, "Integritee") /\ shardSetup[w].exists
    BY <1>1, <1>4, <1>11 DEF WorkerInv, ThreadsServed, Servers
  <2>2. execute_trusted_calls(w)
    BY <2>1, <1>5 DEF execute_trusted_calls, get_triggered_dispatcher, get_validator_accessor
  <2>3. ThreadFinds(w, t) <=> execute_trusted_calls(w)
    BY <1>6, <1>11 DEF ThreadFinds
  <2> QED BY <2>2, <2>3
<1>12. CASE t \in {"reregistration", "market_update"}
  <2>1. CanCreateExtrinsics(w, "Integritee")
    BY <1>4, <1>12 DEF Servers
  <2>2. ThreadFinds(w, t) <=> CanCreateExtrinsics(w, "Integritee")
    BY <1>6, <1>12 DEF ThreadFinds
  <2> QED BY <2>1, <2>2
<1>13. CASE t = "polling"
  BY <1>6, <1>13 DEF ThreadFinds
<1> QED BY <1>1, <1>6, <1>7, <1>8, <1>9, <1>10, <1>11, <1>12, <1>13 DEF Servers, Followers

\* Two workers at the end of their start have a vault in their state, and with it the
\* whole set-up of the only founder.
LEMMA SetupsAgree == StartInv => SetupAgrees
<1> SUFFICES ASSUME StartInv, Cardinality(founders) <= 1, wiped = {}, workerMode # "Teeracle",
                    NEW v \in StartWorkers, NEW w \in StartWorkers,
                    startPc[v] = "running", startPc[w] = "running"
             PROVE shardSetup[v] = shardSetup[w]
  BY DEF SetupAgrees
<1>1. \A f, g \in founders : f = g
  <2> SUFFICES ASSUME NEW f \in founders, NEW g \in founders, f # g PROVE FALSE
    OBVIOUS
  <2>1. IsFiniteSet(founders) /\ {f, g} \subseteq founders
    BY DEF StartInv, StartupTyped
  <2>2. IsFiniteSet({f}) /\ Cardinality({f}) = 1 /\ g \notin {f}
    BY FS_Singleton
  <2>3. Cardinality({f} \cup {g}) = 2
    <3> DEFINE one == {f}
    <3>1. IsFiniteSet(one) /\ Cardinality(one) = 1 /\ g \notin one
      BY <2>2
    <3> HIDE DEF one
    <3>2. Cardinality(one \cup {g}) = Cardinality(one) + 1
      BY <3>1, FS_AddElement, Zenon
    <3>3. Cardinality(one \cup {g}) = 2
      BY <3>1, <3>2
    <3> QED BY <3>3 DEF one
  <2>4. Cardinality({f} \cup {g}) <= Cardinality(founders)
    BY <2>1, FS_Subset
  <2>5. Cardinality(founders) \in Nat
    BY <2>1, FS_CardinalityType
  <2> QED BY <2>3, <2>4, <2>5
<1>2. Orderly
  BY <1>1 DEF Orderly
<1>3. shardSetup[v].vault # Nobody /\ shardSetup[w].vault # Nobody
  BY DEF StartInv, WorkerInv, Process
<1>4. PICK f \in founders : FullSetup(shardSetup[v], f)
  BY <1>2, <1>3 DEF StartInv, Settled
<1>5. FullSetup(shardSetup[w], f)
  BY <1>1, <1>2, <1>3 DEF StartInv, Settled
<1>6. shardSetup[v] \in Setups /\ shardSetup[w] \in Setups
  BY DEF StartInv, StartupTyped
<1>7. shardSetup[v].creation = shardSetup[w].creation
  BY <1>4, <1>5, <1>6 DEF FullSetup, Setups
<1>8. shardSetup[v].vault = shardSetup[w].vault
      /\ (shardSetup[v].exists = shardSetup[w].exists)
  BY <1>4, <1>5, <1>6 DEF FullSetup, Setups
<1> QED BY <1>6, <1>7, <1>8 DEF Setups

\* Who says it is initialized produced a block, and is at the end of its start.
LEMMA InitializedComplete == StartInv => InitializedIsComplete
BY DEF StartInv, WorkerInv, Process, ProgressTrue, InitializedIsComplete, is_initialized,
       FromPrimary, Following

\* A start ends with everything in its place: the threads find their components, the
\* workers of the shard agree on its set-up, and is_initialized tells the truth.
THEOREM StartsAreCompleteHolds == StartupSpec => []StartsAreComplete
<1>1. StartInv => StartsAreComplete
  BY ThreadsFind, SetupsAgree, InitializedComplete DEF StartsAreComplete
<1> QED BY <1>1, StartInvHolds, PTL

-----------------------------------------------------------------------------
(* ShardParentchains: its invariant, action by action.                     *)

\* The instances are records with these fields.
Instance(r) ==
    r = [vault |-> r.vault, block |-> r.block, creation |-> r.creation,
         creation_timestamp |-> r.creation_timestamp, now |-> r.now]
InstancesTyped ==
    /\ instances = [c \in Parentchains |-> instances[c]]
    /\ \A c \in Parentchains : Instance(instances[c])

\* Without the count: no two chains have a vault.
SettledInv ==
    /\ InstancesTyped
    /\ \A c, d \in get_vaults : c = d
    /\ OnlyVaultChainCredits

\* What a step may not do to the creation block and the creation timestamp of a chain.
CreationStep ==
    \A c \in Parentchains :
        /\ instances[c].creation # <<>> => instances'[c].creation = instances[c].creation
        /\ instances[c].creation_timestamp # 0 =>
              instances'[c].creation_timestamp = instances[c].creation_timestamp

\* The vault is that of the state before.
LEMMA VaultsStay ==
    ASSUME \A c \in Parentchains : instances'[c].vault = instances[c].vault
    PROVE get_vaults' = get_vaults
BY DEF get_vaults

\* The first vault of the shard: there is none on any other chain.
LEMMA InitVaultSettles ==
    ASSUME SettledInv, NEW id \in Parentchains, NEW account \in VaultAccounts,
           init_vault(id, account)
    PROVE SettledInv' /\ CreationStep
<1> DEFINE mine == [instances[id] EXCEPT !.vault = account]
<1>1. /\ get_vaults = {} /\ shielded' = shielded
      /\ instances' = [instances EXCEPT ![id].vault = account]
  BY DEF init_vault, get_shard_vault_ensure_single_parentchain
<1>2. Instance(instances[id])
  BY DEF SettledInv, InstancesTyped
<1>3. /\ Instance(mine) /\ mine.creation = instances[id].creation
      /\ mine.creation_timestamp = instances[id].creation_timestamp
  BY <1>2 DEF Instance
<1>4. instances' = [c \in Parentchains |-> IF c = id THEN mine ELSE instances[c]]
  BY <1>1 DEF SettledInv, InstancesTyped
<1> HIDE DEF mine
<1>5. InstancesTyped' /\ CreationStep
  BY <1>3, <1>4 DEF SettledInv, InstancesTyped, CreationStep
<1>6. get_vaults' \subseteq {id}
  BY <1>1, <1>4 DEF get_vaults
<1>7. shielded = {}
  BY <1>1 DEF SettledInv, OnlyVaultChainCredits
<1> QED BY <1>1, <1>5, <1>6, <1>7 DEF SettledInv, OnlyVaultChainCredits

\* A step that leaves the vaults and the credits alone.
LEMMA RestSettles ==
    ASSUME SettledInv, InstancesTyped', shielded' = shielded,
           \A c \in Parentchains : instances'[c].vault = instances[c].vault
    PROVE SettledInv'
BY VaultsStay DEF SettledInv, OnlyVaultChainCredits

\* The creation block is set where there is none.
LEMMA CreationSettles ==
    ASSUME SettledInv, NEW id \in Parentchains, set_creation_block(id)
    PROVE SettledInv' /\ CreationStep
<1> DEFINE mine == [instances[id] EXCEPT !.creation = <<id, chainHeight[id]>>]
<1>1. /\ instances[id].creation = <<>> /\ shielded' = shielded
      /\ instances' = [instances EXCEPT ![id].creation = <<id, chainHeight[id]>>]
  BY DEF set_creation_block, shard_creation_info
<1>2. Instance(instances[id])
  BY DEF SettledInv, InstancesTyped
<1>3. /\ Instance(mine) /\ mine.vault = instances[id].vault
      /\ mine.creation_timestamp = instances[id].creation_timestamp
  BY <1>2 DEF Instance
<1>4. instances' = [c \in Parentchains |-> IF c = id THEN mine ELSE instances[c]]
  BY <1>1 DEF SettledInv, InstancesTyped
<1> HIDE DEF mine
<1>5. InstancesTyped' /\ CreationStep
  BY <1>1, <1>3, <1>4 DEF SettledInv, InstancesTyped, CreationStep
<1> QED BY <1>1, <1>3, <1>4, <1>5, RestSettles

\* The header goes to the Integritee instance, and to nothing but its block.
LEMMA ImportSettles ==
    ASSUME SettledInv, NEW id \in Parentchains, import_parentchain_block(id)
    PROVE SettledInv' /\ CreationStep
<1> DEFINE number == chainHeight[id] + 1
           i == "Integritee"
           mine == [instances[i] EXCEPT !.block = <<id, number>>]
<1>1. shielded' = shielded /\ instances' = [instances EXCEPT !["Integritee"].block = <<id, number>>]
  BY DEF import_parentchain_block, update_states
<1>2. i \in Parentchains /\ Instance(instances[i])
  BY ShardParentchainsAssumption DEF SettledInv, InstancesTyped
<1>3. /\ Instance(mine) /\ mine.vault = instances[i].vault
      /\ mine.creation = instances[i].creation
      /\ mine.creation_timestamp = instances[i].creation_timestamp
  BY <1>2 DEF Instance
<1>4. instances' = [c \in Parentchains |-> IF c = i THEN mine ELSE instances[c]]
  BY <1>1, <1>2 DEF SettledInv, InstancesTyped
<1> HIDE DEF mine, number, i
<1>5. InstancesTyped' /\ CreationStep
  BY <1>2, <1>3, <1>4 DEF SettledInv, InstancesTyped, CreationStep
<1> QED BY <1>1, <1>3, <1>4, <1>5, RestSettles

\* A call of the pool: a deposit is credited on the chain of the vault only, and the creation
\* timestamp is set by the first call.
LEMMA CallSettles ==
    ASSUME SettledInv, execute_enclave_call
    PROVE SettledInv' /\ CreationStep
<1> DEFINE call == Head(callPool)
<1>1. CASE call.kind = "balance_shield"
  <2>1. /\ instances' = instances
        /\ shielded' = IF may_shield(call.chain)
                       THEN shielded \cup {<<call.chain, call.deposit>>} ELSE shielded
    BY <1>1 DEF execute_enclave_call
  <2> HIDE DEF call
  <2>2. InstancesTyped' /\ CreationStep /\ get_vaults' = get_vaults
    BY <2>1 DEF SettledInv, InstancesTyped, Instance, CreationStep, get_vaults
  <2>3. may_shield(call.chain) => get_vaults = {call.chain}
    BY DEF may_shield, SettledInv
  <2>4. \A d \in shielded' : get_vaults = {d[1]}
    BY <2>1, <2>3 DEF SettledInv, OnlyVaultChainCredits
  <2> QED BY <2>2, <2>4 DEF SettledInv, OnlyVaultChainCredits
<1>2. CASE call.kind # "balance_shield"
  <2>1. shielded' = shielded /\ instances' = set_timestamp(instances, call.chain, call.now)
    BY <1>2 DEF execute_enclave_call
  <2> DEFINE id == call.chain
             now == call.now
             first == IF id = "Integritee" /\ instances[id].creation_timestamp = 0
                      THEN now ELSE instances[id].creation_timestamp
             mine == [instances[id] EXCEPT !.now = now, !.creation_timestamp = first]
  <2>2. CASE id \in Parentchains
    <3>1. Instance(instances[id])
      BY <2>2 DEF SettledInv, InstancesTyped
    <3>2. /\ Instance(mine) /\ mine.vault = instances[id].vault
          /\ mine.creation = instances[id].creation
          /\ instances[id].creation_timestamp # 0 =>
                mine.creation_timestamp = instances[id].creation_timestamp
      <4>1. instances[id].creation_timestamp # 0 => first = instances[id].creation_timestamp
        OBVIOUS
      <4> HIDE DEF first, id, now
      <4>2. Instance(mine) /\ mine.vault = instances[id].vault
            /\ mine.creation = instances[id].creation /\ mine.creation_timestamp = first
        <5> DEFINE stamped == [instances[id] EXCEPT !.now = now]
        <5>1. Instance(stamped) /\ stamped.vault = instances[id].vault
              /\ stamped.creation = instances[id].creation
          BY <3>1 DEF Instance
        <5>2. mine = [stamped EXCEPT !.creation_timestamp = first]
          OBVIOUS
        <5> HIDE DEF stamped, mine
        <5>3. Instance(mine) /\ mine.vault = stamped.vault /\ mine.creation = stamped.creation
              /\ mine.creation_timestamp = first
          BY <5>1, <5>2 DEF Instance
        <5> QED BY <5>1, <5>3
      <4> QED BY <4>1, <4>2
    <3>3. instances' = [c \in Parentchains |-> IF c = id THEN mine ELSE instances[c]]
      BY <2>1, <2>2, <3>1 DEF SettledInv, InstancesTyped, set_timestamp
    <3> HIDE DEF mine, id
    <3>4. InstancesTyped' /\ CreationStep
      BY <3>2, <3>3 DEF SettledInv, InstancesTyped, CreationStep
    <3> QED BY <2>1, <3>2, <3>3, <3>4, RestSettles
  <2>3. CASE id \notin Parentchains
    <3>1. instances' = instances
      BY <2>1, <2>3 DEF set_timestamp, SettledInv, InstancesTyped
    <3>2. InstancesTyped' /\ CreationStep
      BY <3>1 DEF SettledInv, InstancesTyped, Instance, CreationStep
    <3> QED BY <2>1, <3>1, <3>2, RestSettles
  <2> QED BY <2>2, <2>3
<1> QED BY <1>1, <1>2

\* Every step keeps the invariant, and what is settled of the creation.
LEMMA SettledStep ==
    ASSUME SettledInv, [ShardParentchainsNext]_shardParentchainsVars
    PROVE SettledInv' /\ CreationStep
<1>1. CASE UNCHANGED shardParentchainsVars
  BY <1>1 DEF shardParentchainsVars, SettledInv, InstancesTyped, Instance, get_vaults,
              OnlyVaultChainCredits, CreationStep
<1>2. CASE ShardParentchainsNext
  BY <1>2, InitVaultSettles, CreationSettles, ImportSettles, CallSettles
    DEF ShardParentchainsNext
<1> QED BY <1>1, <1>2

\* A new state knows nothing of its parentchains.
LEMMA SettledInit == ShardParentchainsInit => SettledInv
<1> SUFFICES ASSUME ShardParentchainsInit PROVE SettledInv
  OBVIOUS
<1>1. instances = [c \in Parentchains |-> EmptyInstance] /\ shielded = {}
  BY DEF ShardParentchainsInit
<1>2. Instance(EmptyInstance) /\ EmptyInstance.vault = Unset
  BY DEF Instance, EmptyInstance
<1>3. InstancesTyped /\ get_vaults = {}
  BY <1>1, <1>2 DEF InstancesTyped, get_vaults
<1> QED BY <1>1, <1>3 DEF SettledInv, OnlyVaultChainCredits

\* The count of the property, from the invariant.
LEMMA SettledIsOneVault == SettledInv => OneVault
<1> SUFFICES ASSUME SettledInv PROVE Cardinality(get_vaults) <= 1
  BY DEF OneVault
<1>1. CASE get_vaults = {}
  BY <1>1, FS_EmptySet
<1>2. CASE get_vaults # {}
  <2>1. PICK c : get_vaults = {c}
    BY <1>2 DEF SettledInv
  <2> QED BY <2>1, FS_Singleton
<1> QED BY <1>1, <1>2

\* However many chains, accounts, blocks and late calls: the shard has one vault, deposits are
\* credited on its chain only, and creation blocks and the creation timestamp never change.
THEOREM VaultAndCreationSettledHolds == ShardParentchainsSpec => VaultAndCreationSettled
<1>1. SettledInv => OneVault /\ OnlyVaultChainCredits
  BY SettledIsOneVault DEF SettledInv
<1>2. SettledInv /\ [ShardParentchainsNext]_shardParentchainsVars => SettledInv'
  BY SettledStep
<1>3. SettledInv /\ [ShardParentchainsNext]_shardParentchainsVars =>
         [CreationStep]_shardParentchainsVars
  BY SettledStep
<1> QED BY <1>1, <1>2, <1>3, SettledInit, PTL
      DEF ShardParentchainsSpec, VaultAndCreationSettled, CreationKept, CreationStep

-----------------------------------------------------------------------------
EnclaveBridgeSpec == EnclaveBridgeInit /\ [][EnclaveBridgeNext]_enclaveBridgeVars

\* A thread inside the enclave came in through init or after main had given the bridge its
\* components; one that called back finds them.
FrameFits(f) ==
    /\ f.at \in {"host", "enclave", "ocall"}
    /\ f.at = "enclave" => f.ecall = "init" \/ component_factory
    /\ f.at = "ocall" => component_factory

BridgeInv ==
    /\ component_factory \in BOOLEAN /\ frame = [t \in Threads |-> frame[t]]
    /\ \A t \in Threads : FrameFits(frame[t])
    /\ AnswersAreTrue

LEMMA BridgeStarts == EnclaveBridgeInit => BridgeInv
<1> SUFFICES ASSUME EnclaveBridgeInit PROVE BridgeInv OBVIOUS
<1>1. component_factory \in BOOLEAN /\ frame = [t \in Threads |-> frame[t]]
    BY DEF EnclaveBridgeInit
<1>2. \A t \in Threads : FrameFits(frame[t])
    BY DEF EnclaveBridgeInit, FrameFits, AtHost
<1>3. finished.out = "Err" /\ hostUp = "alive"
    BY DEF EnclaveBridgeInit, Ran
<1>4. AnswersAreTrue
    BY <1>3 DEF AnswersAreTrue, OkMeansDone, AnswersAreWhole, BridgeBeforeOcalls, VerifiedIsAtHeader
<1> QED BY <1>1, <1>2, <1>4 DEF BridgeInv

\* What is reported of a call.
LEMMA Reported ==
    ASSUME BridgeInv, NEW call, NEW out, NEW did, NEW sent, NEW got, finished' = Ran(call, out, did, sent, got),
           out = "Ok" /\ call \in Reporting => did,
           out = "Ok" /\ call \in PaddedEcalls \cup Answering \cup {"get_storage_verified"} => got = sent,
           UNCHANGED <<hostUp, component_factory>>
    PROVE  AnswersAreTrue'
BY DEF BridgeInv, AnswersAreTrue, OkMeansDone, AnswersAreWhole, BridgeBeforeOcalls, VerifiedIsAtHeader, Ran

\* One thread moves.
LEMMA FrameMoves ==
    ASSUME BridgeInv, NEW t \in Threads, NEW f, frame' = [frame EXCEPT ![t] = f], UNCHANGED component_factory,
           FrameFits(f), AnswersAreTrue'
    PROVE  BridgeInv'
<1>1. (frame = [x \in Threads |-> frame[x]])' /\ frame'[t] = f /\ \A x \in Threads : x # t => frame'[x] = frame[x]
    BY DEF BridgeInv
<1>2. ASSUME NEW x \in Threads PROVE FrameFits(frame[x])'
    <2>1. FrameFits(frame'[x])
        BY <1>1 DEF BridgeInv
    <2> QED BY <2>1 DEF FrameFits
<1> QED BY <1>1, <1>2 DEF BridgeInv

LEMMA HostFits == \A n : FrameFits(AtHost(n))
BY DEF FrameFits, AtHost

LEMMA BridgeInitializes ==
    ASSUME BridgeInv, ocall_bridge_initialize
    PROVE  BridgeInv'
BY DEF BridgeInv, ocall_bridge_initialize, FrameFits, AnswersAreTrue, OkMeansDone, AnswersAreWhole,
       BridgeBeforeOcalls, VerifiedIsAtHeader

LEMMA EcallKeeps ==
    ASSUME BridgeInv, NEW t \in Threads, NEW e \in Ecalls, ecall(t, e)
    PROVE  BridgeInv'
<1>1. CASE enclaveUp = "alive"
    <2>1. PICK f : f = [at |-> "enclave", calls |-> frame[t].calls + 1, ecall |-> e]
        OBVIOUS
    <2>2. frame' = [frame EXCEPT ![t] = f] /\ UNCHANGED <<component_factory, hostUp, finished>>
        BY <1>1, <2>1 DEF ecall
    <2>3. FrameFits(f)
        BY <2>1 DEF FrameFits, ecall, MayCall
    <2>4. AnswersAreTrue'
        BY <2>2 DEF BridgeInv, AnswersAreTrue, OkMeansDone, AnswersAreWhole, BridgeBeforeOcalls, VerifiedIsAtHeader
    <2> QED BY <2>2, <2>3, <2>4, FrameMoves
<1>2. CASE enclaveUp # "alive"
    <2>1. PICK f : f = AtHost(frame[t].calls + 1)
        OBVIOUS
    <2>2. /\ frame' = [frame EXCEPT ![t] = f] /\ UNCHANGED <<component_factory, hostUp>>
          /\ finished' = Ran(e, returned("error", "success"), FALSE, 0, 0)
        BY <1>2, <2>1 DEF ecall
    <2>3. returned("error", "success") = "Err"
        BY DEF returned
    <2>4. AnswersAreTrue'
        BY <2>2, <2>3, Reported
    <2> QED BY <2>1, <2>2, <2>4, HostFits, FrameMoves
<1> QED BY <1>1, <1>2

LEMMA ReturnKeeps ==
    ASSUME BridgeInv, NEW t \in Threads, NEW e, NEW result, NEW retval, NEW did, Return(t, e, result, retval, did),
           result = "success" /\ retval = "success" => did, UNCHANGED <<component_factory, hostUp>>
    PROVE  BridgeInv'
<1>1. frame' = [frame EXCEPT ![t] = AtHost(frame[t].calls)] /\ finished' = Ran(e, returned(result, retval), did, 0, 0)
    BY DEF Return
<1>2. returned(result, retval) = "Ok" => did
    BY DEF returned
<1>3. AnswersAreTrue'
    BY <1>1, <1>2, Reported
<1> QED BY <1>1, <1>3, HostFits, FrameMoves

LEMMA PaddedEcallKeeps ==
    ASSUME BridgeInv, NEW t \in Threads, NEW e \in Ecalls, padded_ecall(t, e)
    PROVE  BridgeInv'
<1>1. PICK ok, answer, written, got :
          /\ ok \in BOOLEAN /\ answer \in 1 .. MaxAnswer
          /\ written = (ok /\ write_slice_and_whitespace_pad(answer) # {})
          /\ got = IF written THEN Found(answer) ELSE 0
          /\ frame' = [frame EXCEPT ![t] = AtHost(@.calls)]
          /\ finished' = Ran(e, returned("success", IF written THEN "success" ELSE "error"), ok, answer, got)
    BY DEF padded_ecall
<1>2. UNCHANGED <<component_factory, hostUp>>
    BY DEF padded_ecall
<1>3. returned("success", IF written THEN "success" ELSE "error") = "Ok" => written
    BY DEF returned
<1>4. written => ok /\ got = answer
    BY <1>1 DEF Found, write_slice_and_whitespace_pad
<1>5. AnswersAreTrue'
    BY <1>1, <1>2, <1>3, <1>4, Reported
<1>6. frame' = [frame EXCEPT ![t] = AtHost(frame[t].calls)]
    BY <1>1
<1> QED BY <1>2, <1>5, <1>6, HostFits, FrameMoves

LEMMA GetApiKeeps ==
    ASSUME BridgeInv, NEW t \in Threads, NEW o \in Ocalls, get_api(t, o)
    PROVE  BridgeInv'
<1>1. /\ frame[t].at = "enclave" /\ o \in MakesOcalls(frame[t].ecall) /\ UNCHANGED <<component_factory, finished>>
      /\ FrameFits(frame[t])
    BY DEF get_api, BridgeInv
<1>2. component_factory
    <2>1. "init" \notin SidechainEcalls /\ MakesOcalls("init") = {}
        BY DEF SidechainEcalls, MakesOcalls
    <2> QED BY <1>1, <2>1 DEF FrameFits
<1>3. PICK f : f = [at |-> "ocall", calls |-> frame[t].calls, ecall |-> frame[t].ecall, ocall |-> o]
    OBVIOUS
<1>4. frame' = [frame EXCEPT ![t] = f] /\ UNCHANGED hostUp
    BY <1>2, <1>3 DEF get_api
<1>5. FrameFits(f)
    BY <1>2, <1>3 DEF FrameFits
<1>6. AnswersAreTrue'
    BY <1>1, <1>4 DEF BridgeInv, AnswersAreTrue, OkMeansDone, AnswersAreWhole, BridgeBeforeOcalls, VerifiedIsAtHeader
<1> QED BY <1>1, <1>4, <1>5, <1>6, FrameMoves

\* A thread that is in an ocall goes back, or the host is gone.
LEMMA BackFits ==
    ASSUME BridgeInv, NEW t \in Threads, frame[t].at = "ocall"
    PROVE  FrameFits(Back(t)) /\ component_factory
BY DEF BridgeInv, FrameFits, Back

LEMMA HostAborts ==
    ASSUME BridgeInv, NEW t \in Threads, frame[t].at = "ocall", UNCHANGED <<component_factory, frame, finished>>
    PROVE  BridgeInv'
<1>1. component_factory'
    BY BackFits
<1> QED BY <1>1 DEF BridgeInv, FrameFits, AnswersAreTrue, OkMeansDone, AnswersAreWhole, BridgeBeforeOcalls, VerifiedIsAtHeader

LEMMA OcallEndsKeeps ==
    ASSUME BridgeInv, NEW t \in Threads, frame[t].at = "ocall", NEW rt, NEW did, NEW sent, NEW got,
           OcallEnds(t, rt, did, sent, got), UNCHANGED <<component_factory, hostUp>>,
           rt = "success" /\ frame[t].ocall \in Reporting => did,
           rt = "success" /\ frame[t].ocall \in PaddedEcalls \cup Answering \cup {"get_storage_verified"} => got = sent
    PROVE  BridgeInv'
<1>1. frame' = [frame EXCEPT ![t] = Back(t)] /\ finished' = Ran(frame[t].ocall, ocall_returned("success", rt), did, sent, got)
    BY DEF OcallEnds
<1>2. ocall_returned("success", rt) = "Ok" => rt = "success"
    BY DEF ocall_returned
<1>3. AnswersAreTrue'
    BY <1>1, <1>2, Reported
<1> QED BY <1>1, <1>3, BackFits, FrameMoves

LEMMA TransportFailsKeeps ==
    ASSUME BridgeInv, NEW t \in Threads, ocall_transport_fails(t)
    PROVE  BridgeInv'
<1>1. /\ frame[t].at = "ocall" /\ frame' = [frame EXCEPT ![t] = Back(t)] /\ UNCHANGED <<component_factory, hostUp>>
      /\ finished' = Ran(frame[t].ocall, ocall_returned("error", "error"), FALSE, 0, 0)
    BY DEF ocall_transport_fails
<1>2. ocall_returned("error", "error") = "Err"
    BY DEF ocall_returned
<1>3. AnswersAreTrue'
    BY <1>1, <1>2, Reported
<1> QED BY <1>1, <1>3, BackFits, FrameMoves

LEMMA SimpleOcallKeeps ==
    ASSUME BridgeInv, NEW t \in Threads, propose_or_store(t) \/ update_metric(t) \/ read_ipfs(t)
    PROVE  BridgeInv'
<1>1. CASE propose_or_store(t)
    <2>1. /\ frame[t].at = "ocall" /\ frame[t].ocall \notin Reporting
          /\ frame[t].ocall \notin PaddedEcalls \cup Answering \cup {"get_storage_verified"}
        BY <1>1 DEF propose_or_store, Reporting, PaddedEcalls, Answering
    <2> QED BY <1>1, <2>1, OcallEndsKeeps DEF propose_or_store
<1>2. CASE update_metric(t) \/ read_ipfs(t)
    <2>1. /\ frame[t].at = "ocall" /\ UNCHANGED <<component_factory, hostUp>>
          /\ frame[t].ocall \notin PaddedEcalls \cup Answering \cup {"get_storage_verified"}
        BY <1>2 DEF update_metric, read_ipfs, PaddedEcalls, Answering
    <2>2. PICK ok \in BOOLEAN : OcallEnds(t, IF ok THEN "success" ELSE "error", ok, 0, 0)
        BY <1>2 DEF update_metric, read_ipfs
    <2> QED BY <2>1, <2>2, OcallEndsKeeps
<1> QED BY <1>1, <1>2

LEMMA FetchKeeps ==
    ASSUME BridgeInv, NEW t \in Threads, fetch_sidechain_blocks_from_peer(t)
    PROVE  BridgeInv'
<1>1. frame[t].at = "ocall" /\ UNCHANGED <<component_factory, hostUp>>
    BY DEF fetch_sidechain_blocks_from_peer
<1>2. PICK ok, blocks, written :
          /\ written = (ok /\ write_slice_and_whitespace_pad(blocks) # {})
          /\ OcallEnds(t, IF written THEN "success" ELSE "error", ok, blocks, IF written THEN Found(blocks) ELSE 0)
    BY DEF fetch_sidechain_blocks_from_peer
<1>3. written => ok /\ Found(blocks) = blocks
    BY <1>2 DEF Found, write_slice_and_whitespace_pad
<1>4. PICK rt, got : rt = (IF written THEN "success" ELSE "error") /\ got = (IF written THEN Found(blocks) ELSE 0)
    OBVIOUS
<1>5. OcallEnds(t, rt, ok, blocks, got) /\ (rt = "success" => ok /\ got = blocks)
    BY <1>2, <1>3, <1>4
<1> QED BY <1>1, <1>5, OcallEndsKeeps

LEMMA WriteIpfsKeeps ==
    ASSUME BridgeInv, NEW t \in Threads, write_ipfs(t)
    PROVE  BridgeInv'
<1>1. frame[t].at = "ocall" /\ UNCHANGED component_factory
    BY DEF write_ipfs
<1>2. CASE OcallEnds(t, "success", TRUE, 1, 1) /\ UNCHANGED hostUp
    BY <1>1, <1>2, OcallEndsKeeps
<1>3. CASE UNCHANGED <<frame, finished>>
    BY <1>1, <1>3, HostAborts
<1> QED BY <1>2, <1>3 DEF write_ipfs

\* A value is taken when its proof leads to it from the root of the header asked for.
LEMMA WorkerRequestKeeps ==
    ASSUME BridgeInv, NEW t \in Threads, worker_request(t)
    PROVE  BridgeInv'
<1>1. frame[t].at = "ocall" /\ UNCHANGED component_factory
    BY DEF worker_request
<1>2. CASE UNCHANGED <<frame, finished>>
    BY <1>1, <1>2, HostAborts
<1>3. ASSUME NEW header \in Headers, NEW value \in Headers, NEW proof \in Headers \cup {"none"}, NEW size \in 1 .. MaxAnswer,
             NEW ok \in BOOLEAN, ok <=> get_multiple_storages_verified(header, value, proof, size),
             frame' = [frame EXCEPT ![t] = Back(t)], UNCHANGED hostUp,
             finished' = Ran("get_storage_verified", IF ok THEN "Ok" ELSE "Err", TRUE, header, IF ok THEN value ELSE "none")
      PROVE  BridgeInv'
    <2>1. ok => value = header
        <3>1. ok => check_proof(header, proof) # "error" /\ check_proof(header, proof) = value
            BY <1>3 DEF get_multiple_storages_verified, verify_storage_proof
        <3>2. check_proof(header, proof) # "error" => check_proof(header, proof) = header
            BY DEF check_proof
        <3> QED BY <3>1, <3>2
    <2>2. PICK out, got : out = (IF ok THEN "Ok" ELSE "Err") /\ got = (IF ok THEN value ELSE "none")
        OBVIOUS
    <2>3. finished' = Ran("get_storage_verified", out, TRUE, header, got) /\ (out = "Ok" => got = header)
        BY <1>3, <2>1, <2>2
    <2>4. AnswersAreTrue'
        <3>1. PICK call, did : call = "get_storage_verified" /\ did = TRUE
            OBVIOUS
        <3>2. finished' = Ran(call, out, did, header, got) /\ did /\ UNCHANGED <<hostUp, component_factory>>
            BY <1>1, <1>3, <2>3, <3>1
        <3> QED BY <2>3, <3>2, Reported
    <2> QED BY <1>1, <1>3, <2>4, BackFits, FrameMoves
<1> QED BY <1>2, <1>3 DEF worker_request

LEMMA BridgeInductive == BridgeInv /\ [EnclaveBridgeNext]_enclaveBridgeVars => BridgeInv'
<1> SUFFICES ASSUME BridgeInv, [EnclaveBridgeNext]_enclaveBridgeVars PROVE BridgeInv' OBVIOUS
<1>1. CASE UNCHANGED enclaveBridgeVars
    BY <1>1 DEF enclaveBridgeVars, BridgeInv, FrameFits, AnswersAreTrue, OkMeansDone, AnswersAreWhole,
       BridgeBeforeOcalls, VerifiedIsAtHeader
<1>2. ASSUME NEW t \in Threads, init_ecall(t) PROVE BridgeInv'
    <2>1. PICK ok \in BOOLEAN : Return(t, "init", "success", IF ok THEN "success" ELSE "error", ok)
        BY <1>2 DEF init_ecall
    <2>2. PICK retval : retval = IF ok THEN "success" ELSE "error"
        OBVIOUS
    <2> QED BY <1>2, <2>1, <2>2, ReturnKeeps DEF init_ecall
<1>3. ASSUME NEW t \in Threads, NEW e \in Ecalls, status_ecall(t, e) PROVE BridgeInv'
    <2>1. PICK ok \in BOOLEAN : Return(t, e, "success", IF ok THEN "success" ELSE "error", ok)
        BY <1>3 DEF status_ecall
    <2>2. PICK retval : retval = IF ok THEN "success" ELSE "error"
        OBVIOUS
    <2> QED BY <1>3, <2>1, <2>2, ReturnKeeps DEF status_ecall
<1>4. ASSUME NEW t \in Threads, enclave_panics(t) PROVE BridgeInv'
    BY <1>4 DEF enclave_panics, BridgeInv, FrameFits, AnswersAreTrue, OkMeansDone, AnswersAreWhole,
       BridgeBeforeOcalls, VerifiedIsAtHeader
<1>5. ASSUME NEW t \in Threads, crashed_call_ends(t) PROVE BridgeInv'
    <2>1. PICK e : e = frame[t].ecall
        OBVIOUS
    <2>2. Return(t, e, "error", "success", FALSE) /\ UNCHANGED <<component_factory, hostUp>>
        BY <1>5, <2>1 DEF crashed_call_ends
    <2> QED BY <2>2, ReturnKeeps
<1> QED BY <1>1, <1>2, <1>3, <1>4, <1>5, BridgeInitializes, EcallKeeps, PaddedEcallKeeps, GetApiKeeps,
           TransportFailsKeeps, SimpleOcallKeeps, FetchKeeps, WriteIpfsKeeps, WorkerRequestKeeps DEF EnclaveBridgeNext

\* A caller on either side of the border of the enclave may believe what it is told: a success was
\* performed, an answer is whole, a verified value is of the header asked for, and no thread calls
\* back before main has given the bridge its components.
THEOREM AnswersAreTrueHolds == EnclaveBridgeSpec => []AnswersAreTrue
<1>1. BridgeInv => AnswersAreTrue
    BY DEF BridgeInv
<1> QED BY <1>1, BridgeStarts, BridgeInductive, PTL DEF EnclaveBridgeSpec

-----------------------------------------------------------------------------
OffchainSpec == OffchainInit /\ [][OffchainNext]_offchainVars

\* The nonce of a call is used up in the state of its shard.
Applied(c) == c \in offState[ShardOf[c]].used

OffchainTyped ==
    /\ offPool \subseteq OffchainCalls /\ succeeded \subseteq OffchainCalls
    /\ offState \in [Shards -> [used : SUBSET OffchainCalls, header : Nat]]
    /\ offSent \in [OffchainCalls -> Nat] /\ offImports \in Nat
    /\ offThread = [t \in OffchainChains |-> offThread[t]]

\* A call was sent once at most, and one that was is in the state.
SentIsApplied == \A c \in OffchainCalls : offSent[c] <= 1 /\ (offSent[c] > 0 => Applied(c))

\* Where the thread is, and what it holds.
ShardCalls(i) == {c \in OffchainCalls : ShardOf[c] = OffchainShards[i]}
ThreadIsAt(th) ==
    /\ th.at \in {"rest", "shard", "propose", "apply", "remove"}
    /\ th.at # "rest" => th.i \in Nat \ {0} /\ th.effects \subseteq OffchainCalls
    /\ th.at \in {"propose", "apply", "remove"} => th.i \in DOMAIN OffchainShards
    /\ th.at = "propose" => th.pending \subseteq ShardCalls(th.i)
    /\ th.at \in {"apply", "remove"} => th.success \subseteq ShardCalls(th.i)
    /\ th.at = "apply" => th.after \in [used : SUBSET OffchainCalls, header : Nat]

\* Effects are held for calls that are in the state and not sent yet, or succeed on the copy
\* that is about to be written, which lacks nothing of the state.
EffectsAreNew(th) ==
    /\ th.at # "rest" => \A c \in th.effects : offSent[c] = 0
    /\ th.at \in {"shard", "propose", "remove"} => \A c \in th.effects : Applied(c)
    /\ th.at = "apply" =>
          /\ \A c \in th.effects : Applied(c) \/ c \in th.success
          /\ offState[OffchainShards[th.i]].used \subseteq th.after.used /\ th.success \subseteq th.after.used
    /\ th.at = "remove" => \A c \in th.success : Applied(c)

OffchainInv ==
    /\ OffchainTyped /\ SentIsApplied /\ SuccessStays
    /\ \A t \in OffchainChains : ThreadIsAt(offThread[t]) /\ EffectsAreNew(offThread[t])

LEMMA OffchainStarts == OffchainInit => OffchainInv
<1> SUFFICES ASSUME OffchainInit PROVE OffchainInv OBVIOUS
<1>1. OffchainTyped
    BY DEF OffchainInit, OffchainTyped
<1>2. SentIsApplied /\ SuccessStays
    BY DEF OffchainInit, SentIsApplied, SuccessStays
<1>3. ASSUME NEW t \in OffchainChains PROVE ThreadIsAt(offThread[t]) /\ EffectsAreNew(offThread[t])
    BY DEF OffchainInit, ThreadIsAt, EffectsAreNew, Resting
<1> QED BY <1>1, <1>2, <1>3 DEF OffchainInv

\* The shard a thread is at.
LEMMA ShardIsOne ==
    ASSUME NEW i \in DOMAIN OffchainShards
    PROVE  OffchainShards[i] \in Shards
BY DEF Shards

LEMMA CallShard == \A c \in OffchainCalls : ShardOf[c] \in Shards
BY OffchainAssumption DEF Shards

\* A thread that goes somewhere.
LEMMA ThreadGoes ==
    ASSUME NEW t \in OffchainChains, NEW th, offThread = [x \in OffchainChains |-> offThread[x]], OffGoto(t, th)
    PROVE  /\ (offThread = [x \in OffchainChains |-> offThread[x]])' /\ offThread'[t] = th
           /\ \A x \in OffchainChains : x # t => offThread'[x] = offThread[x]
BY DEF OffGoto

\* The steps that leave the state, what was sent and what was reported: enough is known of where
\* the thread goes.
LEMMA StateStays ==
    ASSUME OffchainInv, NEW t \in OffchainChains, NEW th, OffGoto(t, th), offPool' \subseteq OffchainCalls,
           UNCHANGED <<offState, offImports, succeeded, offSent>>, ThreadIsAt(th), EffectsAreNew(th)
    PROVE  OffchainInv'
<1>0. /\ (offThread = [x \in OffchainChains |-> offThread[x]])' /\ offThread'[t] = th
      /\ \A x \in OffchainChains : x # t => offThread'[x] = offThread[x]
    BY ThreadGoes DEF OffchainInv, OffchainTyped
<1>1. OffchainTyped'
    BY <1>0 DEF OffchainInv, OffchainTyped
<1>2. SentIsApplied' /\ SuccessStays'
    BY DEF OffchainInv, SentIsApplied, SuccessStays, Applied
<1>3. ASSUME NEW x \in OffchainChains PROVE ThreadIsAt(offThread'[x]) /\ EffectsAreNew(offThread'[x])
    BY <1>0 DEF OffchainInv
<1>4. ASSUME NEW x \in OffchainChains PROVE (ThreadIsAt(offThread[x]) /\ EffectsAreNew(offThread[x]))'
    BY <1>3 DEF EffectsAreNew, ThreadIsAt, Applied, ShardCalls
<1> QED BY <1>1, <1>2, <1>4 DEF OffchainInv

LEMMA RestingIsFine == ThreadIsAt(Resting) /\ EffectsAreNew(Resting)
BY DEF ThreadIsAt, EffectsAreNew, Resting

LEMMA SubmitOffchainKeeps ==
    ASSUME OffchainInv, NEW c \in OffchainCalls, submit_offchain(c)
    PROVE  OffchainInv'
BY DEF OffchainInv, OffchainTyped, SentIsApplied, SuccessStays, ThreadIsAt, EffectsAreNew, Applied, ShardCalls, submit_offchain

\* The header of every shard moves; what is used up stays.
LEMMA DispatchImportKeeps ==
    ASSUME OffchainInv, NEW t, OffchainChains = {t}, dispatch_import(t)
    PROVE  OffchainInv'
<1>1. PICK th : th = [at |-> "shard", i |-> 1, effects |-> {}]
    OBVIOUS
<1>2. /\ (offThread = [x \in OffchainChains |-> offThread[x]])' /\ offThread'[t] = th
    BY <1>1, ThreadGoes DEF OffchainInv, OffchainTyped, dispatch_import
<1>3. offImports' \in Nat
    BY DEF OffchainInv, OffchainTyped, dispatch_import
<1>4. /\ offState' \in [Shards -> [used : SUBSET OffchainCalls, header : Nat]]
      /\ \A s \in Shards : offState'[s].used = offState[s].used
    <2>1. offState \in [Shards -> [used : SUBSET OffchainCalls, header : Nat]]
        BY DEF OffchainInv, OffchainTyped
    <2> QED BY <1>3, <2>1 DEF dispatch_import
<1>5. OffchainTyped'
    BY <1>2, <1>3, <1>4 DEF OffchainInv, OffchainTyped, dispatch_import
<1>6. SentIsApplied' /\ SuccessStays'
    BY <1>4, CallShard DEF OffchainInv, OffchainTyped, SentIsApplied, SuccessStays, Applied, dispatch_import
<1>7. ThreadIsAt(th)' /\ EffectsAreNew(th)'
    BY <1>1 DEF ThreadIsAt, EffectsAreNew
<1> QED BY <1>2, <1>5, <1>6, <1>7 DEF OffchainInv

LEMMA GetPendingKeeps ==
    ASSUME OffchainInv, NEW t, OffchainChains = {t}, get_pending_trusted_calls(t)
    PROVE  OffchainInv'
<1>0. PICK old : old = offThread[t]
    OBVIOUS
<1>1. PICK th : th = [at |-> "propose", i |-> old.i, effects |-> old.effects,
                      pending |-> {c \in offPool : ShardOf[c] = OffchainShards[old.i]}]
    OBVIOUS
<1>2. ThreadIsAt(old) /\ EffectsAreNew(old) /\ old.at = "shard" /\ old.i <= Len(OffchainShards)
    BY <1>0 DEF OffchainInv, get_pending_trusted_calls
<1>3. OffGoto(t, th) /\ UNCHANGED <<offPool, offState, offImports, succeeded, offSent>>
    BY <1>0, <1>1 DEF get_pending_trusted_calls, ShardOfThread
<1>4. old.i \in DOMAIN OffchainShards
    BY <1>2, OffchainAssumption DEF ThreadIsAt
<1>5. offPool \subseteq OffchainCalls
    BY DEF OffchainInv, OffchainTyped
<1>6. ThreadIsAt(th)
    BY <1>1, <1>2, <1>4, <1>5 DEF ThreadIsAt, ShardCalls
<1>7. EffectsAreNew(th)
    BY <1>1, <1>2 DEF EffectsAreNew
<1> QED BY <1>3, <1>5, <1>6, <1>7, StateStays

\* The calls are executed on a copy; those that succeed were not in it, hence not sent.
LEMMA ProposeStateUpdateKeeps ==
    ASSUME OffchainInv, NEW t, OffchainChains = {t}, propose_state_update(t)
    PROVE  OffchainInv'
<1>0. PICK old : old = offThread[t]
    OBVIOUS
<1>1. ThreadIsAt(old) /\ EffectsAreNew(old) /\ old.at = "propose"
    BY <1>0 DEF OffchainInv, propose_state_update
<1>2. PICK shard \in Shards : shard = OffchainShards[old.i]
    BY <1>1, ShardIsOne DEF ThreadIsAt
<1>3. PICK state \in [used : SUBSET OffchainCalls, header : Nat] : state = offState[shard]
    BY <1>2 DEF OffchainInv, OffchainTyped
<1>4. PICK done, success :
          /\ done \in SUBSET old.pending /\ success = {c \in done : IsSuccess(state, c)}
          /\ offPool' = offPool \ (done \ success)
          /\ OffGoto(t, [at |-> "apply", i |-> old.i, success |-> success,
                         effects |-> old.effects \cup get_extrinsic_callbacks(success),
                         after |-> [state EXCEPT !.used = @ \cup done]])
    BY <1>0, <1>2, <1>3 DEF propose_state_update, ShardOfThread
<1>5. PICK th : th = [at |-> "apply", i |-> old.i, success |-> success,
                      effects |-> old.effects \cup get_extrinsic_callbacks(success),
                      after |-> [state EXCEPT !.used = @ \cup done]]
    OBVIOUS
<1>6. /\ done \subseteq ShardCalls(old.i) /\ done \subseteq OffchainCalls /\ success \subseteq done
      /\ \A c \in success : c \notin state.used /\ ShardOf[c] = shard
    BY <1>1, <1>2, <1>4 DEF ThreadIsAt, ShardCalls, IsSuccess
<1>7. \A c \in success : offSent[c] = 0
    BY <1>3, <1>6 DEF OffchainInv, OffchainTyped, SentIsApplied, Applied
<1>8. get_extrinsic_callbacks(success) \subseteq success
    BY DEF get_extrinsic_callbacks
<1>9. th.after \in [used : SUBSET OffchainCalls, header : Nat] /\ th.after.used = state.used \cup done
    BY <1>5, <1>6
<1>10. ThreadIsAt(th)
    BY <1>1, <1>5, <1>6, <1>8, <1>9 DEF ThreadIsAt
<1>11. EffectsAreNew(th)
    BY <1>1, <1>2, <1>3, <1>5, <1>6, <1>7, <1>8, <1>9 DEF EffectsAreNew
<1>12. offPool' \subseteq OffchainCalls /\ UNCHANGED <<offState, offImports, succeeded, offSent>>
    BY <1>4 DEF OffchainInv, OffchainTyped, propose_state_update
<1> QED BY <1>4, <1>5, <1>10, <1>11, <1>12, StateStays

\* The copy is written: no other thread has written since it was made.
LEMMA ApplyStateUpdateKeeps ==
    ASSUME OffchainInv, NEW t, OffchainChains = {t}, apply_state_update(t)
    PROVE  OffchainInv'
<1>0. PICK old : old = offThread[t]
    OBVIOUS
<1>1. ThreadIsAt(old) /\ EffectsAreNew(old) /\ old.at = "apply"
    BY <1>0 DEF OffchainInv, apply_state_update
<1>2. PICK shard \in Shards : shard = OffchainShards[old.i]
    BY <1>1, ShardIsOne DEF ThreadIsAt
<1>3. PICK th : th = [at |-> "remove", i |-> old.i, success |-> old.success, effects |-> old.effects]
    OBVIOUS
<1>4. /\ offState' = [offState EXCEPT ![shard] = old.after] /\ OffGoto(t, th)
      /\ UNCHANGED <<offPool, offImports, succeeded, offSent>>
    BY <1>0, <1>2, <1>3 DEF apply_state_update, ShardOfThread
<1>5. (offThread = [x \in OffchainChains |-> offThread[x]])' /\ offThread'[t] = th
    BY <1>4, ThreadGoes DEF OffchainInv, OffchainTyped
<1>6. /\ old.after \in [used : SUBSET OffchainCalls, header : Nat]
      /\ offState[shard].used \subseteq old.after.used /\ old.success \subseteq old.after.used
    BY <1>1, <1>2 DEF ThreadIsAt, EffectsAreNew
<1>7. /\ offState' \in [Shards -> [used : SUBSET OffchainCalls, header : Nat]]
      /\ \A s \in Shards : offState[s].used \subseteq offState'[s].used
      /\ offState'[shard] = old.after
    BY <1>2, <1>4, <1>6 DEF OffchainInv, OffchainTyped
<1>8. \A c \in OffchainCalls : Applied(c) => Applied(c)'
    BY <1>7, CallShard DEF Applied
<1>9. ASSUME NEW c \in old.success PROVE Applied(c)'
    <2>1. ShardOf[c] = shard /\ c \in old.after.used
        BY <1>1, <1>2, <1>6 DEF ThreadIsAt, ShardCalls
    <2> QED BY <1>7, <2>1 DEF Applied
<1>10. OffchainTyped'
    BY <1>4, <1>5, <1>7 DEF OffchainInv, OffchainTyped
<1>11. SentIsApplied' /\ SuccessStays'
    <2>1. succeeded \subseteq OffchainCalls /\ (\A c \in succeeded : Applied(c)) /\ SentIsApplied
        BY DEF OffchainInv, OffchainTyped, SuccessStays, Applied
    <2>2. \A c \in succeeded : Applied(c)'
        BY <1>8, <2>1
    <2> QED BY <1>4, <1>8, <2>1, <2>2 DEF SentIsApplied, SuccessStays, Applied
<1>12. ThreadIsAt(th)'
    BY <1>1, <1>3 DEF ThreadIsAt, ShardCalls
<1>13. EffectsAreNew(th)'
    BY <1>1, <1>3, <1>4, <1>8, <1>9 DEF EffectsAreNew, ThreadIsAt
<1> QED BY <1>5, <1>10, <1>11, <1>12, <1>13 DEF OffchainInv

LEMMA RemoveCallsKeeps ==
    ASSUME OffchainInv, NEW t, OffchainChains = {t}, remove_calls_from_pool(t)
    PROVE  OffchainInv'
<1>0. PICK old : old = offThread[t]
    OBVIOUS
<1>1. ThreadIsAt(old) /\ EffectsAreNew(old) /\ old.at = "remove"
    BY <1>0 DEF OffchainInv, remove_calls_from_pool
<1>2. PICK th : th = [at |-> "shard", i |-> old.i + 1, effects |-> old.effects]
    OBVIOUS
<1>3. /\ OffGoto(t, th) /\ offPool' \subseteq offPool /\ succeeded' = succeeded \cup old.success
      /\ UNCHANGED <<offState, offImports, offSent>>
    BY <1>0, <1>2 DEF remove_calls_from_pool
<1>4. (offThread = [x \in OffchainChains |-> offThread[x]])' /\ offThread'[t] = th
    BY <1>3, ThreadGoes DEF OffchainInv, OffchainTyped
<1>5. old.success \subseteq OffchainCalls /\ \A c \in old.success : Applied(c)
    BY <1>1 DEF ThreadIsAt, EffectsAreNew, ShardCalls
<1>6. OffchainTyped'
    BY <1>3, <1>4, <1>5 DEF OffchainInv, OffchainTyped
<1>7. SentIsApplied' /\ SuccessStays'
    BY <1>3, <1>5 DEF OffchainInv, SentIsApplied, SuccessStays, Applied
<1>8. ThreadIsAt(th)'
    BY <1>1, <1>2 DEF ThreadIsAt
<1>9. EffectsAreNew(th)'
    BY <1>1, <1>2, <1>3 DEF EffectsAreNew, Applied
<1> QED BY <1>4, <1>6, <1>7, <1>8, <1>9 DEF OffchainInv

LEMMA SendEffectsKeeps ==
    ASSUME OffchainInv, NEW t, OffchainChains = {t}, send_parentchain_effects(t)
    PROVE  OffchainInv'
<1>0. PICK old : old = offThread[t]
    OBVIOUS
<1>1. ThreadIsAt(old) /\ EffectsAreNew(old) /\ old.at = "shard"
    BY <1>0 DEF OffchainInv, send_parentchain_effects
<1>2. /\ OffGoto(t, Resting) /\ UNCHANGED <<offPool, offState, offImports, succeeded>>
      /\ offSent' = [c \in OffchainCalls |-> offSent[c] + IF c \in integritee_calls(old.effects) THEN 1 ELSE 0]
    BY <1>0 DEF send_parentchain_effects
<1>3. (offThread = [x \in OffchainChains |-> offThread[x]])' /\ offThread'[t] = Resting
    BY <1>2, ThreadGoes DEF OffchainInv, OffchainTyped
<1>4. ASSUME NEW c \in OffchainCalls
      PROVE  offSent'[c] \in Nat /\ offSent'[c] <= 1 /\ (offSent'[c] > 0 => Applied(c))
    <2>1. offSent[c] \in Nat /\ offSent[c] <= 1 /\ (offSent[c] > 0 => Applied(c))
        BY DEF OffchainInv, OffchainTyped, SentIsApplied
    <2>2. c \in integritee_calls(old.effects) => offSent[c] = 0 /\ Applied(c)
        BY <1>1 DEF EffectsAreNew, integritee_calls
    <2> QED BY <1>2, <2>1, <2>2
<1>5. offSent' \in [OffchainCalls -> Nat]
    BY <1>2, <1>4
<1>6. OffchainTyped'
    BY <1>2, <1>3, <1>5 DEF OffchainInv, OffchainTyped
<1>7. SentIsApplied' /\ SuccessStays'
    BY <1>2, <1>4 DEF OffchainInv, SentIsApplied, SuccessStays, Applied
<1>8. ThreadIsAt(Resting)' /\ EffectsAreNew(Resting)'
    BY DEF ThreadIsAt, EffectsAreNew, Resting
<1> QED BY <1>3, <1>6, <1>7, <1>8 DEF OffchainInv, Resting

LEMMA OffchainRestartKeeps ==
    ASSUME OffchainInv, offchain_restart
    PROVE  OffchainInv'
<1>1. OffchainTyped'
    BY DEF OffchainInv, OffchainTyped, offchain_restart
<1>2. SentIsApplied' /\ SuccessStays'
    BY DEF OffchainInv, SentIsApplied, SuccessStays, Applied, offchain_restart
<1>3. ASSUME NEW t \in OffchainChains PROVE (ThreadIsAt(offThread[t]) /\ EffectsAreNew(offThread[t]))'
    BY DEF offchain_restart, ThreadIsAt, EffectsAreNew, Resting
<1> QED BY <1>1, <1>2, <1>3 DEF OffchainInv

LEMMA OffchainInductive ==
    ASSUME NEW t, OffchainChains = {t}
    PROVE  OffchainInv /\ [OffchainNext]_offchainVars => OffchainInv'
<1> SUFFICES ASSUME OffchainInv, [OffchainNext]_offchainVars PROVE OffchainInv' OBVIOUS
<1>1. CASE UNCHANGED offchainVars
    BY <1>1 DEF offchainVars, OffchainInv, OffchainTyped, SentIsApplied, SuccessStays, ThreadIsAt, EffectsAreNew, Applied, ShardCalls
<1>2. CASE execute_fails(t)
    BY <1>2, RestingIsFine, StateStays DEF execute_fails, OffchainInv, OffchainTyped
<1> QED BY <1>1, <1>2, SubmitOffchainKeeps, DispatchImportKeeps, GetPendingKeeps, ProposeStateUpdateKeeps,
           ApplyStateUpdateKeeps, RemoveCallsKeeps, SendEffectsKeeps, OffchainRestartKeeps DEF OffchainNext

\* With one parentchain, hence one thread that executes calls, the effect of a call is sent at most
\* once and the call stays in the state, whenever an execution fails or the worker starts again and
\* however often the call is submitted.
THEOREM OffchainSoundHolds ==
    ASSUME NEW t, OffchainChains = {t}
    PROVE  OffchainSpec => []OffchainSound
<1>1. OffchainInv => OffchainSound
    BY DEF OffchainInv, OffchainTyped, OffchainSound, OffchainTypeOK, EffectsAtMostOnce, SentIsApplied
<1>2. OffchainInv /\ [OffchainNext]_offchainVars => OffchainInv'
    BY OffchainInductive
<1> QED BY <1>1, <1>2, OffchainStarts, PTL DEF OffchainSpec
=============================================================================
