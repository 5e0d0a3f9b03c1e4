------------------------------ MODULE Pipeline ------------------------------
(***************************************************************************)
(* The start-up pipeline of a cluster: the steps of commands/start in the  *)
(* sequential order of create_steps or the epochs of create_step_epochs,   *)
(* with the data that flows between them.  `facts' holds the keys of the   *)
(* shared SetupContext and, under World, what a step did outside it (a     *)
(* container that runs, a transaction on chain).  contract_addresses.json  *)
(* is a file three steps read, change and write back: each of the three    *)
(* moves is an action of its own.                                          *)
(***************************************************************************)
EXTENDS StepEngine, FiniteSets

CONSTANTS
  MaxSp,      \* MAX_PDP_SP_COUNT
  PortCounts, \* the sizes of port range a configuration may have
  Outputs     \* the sets of contracts the output of the FOC script may show

VARIABLES
  cfg,     \* the configuration: service providers, ports, and (shown) the contracts
           \* whose address the configured script's output will let the parser find
  facts,   \* the keys of the SetupContext, and the state of the world
  used,    \* ports of the range that are allocated
  file,    \* contract_addresses.json
  held,    \* what a deployer loaded from the file, and will write back
  stage,   \* how far a deployer's execute phase is
  reason   \* why a step failed

dataVars == <<cfg, facts, used, file, held, stage, reason>>
vars == <<engineVars, dataVars>>

Steps ==
  { "PrerequisitesCheck", "Lotus", "LotusMiner", "ETHAccFunding", "USDFCDeploy",
    "USDFCFunding", "MultiCall3Deploy", "FOCDeploy", "Database", "Curio",
    "PdpSpRegistration", "Endorsement", "UserSetup" }

SequentialPlan ==
  << {"Lotus"}, {"LotusMiner"}, {"ETHAccFunding"}, {"USDFCDeploy"},
     {"USDFCFunding"}, {"MultiCall3Deploy"}, {"FOCDeploy"}, {"Database"},
     {"Curio"}, {"PdpSpRegistration"}, {"Endorsement"}, {"UserSetup"} >>

ParallelPlan ==
  << {"PrerequisitesCheck"}, {"Lotus"}, {"LotusMiner"}, {"ETHAccFunding"},
     {"USDFCDeploy", "MultiCall3Deploy"},
     {"FOCDeploy", "USDFCFunding", "Database"},
     {"Curio"}, {"PdpSpRegistration"}, {"Endorsement"}, {"UserSetup"} >>

\* The contracts the script deploys, by the names the parser gives their addresses.
Contracts ==
  { "filecoin_warm_storage_service_proxy", "filecoin_warm_storage_service_state_view",
    "filecoin_warm_storage_service_implementation", "p_d_p_verifier_proxy",
    "p_d_p_verifier_implementation", "service_provider_registry_proxy",
    "service_provider_registry_implementation", "filecoin_pay_v1_contract",
    "endorsements", "session_key_registry" }

\* Mutant: the check that endorsed providers are approved ones is forgotten.
MutValidate(c) == c.approved <= c.active /\ c.active <= MaxSp

\* Config::validate.  It does not look at the size of the port range.
Validate(c) ==
  /\ c.endorsed <= c.approved
  /\ c.approved <= c.active
  /\ c.active <= MaxSp

Configs ==
  {c \in [ active : 0..MaxSp, approved : 0..MaxSp, endorsed : 0..MaxSp,
           ports : PortCounts, shown : Outputs ] : Validate(c)}

-----------------------------------------------------------------------------
(* What the phases of each step need and leave behind.                     *)

Key(n) == <<n, 0>>
Keys(ns) == {Key(n) : n \in ns}
PerSp(ns, k) == ns \X (1..k)
World(n) == <<n, -1>>

Work(reads, makes) ==
  [reads |-> reads, makes |-> makes, ports |-> 0, loads |-> FALSE, entries |-> {}]
\* Mutant: every allocating phase takes one port too many.
MutAllocating(n, w) == [w EXCEPT !.ports = n + 1]
Allocating(n, w) == [w EXCEPT !.ports = n]
\* Mutant: an address that is absent is passed on empty.
MutLoading(entries, w) == [w EXCEPT !.loads = TRUE, !.entries = entries \ Contracts]
Loading(entries, w) == [w EXCEPT !.loads = TRUE, !.entries = entries]
Nothing == Work({}, {})

LotusRuns == World("lotus")

PrerequisitesCheck(c) == [pre |-> Nothing, execute |-> Nothing, post |-> Nothing]

Lotus(c) ==
  LET ports == Keys({"lotus_api_port", "lotus_p2p_port"})
  IN  [ pre |-> Allocating(2, Work({World("genesis")}, ports)),
        execute |-> Work(ports, {LotusRuns} \cup
                         Keys({"lotus_container_id", "lotus_container_name"})),
        post |-> Work({LotusRuns} \cup ports, {}) ]

LotusMiner(c) ==
  LET port == Key("lotus_miner_api_port")
  IN  [ pre |-> Allocating(1, Work({LotusRuns}, {port})),
        execute |-> Work({port, LotusRuns, World("genesis")},
                         {World("blocks")} \cup
                         Keys({"lotus_miner_container_id", "lotus_miner_container_name"})),
        post |-> Work({port, World("blocks")}, {}) ]

\* <account>_address and <account>_eth_address are set together: one key.
Accounts(c) ==
  Keys({"deployer_foc", "deployer_mockusdfc", "deployer_multicall3", "user"})
    \cup PerSp({"pdp_sp_address"}, c.active)

ETHAccFunding(c) ==
  [ pre |-> Work({LotusRuns}, {Key("global_faucet_address")}),
    execute |-> Work({LotusRuns, World("blocks"), Key("lotus_api_port")},
                     Accounts(c) \cup {World("eth_funded")}),
    post |-> Work(Accounts(c) \cup {World("eth_funded")}, {}) ]

USDFCDeploy(c) ==
  [ pre |-> Work({LotusRuns, Key("deployer_mockusdfc")}, {}),
    execute |-> Work({World("eth_funded")} \cup Keys({"lotus_api_port", "deployer_mockusdfc"}),
                     {World("token"), Key("mockusdfc_contract_address")}),
    post |-> Work({Key("mockusdfc_contract_address")}, {}) ]

USDFCFunding(c) ==
  LET token == {World("token"), LotusRuns} \cup
               Keys({"mockusdfc_contract_address", "deployer_mockusdfc", "lotus_api_port"})
  IN  [ pre |-> Nothing,
        execute |-> Work(token, {World("usdfc_funded")}),
        post |-> Work({World("usdfc_funded")} \cup
                      Keys({"mockusdfc_contract_address", "lotus_api_port"}), {}) ]

MultiCall3Deploy(c) ==
  [ pre |-> Work({LotusRuns, Key("deployer_multicall3")}, {}),
    execute |-> Work({World("eth_funded")} \cup Keys({"lotus_api_port", "deployer_multicall3"}),
                     {Key("multicall3_address")}),
    post |-> Work({Key("multicall3_address")}, {}) ]

\* A key foc_contract_<name> for each address the parser found: Key(name) here.  None
\* at all is only warned of, and so it is by the post_execute.
FOCDeploy(c) ==
  LET addresses == Keys({ "deployer_foc", "mockusdfc_contract_address",
                          "global_faucet_address" })
  IN  [ pre |-> Work({LotusRuns} \cup addresses, {}),
        execute |-> Work({World("eth_funded"), World("token"), Key("lotus_api_port")}
                           \cup addresses,
                         {World("foc")} \cup Keys(c.shown)),
        post |-> Nothing ]

Database(c) ==
  LET ports == PerSp({"postgres_port", "scylla_port"}, c.active)
  IN  [ pre |-> Allocating(2 * c.active, Work({}, ports)),
        execute |-> Work(ports, {World("databases")}),
        post |-> Work({World("databases")} \cup ports, {}) ]

\* The addresses are variables of the container's environment, each of them left out
\* when the file has none: only a file that cannot be parsed is an error.
Curio(c) ==
  LET ports == PerSp({"pdp_port", "other_ports"}, c.active)
      run == Work({World("databases"), LotusRuns} \cup ports
                    \cup PerSp({"pdp_sp_address", "postgres_port", "scylla_port"}, c.active),
                  {World("curio")} \cup
                  PerSp({"container_id", "container_name"}, c.active))
  IN  [ pre |-> Allocating(4 * c.active, Work({LotusRuns}, ports)),
        execute |-> IF c.active = 0 THEN run ELSE Loading({}, run),
        post |-> Work({World("curio")} \cup ports, {}) ]

PdpSpRegistration(c) ==
  LET needs == {LotusRuns, Key("deployer_foc")} \cup
               PerSp({"pdp_sp_address", "pdp_port"}, c.active)
      registry == "service_provider_registry_proxy"
      service == "filecoin_warm_storage_service_proxy"
      view == "filecoin_warm_storage_service_state_view"
  IN  [ pre |-> Loading({registry, service}, Work(needs, {})),
        execute |-> Loading({registry, service, "usdfc"},
          Work(needs \cup {World("foc"), World("eth_funded"), Key("lotus_api_port")},
               {World("registered")} \cup
               PerSp({"is_approved", "provider_id"}, c.active) \cup
               PerSp({"approved_true"}, c.approved))),
        post |-> Loading({registry, view},
          Work({LotusRuns, World("registered"), Key("lotus_api_port")}, {})) ]

Endorsement(c) ==
  LET ids == PerSp({"provider_id"}, c.endorsed)
      call(w) == IF c.endorsed = 0 THEN Nothing ELSE Loading({"endorsements"}, w)
  IN  [ pre |-> Loading({"endorsements"},
          Work({LotusRuns, Key("deployer_foc")} \cup ids
                 \cup PerSp({"pdp_sp_address", "approved_true"}, c.endorsed), {})),
        execute |-> call(
          Work({LotusRuns} \cup Keys({"lotus_api_port", "deployer_foc"}) \cup ids,
               PerSp({"endorsement_tx"}, c.endorsed))),
        post |-> call(
          Work({Key("lotus_api_port")} \cup ids, PerSp({"is_endorsed"}, c.endorsed))) ]

UserSetup(c) ==
  [ pre |-> Work({LotusRuns}, {}),
    execute |-> Work({World("foc"), World("usdfc_funded"), World("eth_funded")} \cup
      Keys({ "mockusdfc_contract_address", "filecoin_pay_v1_contract",
             "filecoin_warm_storage_service_proxy", "user", "lotus_api_port" }),
      {World("deposited")}),
    post |-> Nothing ]

StepWork(s, c) ==
  CASE s = "PrerequisitesCheck" -> PrerequisitesCheck(c)
    [] s = "Lotus" -> Lotus(c)
    [] s = "LotusMiner" -> LotusMiner(c)
    [] s = "ETHAccFunding" -> ETHAccFunding(c)
    [] s = "USDFCDeploy" -> USDFCDeploy(c)
    [] s = "USDFCFunding" -> USDFCFunding(c)
    [] s = "MultiCall3Deploy" -> MultiCall3Deploy(c)
    [] s = "FOCDeploy" -> FOCDeploy(c)
    [] s = "Database" -> Database(c)
    [] s = "Curio" -> Curio(c)
    [] s = "PdpSpRegistration" -> PdpSpRegistration(c)
    [] s = "Endorsement" -> Endorsement(c)
    [] s = "UserSetup" -> UserSetup(c)

\* The entries of contract_addresses.json a deployer adds.
Deployers == {"USDFCDeploy", "MultiCall3Deploy", "FOCDeploy"}
Address == {"usdfc", "multicall"} \cup Contracts
Entries(s, c) ==
  CASE s = "USDFCDeploy" -> {"usdfc"}
    [] s = "MultiCall3Deploy" -> {"multicall"}
    [] s = "FOCDeploy" -> c.shown

\* The contracts whose address a step stops without; the other five are only exported.
Asked ==
  [ PdpSpRegistration |->
      { "service_provider_registry_proxy", "filecoin_warm_storage_service_proxy",
        "filecoin_warm_storage_service_state_view" },
    Endorsement |-> {"endorsements"},
    UserSetup |-> {"filecoin_pay_v1_contract", "filecoin_warm_storage_service_proxy"} ]
AskedFor == UNION {Asked[s] : s \in DOMAIN Asked}

\* The steps whose results a step uses: the dependencies the comments of
\* create_steps and create_step_epochs name, and the ones they leave out.
StepNeeds ==
  [ PrerequisitesCheck |-> {}, Lotus |-> {}, Database |-> {},
    LotusMiner |-> {"Lotus"},
    ETHAccFunding |-> {"Lotus", "LotusMiner"},
    USDFCDeploy |-> {"Lotus", "ETHAccFunding"},
    MultiCall3Deploy |-> {"Lotus", "ETHAccFunding"},
    USDFCFunding |-> {"Lotus", "ETHAccFunding", "USDFCDeploy"},
    FOCDeploy |-> {"Lotus", "ETHAccFunding", "USDFCDeploy"},
    Curio |-> {"Lotus", "ETHAccFunding", "Database", "FOCDeploy"},
    PdpSpRegistration |->
      {"Lotus", "ETHAccFunding", "USDFCDeploy", "FOCDeploy", "Curio"},
    Endorsement |-> {"Lotus", "ETHAccFunding", "FOCDeploy", "PdpSpRegistration"},
    UserSetup |->
      {"Lotus", "ETHAccFunding", "USDFCDeploy", "USDFCFunding", "FOCDeploy"} ]

\* These steps are the engine's, in one of the two orders the program knows; one port
\* at least was there for Portainer.
ASSUME PipelineAssumption ==
  /\ Step = Steps /\ Needs = StepNeeds
  /\ Plans \subseteq {SequentialPlan, ParallelPlan}
  /\ MaxSp \in Nat /\ PortCounts \subseteq Nat \ {0}
  /\ Outputs \subseteq SUBSET Contracts

Made(s, c) ==
  UNION {StepWork(s, c)[p].makes : p \in Active}
    \cup (IF s \in Deployers THEN {World(e) : e \in Entries(s, c)} ELSE {})
Read(s, c) ==
  UNION {StepWork(s, c)[p].reads \cup
         {World(e) : e \in StepWork(s, c)[p].entries} : p \in Active}

\* The table leaves out no step whose results another one reads.
ASSUME NeedsFollowTheData ==
  \A c \in Configs : \A s, t \in Steps :
    s # t /\ Made(t, c) \cap Read(s, c) # {} => t \in StepNeeds[s]

-----------------------------------------------------------------------------
(* The file.  "torn" is what a shorter text leaves of a longer one.        *)

Length(entries) ==   \* "multicall" is the longer name
  LET n(e, size) == IF e \in entries THEN size ELSE 0
  IN  n("usdfc", 1) + n("multicall", 2) + 4 * Cardinality(entries \cap Contracts)

File(kind, entries) == [kind |-> kind, entries |-> entries]

\* What a deployer starts from: an absent, empty or torn file is an empty map.
Loaded == IF file.kind = "json" THEN file.entries ELSE {}

\* The write of fs::write, at the start of the file its own truncation left
\* empty, or over what another deployer has written since.
Overwritten(entries) ==
  IF file.kind = "json" /\ Length(file.entries) > Length(entries)
  THEN File("torn", {})
  ELSE IF file.kind = "torn" THEN file
  ELSE File("json", entries)

-----------------------------------------------------------------------------
Init ==
  /\ EngineInit
  /\ cfg \in Configs
  /\ facts = {World("genesis")}
               \cup Keys({"active_count", "approved_count", "endorsed_count"})
  /\ used = 1    \* Portainer's
  /\ file = File("absent", {})
  /\ held = [d \in Deployers |-> {}]
  /\ stage = [d \in Deployers |-> "deploy"]
  /\ reason = [s \in Steps |-> "none"]

Now(s) == StepWork(s, cfg)[phase[s]]

HasInputs(s) ==
  /\ Now(s).reads \subseteq facts
  /\ Now(s).loads => file.kind = "json" /\ Now(s).entries \subseteq file.entries
HasPorts(s) == used + Now(s).ports <= cfg.ports

InFile(s) == s \in Deployers /\ phase[s] = "execute"

Starts(s) == Begin(s) /\ UNCHANGED dataVars

\* A phase without the file: its inputs are there, its effects happen.
Does(s) ==
  /\ Pass(s)
  /\ ~InFile(s)
  /\ HasInputs(s) /\ HasPorts(s)
  /\ facts' = facts \cup Now(s).makes
  /\ used' = used + Now(s).ports
  /\ UNCHANGED <<cfg, file, held, stage, reason>>

\* A deployer's execute phase: the contract and its key, then the file's three
\* moves, the last of which ends the phase (verification only warns).
Deploys(s) ==
  /\ IsDue(s) /\ InFile(s) /\ stage[s] = "deploy"
  /\ HasInputs(s)
  /\ facts' = facts \cup Now(s).makes
  /\ stage' = [stage EXCEPT ![s] = "load"]
  /\ UNCHANGED <<engineVars, cfg, used, file, held, reason>>

Loads(s) ==
  /\ IsDue(s) /\ InFile(s) /\ stage[s] = "load"
  /\ held' = [held EXCEPT ![s] = Loaded]
  /\ stage' = [stage EXCEPT ![s] = "truncate"]
  /\ UNCHANGED <<engineVars, cfg, facts, used, file, reason>>

Truncates(s) ==
  /\ IsDue(s) /\ InFile(s) /\ stage[s] = "truncate"
  /\ file' = File("empty", {})
  /\ stage' = [stage EXCEPT ![s] = "write"]
  /\ UNCHANGED <<engineVars, cfg, facts, used, held, reason>>

Writes(s) ==
  /\ Pass(s)
  /\ InFile(s) /\ stage[s] = "write"
  /\ file' = Overwritten(held[s] \cup Entries(s, cfg))
  /\ stage' = [stage EXCEPT ![s] = "written"]
  /\ UNCHANGED <<cfg, facts, used, held, reason>>

\* A phase that finds something missing stops with an error.
Misses(s) ==
  /\ Fail(s)
  /\ ~HasInputs(s)
  /\ InFile(s) => stage[s] = "deploy"
  /\ reason' = [reason EXCEPT ![s] = "missing"]
  /\ UNCHANGED <<cfg, facts, used, file, held, stage>>

\* The allocations of the phase take what is left before one is refused.
RunsOutOfPorts(s) ==
  /\ Fail(s)
  /\ HasInputs(s) /\ ~HasPorts(s)
  /\ used' = cfg.ports
  /\ reason' = [reason EXCEPT ![s] = "ports"]
  /\ UNCHANGED <<cfg, facts, file, held, stage>>

\* Anything outside the program fails: docker, a transaction, a file.  What the
\* phase left behind is left out: no other step of its epoch reads it and no later
\* step runs.
Breaks(s) ==
  /\ Fail(s)
  /\ HasInputs(s) /\ HasPorts(s)
  /\ reason' = [reason EXCEPT ![s] = "broken"]
  /\ UNCHANGED <<cfg, facts, used, file, held, stage>>

Panics(s) ==
  /\ Panic(s)
  /\ reason' = [reason EXCEPT ![s] = "broken"]
  /\ UNCHANGED <<cfg, facts, used, file, held, stage>>

Runs(s) ==
  Does(s) \/ Deploys(s) \/ Loads(s) \/ Truncates(s) \/ Writes(s)
    \/ Misses(s) \/ RunsOutOfPorts(s) \/ Breaks(s) \/ Panics(s)

Ends == Join /\ UNCHANGED dataVars

Next == Ends \/ \E s \in Steps : Starts(s) \/ Runs(s)

\* As long as a thread can move, one does: every command a step waits for returns
\* and the waits are loops with a bounded number of retries.
Spec == Init /\ [][Next]_vars /\ WF_vars(Next)

-----------------------------------------------------------------------------
TypeOK ==
  /\ EngineTypeOK
  /\ cfg \in Configs
  /\ used \in 1 .. (4 + 6 * MaxSp)
  /\ file.kind \in {"absent", "empty", "json", "torn"}
  /\ held \in [Deployers -> SUBSET Address]
  /\ stage \in [Deployers -> {"deploy", "load", "truncate", "write", "written"}]
  /\ reason \in [Steps -> {"none", "missing", "ports", "broken"}]

\* No step fails for a reason of the program's own.  With any configuration
\* validate() accepts, what an earlier step should have left is there: always in the
\* sequential order, and in the epochs but for the registration of the providers that
\* does not find the USDFC address the two deployers of epoch 5 raced for.  A contract
\* the script's output does not show stops no step but the three that ask for it.  Four
\* ports and six for each service provider are enough for every start.
FailureHasACause ==
  \A s \in Steps :
    /\ reason[s] = "missing" =>
         \/ plan = ParallelPlan /\ s = "PdpSpRegistration" /\ "usdfc" \notin file.entries
         \/ s \in DOMAIN Asked /\ ~(Asked[s] \subseteq cfg.shown)
    /\ reason[s] = "ports" => cfg.ports < 4 + 6 * cfg.active

\* What export.rs reads from the context with an error for each absent key.
ExportReads ==
  Keys({ "user", "multicall3_address", "mockusdfc_contract_address",
         "lotus_api_port", "lotus_container_id",
         "lotus_container_name", "lotus_miner_api_port",
         "lotus_miner_container_id", "lotus_miner_container_name",
         "active_count" })
    \cup Keys(Contracts)
    \cup PerSp({ "pdp_sp_address", "pdp_port", "container_id", "container_name",
                 "is_approved", "postgres_port", "scylla_port" }, cfg.active)

\* The export of devnet-info.json comes after the start and its failure is only warned
\* of.  What it can lack after a success is the address of a contract no step asks for
\* and the script's output did not show; every other key it needs is there.
SuccessIsExportable ==
  outcome = "ok" => ExportReads \ facts \subseteq Keys(Contracts \ (cfg.shown \cup AskedFor))

\* However its steps fail or panic, a start comes to an end: no thread of an
\* epoch is waited for that has already given up.
Terminates == <>(outcome # "running")

\* create_step_epochs on epoch 5 (start/mod.rs:329): "MockUSDFC Deploy +
\* MultiCall3 Deploy (can be parallelized)", so nothing is missing afterwards.
DocEpochsCanBeParallelized ==
  \A s \in Steps : reason[s] # "missing"
=============================================================================
