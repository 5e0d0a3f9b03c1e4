# foc-devnet, specified

`foc-devnet` starts, stops and cleans a local Filecoin network with the FOC
contracts and services on it: a Lotus node and its miner, two databases and a
Curio for each service provider, and a dozen steps that deploy, fund, register
and endorse.  These modules say what the parts of the program promise, model
how they work, check the one against the other with TLC and prove the results
that matter most with TLAPS.

Paths below are relative to `src/src` unless they begin with `src/`.

## 1. Inventory

| Component | Source | State it keeps | Operations |
|---|---|---|---|
| Port allocator | `port_allocator.rs` | range, `allocated`, `next` | `new`, `allocate`, `allocate_multiple`, `mark_allocated` |
| Step engine | `commands/start/step/mod.rs` | the epoch, the threads of its steps, their results | `execute_steps`, `execute_steps_parallel`, `Step::run` |
| Step context | same file, `SetupContext` | a map behind a mutex, `step_context.json` | `set`, `set_multi`, `get`, `save_command`, `save_to_file` |
| Start-up pipeline | `commands/start/mod.rs`, `config.rs` | the plan, the keys of the context, `contract_addresses.json` | `create_steps`, `create_step_epochs`, thirteen steps of three phases each |
| Funding | `commands/start/{eth_acc,usdfc}_funding` | balances and nonces on chain | batches of transfers in threads |
| Registration, endorsement | `commands/start/{pdp_service_provider,endorsement}` | registry, approved and endorsed lists on chain, provider id files | one transaction after the other, then verification |
| Services | `commands/start/{lotus,lotus_miner,database,curio}` | containers | run, wait until ready, record ports and ids |
| Genesis | `commands/start/genesis` | key and sector directories of the run | make what is not there yet |
| Commands | `main.rs`, `main_app`, `poison.rs` | `state/.poison` | one process for each command, wrapped in the poison file |
| Cluster lifecycle | `commands/{start,stop,clean}`, `docker` | containers, networks | start (which runs all of stop first), stop, clean, the teardown of start |
| Run id | `run_id` | `current_runid.json`, `latest`, the directories of the runs | reserve, save, load, delete, link |
| Init, build, config, clean | `commands/{init,build,config,clean}`, `config.rs` | `config.toml`, keys, repositories, binaries, images, the build container | init once, then config and build, clean to begin again |
| FOC contracts | `commands/start/{foc_deploy,foc_deployer}` | `deployments.json` in the repository, `contract_addresses.json` of the run | forget the old addresses, deploy, parse what was printed, save |
| Retry helper, docker layer, crypto, export | `utils`, `docker`, `crypto`, `external_api` | none | bounded loops, external commands, pure functions, one JSON file |

How they interact.  A command is a process; processes meet only in docker and
in the home directory, and nothing locks either.  `init` fills the home
directory, `config` changes the configuration, `build` makes the binaries, and a
failed one leaves its half for a later command to meet.  `start` runs `stop`, writes
its run id, makes its directories and the `latest` link, starts Portainer and
the networks, then gives the engine a plan.  The engine runs the steps of an
epoch in scoped threads.  Steps talk to each other through the `SetupContext`
(mutex, one file), through `contract_addresses.json` (read, changed and written
back, no mutex), through the chain and through their containers.  After the
steps, the teardown of `start` collects logs, removes dead containers and runs
a second `foc-devnet status` process, which goes through `main` again.

What is hard, and what makes each part correct:

- *Port allocator*: 16-bit arithmetic at the top of the port space, the number
  of turns of the scan, a port chosen by another allocator.  Correct: no port
  twice, none outside the range, a refusal only when none is free.
- *Step engine*: threads, failures and panics within an epoch.  Correct: no
  step before all of the earlier epochs are done, nothing at work after the
  engine returned, no failure lost, an end to every start.
- *Step context*: insertion and save are two critical sections; the file is
  truncated before it is written.  Correct: atomic calls, a file that is never
  older than the last save, no lost command, no thread that waits for itself.
- *Pipeline*: two orders of the same steps, forty keys, a file changed by
  parallel steps, a port budget nobody checks, contract addresses read off the
  output of another project's script.  Correct: every step finds what the earlier
  ones were to leave, and a start that says it succeeded left a cluster that can be
  exported.
- *Commands, lifecycle, run id*: kills between any two steps, errors that are
  only warned of, two commands at once, a `status` inside `start`.  Correct: a
  stop that succeeds leaves nothing behind whatever came before; a start that
  succeeds is the only cluster; the poison file tells the truth; no history
  makes later commands fail.
- *Funding*: explicit nonces, so that a lost transfer leaves a gap the later
  ones wait behind; commands that fail although their transaction is sent, and
  that succeed although it reverts.  Correct: after success every account has
  exactly its amount, nothing fails without a cause, no thread waits for ever.
- *Registration, endorsement*: flags set before the transaction they speak of,
  errors collected while the loop goes on, retries that reuse a container name,
  a list compared by position.  Correct: after success the context, the files
  and the chain agree, and only approved providers are ever endorsed.
- *Services, genesis*: a directory shared by all starts whose existence is taken
  for completeness, commands whose result is ignored, threads of which one
  fails, containers that stop at any time.  Correct: a success has all its
  services with both layers of their configuration, no thread outlives the step,
  no part of a download is left that a later start would use.
- *Init, build, config, clean*: a home directory in which what exists is taken
  for complete, files that are truncated before they are written, two files of
  keys that belong together, a build container that outlives its command and
  works on whatever is mounted.  Correct: an init that succeeds is complete, the
  keys belong together, a build that succeeds has built what it says, and clean
  followed by init recovers from anything.
- *FOC contracts*: a cache of addresses that outlives the chain, addresses that
  look valid on every chain, a report parsed line by line.  Correct: every
  address a start saves is that contract on the chain of this start.

`PROJECT.json` lists every hazard at its line, with the property that covers it
or the reason why none does.

## 2. Modules

| Module | Models | Role |
|---|---|---|
| `PortPool` | — | abstract: a set of ports, of which free ones are given out |
| `PortAllocator` | `port_allocator.rs` | the range, cursor and u16 arithmetic, in a debug and a release build; the loop and its closed form |
| `MCPortAllocator` | — | TLC instance |
| `StepOrder` | — | abstract: a step starts when the steps it needs are done |
| `StepEngine` | `step/mod.rs` | epochs, threads, phases, joins, errors, panics |
| `Pipeline` | `start/mod.rs` and the steps | extends `StepEngine` with both plans and the data of the steps |
| `MCPipeline` | — | TLC instance |
| `PipelineProofs` | — | theorems about the engine and the pipeline |
| `ContextStore` | — | abstract: a map and a log, changed at once, saved as they are |
| `StepContext` | `SetupContext` | threads, the mutex, the file |
| `MCStepContext` | — | TLC instance |
| `SetupContextProofs` | — | theorems about the two parts of `SetupContext`, the allocator and the context |
| `Devnet` | `main.rs`, `poison.rs`, `stop.rs`, `clean.rs`, `start/mod.rs`, `run_id`, `docker` | commands as processes on one machine |
| `MCDevnet` | — | TLC instance |
| `DevnetProofs` | — | theorems |
| `Funding` | `eth_acc_funding`, `usdfc_funding`, `usdfc_deploy/deployment.rs` | threads, batches and nonces against the chain |
| `FundingProofs` | — | theorems |
| `Registration` | `pdp_service_provider`, `endorsement` | the loops over the providers against registry and lists |
| `RegistrationProofs` | — | theorems |
| `Services` | `genesis`, `lotus`, `lotus_miner`, `database`, `curio` | parameters, genesis, containers, the threads of Curio |
| `ServicesProofs` | — | theorems |
| `Setup` | `commands/{init,build,config,clean}`, `config.rs` | commands as processes on one home directory |
| `MCSetup` | — | TLC instance |
| `SetupProofs` | — | theorems |
| `Deployment` | `foc_deploy`, `foc_deployer` | one start after another on one repository |
| `MCDeployment` | — | TLC instance |
| `DeploymentProofs` | — | theorems |

Correspondence of state and actions:

- `PortAllocator`.  `start`, `count`, `allocated`, `next` are the fields of the
  struct.  `New` is `new` with its three rejections; `Requests` takes the context's
  mutex for `allocate` or `allocate_multiple`, and `AllocateOk`, `AllocateErr`,
  `AllocatePanic` are the ways one allocation ends, in the closed form `FirstFree`;
  `ScanStep` is one iteration of the loop and `Scan` the loop.  `MarkAllocated` is
  `mark_allocated`.  `granted`, `reserved` and `refused` are history variables.
  The probe of a port by `allocate_port` is left out: it does not change the
  allocator.
- `StepEngine`.  `phase` gives for each step the phase of `Step::run` it is in;
  `Begin` spawns its thread (an epoch of one step runs in the main thread), and
  `Pass`, `Fail`, `Panic` end a phase; `Join` looks at the results once all
  threads of the epoch have ended and goes on, returns the error, or ends.
  `execute_steps`, the sequential mode, is the same engine on a plan of one-step
  epochs.
- `Pipeline`.  `StepWork(s, c)` is a table: what each phase of each step reads,
  makes and allocates under configuration `c`.  A deployer's execute phase is
  four actions, `Deploys`, `Loads`, `Truncates`, `Writes`, because two deployers
  run in the same epoch.  `Misses` and `RunsOutOfPorts` are the failures the
  program causes itself, `Breaks` and `Panics` the ones from outside.  Ports are
  counted; which one is given out is the business of `PortAllocator`.  The
  partial effects of a phase that breaks are left out: no step of its epoch
  reads them and no later step runs.  Each run starts in a directory of its own.
  `Contracts` are the ten names whose keys `export.rs` reads; `cfg.shown` is the
  set of those the parser finds in the output of the FOC script, any of `Outputs`,
  because the script is not of this repository and the program only warns of what it
  does not find.  `FOCDeploy` sets a key for each of them and `Entries` puts them in
  the file; `Loading` names the entries a phase stops without, and the other five
  contracts nobody asks for before the export (`Asked`).
- `StepContext`.  A call is `Calls`, `Enters` (the mutex), `Inserts` key by key
  or `ReadsHistory` and `Appends`, `Leaves`, then `LocksToSave`, `CreatesFile`
  (truncation) and `Writes`; `SaveFails` is the save that is only warned of and
  `Dies` the killed process.
- `Devnet`.  Each process has a `pc`.  Every operation on docker or on a shared
  file is one action, so that a kill (`Dies`), a failure the code returns
  (`StopBreaks`, `StepBreaks`, `Breaks`), one it only warns of (`Warns`) or
  another command can come between any two of them.  A container is
  `<<run, service>>`: "lotus" stands for the containers of a run found by their
  image, "db" for the databases, which have stock images and are found by name.
  The teardown's child is the `child ...` part of its parent's `pc`: the parent
  waits for it and does nothing meanwhile.  Its kill is the parent's.
- `Funding`.  Account 0 is the account that deploys the token, the users and the
  providers follow, and amounts are in units of 100,000 tokens.  The first step
  has a thread for each account (`SendsFil`, then `SeesFil` twice: balance, then
  pending nonce); the second is `FindsNone`, batches of `Transfers` joined by
  `JoinBatch`, and the checks `Sees`.  `pool` is what was sent and is not mined;
  `Mines` takes transfers in the order of their nonces, and a transfer the
  deployer cannot cover reverts, which its command does not report (`Returns`).
  `TransferFails` may have sent its transaction or not; `TimesOut` is a command
  that gives up behind a gap, or on a slow chain.
- `Registration`.  `stage` and `sp` are the place in the loops.  Each transaction
  and question is a container (`Helper`): `Works` runs one whose name is free,
  `Fails` is a command that fails for a cause outside or because the name is
  taken, by an earlier attempt or, for the two kinds of names without a run id
  (`Foreign`), by an earlier start.  A failed command may have sent its
  transaction (`Sent`).  `known` is the list the code collects and stores only
  when all providers have succeeded.
- `Services`.  `stage` goes from the shared parameters through the genesis to
  the last check.  `Launch` and `Polls` are the run and the wait of each step;
  what each needs is in `LotusMayStart`, `MinerMayStart`, `LotusAnswers`,
  `MinerAnswers`, `DatabasesAnswer`, `CurioAnswers`.  The threads of Curio are
  `SetsUp` (twice), `StartsDaemon`, `WaitsForRpc`, `AttachesStorage`,
  `ImportsKey`, and `Joins` is their join.  `Dies` stops any container at any
  time.  The parameters of a new start may be none, a part or the whole.
- `Setup`.  One project stands for Lotus and Curio; its location is a url and a
  ref or a local directory.  `pc` is the place of each process in its command;
  each file or directory operation, each git and docker command is an action.
  `Truncates` and `WritesConfig` are the two halves of `fs::write`; a kill
  between them leaves a torn file.  `Halfway` gives what a failed or killed step
  leaves: half a key file, a clone without a checkout, a directory half removed;
  the directories it had made for them stay (`create_dir_all` before `fs::write`).
  `Text` is a location as it is typed: `Override` (init) takes an omitted url
  from the configuration, `Resolve` (config) from the program.  A build is
  `Reads`, `Prepares` or `Relinks` and the git commands, `FindsBuilder`,
  `RunsContainer`; the container then works by itself (`Makes`, `Copies`,
  `Finishes`, `MakeFails`, `Dies`), on what is mounted at that moment, whether
  or not the build waits for it (`Deserts` is the killed build).  `past`, `last`
  and `crossed` are history variables.
- `Deployment`.  `chain` is the new chain of each start; the n-th contract on it
  has address n, whatever it is, since deployer and nonces are the same every
  time.  `Clears` and `WritesCleared` are `clear_cached_devnet_deployments`;
  `Predeploys` is the block for the newer constructor; `Loads`, `Deploys`,
  `Records` and `Prints` are the script, external; `Parse` is the line parser, a
  recursive function over the lines that were printed.  In the summary the announced
  contract has a line that the parser passes over.  Here the script prints what the
  program was written for, since the question is which addresses are printed; what a
  script that prints less does to a start is in `Pipeline`.

## 3. What the runs check

| Run | Question | Instance |
|---|---|---|
| `ports` | Does the allocator keep its promises in every build, and is the loop its closed form? | ports 0..6, all ranges of up to 4 ports, requests of up to 2 |
| `pipeline` | Do both orders of the steps work with every configuration `validate` accepts, whatever fails? | 0..2 providers, 10 or 16 ports, a script that shows all contracts, none, or all but one of four |
| `context` | Are the calls atomic, is the file current, does every call return? | 2 threads, 2 calls each, 2 keys |
| `devnet` | What do stop, start and the poison file promise after any history? | 2 processes, 2 run ids, 3 commands, 2 troubles |
| `funding` | Does every account get its amount once, whatever is lost or late? | 2 users, 0..2 providers, batches of 2, supply 5, 2 tries, 3 faults |
| `registration` | Do context, files and chain agree after a success? | 0..3 providers in every accepted configuration, 3 tries, 2 faults |
| `services` | Does a start that succeeds have its services, and end if it does not? | 0..2 providers, 2 tries, 4 faults |
| `setup` | What do init, build, config and clean leave behind, whatever came before and whatever fails? | 2 processes, 2 urls, 2 refs, 2 random entropies, 3 commands, 1 trouble |
| `deployment` | Are the addresses a start saves those of its own chain? | 4 contracts, 2 of them deployed beforehand or not, 3 starts, 2 that break off |
| `pipeline_race`, `funding_supply`, `setup_url` | Statements of the docs and comments that the code does not keep | as above or smaller, but for the supply: the real 3 users, 5 providers, batches of 6, supply 10 |

Properties.

- `ports`: `NoPortGivenTwice`, `RefusesOnlyWhenFull` (and what the
  16-bit end does to a range at the top of the port space), `LoopFindsFirstFree` (the loop, iterated as the
  code writes it, gives the port and the cursor of the closed form),
  `ImplementsPool` (refinement).
- `pipeline`: `QuietWhenOver`, `OutcomeIsHonest` on the engine;
  `FailureHasACause` (what a step needs is there, but for one lost address and the
  contracts the script did not show, and four ports and six for each provider are
  enough), `SuccessIsExportable` (all that the export of a successful start can lack
  is a contract the script did not show and no step asks for) on the data;
  `ImplementsOrder` (refinement) and `Terminates` (liveness).
- `context`: `FileKeepsUp`, `ImplementsStore` (refinement; a call takes effect
  when it gets the mutex, and no command is lost) and `CallsReturn` (liveness).
- `devnet`: `StopCleansUp`, `StartIsAlone`, `PoisonIsTruthful`, `NeverWedged`.
  The first two speak of a command that no other overlapped and for which docker
  and the file system worked, and of any history before it.
- `funding`: `SuccessMeansPaid`, `FailureHasACause` (without a failure outside,
  and with supply enough, the nonces the batches choose let every transfer take
  effect in whatever order the threads come) and `FundingEnds` (liveness).
- `registration`: `SuccessMatchesChain`, `EndorsedAreApproved` (in every state,
  although endorsement trusts a flag set before the approval) and
  `FailureHasACause` (names never clash by themselves, order of calls and order
  of the list agree).
- `services`: `PartOfParamsHasACause`, `OutcomeIsHonest` (a success has all its
  services, a failure a cause, and either way no thread is left at work) and
  `ServicesEnd` (liveness).
- `setup`: `InitIsComplete` and `CleanRecovers` (of an init that no other command
  overlapped, after any history), `KeysArePaired` (in every state, as long as no
  two inits have overlapped), `BuildIsFaithful` (of a build under which nobody
  changed the repository, with other builds and their containers around it).
- `deployment`: `AddressesAreLive`, `FailureHasACause` (no contract is deployed
  twice, and only a torn file makes the step fail by itself).

Bounds, and why they are enough.  Seven ports hold ranges at the bottom, in the
middle and against the top of the port space, and four ports are used up by two
requests of two and by marks.  Two providers give every relation of active,
approved and endorsed providers, and the port counts are the budget of one
provider, which is too small for two, and of two.  An output of the script lacks
nothing, everything, one contract for each of the three steps that ask for some, or
one that no step asks for.  Two threads show every interleaving of two
critical sections, and two calls each make one save come between another's
insertion and its save, in both orders.  Two processes and two run ids give an
old and a new cluster; three commands are two that prepare a state, at once or
one after the other, and one that is judged; two troubles let both of the
preparing commands fail, be killed or lose a container.  Four transfers in two
batches give a gap in the first batch that the second waits behind; a supply of
five is enough for one provider and not for two.  Three providers are one that
is endorsed, one that is only approved and one that is neither; two faults are
a failed transaction that was sent and a failure after it.  Two providers in
`Services` give a thread that fails while another works; four faults use up both
tries of each of the two downloads, or make a set-up container fail,
a network connection be missing and two containers stop.  Two urls and two refs,
with a link, give every change of a location; two processes and three commands
are a build that overlaps another and a clean or config before, and one trouble
is the kill whose remains the next two commands meet.  Four contracts are one that is announced by a
line of its own, two that are deployed beforehand and one that is not; three
starts leave a cache, break off while it is cleared, and meet what is left.  `Proc` and `RunId` are
symmetric in `Devnet` (no liveness is checked there).

`CHECK_DEADLOCK FALSE` is set because each of these systems really stops: the
allocator when it panicked or nothing more is asked of it, a start when it has
ended, the context when all calls have been made, the machine when the history
is over (in `Setup` and `Deployment` too), and funding, registration and
services when they succeeded or failed.

Fairness.  `Pipeline` has `WF_vars(Next)`: docker and chain commands return, and
every wait is a loop with a bounded number of tries, so as long as some thread
can move one does.  `StepContext` has `WF_vars(Moves(t))` for each thread: the
operating system schedules a thread inside a call.  The calls of a run are
bounded, so weak fairness is enough although the mutex is not a fair one.
Whether a thread calls at all is not assumed.  `Funding` and `Services` have
`WF_vars(Next)` for the same reason as `Pipeline`: their threads are scheduled,
the chain mines what it can, every command and every container that is waited
for ends, and every loop counts its tries.  A command behind a gap in the nonces
ends because `cast send` gives up.  `Registration`, `Devnet`, `Setup` and
`Deployment` are checked for safety only.

Every property of a passing run has a mutant in its module, a change of a mapped
definition such as a plausible bug would make, with which TLC finds it violated.

## 4. What the code does not keep

- `pipeline_race`: "Epoch 5: ... (can be parallelized)", but both of its steps
  read, change and write `contract_addresses.json`.  When the entry of MockUSDFC
  is lost, the registration of the providers fails three epochs later.
- `funding_supply`: five providers are accepted, but three users and four
  providers already get more than the supply of the token; the transfers that
  revert go unnoticed until the balances are checked, and the start fails.
- `setup_url`: a location names the repository that is built, but a clone that
  is there is only fetched into, from the url it was cloned with: after `config`
  has changed the url a build checks the ref out of the old repository and says
  it built the project.

Met while modelling, in the models as exceptions their properties name, and
without a run of their own: "All connection details ... are exported to
`devnet-info.json`" (README.md:115), but `export.rs` stops at the first contract
without a key, a key is there only for an address the parser found, and five of the
ten contracts no step asks for: when the script's output does not show one of them,
`session_key_registry` for instance, the start warns, says "Cluster started
successfully!" and leaves no `devnet-info.json` (`SuccessIsExportable` in `Pipeline`);
a range that ends at port 65535 passes the check of `new`, and `allocate` then
computes its end in 16 bits: a debug build panics, a release build hands out the
first port and no other (`RefusesOnlyWhenFull` in `PortAllocator`); a kill in the
middle of a save tears `step_context.json`, and what earlier saves wrote is lost
(`Tear` in `ContextStore`); the poison file is said to indicate a partial start, but
the `status` that a failing start runs in its teardown removes it (`ChildUnlinks` in
`Devnet`); `docker wait` succeeds whatever the exit code of the container, so the errors "Failed to
create ...: command failed" cannot happen, and a worker key that was not
imported is not found out at all (`badExit` in `Services`); an omitted url is
that of the configuration for `init` and the program's own for `config`
(`Override`, `Resolve` in `Setup`), where the documentation has the latter for
both; a configuration torn by a kill survives a plain `clean` and makes the init
after it fail (`Setup`); a `deployments.json` torn by a kill makes every later
start fail until somebody removes it (`Deployment`); every retry of a check in `Registration` fails because the container of the first attempt
still has the name; the last approved provider is not verified (`<` with numbers
from one); a start without a configuration makes directories that the init it
asks for refuses (`Devnet`); two starts at once may each run a Portainer.

## 5. What is proved

`SetupContextProofs` is about the two things the steps share.

The allocator, for every `MaxPort`, every set of ranges and every request
(`PortAllocatorAssumption` gives their types): `PortTypeCorrect`,
`PortsAreUnique`, `PortsStayInRange`, `RefusalMeansFull`, `LoopFindsTheFirst` and
`AllocatorImplementsPool`.  The inductive invariant adds to the properties
`Bounded` (the range is legal and the cursor inside it; when the end wraps the cursor
is at its start, and no other port is taken) and `Remembered` (all that was handed out or reserved is in
`allocated`, all of which is in the range); without them a wrapped cursor or a
forgotten port could not be excluded.  The lemma `FirstFreeIsFree` carries the
argument: whatever the cursor, the port found is free and the next cursor legal.
`LoopFindsTheFirst` ties it to the code: `Cursor(i)` is where the cursor is after
`i` iterations, `CursorFinds` says that it meets the free ports in the order of
`FirstFree` (ahead of the cursor first, then from the start), and `LoopScans` is
the invariant of the loop, by induction over its iterations.

The context, for every set of threads and keys and any number of calls:
`ContextTypeCorrect`, `FileIsCurrent` (an action property and its invariant in one)
and `ContextImplementsStore`.  `Holding` says that the thread in a block of the mutex
is the one that holds it, `Appending` that the history it is about to write back
is the present one with one entry more.  `StepImplementsStore` maps the entry into
the mutex to the abstract update and the write to the abstract save.

`PipelineProofs` has the engine first, for every set of steps and every plan
(`PlansAssumption`: plans are non-empty sequences of disjoint sets of steps;
`NeedsAssumption`: each step is in a later epoch than the steps it needs):
`TypeCorrect`, `BarrierHolds`, `QuietAtTheEnd`, `OutcomeHonest`,
`EngineImplementsOrder`.  The inductive invariant adds `Epochs` (the epochs before
the current one are done, those after it have not begun) and `Ending` (what each
outcome says of the current epoch).  That the two plans of this program satisfy both
assumptions is what TLC evaluates in `pipeline`, with `NeedsFollowTheData`, which
says that the table of needs leaves out no step whose results are read.

Then the pipeline, for every `MaxSp`, every set of positive sizes of the port
range and all that the output of the script may show (`PipelineAssumption`: the steps and needs are those of the program, its
plans the two orders).  `PipelineIsEngine` shows that every step of the pipeline
is one of the engine or none, so that the theorems above hold of it:
`PipelineQuiet`, `PipelineHonest`, `PipelineImplementsOrder`.
`FailureIsCaused` and `SuccessIsExported` are about the data.  Their invariant
`PInv` adds to the engine's:

- `Kept`: what a phase makes stays.  For each step a lemma says what it leaves
  (`LotusLeaves`, ...) and one that it finds what it reads when the steps it needs
  have left theirs (`CurioFinds`, ...).  With `NeedsDone`, which follows from
  `Epochs`, no phase misses a key but those of contracts that were not shown:
  `InputsAreThere`.
- `Staged` and `FileHolds`: the contents of `contract_addresses.json`.  A deployer
  that is `Alone` in its epoch finds the file empty when it writes; hence the
  contracts that were shown are always in the file afterwards, and in the sequential
  order what each deployer
  has loaded keeps "usdfc".  In the epochs nothing of the kind can be said of
  "usdfc", which is the race `pipeline_race` exhibits, and the theorem says that
  this is all that can go missing.
- `OnlyShown` (no other contract is in the file or in what a deployer has loaded) and, in `Kept`, `Had`: a phase that is past had what it reads.  So a success
  tells that what the three steps ask for was shown (`AskedIsThere`), and an export
  can lack only what nobody asks for.
- `PortsTaken`: what is used is never more than what the steps beyond their
  `pre_execute` are allotted, unless the range is shorter than `4 + 6 * active`.

`RegistrationProofs`, for every number of providers, attempts and failures:
`TypeCorrect`, `EndorsedOnlyApproved`, `FailureIsCaused`, `SuccessIsTrue`.  The
invariant follows the loops: `InOrder` (while no error was collected, provider n
has id n, in the registry, the context and the list alike), `Stored` and
`Endorsed` (what the later stages find of the earlier ones) and `Unused`: while
nothing went wrong, each container name is taken only for providers whose turn is
over, so that no `docker run` of the program's own can fail.  A first version of
`Unused` passed TLC and was not inductive: it said nothing of the names
"register" during "query" and "approve", of which the next turn of the loop
needs to know.

`ServicesProofs`, for every number of providers, attempts and failures:
`TypeCorrect`, `PartHasACause`, `HonestOutcome`.  `Prepared` says what each stage
finds of the stages before it, `Served` what the thread of each provider has
behind it in each of its phases, and `Undisturbed` that while nothing outside has
failed every container made still runs, which the checks of the daemon and the
databases need.

`DevnetProofs`, for any number of processes and run ids and histories of any
length (`DevnetAssumption`: there is a value that is no run id, and the bounds on
commands and troubles are numbers): `DevnetTypeCorrect`, `RunsAreReserved`,
`StopAlwaysCleansUp`, `StartIsAlwaysAlone`, `PoisonTellsTheTruth`,
`DevnetIsNeverWedged`.  None of the four properties is inductive: each speaks of
the last command, and says nothing while one is under way.  The invariant says

- where a command can be (`Places`), and of which shape what it works on is
  (`Processes`, `Machine`);
- `Reserved`: a run id belongs to one start, and nothing on the machine carries it
  before that start makes its first container, so that its `docker run`s meet no
  name of their own;
- `Exclusive` and, for a command that has been alone so far, what it has found and
  done at each of its places: `Marked` (the poison file), `Prepared` (what the next
  docker command needs, so that it does not fail by itself), and as long as docker
  and the file system worked, `Cleared` (what stop has still to remove) and `Built`
  (what start has made);
- `Rested`: the last command, if nothing has begun since, left a quiet machine.

A step of another command is excluded by `Exclusive`, and one lemma for each part
goes through the actions of the command itself (`MachineStep`, `ProgressStep`,
`AssertedStep`).

`SetupProofs`, for any number of processes, repositories and refs and histories of
any length (`SetupAssumption`: the marks for nothing and for half a file are no
location and no entropy): `SetupTypeCorrect`, `KeysAlwaysPaired`,
`InitAlwaysComplete`, `BuildAlwaysFaithful`, `CleanAlwaysRecovers`.  The invariant
has four strands:

- `Files`: what is in a directory is gone with it, and `OneContainer`: the name of
  the container keeps a second one away, and a build that has one waits for it.
- `Paired`, as long as no two inits have overlapped: an init that has passed its
  check has no key of another before it, which is why the half of a pair that a
  kill or a clean leaves is never completed by another's.
- `Progress`, of a command that has been alone so far: `Initialized` is what an
  init has made at each of its places, `Recovering` what the clean before it has
  left it, `Clearing` what a clean has still to remove; `Left` is what a clean that
  has ended leaves.  `InitEnds` then says at which places an init may end, and how.
- `Building`, of a build that was not disturbed, with any number of others around
  it: `Ready` (the repository is at the ref it read), and its container has made
  nothing but what it is to make (`Wanted`).  The step of another process that
  would spoil this changes the repository or removes a directory, and so disturbs
  the build (`BuildingKept`); a container that is deserted cannot be mistaken for
  it, as there is one at most.

`FundingProofs`, for any number of users and providers, any size of the batches, any
supply and number of tries (`FundingAssumption`): `FundingTypeCorrect`,
`SuccessIsPaid`, `FundingFailureIsCaused`.  Two facts of arithmetic come first.
`NonceIsNumber`: the nonce computed from batch and place in the batch is the number of
the account, so that batches of any size leave no gap (`NextBatch`: none is empty).
`SumGrows`, by induction: what the accounts up to one are to get is a number and grows,
so that a supply that covers the last account covers every transfer before.  The
invariant then says where each transfer is:

- `Filling` and `Sending`: a thread that has not sent has no transfer in the pool or on
  the chain, one that has returned without an error is mined, the batches before the
  current one are over and those after it have not begun.  A first version passed TLC
  and was not inductive: it did not say that "funded" is a state of the first step only.
- `Balance`: an account beyond the next nonce has nothing, one before it nothing or its
  amount, and with supply enough its amount; the deployer has what is left.
- `Counting`, `Checked`, `Caused`: the loops of the checks, and that no error is recorded
  before something failed outside.

From these `NeverRefused` (no nonce is sent twice) and `NeverStuck`: while nothing has
failed, the transfer that is next on the chain waits in the pool, so that no command gives
up behind a gap.

`DeploymentProofs`, for any contracts, any number of starts and failures
(`DeploymentAssumption`: those deployed beforehand are contracts, each once; the
announced one is a contract; the marks for nothing and for a torn file are no
addresses): `DeploymentTypeCorrect`, `SavedAddressesAreLive`,
`DeploymentFailureIsCaused`.  The invariant follows an address through the four places
it is kept in:

- `OnChain` (with `LiveOn`): what the program and the script know is exactly what is on
  the chain of this start, and nothing is on it twice;
- `OnDisk`: no address of an earlier chain is left in `deployments.json` when the script
  begins, and only a failure leaves it torn;
- `Output`: the shape of the printed lines.  `Closed` describes a whole output: noise and
  the announcement, then the summary, then the network.

`ReadsOn` is one line of the parser on such an output, and `ParsesWhatIsKnown`, by
induction over the lines, that it returns the addresses the script knows, all of them and
none else: not the deployer's "usdfc" that is printed after the summary.

All module parameters of these theorems are arbitrary but for the assumptions
named; bounds such as `MaxTries`, `MaxFaults` and `MaxCalls` are natural numbers.

## 6. What is only model-checked

- Liveness (`Terminates`, `CallsReturn`, `FundingEnds`, `ServicesEnd`): ENABLED
  and fairness are beyond the prover.

Every invariant and every refinement the passing runs check is proved too.  The
inductions over data (the loop of `allocate`, the sums of `Funding`, the parser of
`Deployment`) do not use the induction theorems of the library, which take an operator
as a parameter; `Induction` states the principle for a set of numbers, from the
well-foundedness of `<`.

Proved and not run are `StaysInRange` and `PortTypeOK` of `PortAllocator` and `Barrier`
of `StepEngine`.  The statements of the docs in `pipeline_race`, `funding_supply` and
`setup_url` are false, and stay with TLC.

## 7. Plan

The modules were written with the most central behaviour first.

1. Done: ports, engine, pipeline, context, commands, funding, registration,
   services, setup, deployment.  The abstract specifications are `PortPool`, `StepOrder` and
   `ContextStore`.
2. Done: the theorems about each of them, in eight modules, `SetupContextProofs`,
   `PipelineProofs`, `RegistrationProofs`, `ServicesProofs`, `DevnetProofs`,
   `SetupProofs`, `FundingProofs`, `DeploymentProofs`.
3. Left: finer models where they answer a new question: the genesis file step by step.
   A property that turns out shallow gives its place to a deeper one.

## 8. Not modelled

- *Requirements, version, status output*: they print, and nothing later depends
  on them.
- *Images after an upgrade of the program*: an image of an older version is kept
  because its tag exists; versions are not modelled.
- *A link whose local directory is gone*, and a local directory that is changed
  from outside while a build works in it.
- *A configuration changed between init and start* for the repositories that are
  not built (filecoin-services, pdp, multicall3): `start` uses what is there.
- *Cryptography and mnemonics*: pure functions of key material.
- *Scenario runner and CI scripts* (`src/scenarios`, `src/scripts`): Python tools that
  use a started cluster from outside; no state of the program depends on them.
- *What docker commands print*, logs, progress output, timing records and the
  layout of exported JSON.
- *Docker commands that never return* and time: the program has no timeout around
  them.
- *Reservation of run ids by commands other than start*: nothing reads them.
