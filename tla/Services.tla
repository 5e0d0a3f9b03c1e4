------------------------------ MODULE Services ------------------------------
(***************************************************************************)
(* What a start does to have its services: the proof parameters, which     *)
(* every start shares, and the genesis; then the steps that run            *)
(* containers: Lotus, Lotus-Miner, the databases and, from a thread for    *)
(* each provider, Curio.  The steps in between (accounts, contracts) are   *)
(* in other modules.  Containers may stop by themselves at any time, and   *)
(* any command may fail.                                                   *)
(***************************************************************************)
EXTENDS Integers, Sequences, FiniteSets

CONSTANTS
  MaxSp,     \* MAX_PDP_SP_COUNT
  MaxTries,  \* attempts of every loop that polls or downloads
  MaxFaults  \* bound on what goes wrong outside

ASSUME ServicesAssumption ==
  MaxSp \in Nat /\ MaxTries \in Nat \ {0} /\ MaxFaults \in Nat

VARIABLES
  active,     \* providers of this start
  stage, sp,  \* what is being done, and for which provider (0 is the miner)
  tries,      \* attempts the loop at hand has made
  params,     \* the directory of parameters: "none", "partial", "whole"
  inherited,  \* what it was when this start began
  uncleaned,  \* whether removing it has failed
  sealed,     \* the miners whose sectors are pre-sealed
  genesis,    \* whether the genesis file is complete
  made,       \* the containers of services that were made
  running,    \* those that run
  phase,      \* what the thread of each provider does
  layers,     \* what the set-up containers put into its database
  badExit,    \* whether one of those ended with an error
  linked,     \* whether its Curio is in the network of Lotus
  named,      \* whether the context has its container
  faults      \* what went wrong outside, so far

paramVars == <<params, inherited, uncleaned>>
genesisVars == <<sealed, genesis>>
containerVars == <<made, running>>
curioVars == <<phase, layers, badExit, linked, named>>
vars == <<active, stage, sp, tries, paramVars, genesisVars, containerVars, curioVars, faults>>

Sp == 1..MaxSp
Active == 1..active
Databases(p) == {<<"postgres", p>>, <<"scylla", p>>}
Containers == {<<"lotus", 0>>, <<"miner", 0>>} \cup ({"postgres", "scylla", "curio"} \X Sp)
Runs(c) == c \in running
LotusRuns == Runs(<<"lotus", 0>>)

Init ==
  /\ active \in 0..MaxSp
  /\ stage = "params" /\ sp = 0 /\ tries = 0
  /\ params \in {"none", "partial", "whole"}   \* a start may have been killed
  /\ inherited = params /\ uncleaned = FALSE
  /\ sealed = {} /\ genesis = FALSE
  /\ made = {} /\ running = {}
  /\ phase = [p \in Sp |-> "base"]
  /\ layers = [p \in Sp |-> {}]
  /\ badExit = [p \in Sp |-> FALSE]
  /\ linked = [p \in Sp |-> FALSE]
  /\ named = [p \in Sp |-> FALSE]
  /\ faults = 0

Fault == faults < MaxFaults /\ faults' = faults + 1
Over == stage \in {"ok", "failed"}
From(next, first) == stage' = next /\ sp' = first /\ tries' = 0
Goto(next) == stage' = next /\ UNCHANGED <<sp, tries>>
Again == sp' = sp + 1 /\ tries' = 0 /\ UNCHANGED stage

-----------------------------------------------------------------------------
(* The proof parameters.  A directory that is not empty is taken for whole. *)

FindsParams ==
  /\ stage = "params"
  /\ Goto(IF params = "none" THEN "fetch" ELSE "preseal")
  /\ UNCHANGED <<active, paramVars, genesisVars, containerVars, curioVars, faults>>

\* lotus fetch-params, or the tarball when that has failed to the end.
Fetches ==
  /\ \/ stage \in {"fetch", "extract"} /\ params' = "whole" /\ From("preseal", 0)
     \/ stage = "curl" /\ UNCHANGED params /\ From("extract", 0)
  /\ UNCHANGED <<active, inherited, uncleaned, genesisVars, containerVars, curioVars, faults>>

\* Mutant: what there is of a tarball stays.
MutCleansUp == stage = "fetch"
CleansUp == stage \in {"fetch", "extract"}

\* Mutant: two attempts too many.
MutGivesUp(n) == n > MaxTries + 1
\* Downloading a piece is tried once more after the loop.
GivesUp(n) == n = IF stage = "download" THEN MaxTries + 1 ELSE MaxTries

\* What a failed attempt may leave behind.
Leaves == IF stage = "curl" THEN {params} ELSE {"none", "partial"}

\* The error of a removal is only warned of.
Removes ==
  /\ params' \in Leaves
  /\ uncleaned' = (uncleaned \/ (CleansUp /\ params' = "partial"))

FetchFails ==
  /\ stage \in {"fetch", "curl", "extract"}
  /\ Fault
  /\ Removes
  /\ IF stage # "extract" /\ ~GivesUp(tries + 1)
     THEN tries' = tries + 1 /\ UNCHANGED <<stage, sp>>
     ELSE From(IF stage = "fetch" THEN "curl" ELSE "failed", 0)
  /\ UNCHANGED <<active, inherited, genesisVars, containerVars, curioVars>>

-----------------------------------------------------------------------------
(* The genesis of a new run: keys, sectors of the miner and the providers,  *)
(* and the file with the signers, those miners and the accounts.            *)

Preseals == sealed' = sealed \cup {sp}

Seals ==
  /\ stage = "preseal" /\ sp <= active
  /\ Preseals
  /\ Again
  /\ UNCHANGED <<active, paramVars, genesis, containerVars, curioVars, faults>>

\* Lotus-Miner's and those of the providers; the file of each is read.
GenesisMiners == 0..active

Constructs ==
  /\ stage = "preseal" /\ sp > active
  /\ IF GenesisMiners \subseteq sealed
     THEN genesis' = TRUE /\ From("lotus", 0)
     ELSE UNCHANGED genesis /\ From("failed", 0)
  /\ UNCHANGED <<active, paramVars, sealed, containerVars, curioVars, faults>>

-----------------------------------------------------------------------------
(* Containers.                                                             *)

Launches(cs) == made' = made \cup cs /\ running' = running \cup cs

LotusContainer == {<<"lotus", 0>>}
LotusMayStart == genesis /\ params # "none" /\ sealed # {}
MinerContainer == {<<"miner", 0>>}
MinerMayStart == 0 \in sealed

\* What is run in each stage, and what has to be there.
Launched ==
  CASE stage = "lotus" -> LotusContainer
    [] stage = "miner" -> MinerContainer
    [] OTHER -> Databases(sp)

MayLaunch ==
  CASE stage = "lotus" -> LotusMayStart
    [] stage = "miner" -> MinerMayStart
    [] OTHER -> sp \in Active

Launch ==
  /\ stage \in {"lotus", "miner", "db"} /\ MayLaunch
  /\ Launches(Launched)
  /\ IF stage = "db" THEN Again
     ELSE From(IF stage = "lotus" THEN "lotus_wait" ELSE "miner_wait", 0)
  /\ UNCHANGED <<active, paramVars, genesisVars, curioVars, faults>>

\* A check, a pull, a run or a network connection fails; some may have been run.
LaunchFails ==
  /\ stage \in {"lotus", "miner", "db"} /\ (stage = "db" => sp \in Active)
  /\ IF ~MayLaunch THEN UNCHANGED faults ELSE Fault
  /\ \E cs \in SUBSET (IF MayLaunch THEN Launched ELSE {}) :
       /\ <<"scylla", sp>> \in cs => <<"postgres", sp>> \in cs
       /\ Launches(cs)
  /\ From("failed", 0)
  /\ UNCHANGED <<active, paramVars, genesisVars, curioVars>>

DatabasesLaunched ==
  /\ stage = "db" /\ sp > active
  /\ From("db_wait", 1)
  /\ UNCHANGED <<active, paramVars, genesisVars, containerVars, curioVars, faults>>

LotusAnswers == LotusRuns
MinerAnswers == LotusRuns /\ Runs(<<"miner", 0>>)
DatabasesAnswer(p) == Databases(p) \subseteq running
CurioAnswers(p) == Runs(<<"curio", p>>) /\ linked[p] /\ DatabasesAnswer(p) /\ LotusRuns
PieceComesBack(p) == CurioAnswers(p)

Polled == {"lotus_wait", "miner_wait", "db_wait", "ping", "download"}
Works ==
  CASE stage = "lotus_wait" -> LotusAnswers
    [] stage = "miner_wait" -> MinerAnswers
    [] stage = "db_wait" -> DatabasesAnswer(sp)
    [] stage = "ping" -> CurioAnswers(sp)
    [] OTHER -> PieceComesBack(sp)

\* post_execute of the steps.
Polls ==
  /\ stage \in Polled /\ sp <= active /\ Works
  /\ CASE stage = "lotus_wait" -> From("miner", 0)
       [] stage = "miner_wait" -> From("db", 1)
       [] stage = "db_wait" -> Again
       [] stage = "ping" -> Goto("download")
       [] OTHER -> From("ping", sp + 1)
  /\ UNCHANGED <<active, paramVars, genesisVars, containerVars, curioVars, faults>>

\* Files, ports and pings are not asked again by a loop that counts.
PollFails ==
  /\ stage \in Polled /\ sp <= active
  /\ IF Works THEN Fault ELSE UNCHANGED faults
  /\ IF stage \in {"lotus_wait", "ping"} \/ GivesUp(tries + 1)
     THEN From("failed", 0)
     ELSE tries' = tries + 1 /\ UNCHANGED <<stage, sp>>
  /\ UNCHANGED <<active, paramVars, genesisVars, containerVars, curioVars>>

AllPolled ==
  /\ stage \in {"db_wait", "ping"} /\ sp > active
  /\ IF stage = "ping" THEN From("ok", 0)
                       ELSE From(IF LotusRuns THEN "curio" ELSE "failed", 1)
  /\ UNCHANGED <<active, paramVars, genesisVars, containerVars, curioVars, faults>>

\* A command fails where nothing is asked again: keys, the file, a port, the upload.
Breaks ==
  /\ stage \in {"preseal", "miner_wait", "db_wait", "ping", "download"}
  /\ Fault
  /\ From("failed", 0)
  /\ UNCHANGED <<active, paramVars, genesisVars, containerVars, curioVars>>

Dies(c) ==
  /\ ~Over /\ Runs(c)
  /\ Fault
  /\ running' = running \ {c}
  /\ UNCHANGED <<active, stage, sp, tries, paramVars, genesisVars, made, curioVars>>

-----------------------------------------------------------------------------
(* The threads of Curio.                                                   *)

Working == {"base", "pdp", "create", "rpc", "fast", "long", "key"}
After == [base |-> "pdp", pdp |-> "create", create |-> "rpc", rpc |-> "fast",
          fast |-> "long", long |-> "key", key |-> "done"]
Enter(p, next) == phase' = [phase EXCEPT ![p] = next]
At(p, phases) == stage = "curio" /\ p \in Active /\ phase[p] \in phases

\* What `config new-cluster' with the import of the key, and the PDP layer, put there.
BaseCluster == {"base", "worker_key"}
PdpLayer == {"pdp"}
Writes(p) == IF phase[p] = "base" THEN BaseCluster ELSE PdpLayer
MaySetUp(p) == DatabasesAnswer(p) /\ LotusRuns

\* A set-up container has done all, or ends with an error having done a part.
\* `docker wait' succeeds either way.
SetsUp(p) ==
  /\ At(p, {"base", "pdp"})
  /\ \/ /\ MaySetUp(p)
        /\ layers' = [layers EXCEPT ![p] = @ \cup Writes(p)]
        /\ UNCHANGED <<badExit, faults>>
     \/ /\ IF MaySetUp(p) THEN Fault ELSE UNCHANGED faults
        /\ \E part \in {{}, {"base"}} :
             layers' = [layers EXCEPT ![p] = @ \cup (part \cap Writes(p))]
        /\ badExit' = [badExit EXCEPT ![p] = TRUE]
  /\ Enter(p, After[phase[p]])
  /\ UNCHANGED <<active, stage, sp, tries, paramVars, genesisVars, containerVars, linked, named>>

\* docker create, network connect (whose failure is ignored), start.  A daemon
\* whose layers are missing stops.
StartsDaemon(p) ==
  /\ At(p, {"create"})
  /\ made' = made \cup {<<"curio", p>>}
  /\ running' = IF {"base", "pdp"} \subseteq layers[p]
                THEN running \cup {<<"curio", p>>} ELSE running
  /\ \/ linked' = [linked EXCEPT ![p] = TRUE] /\ UNCHANGED faults
     \/ UNCHANGED linked /\ Fault
  /\ named' = [named EXCEPT ![p] = TRUE]
  /\ Enter(p, After[phase[p]])
  /\ UNCHANGED <<active, stage, sp, tries, paramVars, genesisVars, layers, badExit>>

Needs(p, phases) ==
  /\ At(p, phases) /\ CurioAnswers(p)
  /\ Enter(p, After[phase[p]])
  /\ UNCHANGED <<active, stage, sp, tries, paramVars, genesisVars, containerVars, layers,
                 badExit, linked, named, faults>>

\* wait-api, the two storages, the key.
WaitsForRpc(p) == Needs(p, {"rpc"})
AttachesStorage(p) == Needs(p, {"fast", "long"})
ImportsKey(p) == Needs(p, {"key"})

ThreadFails(p) ==
  /\ At(p, Working)
  /\ IF phase[p] \in {"rpc", "fast", "long", "key"} /\ ~CurioAnswers(p)
     THEN UNCHANGED faults ELSE Fault
  /\ made' \in {made, IF phase[p] = "create" THEN made \cup {<<"curio", p>>} ELSE made}
  /\ Enter(p, "error")
  /\ UNCHANGED <<active, stage, sp, tries, paramVars, genesisVars, running, layers, badExit,
                 linked, named>>

\* Mutants: only threads without an error end the step; errors are lost.
MutJoined == \A p \in Active : phase[p] = "done"
Joined == \A p \in Active : phase[p] \in {"done", "error"}
MutErrors == {}
Errors == {p \in Active : phase[p] = "error"}

Joins ==
  /\ stage = "curio" /\ Joined
  /\ From(IF Errors = {} THEN "ping" ELSE "failed", 1)
  /\ UNCHANGED <<active, paramVars, genesisVars, containerVars, curioVars, faults>>

Next ==
  \/ FindsParams \/ Fetches \/ FetchFails \/ Seals \/ Constructs
  \/ Launch \/ LaunchFails \/ DatabasesLaunched \/ Polls \/ PollFails \/ AllPolled
  \/ Breaks \/ \E c \in Containers : Dies(c)
  \/ \E p \in Sp : SetsUp(p) \/ StartsDaemon(p) \/ WaitsForRpc(p) \/ AttachesStorage(p)
                   \/ ImportsKey(p) \/ ThreadFails(p)
  \/ Joins

\* Threads are scheduled, and every command and every container that is waited
\* for ends.
Spec == Init /\ [][Next]_vars /\ WF_vars(Next)

-----------------------------------------------------------------------------
TypeOK ==
  /\ active \in 0..MaxSp
  /\ stage \in Polled \cup { "params", "fetch", "curl", "extract", "preseal", "lotus",
                             "miner", "db", "curio", "ok", "failed" }
  /\ sp \in 0..(MaxSp + 1) /\ tries \in 0..MaxTries
  /\ {params, inherited} \subseteq {"none", "partial", "whole"}
  /\ uncleaned \in BOOLEAN /\ genesis \in BOOLEAN
  /\ sealed \subseteq 0..MaxSp
  /\ running \subseteq made /\ made \subseteq Containers
  /\ phase \in [Sp -> Working \cup {"done", "error"}]
  /\ layers \in [Sp -> SUBSET {"base", "worker_key", "pdp"}]
  /\ {badExit, linked, named} \subseteq [Sp -> BOOLEAN]
  /\ faults \in 0..MaxFaults

\* No start makes do with a part of the parameters, nor leaves a part that the next
\* start would take for whole, but for what a killed start or a failed removal left.
PartOfParamsHasACause ==
  params = "partial" => inherited = "partial" \/ uncleaned

\* The services and what each provider needs: both layers, its container known to the
\* context, the storage and the key.  What `docker wait' hides of a set-up that went
\* wrong a later check finds, all but the import of the worker key into Lotus.
AreSetUp ==
  /\ params # "none" /\ genesis /\ 0..active \subseteq sealed
  /\ {<<"lotus", 0>>, <<"miner", 0>>} \subseteq made
  /\ \A p \in Active :
       /\ Databases(p) \cup {<<"curio", p>>} \subseteq made
       /\ {"base", "pdp"} \subseteq layers[p]
       /\ "worker_key" \in layers[p] \/ badExit[p]
       /\ linked[p] /\ named[p] /\ phase[p] = "done"

\* A start that succeeded has all its services, one that failed was given a reason from
\* outside, and when Curio's step has returned, in whatever way, no thread of it is at
\* work: none makes a container behind the back of the teardown.
OutcomeIsHonest ==
  /\ stage = "ok" => AreSetUp
  /\ stage = "failed" => faults > 0
  /\ stage \in {"ping", "download", "ok", "failed"} =>
       \A p \in Active : phase[p] \in {"base", "done", "error"}

\* The start of the services ends, with threads in error and loops that never succeed.
ServicesEnd == <>Over
=============================================================================
