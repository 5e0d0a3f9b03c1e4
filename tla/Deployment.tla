----------------------------- MODULE Deployment -----------------------------
(***************************************************************************)
(* "Deploy FOC Contracts" (foc_deploy, foc_deployer), in one start after   *)
(* another.  Every start has a chain of its own; the repository with the   *)
(* deployment script, and the deployments.json the script keeps in it, are *)
(* those of all starts.  An address depends on the deployer and its nonce  *)
(* only, and the keys are the same on every chain: an address of an old    *)
(* chain is, on the new one, that of whatever is deployed there.           *)
(*                                                                         *)
(* The script is external: it deploys what deployments.json has no address *)
(* of, records what it deploys, and prints lines that foc_deployer parses. *)
(***************************************************************************)
EXTENDS Integers, Sequences

CONSTANTS
  Contracts,  \* the contracts, in the order of the script
  Predeployed, \* those that are deployed before the script, if its ABI asks for it
  Announced,  \* the one the summary leaves out: it has a line of its own before
  None, Torn,
  MaxStarts,  \* bound on the starts
  MaxFaults   \* bound on failures and kills

Names == {Contracts[i] : i \in DOMAIN Contracts}
Addresses == [Names -> 1 .. (Len(Contracts) + Len(Predeployed)) \cup {None}]
Files == [devnet : Addresses, others : {"kept"}]

ASSUME DeploymentAssumption ==
  /\ Contracts \in Seq(STRING) /\ Len(Contracts) > 0
  /\ Predeployed \in Seq(Names)
  /\ \A i, j \in DOMAIN Predeployed : Predeployed[i] = Predeployed[j] => i = j
  /\ Announced \in Names
  /\ \A i \in DOMAIN Predeployed : Predeployed[i] # Announced
  /\ None \notin Nat /\ None # Torn /\ Torn \notin Files
  /\ MaxStarts \in Nat /\ MaxFaults \in Nat

VARIABLES
  stage,   \* where the step is
  at,      \* the contract that is next
  chain,   \* what is deployed on the chain of this start: the n-th has address n
  cache,   \* deployments.json: None, Torn, or what it has for the devnet and for others
  held,    \* what clear_cached_devnet_deployments is about to write
  pre,     \* the predeployed addresses the script is given
  known,   \* the addresses the script has
  lines,   \* its output
  saved,   \* contract_addresses.json of this start, as far as it is of FOC
  starts, faults

vars == <<stage, at, chain, cache, held, pre, known, lines, saved, starts, faults>>

Nowhere == [n \in Names |-> None]
Cached(addresses) == [devnet |-> addresses, others |-> "kept"]
IsWhole(file) == file \notin {None, Torn}
Deployer == 0   \* the address of the token, another deployer's

Init ==
  /\ stage = "off" /\ at = 1
  /\ chain = <<>>
  /\ cache \in {None, Cached(Nowhere)}
  /\ held = None
  /\ pre = Nowhere /\ known = Nowhere
  /\ lines = <<>>
  /\ saved = None
  /\ starts = 0 /\ faults = 0

Goto(there) == stage' = there /\ at' = 1

\* A start: a new chain and the directory of a new run.
Starts ==
  /\ stage \in {"off", "ok", "failed", "broken"} /\ starts < MaxStarts
  /\ Goto("clear")
  /\ chain' = <<>> /\ held' = None /\ pre' = Nowhere /\ known' = Nowhere
  /\ lines' = <<>> /\ saved' = None
  /\ starts' = starts + 1
  /\ UNCHANGED <<cache, faults>>

\* Reading deployments.json fails where it is not JSON.
\* Mutant: a missing file is read all the same.
MutUnreadable == cache \in {None, Torn}
Unreadable == cache = Torn

\* check_existing_deployment: no step of this start has saved any FOC contract, and
\* clear_cached_devnet_deployments: what there is for the devnet goes.
NothingToClear == cache = None \/ (IsWhole(cache) /\ cache.devnet = Nowhere)

\* Mutants: the addresses of the devnet are left in the file; those of every network go.
MutCleared(file) == file
MutClearedWhole(file) == [file EXCEPT !.devnet = Nowhere, !.others = "gone"]
Cleared(file) == [file EXCEPT !.devnet = Nowhere]

Clears ==
  /\ stage = "clear"
  /\ \/ /\ NothingToClear
        /\ \E four \in BOOLEAN : Goto(IF four THEN "predeploy" ELSE "load")
        /\ UNCHANGED <<cache, held>>
     \/ /\ ~NothingToClear /\ ~Unreadable
        /\ held' = Cleared(cache)
        /\ cache' = Torn
        /\ Goto("clear_write")
  /\ UNCHANGED <<chain, pre, known, lines, saved, starts, faults>>

CannotClear ==
  /\ stage = "clear" /\ Unreadable
  /\ Goto("failed")
  /\ UNCHANGED <<chain, cache, held, pre, known, lines, saved, starts, faults>>

WritesCleared ==
  /\ stage = "clear_write"
  /\ cache' = held
  /\ \E four \in BOOLEAN : Goto(IF four THEN "predeploy" ELSE "load")
  /\ UNCHANGED <<chain, held, pre, known, lines, saved, starts, faults>>

Line(kind, name, address) == [kind |-> kind, name |-> name, address |-> address]

\* The block before the script, where PDPVerifier's constructor has four inputs.
Predeploys ==
  /\ stage = "predeploy" /\ at <= Len(Predeployed)
  /\ chain' = Append(chain, Predeployed[at])
  /\ pre' = [pre EXCEPT ![Predeployed[at]] = Len(chain')]
  /\ lines' = Append(lines, Line("noise", Predeployed[at], Len(chain')))
  /\ at' = at + 1
  /\ UNCHANGED <<stage, cache, held, known, saved, starts, faults>>

\* The script loads what the environment and deployments.json have.
Loads ==
  /\ \/ stage = "load"
     \/ stage = "predeploy" /\ at > Len(Predeployed)
  /\ known' = [n \in Names |->
       IF pre[n] # None THEN pre[n] ELSE IF cache = None THEN None ELSE cache.devnet[n]]
  /\ Goto("script")
  /\ UNCHANGED <<chain, cache, held, pre, lines, saved, starts, faults>>

Records(n, address) ==
  cache' = Cached([(IF cache = None THEN Nowhere ELSE cache.devnet) EXCEPT ![n] = address])

Deploys ==
  /\ stage = "script" /\ at <= Len(Contracts)
  /\ LET n == Contracts[at]
     IN  IF known[n] = None
         THEN /\ chain' = Append(chain, n)
              /\ known' = [known EXCEPT ![n] = Len(chain')]
              /\ Records(n, Len(chain'))
              /\ lines' = Append(lines, Line(IF n = Announced THEN "announced" ELSE "noise", n, Len(chain')))
         ELSE UNCHANGED <<chain, known, cache, lines>>
  /\ at' = at + 1
  /\ UNCHANGED <<stage, held, pre, saved, starts, faults>>

\* The end of its output: the summary, without a pair for the announced one, and the
\* configuration of the network, which has an address too.
Summary ==
  <<Line("summary", "title", None)>>
    \o [i \in DOMAIN Contracts |->
          LET n == Contracts[i]
          IN  Line(IF n = Announced THEN "noise" ELSE "pair", n, known[n])]
    \o <<Line("network", "title", None), Line("pair", "usdfc", Deployer)>>

Prints ==
  /\ stage = "script" /\ at > Len(Contracts)
  /\ lines' = lines \o Summary
  /\ Goto("parse")
  /\ UNCHANGED <<chain, cache, held, pre, known, saved, starts, faults>>

-----------------------------------------------------------------------------
(* parse_deployment_output: one pass over the lines.                       *)

\* Mutant: the section of the network does not end the summary.
MutInSummary(l, inSummary) == inSummary \/ l.kind = "summary"
InSummary(l, inSummary) == l.kind = "summary" \/ (inSummary /\ l.kind # "network")

Takes(l, inSummary) == l.kind = "announced" \/ (inSummary /\ l.kind = "pair")

\* A later line of the same name wins.
ParseLine(acc, l) ==
  [inSummary |-> InSummary(l, acc.inSummary),
   addresses |-> IF Takes(l, acc.inSummary)
                 THEN [n \in DOMAIN acc.addresses \cup {l.name} |->
                         IF n = l.name THEN l.address ELSE acc.addresses[n]]
                 ELSE acc.addresses]

Parse(output) ==
  LET parse[i \in 0..Len(output)] ==
        IF i = 0 THEN [inSummary |-> FALSE, addresses |-> [n \in {} |-> None]]
        ELSE ParseLine(parse[i - 1], output[i])
  IN  parse[Len(output)].addresses

\* The addresses go to the context, one by one, and to contract_addresses.json, the
\* metadata to a file of its own.
Saves ==
  /\ stage = "parse"
  /\ saved' = Parse(lines)
  /\ Goto("ok")
  /\ UNCHANGED <<chain, cache, held, pre, known, lines, starts, faults>>

\* A transaction, the container or a file fails, or the start is killed.  A transaction
\* whose command failed may have been sent; half of contract_addresses.json is another
\* run's loss only.
Breaks ==
  /\ stage \in {"clear", "clear_write", "predeploy", "load", "script", "parse"}
  /\ faults < MaxFaults /\ faults' = faults + 1
  /\ Goto("broken")
  /\ UNCHANGED <<chain, cache, held, pre, known, lines, saved, starts>>

Next ==
  \/ Starts \/ Clears \/ CannotClear \/ WritesCleared \/ Predeploys \/ Loads
  \/ Deploys \/ Prints \/ Saves \/ Breaks

Spec == Init /\ [][Next]_vars

-----------------------------------------------------------------------------
TypeOK ==
  /\ stage \in { "off", "clear", "clear_write", "predeploy", "load", "script", "parse",
                 "ok", "failed", "broken" }
  /\ at \in 1 .. (Len(IF stage = "predeploy" THEN Predeployed ELSE Contracts) + 1)
  /\ chain \in Seq(Names)
  /\ {pre, known} \subseteq Addresses
  /\ \A file \in {cache, held} : IsWhole(file) => file \in Files
  /\ starts \in 0..MaxStarts /\ faults \in 0..MaxFaults

\* "Removes the devnet entry so that contracts are actually deployed" (helpers.rs:122):
\* the addresses a successful step saves are those of all contracts and of nothing else,
\* and each of them is that contract on the chain of this start, whatever earlier starts
\* have left in deployments.json and wherever they were broken off.
AddressesAreLive ==
  stage = "ok" =>
    /\ DOMAIN saved = Names
    /\ \A n \in Names : saved[n] \in DOMAIN chain /\ chain[saved[n]] = n

\* No contract is deployed twice on one chain, and the step fails for one reason of its
\* own: a deployments.json that a killed start has left half written, which no later
\* start repairs.
FailureHasACause ==
  /\ \A i, j \in DOMAIN chain : chain[i] = chain[j] => i = j
  /\ stage = "failed" => cache = Torn /\ faults > 0
=============================================================================
