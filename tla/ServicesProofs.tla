--------------------------- MODULE ServicesProofs ---------------------------
(***************************************************************************)
(* For every number of providers, attempts and failures: a start that      *)
(* succeeded has all its services, one that failed was given a reason from *)
(* outside, and a part of the parameters is never made use of for a reason *)
(* of this start's own.                                                    *)
(***************************************************************************)
EXTENDS Services, TLAPS

\* The types, the numbers apart from the rest.
Numbers ==
  /\ active \in Nat /\ sp \in Nat /\ tries \in Nat /\ faults \in Nat
  /\ active <= MaxSp /\ sp <= MaxSp + 1 /\ tries <= MaxTries /\ faults <= MaxFaults

Shapes ==
  /\ stage \in Polled \cup { "params", "fetch", "curl", "extract", "preseal", "lotus",
                             "miner", "db", "curio", "ok", "failed" }
  /\ params \in {"none", "partial", "whole"} /\ inherited \in {"none", "partial", "whole"}
  /\ uncleaned \in BOOLEAN /\ genesis \in BOOLEAN
  /\ sealed \subseteq 0..MaxSp
  /\ running \subseteq made /\ made \subseteq Containers
  /\ phase \in [Sp -> Working \cup {"done", "error"}]
  /\ layers \in [Sp -> SUBSET {"base", "worker_key", "pdp"}]
  /\ badExit \in [Sp -> BOOLEAN] /\ linked \in [Sp -> BOOLEAN] /\ named \in [Sp -> BOOLEAN]

\* How far each stage counts.
Fetching == {"params", "fetch", "curl", "extract"}
Counting == {"fetch", "curl", "miner_wait", "db_wait", "download"}

Counted ==
  /\ stage \notin Counting => tries = 0
  /\ stage \in Counting \ {"download"} => tries < MaxTries
  /\ stage \in Fetching \cup {"lotus", "lotus_wait", "miner", "miner_wait"} => sp = 0
  /\ stage = "preseal" => sp <= active + 1
  /\ stage \in {"db", "db_wait", "ping", "download"} => 1 <= sp /\ sp <= active + 1
  /\ stage = "download" => sp <= active

\* What each stage finds of the stages before it.  A stage that failed promises nothing.
Past(stages) == stage \notin Fetching \cup {"failed"} \cup stages

Prepared ==
  /\ Past({}) => params # "none"
  /\ stage = "preseal" => \A m \in 0..active : m < sp => m \in sealed
  /\ Past({"preseal"}) => genesis /\ 0..active \subseteq sealed
  /\ Past({"preseal", "lotus"}) => <<"lotus", 0>> \in made
  /\ Past({"preseal", "lotus", "lotus_wait", "miner"}) => <<"miner", 0>> \in made
  /\ stage = "db" => \A p \in Active : p < sp => Databases(p) \subseteq made
  /\ Past({"preseal", "lotus", "lotus_wait", "miner", "miner_wait", "db"}) =>
       \A p \in Active : Databases(p) \subseteq made

\* What the thread of a provider has behind it.
Served ==
  \A p \in Sp :
    /\ stage \notin {"curio", "ping", "download", "ok", "failed"} => phase[p] = "base"
    /\ stage \in {"ping", "download", "ok"} /\ p \in Active => phase[p] = "done"
    /\ stage = "failed" /\ p \in Active => phase[p] \in {"base", "done", "error"}
    /\ phase[p] \notin {"base", "error"} => BaseCluster \subseteq layers[p] \/ badExit[p]
    /\ <<"curio", p>> \in running => {"base", "pdp"} \subseteq layers[p]
    /\ phase[p] \in {"rpc", "fast", "long", "key", "done"} =>
         named[p] /\ <<"curio", p>> \in made
    /\ phase[p] \in {"fast", "long", "key", "done"} =>
         linked[p] /\ {"base", "pdp"} \subseteq layers[p]

\* While nothing has gone wrong outside, nothing has gone wrong.
Undisturbed ==
  faults = 0 =>
    /\ stage # "failed"
    /\ running = made
    /\ \A p \in Sp :
         /\ phase[p] # "error"
         /\ phase[p] # "base" => "base" \in layers[p]
         /\ phase[p] \notin {"base", "pdp"} => "pdp" \in layers[p]
         /\ phase[p] \in {"rpc", "fast", "long", "key", "done"} => linked[p]

IInv ==
  /\ Numbers /\ Shapes
  /\ Counted /\ Prepared /\ Served /\ Undisturbed
  /\ PartOfParamsHasACause

\* The two parts of the type invariant are all of it.
LEMMA TypeParts == Numbers /\ Shapes => TypeOK
<1> SUFFICES ASSUME Numbers, Shapes PROVE TypeOK
  OBVIOUS
<1>1. /\ active \in 0..MaxSp /\ sp \in 0..(MaxSp + 1) /\ tries \in 0..MaxTries
      /\ faults \in 0..MaxFaults
  BY ServicesAssumption DEF Numbers
<1> QED BY <1>1 DEF Shapes, TypeOK

\* What a thread does next: the table, entry by entry.
LEMMA AfterFacts ==
  /\ After["base"] = "pdp" /\ After["pdp"] = "create" /\ After["create"] = "rpc"
  /\ After["rpc"] = "fast" /\ After["fast"] = "long" /\ After["long"] = "key"
  /\ After["key"] = "done"
BY DEF After

\* A start that begins, whatever directory of parameters it finds.
LEMMA InitIInv == Init => IInv
<1> SUFFICES ASSUME Init PROVE IInv
  OBVIOUS
<1>1. Numbers
  BY ServicesAssumption DEF Numbers, Init
<1>2. Shapes
  BY DEF Shapes, Init, Working
<1>3. Counted /\ Prepared
  BY DEF Counted, Counting, Prepared, Past, Fetching, Init
<1>4. Served /\ Undisturbed
  BY DEF Served, Undisturbed, Init
<1>5. PartOfParamsHasACause
  BY DEF PartOfParamsHasACause, Init
<1> QED BY <1>1, <1>2, <1>3, <1>4, <1>5 DEF IInv

\* Every step of the start, of a thread and of a container that dies.
LEMMA NextIInv ==
  ASSUME IInv, [Next]_vars
  PROVE  IInv'
<1>0. MaxSp \in Nat /\ MaxTries \in Nat /\ 0 < MaxTries /\ MaxFaults \in Nat
  BY ServicesAssumption
<1> USE <1>0 DEF IInv, paramVars, genesisVars, containerVars, curioVars
<1>1. CASE FindsParams
  <2> USE <1>1 DEF FindsParams, Goto
  <2>1. Numbers'
    BY DEF Numbers, Counted, Counting, Fetching, Polled
  <2>2. Shapes'
    BY DEF Shapes, Polled
  <2>3. Counted'
    BY DEF Counted, Counting, Fetching, Polled, Numbers
  <2>4. Prepared'
    BY DEF Prepared, Past, Fetching, Counted, Counting, Active
  <2>5. Served'
    BY DEF Served, Active
  <2>6. Undisturbed'
    BY DEF Undisturbed, Numbers
  <2>7. PartOfParamsHasACause'
    BY DEF PartOfParamsHasACause
  <2> QED BY <2>1, <2>2, <2>3, <2>4, <2>5, <2>6, <2>7
<1>2. CASE Fetches
  <2> USE <1>2 DEF Fetches, From
  <2>1. Numbers'
    BY DEF Numbers, Counted, Counting, Fetching, Polled
  <2>2. Shapes'
    BY DEF Shapes, Polled
  <2>3. Counted'
    BY DEF Counted, Counting, Fetching, Polled, Numbers
  <2>4. Prepared'
    BY DEF Prepared, Past, Fetching, Counted, Counting, Active
  <2>5. Served'
    BY DEF Served, Active
  <2>6. Undisturbed'
    BY DEF Undisturbed, Numbers
  <2>7. PartOfParamsHasACause'
    BY DEF PartOfParamsHasACause
  <2> QED BY <2>1, <2>2, <2>3, <2>4, <2>5, <2>6, <2>7
<1>3. CASE FetchFails
  <2> USE <1>3 DEF FetchFails, From, Removes, Leaves, CleansUp, GivesUp, Fault
  <2>1. Numbers'
    BY DEF Numbers, Counted, Counting, Fetching, Polled
  <2>2. Shapes'
    BY DEF Shapes, Polled
  <2>3. Counted'
    BY DEF Counted, Counting, Fetching, Polled, Numbers
  <2>4. Prepared'
    BY DEF Prepared, Past, Fetching, Counted, Counting, Active
  <2>5. Served'
    BY DEF Served, Active
  <2>6. Undisturbed'
    BY DEF Undisturbed, Numbers
  <2>7. PartOfParamsHasACause'
    BY DEF PartOfParamsHasACause
  <2> QED BY <2>1, <2>2, <2>3, <2>4, <2>5, <2>6, <2>7
<1>4. CASE Seals
  <2> USE <1>4 DEF Seals, Again, Preseals
  <2>1. Numbers'
    BY DEF Numbers, Counted, Counting, Fetching, Polled
  <2>2. Shapes'
    BY DEF Shapes, Polled, Numbers
  <2>3. Counted'
    BY DEF Counted, Counting, Fetching, Polled, Numbers
  <2>4. Prepared'
    BY DEF Prepared, Past, Fetching, Counted, Counting, Active, Numbers
  <2>5. Served'
    BY DEF Served, Active
  <2>6. Undisturbed'
    BY DEF Undisturbed, Numbers
  <2>7. PartOfParamsHasACause'
    BY DEF PartOfParamsHasACause
  <2> QED BY <2>1, <2>2, <2>3, <2>4, <2>5, <2>6, <2>7
<1>5. CASE Constructs
  <2> USE <1>5 DEF Constructs, From, GenesisMiners
  <2>1. Numbers'
    BY DEF Numbers, Counted, Counting, Fetching, Polled
  <2>2. Shapes'
    BY DEF Shapes, Polled
  <2>3. Counted'
    BY DEF Counted, Counting, Fetching, Polled, Numbers
  <2>4. Prepared'
    BY DEF Prepared, Past, Fetching, Counted, Counting, Active, Numbers
  <2>5. Served'
    BY DEF Served, Active
  <2>6. Undisturbed'
    BY DEF Undisturbed, Numbers, Prepared, Past
  <2>7. PartOfParamsHasACause'
    BY DEF PartOfParamsHasACause
  <2> QED BY <2>1, <2>2, <2>3, <2>4, <2>5, <2>6, <2>7
<1>6. CASE Launch
  <2> USE <1>6 DEF Launch, From, Again, Launches, Launched, MayLaunch, LotusContainer,
                   LotusMayStart, MinerContainer, MinerMayStart, Databases
  <2>1. Numbers'
    BY DEF Numbers, Counted, Counting, Fetching, Polled, Active
  <2>2. Shapes'
    BY DEF Shapes, Polled, Active, Sp, Numbers, Containers
  <2>3. Counted'
    BY DEF Counted, Counting, Fetching, Polled, Numbers, Active
  <2>4. Prepared'
    BY DEF Prepared, Past, Fetching, Counted, Counting, Active, Numbers
  <2>5. Served'
    BY DEF Served, Active
  <2>6. Undisturbed'
    BY DEF Undisturbed, Numbers
  <2>7. PartOfParamsHasACause'
    BY DEF PartOfParamsHasACause
  <2> QED BY <2>1, <2>2, <2>3, <2>4, <2>5, <2>6, <2>7
<1>7. CASE LaunchFails
  <2> USE <1>7 DEF LaunchFails, From, Launches, Launched, MayLaunch, LotusContainer,
                   LotusMayStart, MinerContainer, MinerMayStart, Databases, Fault
  <2>1. Numbers'
    BY DEF Numbers, Counted, Counting, Fetching, Polled
  <2>2. Shapes'
    BY DEF Shapes, Polled, Active, Sp, Containers, Numbers
  <2>3. Counted'
    BY DEF Counted, Counting, Fetching, Polled, Numbers
  <2>4. Prepared'
    BY DEF Prepared, Past, Fetching, Counted, Counting, Active
  <2>5. Served'
    <3>1. \A p \in Sp : <<"curio", p>> \in running' => <<"curio", p>> \in running
      OBVIOUS
    <3>2. \A p \in Sp : <<"curio", p>> \in made => <<"curio", p>> \in made'
      OBVIOUS
    <3> QED BY <3>1, <3>2 DEF Served, Active, Sp
  <2>6. Undisturbed'
    BY DEF Undisturbed, Numbers, Prepared, Past, Fetching, Counted
  <2>7. PartOfParamsHasACause'
    BY DEF PartOfParamsHasACause
  <2> QED BY <2>1, <2>2, <2>3, <2>4, <2>5, <2>6, <2>7
<1>8. CASE DatabasesLaunched
  <2> USE <1>8 DEF DatabasesLaunched, From
  <2>1. Numbers'
    BY DEF Numbers, Counted, Counting, Fetching, Polled
  <2>2. Shapes'
    BY DEF Shapes, Polled
  <2>3. Counted'
    BY DEF Counted, Counting, Fetching, Polled, Numbers
  <2>4. Prepared'
    BY DEF Prepared, Past, Fetching, Counted, Counting, Active, Numbers
  <2>5. Served'
    BY DEF Served, Active
  <2>6. Undisturbed'
    BY DEF Undisturbed, Numbers
  <2>7. PartOfParamsHasACause'
    BY DEF PartOfParamsHasACause
  <2> QED BY <2>1, <2>2, <2>3, <2>4, <2>5, <2>6, <2>7
<1>9. CASE Polls
  <2> USE <1>9 DEF Polls, From, Goto, Again
  <2>1. Numbers'
    BY DEF Numbers, Counted, Counting, Fetching, Polled
  <2>2. Shapes'
    BY DEF Shapes, Polled
  <2>3. Counted'
    BY DEF Counted, Counting, Fetching, Polled, Numbers
  <2>4. Prepared'
    <3>1. stage \in {"lotus_wait", "miner_wait"} => Prepared'
      BY DEF Prepared, Past, Fetching, Active, Numbers
    <3>2. stage \notin {"lotus_wait", "miner_wait"} => Prepared'
      BY DEF Prepared, Past, Fetching, Active, Polled
    <3> QED BY <3>1, <3>2
  <2>5. Served'
    BY DEF Served, Active, Polled
  <2>6. Undisturbed'
    BY DEF Undisturbed, Numbers
  <2>7. PartOfParamsHasACause'
    BY DEF PartOfParamsHasACause
  <2> QED BY <2>1, <2>2, <2>3, <2>4, <2>5, <2>6, <2>7
<1>10. CASE PollFails
  <2> USE <1>10 DEF PollFails, From, Fault, GivesUp
  <2>1. Numbers'
    BY DEF Numbers, Counted, Counting, Fetching, Polled
  <2>2. Shapes'
    BY DEF Shapes, Polled
  <2>3. Counted'
    BY DEF Counted, Counting, Fetching, Polled, Numbers
  <2>4. Prepared'
    BY DEF Prepared, Past, Fetching, Counted, Counting, Active
  <2>5. Served'
    BY DEF Served, Active, Polled
  <2>6. Undisturbed'
    BY DEF Undisturbed, Numbers, Prepared, Works, LotusAnswers, MinerAnswers,
           DatabasesAnswer, CurioAnswers, PieceComesBack, LotusRuns, Runs, Past, Fetching,
           Polled, Databases, Counted, Served, Active, Sp
  <2>7. PartOfParamsHasACause'
    BY DEF PartOfParamsHasACause
  <2> QED BY <2>1, <2>2, <2>3, <2>4, <2>5, <2>6, <2>7
<1>11. CASE AllPolled
  <2> USE <1>11 DEF AllPolled, From, LotusRuns, Runs
  <2>1. Numbers'
    BY DEF Numbers, Counted, Counting, Fetching, Polled
  <2>2. Shapes'
    BY DEF Shapes, Polled
  <2>3. Counted'
    BY DEF Counted, Counting, Fetching, Polled, Numbers
  <2>4. Prepared'
    BY DEF Prepared, Past, Fetching, Counted, Counting, Active
  <2>5. Served'
    BY DEF Served, Active
  <2>6. Undisturbed'
    BY DEF Undisturbed, Numbers, Prepared, Past, Fetching
  <2>7. PartOfParamsHasACause'
    BY DEF PartOfParamsHasACause
  <2> QED BY <2>1, <2>2, <2>3, <2>4, <2>5, <2>6, <2>7
<1>12. CASE Breaks
  <2> USE <1>12 DEF Breaks, From, Fault
  <2>1. Numbers'
    BY DEF Numbers, Counted, Counting, Fetching, Polled
  <2>2. Shapes'
    BY DEF Shapes, Polled
  <2>3. Counted'
    BY DEF Counted, Counting, Fetching, Polled, Numbers
  <2>4. Prepared'
    BY DEF Prepared, Past, Fetching, Counted, Counting, Active
  <2>5. Served'
    BY DEF Served, Active
  <2>6. Undisturbed'
    BY DEF Undisturbed, Numbers
  <2>7. PartOfParamsHasACause'
    BY DEF PartOfParamsHasACause
  <2> QED BY <2>1, <2>2, <2>3, <2>4, <2>5, <2>6, <2>7
<1>13. CASE Joins
  <2> USE <1>13 DEF Joins, From, Joined, Errors
  <2>1. Numbers'
    BY DEF Numbers, Counted, Counting, Fetching, Polled
  <2>2. Shapes'
    BY DEF Shapes, Polled
  <2>3. Counted'
    BY DEF Counted, Counting, Fetching, Polled, Numbers
  <2>4. Prepared'
    BY DEF Prepared, Past, Fetching, Counted, Counting, Active
  <2>5. Served'
    BY DEF Served, Active
  <2>6. Undisturbed'
    BY DEF Undisturbed, Numbers, Active, Sp, Served
  <2>7. PartOfParamsHasACause'
    BY DEF PartOfParamsHasACause
  <2> QED BY <2>1, <2>2, <2>3, <2>4, <2>5, <2>6, <2>7
<1>14. ASSUME NEW c \in Containers, Dies(c) PROVE IInv'
  <2> USE <1>14 DEF Dies, Fault, Over
  <2>1. Numbers'
    BY DEF Numbers
  <2>2. Shapes'
    BY DEF Shapes
  <2>3. Counted'
    BY DEF Counted
  <2>4. Prepared'
    BY DEF Prepared, Past, Active
  <2>5. Served'
    BY DEF Served, Active
  <2>6. Undisturbed'
    BY DEF Undisturbed, Numbers
  <2>7. PartOfParamsHasACause'
    BY DEF PartOfParamsHasACause
  <2> QED BY <2>1, <2>2, <2>3, <2>4, <2>5, <2>6, <2>7
<1>15. ASSUME NEW p \in Sp, SetsUp(p) PROVE IInv'
  <2> USE <1>15 DEF SetsUp, At, Enter, Fault
  <2>1. phase[p] \in {"base", "pdp"} /\ p \in Active
    OBVIOUS
  <2>2. /\ phase' \in [Sp -> Working \cup {"done", "error"}]
        /\ phase'[p] = After[phase[p]] /\ \A q \in Sp \ {p} : phase'[q] = phase[q]
    BY <2>1, AfterFacts DEF Shapes, Working
  <2>3. faults = 0 => MaySetUp(p)
    BY DEF Undisturbed, Prepared, Past, Fetching, MaySetUp, DatabasesAnswer, LotusRuns, Runs
  <2>4. PICK part \in SUBSET {"base", "worker_key", "pdp"} :
          /\ layers' = [layers EXCEPT ![p] = layers[p] \cup part]
          /\ \/ part = Writes(p) /\ UNCHANGED <<badExit, faults>>
             \/ /\ badExit' = [badExit EXCEPT ![p] = TRUE]
                /\ IF MaySetUp(p) THEN faults' = faults + 1 ELSE UNCHANGED faults
    BY DEF Writes, BaseCluster, PdpLayer
  <2>5. /\ layers' \in [Sp -> SUBSET {"base", "worker_key", "pdp"}]
        /\ layers'[p] = layers[p] \cup part /\ \A q \in Sp \ {p} : layers'[q] = layers[q]
    BY <2>4 DEF Shapes
  <2>6. /\ badExit' \in [Sp -> BOOLEAN]
        /\ badExit[p] => badExit'[p]
        /\ \A q \in Sp \ {p} : badExit'[q] = badExit[q]
        /\ badExit'[p] \/ part = Writes(p)
    BY <2>4 DEF Shapes
  <2>7. /\ faults' \in Nat /\ faults' <= MaxFaults
        /\ faults' = 0 => faults = 0 /\ part = Writes(p)
    BY <2>3, <2>4 DEF Numbers
  <2>8. Numbers'
    BY <2>7 DEF Numbers
  <2>9. Shapes'
    BY <2>2, <2>5, <2>6 DEF Shapes
  <2>10. Counted'
    BY DEF Counted
  <2>11. Prepared'
    BY DEF Prepared, Past, Active
  <2>12. Served'
    <3>1. phase[p] = "base" => Writes(p) = BaseCluster
      BY DEF Writes
    <3>2. ASSUME NEW q \in Sp, phase'[q] \notin {"base", "error"}
          PROVE  BaseCluster \subseteq layers'[q] \/ badExit'[q]
      <4>1. CASE q = p
        BY <2>1, <2>5, <2>6, <3>1, <4>1 DEF Served
      <4>2. CASE q # p
        BY <2>2, <2>5, <2>6, <3>2, <4>2 DEF Served
      <4> QED BY <4>1, <4>2
    <3>3. phase'[p] \in {"pdp", "create"} /\ stage = "curio" /\ stage' = "curio"
      BY <2>1, <2>2, AfterFacts
    <3>4. \A q \in Sp : layers[q] \subseteq layers'[q]
      BY <2>5
    <3> QED BY <2>2, <3>2, <3>3, <3>4 DEF Served
  <2>13. Undisturbed'
    BY <2>1, <2>2, <2>5, <2>7, AfterFacts DEF Undisturbed, Writes, BaseCluster, PdpLayer
  <2>14. PartOfParamsHasACause'
    BY DEF PartOfParamsHasACause
  <2> QED BY <2>8, <2>9, <2>10, <2>11, <2>12, <2>13, <2>14
<1>16. ASSUME NEW p \in Sp, StartsDaemon(p) PROVE IInv'
  <2> USE <1>16 DEF StartsDaemon, At, Enter, Fault
  <2>1. phase[p] = "create" /\ p \in Active
    OBVIOUS
  <2>2. /\ phase' \in [Sp -> Working \cup {"done", "error"}]
        /\ phase'[p] = "rpc" /\ \A q \in Sp \ {p} : phase'[q] = phase[q]
    BY <2>1, AfterFacts DEF Shapes, Working
  <2>3. /\ linked' \in [Sp -> BOOLEAN] /\ named' \in [Sp -> BOOLEAN]
        /\ named'[p] /\ \A q \in Sp \ {p} : linked'[q] = linked[q] /\ named'[q] = named[q]
        /\ linked'[p] \/ faults' = faults + 1
    BY DEF Shapes
  <2>4. /\ made' = made \cup {<<"curio", p>>} /\ running \subseteq running'
        /\ running' \subseteq running \cup {<<"curio", p>>}
        /\ <<"curio", p>> \in running' => {"base", "pdp"} \subseteq layers[p]
        /\ {"base", "pdp"} \subseteq layers[p] => <<"curio", p>> \in running'
    BY DEF Served
  <2>5. Numbers'
    BY DEF Numbers
  <2>6. Shapes'
    BY <2>2, <2>3, <2>4 DEF Shapes, Containers
  <2>7. Counted'
    BY DEF Counted
  <2>8. Prepared'
    BY <2>4 DEF Prepared, Past, Active
  <2>9. Served'
    BY <2>1, <2>2, <2>3, <2>4 DEF Served
  <2>10. Undisturbed'
    BY <2>1, <2>2, <2>3, <2>4 DEF Undisturbed, Numbers, Shapes
  <2>11. PartOfParamsHasACause'
    BY DEF PartOfParamsHasACause
  <2> QED BY <2>5, <2>6, <2>7, <2>8, <2>9, <2>10, <2>11
<1>17. ASSUME NEW p \in Sp, NEW phases \in {{"rpc"}, {"fast", "long"}, {"key"}},
              Needs(p, phases)
       PROVE  IInv'
  <2> USE <1>17 DEF Needs, At, Enter
  <2>1. phase[p] \in {"rpc", "fast", "long", "key"} /\ p \in Active
    OBVIOUS
  <2>2. /\ phase' \in [Sp -> Working \cup {"done", "error"}]
        /\ phase'[p] = After[phase[p]] /\ \A q \in Sp \ {p} : phase'[q] = phase[q]
    BY <2>1, AfterFacts DEF Shapes, Working
  <2>3. linked[p] /\ {"base", "pdp"} \subseteq layers[p]
    BY DEF CurioAnswers, Runs, Served
  <2>4. Numbers'
    BY DEF Numbers
  <2>5. Shapes'
    BY <2>2 DEF Shapes
  <2>6. Counted'
    BY DEF Counted
  <2>7. Prepared'
    BY DEF Prepared, Past, Active
  <2>8. Served'
    BY <2>1, <2>2, <2>3, AfterFacts DEF Served
  <2>9. Undisturbed'
    BY <2>1, <2>2, <2>3, AfterFacts DEF Undisturbed
  <2>10. PartOfParamsHasACause'
    BY DEF PartOfParamsHasACause
  <2> QED BY <2>4, <2>5, <2>6, <2>7, <2>8, <2>9, <2>10
<1>18. ASSUME NEW p \in Sp, ThreadFails(p) PROVE IInv'
  <2> USE <1>18 DEF ThreadFails, At, Enter, Fault
  <2>1. phase[p] \in Working /\ p \in Active /\ stage = "curio"
    OBVIOUS
  <2>2. /\ phase' \in [Sp -> Working \cup {"done", "error"}]
        /\ phase'[p] = "error" /\ \A q \in Sp \ {p} : phase'[q] = phase[q]
    BY DEF Shapes
  <2>3. faults = 0 /\ phase[p] \in {"rpc", "fast", "long", "key"} => CurioAnswers(p)
    BY <2>1 DEF Undisturbed, Prepared, Served, Past, Fetching, CurioAnswers, DatabasesAnswer,
                LotusRuns, Runs
  <2>4. faults' \in Nat /\ faults' <= MaxFaults /\ faults' # 0
    BY <2>3 DEF Numbers
  <2>5. Numbers'
    BY <2>4 DEF Numbers
  <2>6. made \subseteq made' /\ made' \subseteq made \cup {<<"curio", p>>}
    OBVIOUS
  <2>7. Shapes'
    BY <2>2, <2>6 DEF Shapes, Containers
  <2>8. Counted'
    BY DEF Counted
  <2>9. Prepared'
    BY <2>6 DEF Prepared, Past, Active
  <2>10. Served'
    BY <2>1, <2>2, <2>6 DEF Served
  <2>11. Undisturbed'
    BY <2>4 DEF Undisturbed
  <2>12. PartOfParamsHasACause'
    BY DEF PartOfParamsHasACause
  <2> QED BY <2>5, <2>7, <2>8, <2>9, <2>10, <2>11, <2>12
<1>19. CASE UNCHANGED vars
  BY <1>19 DEF vars, Numbers, Shapes, Counted, Prepared, Past, Served, Undisturbed, Active,
               PartOfParamsHasACause
<1> QED
  BY <1>1, <1>2, <1>3, <1>4, <1>5, <1>6, <1>7, <1>8, <1>9, <1>10, <1>11, <1>12, <1>13, <1>14,
     <1>15, <1>16, <1>17, <1>18, <1>19 DEF Next, WaitsForRpc, AttachesStorage, ImportsKey

-----------------------------------------------------------------------------
\* The inductive invariant holds of the specification.
LEMMA InvariantIInv == Spec => []IInv
BY InitIInv, NextIInv, PTL DEF Spec

\* Every variable keeps its type: no loop counts past its attempts or its providers,
\* and only containers that were made run.
THEOREM TypeCorrect == Spec => []TypeOK
<1>1. IInv => TypeOK
  BY TypeParts DEF IInv
<1> QED BY <1>1, InvariantIInv, PTL

\* lotus_utils: whatever the providers, the attempts and the failures, no start makes
\* do with a part of the parameters that it has made itself and could remove.
THEOREM PartHasACause == Spec => []PartOfParamsHasACause
<1>1. IInv => PartOfParamsHasACause
  BY DEF IInv
<1> QED BY <1>1, InvariantIInv, PTL

\* A start that succeeded has all its services, one that failed was given a reason,
\* and no thread of Curio outlives its step.
THEOREM HonestOutcome == Spec => []OutcomeIsHonest
<1>1. IInv => OutcomeIsHonest
  <2> SUFFICES ASSUME IInv PROVE OutcomeIsHonest
    OBVIOUS
  <2>1. Active \subseteq Sp
    BY ServicesAssumption DEF IInv, Numbers, Active, Sp
  <2>2. ASSUME stage = "ok" PROVE AreSetUp
    <3>1. /\ params # "none" /\ genesis /\ 0..active \subseteq sealed
          /\ {<<"lotus", 0>>, <<"miner", 0>>} \subseteq made
          /\ \A p \in Active : Databases(p) \subseteq made
      BY <2>2 DEF IInv, Prepared, Past, Fetching
    <3>2. ASSUME NEW p \in Active
          PROVE  /\ phase[p] = "done" /\ named[p] /\ linked[p] /\ <<"curio", p>> \in made
                 /\ {"base", "pdp"} \subseteq layers[p]
                 /\ BaseCluster \subseteq layers[p] \/ badExit[p]
      BY <2>1, <2>2 DEF IInv, Served
    <3> QED BY <3>1, <3>2 DEF AreSetUp, BaseCluster
  <2>3. stage = "failed" => faults > 0
    BY DEF IInv, Undisturbed, Numbers
  <2>4. ASSUME stage \in {"ping", "download", "ok", "failed"}, NEW p \in Active
        PROVE  phase[p] \in {"base", "done", "error"}
    BY <2>1, <2>4 DEF IInv, Served
  <2> QED BY <2>2, <2>3, <2>4 DEF OutcomeIsHonest
<1> QED BY <1>1, InvariantIInv, PTL
=============================================================================
