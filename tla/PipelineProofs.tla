---------------------------- MODULE PipelineProofs ---------------------------
(***************************************************************************)
(* For every number of providers and every size of the range of ports: the *)
(* pipeline is a run of the engine, so that what is proved of the engine   *)
(* holds of it; no step misses what an earlier one should have left, but   *)
(* for the race on contract_addresses.json and the contracts the output of *)
(* the script does not show; all the export of a start that succeeded can  *)
(* lack is the address of such a contract that no step asks for.           *)
(***************************************************************************)
EXTENDS Pipeline, TLAPS

-----------------------------------------------------------------------------
(* The engine, for every set of steps and every plan: the barrier between  *)
(* epochs, the quiet end, an honest outcome, and that a plan which lists   *)
(* each step after the steps it needs makes it implement StepOrder.        *)

\* The inductive invariant: epochs before the current one are done, epochs after
\* it have not begun, and the outcome says how the current one ended.
Epochs ==
  /\ \A i \in 1..(epoch - 1) : \A s \in plan[i] : phase[s] = "done"
  /\ \A s \in Step :
       phase[s] # "waiting" => \E i \in 1..epoch : s \in plan[i]

Ending ==
  /\ outcome = "ok" =>
       epoch = Len(plan) /\ \A s \in plan[epoch] : phase[s] = "done"
  /\ outcome = "error" => Joined /\ EpochFailed
  /\ outcome = "panicked" => EpochFailed

IInv == EngineTypeOK /\ Epochs /\ Ending

\* The facts about the plan every step of the proof uses.
LEMMA PlanFacts ==
  ASSUME IInv
  PROVE  /\ plan \in Seq(SUBSET Step)
         /\ Len(plan) \in Nat /\ epoch \in 1..Len(plan)
         /\ plan[epoch] \subseteq Step
         /\ \A i \in 1..Len(plan) : plan[i] \subseteq Step
         /\ \A i, j \in 1..Len(plan) : i # j => plan[i] \cap plan[j] = {}
<1>1. plan \in Seq(SUBSET Step) /\ epoch \in 1..Len(plan)
  BY PlansAssumption DEF IInv, EngineTypeOK
<1>2. \A i, j \in 1..Len(plan) : i # j => plan[i] \cap plan[j] = {}
  BY PlansAssumption DEF IInv, EngineTypeOK
<1>3. Len(plan) \in Nat /\ \A i \in 1..Len(plan) : plan[i] \in SUBSET Step
  BY <1>1
<1> QED BY <1>1, <1>2, <1>3

LEMMA InitIInv == EngineInit => IInv
<1> SUFFICES ASSUME EngineInit PROVE IInv
  OBVIOUS
<1> USE DEF EngineInit
<1>1. plan \in Seq(SUBSET Step) /\ Len(plan) > 0
  BY PlansAssumption
<1>2. Len(plan) \in Nat /\ 1 \in 1..Len(plan)
  BY <1>1
<1>3. EngineTypeOK
  BY <1>2 DEF EngineTypeOK, Phase
<1>4. Epochs /\ Ending
  BY DEF Epochs, Ending
<1> QED BY <1>3, <1>4 DEF IInv

\* A step that moves on or ends touches neither the epochs before its own nor the
\* ones after it.
LEMMA MovePreserves ==
  ASSUME IInv, NEW s \in Step, NEW from \in Phase, from # "done",
         NEW to \in Phase \ {"waiting"}, Enter(s, from, to),
         UNCHANGED <<plan, epoch>>
  PROVE  /\ phase' \in [Step -> Phase]
         /\ Epochs'
         /\ phase'[s] = to
<1>1. s \in plan[epoch] /\ phase[s] = from
      /\ phase' = [phase EXCEPT ![s] = to]
  BY DEF Enter, IsDue
<1>2. phase \in [Step -> Phase]
  BY DEF IInv, EngineTypeOK
<1>3. phase' \in [Step -> Phase] /\ phase'[s] = to
  BY <1>1, <1>2
<1>4. \A i \in 1..(epoch - 1) : \A t \in plan[i] : phase'[t] = "done"
  <2> SUFFICES ASSUME NEW i \in 1..(epoch - 1), NEW t \in plan[i]
               PROVE  phase'[t] = "done"
    OBVIOUS
  <2>1. i \in 1..Len(plan) /\ i # epoch /\ epoch \in 1..Len(plan)
    BY PlanFacts
  <2>2. t # s /\ t \in Step
    BY <1>1, <2>1, PlanFacts
  <2>3. phase[t] = "done"
    BY DEF IInv, Epochs
  <2> QED BY <1>1, <1>2, <2>2, <2>3
<1>5. \A t \in Step : phase'[t] # "waiting" => \E i \in 1..epoch : t \in plan[i]
  <2> SUFFICES ASSUME NEW t \in Step, phase'[t] # "waiting"
               PROVE  \E i \in 1..epoch : t \in plan[i]
    OBVIOUS
  <2>1. CASE t = s
    <3>1. epoch \in 1..epoch
      BY PlanFacts
    <3> QED BY <1>1, <2>1, <3>1
  <2>2. CASE t # s
    BY <1>1, <1>2, <2>2 DEF IInv, Epochs
  <2> QED BY <2>1, <2>2
<1> QED BY <1>3, <1>4, <1>5 DEF Epochs

LEMMA NextIInv ==
  ASSUME IInv, [EngineNext]_engineVars
  PROVE  IInv'
<1> USE DEF IInv
<1>1. CASE UNCHANGED engineVars
  BY <1>1 DEF engineVars, EngineTypeOK, Epochs, Ending, Joined, EpochFailed
<1>2. ASSUME NEW s \in Step, Begin(s)
      PROVE  IInv'
  <2>1. Enter(s, "waiting", "pre") /\ UNCHANGED <<plan, epoch, outcome>>
    BY <1>2 DEF Begin
  <2>2. phase' \in [Step -> Phase] /\ Epochs'
    BY <2>1, MovePreserves DEF Phase, Active
  <2>3. outcome = "running"
    BY <2>1 DEF Enter, IsDue
  <2> QED BY <2>1, <2>2, <2>3 DEF EngineTypeOK, Ending
<1>3. ASSUME NEW s \in Step, Pass(s)
      PROVE  IInv'
  <2>1. /\ phase[s] \in Active
        /\ Enter(s, phase[s], After[phase[s]])
        /\ UNCHANGED <<plan, epoch, outcome>>
    BY <1>3 DEF Pass
  <2>2. After[phase[s]] \in Phase \ {"waiting"}
    BY <2>1 DEF After, Active, Phase
  <2>3. phase' \in [Step -> Phase] /\ Epochs'
    BY <2>1, <2>2, MovePreserves DEF Phase, Active
  <2>4. outcome = "running"
    BY <2>1 DEF Enter, IsDue
  <2> QED BY <2>1, <2>3, <2>4 DEF EngineTypeOK, Ending
<1>4. ASSUME NEW s \in Step, Fail(s)
      PROVE  IInv'
  <2>1. /\ phase[s] \in Active
        /\ Enter(s, phase[s], "failed")
        /\ UNCHANGED <<plan, epoch, outcome>>
    BY <1>4 DEF Fail
  <2>2. phase' \in [Step -> Phase] /\ Epochs'
    BY <2>1, MovePreserves DEF Phase, Active
  <2>3. outcome = "running"
    BY <2>1 DEF Enter, IsDue
  <2> QED BY <2>1, <2>2, <2>3 DEF EngineTypeOK, Ending
<1>5. ASSUME NEW s \in Step, Panic(s)
      PROVE  IInv'
  <2>1. /\ phase[s] \in Active
        /\ Enter(s, phase[s], "failed")
        /\ UNCHANGED <<plan, epoch>>
        /\ outcome' = IF plan[epoch] = {s} THEN "panicked" ELSE outcome
    BY <1>5 DEF Panic
  <2>2. phase' \in [Step -> Phase] /\ Epochs' /\ phase'[s] = "failed"
    BY <2>1, MovePreserves DEF Phase, Active
  <2>3. outcome = "running" /\ s \in plan[epoch]
    BY <2>1 DEF Enter, IsDue
  <2>4. EpochFailed'
    BY <2>1, <2>2, <2>3 DEF EpochFailed
  <2> QED BY <2>1, <2>2, <2>3, <2>4 DEF EngineTypeOK, Ending
<1>6. CASE Join
  <2> USE <1>6 DEF Join
  <2>1. \A s \in plan[epoch] : phase[s] \in {"done", "failed"}
    BY DEF Joined
  <2>2. CASE EpochFailed
    <3>1. outcome' = "error" /\ UNCHANGED <<plan, epoch, phase>>
      BY <2>2
    <3> QED
      BY <2>2, <3>1 DEF EngineTypeOK, Epochs, Ending, Joined, EpochFailed
  <2>3. CASE ~EpochFailed /\ epoch < Len(plan)
    <3>1. epoch' = epoch + 1 /\ UNCHANGED <<plan, phase, outcome>>
      BY <2>3
    <3>2. \A s \in plan[epoch] : phase[s] = "done"
      BY <2>1, <2>3 DEF EpochFailed
    <3>3. epoch \in Nat /\ epoch' \in 1..Len(plan)
      BY <2>3, <3>1, PlanFacts
    <3>4. \A i \in 1..(epoch' - 1) : i = epoch \/ i \in 1..(epoch - 1)
      BY <3>1, <3>3
    <3>5. \A i \in 1..epoch : i \in 1..epoch'
      BY <3>1, <3>3
    <3>6. Epochs'
      <4>1. \A i \in 1..(epoch' - 1) : \A s \in plan[i] : phase[s] = "done"
        BY <3>2, <3>4 DEF Epochs
      <4>2. \A s \in Step :
              phase[s] # "waiting" => \E i \in 1..epoch' : s \in plan[i]
        BY <3>5 DEF Epochs
      <4> QED BY <3>1, <4>1, <4>2 DEF Epochs
    <3> QED BY <3>1, <3>3, <3>6 DEF EngineTypeOK, Ending
  <2>4. CASE ~EpochFailed /\ ~(epoch < Len(plan))
    <3>1. outcome' = "ok" /\ UNCHANGED <<plan, epoch, phase>>
      BY <2>4
    <3>2. epoch = Len(plan)
      BY <2>4, PlanFacts
    <3>3. \A s \in plan[epoch] : phase[s] = "done"
      BY <2>1, <2>4 DEF EpochFailed
    <3> QED BY <3>1, <3>2, <3>3 DEF EngineTypeOK, Epochs, Ending
  <2> QED BY <2>2, <2>3, <2>4
<1> QED BY <1>1, <1>2, <1>3, <1>4, <1>5, <1>6 DEF EngineNext

LEMMA InvariantIInv == EngineSpec => []IInv
BY InitIInv, NextIInv, PTL DEF EngineSpec

-----------------------------------------------------------------------------
\* The engine's state is always well formed.
THEOREM TypeCorrect == EngineSpec => []EngineTypeOK
<1>1. IInv => EngineTypeOK
  BY DEF IInv
<1> QED BY <1>1, InvariantIInv, PTL

\* No step starts before every step of every earlier epoch is done, however the
\* threads interleave.
THEOREM BarrierHolds == EngineSpec => []Barrier
<1>1. ASSUME IInv PROVE Barrier
  <2> SUFFICES ASSUME NEW i \in 1..Len(plan), NEW s \in plan[i],
                      phase[s] # "waiting",
                      NEW j \in 1..(i - 1), NEW t \in plan[j]
               PROVE  phase[t] = "done"
    BY DEF Barrier
  <2>1. s \in Step
    BY <1>1, PlanFacts
  <2>2. PICK k \in 1..epoch : s \in plan[k]
    BY <1>1, <2>1 DEF IInv, Epochs
  <2>3. k \in 1..Len(plan)
    BY <1>1, <2>2, PlanFacts
  <2>4. k = i
    BY <1>1, <2>2, <2>3, PlanFacts
  <2>5. j \in 1..(epoch - 1)
    BY <1>1, <2>2, <2>4, PlanFacts
  <2> QED BY <1>1, <2>5 DEF IInv, Epochs
<1> QED BY <1>1, InvariantIInv, PTL

\* When the engine has returned no step is in one of its phases.
THEOREM QuietAtTheEnd == EngineSpec => []QuietWhenOver
<1>1. ASSUME IInv, outcome \in {"ok", "error"}, NEW s \in Step
      PROVE  phase[s] \notin Active
  <2>1. \A t \in plan[epoch] : phase[t] \in {"done", "failed"}
    BY <1>1 DEF IInv, Ending, Joined
  <2>2. CASE phase[s] = "waiting"
    BY <2>2 DEF Active
  <2>3. CASE phase[s] # "waiting"
    <3>1. PICK i \in 1..epoch : s \in plan[i]
      BY <1>1, <2>3 DEF IInv, Epochs
    <3>2. CASE i = epoch
      BY <2>1, <3>1, <3>2 DEF Active
    <3>3. CASE i # epoch
      <4>1. i \in 1..(epoch - 1)
        BY <1>1, <3>1, <3>3, PlanFacts
      <4>2. phase[s] = "done"
        BY <1>1, <3>1, <4>1 DEF IInv, Epochs
      <4> QED BY <4>2 DEF Active
    <3> QED BY <3>2, <3>3
  <2> QED BY <2>2, <2>3
<1>2. IInv => QuietWhenOver
  BY <1>1 DEF QuietWhenOver
<1> QED BY <1>2, InvariantIInv, PTL

\* Success means that every step of the plan completed, failure that one failed.
THEOREM OutcomeHonest == EngineSpec => []OutcomeIsHonest
<1>1. ASSUME IInv PROVE OutcomeIsHonest
  <2>1. ASSUME outcome = "ok", NEW i \in 1..Len(plan), NEW s \in plan[i]
        PROVE  phase[s] = "done"
    <3>1. epoch = Len(plan) /\ \A t \in plan[epoch] : phase[t] = "done"
      BY <1>1, <2>1 DEF IInv, Ending
    <3>2. i = epoch \/ i \in 1..(epoch - 1)
      BY <1>1, <3>1, PlanFacts
    <3> QED BY <1>1, <2>1, <3>1, <3>2 DEF IInv, Epochs
  <2>2. ASSUME outcome \in {"error", "panicked"}
        PROVE  \E s \in Step : phase[s] = "failed"
    <3>1. EpochFailed
      BY <1>1, <2>2 DEF IInv, Ending
    <3> QED BY <1>1, <3>1, PlanFacts DEF EpochFailed
  <2> QED BY <2>1, <2>2 DEF OutcomeIsHonest
<1> QED BY <1>1, InvariantIInv, PTL

-----------------------------------------------------------------------------
\* Every step of the engine is a step of the order or leaves it alone.
LEMMA StepImplementsOrder ==
  ASSUME IInv, [EngineNext]_engineVars
  PROVE  [Order!OrderNext]_(Order!orderVars)
<1> USE DEF IInv, EngineTypeOK, In, Phase, Order!OrderNext, Order!orderVars
<1>1. CASE UNCHANGED phase
  BY <1>1
<1>2. ASSUME NEW s \in Step, Begin(s)
      PROVE  Order!Begins
  <2>1. /\ s \in plan[epoch] /\ phase[s] = "waiting"
        /\ phase' = [phase EXCEPT ![s] = "pre"]
    BY <1>2 DEF Begin, Enter, IsDue
  <2>2. Needs[s] \subseteq In({"done"})
    <3> SUFFICES ASSUME NEW n \in Needs[s]
                 PROVE  n \in Step /\ phase[n] = "done"
      OBVIOUS
    <3>1. n \in Step /\ \E j \in 1..(epoch - 1) : n \in plan[j]
      BY <2>1, PlanFacts, NeedsAssumption
    <3> QED BY <3>1 DEF Epochs
  <2>3. In(Phase \ {"waiting"})' = In(Phase \ {"waiting"}) \cup {s}
    BY <2>1 DEF Active
  <2>4. UNCHANGED <<In({"done"}), In({"failed"})>>
    BY <2>1
  <2> QED BY <2>1, <2>2, <2>3, <2>4 DEF Order!Begins
<1>3. ASSUME NEW s \in Step, phase[s] \in Active, phase' = [phase EXCEPT ![s] = "done"]
      PROVE  Order!Completes
  <2>1. s \in In(Phase \ {"waiting"}) \ (In({"done"}) \cup In({"failed"}))
    BY <1>3 DEF Active
  <2>2. In({"done"})' = In({"done"}) \cup {s}
    BY <1>3
  <2>3. UNCHANGED <<In(Phase \ {"waiting"}), In({"failed"})>>
    BY <1>3 DEF Active
  <2> QED BY <2>1, <2>2, <2>3 DEF Order!Completes
<1>4. ASSUME NEW s \in Step, phase[s] \in Active, phase' = [phase EXCEPT ![s] = "failed"]
      PROVE  Order!Fails
  <2>1. s \in In(Phase \ {"waiting"}) \ (In({"done"}) \cup In({"failed"}))
    BY <1>4 DEF Active
  <2>2. In({"failed"})' = In({"failed"}) \cup {s}
    BY <1>4
  <2>3. UNCHANGED <<In(Phase \ {"waiting"}), In({"done"})>>
    BY <1>4 DEF Active
  <2> QED BY <2>1, <2>2, <2>3 DEF Order!Fails
<1>5. ASSUME NEW s \in Step, Pass(s)
      PROVE  Order!Completes \/ UNCHANGED Order!orderVars
  <2>1. phase[s] \in Active /\ phase' = [phase EXCEPT ![s] = After[phase[s]]]
    BY <1>5 DEF Pass, Enter
  <2>2. CASE After[phase[s]] = "done"
    BY <1>3, <2>1, <2>2
  <2>3. CASE After[phase[s]] # "done"
    <3>1. After[phase[s]] \in Active
      BY <2>1, <2>3 DEF After, Active
    <3> QED BY <2>1, <3>1 DEF Active
  <2> QED BY <2>2, <2>3
<1>6. ASSUME NEW s \in Step, Fail(s) \/ Panic(s)
      PROVE  Order!Fails
  BY <1>4, <1>6 DEF Fail, Panic, Enter
<1>7. ASSUME Join PROVE UNCHANGED phase
  BY <1>7 DEF Join
<1> QED
  BY <1>1, <1>2, <1>5, <1>6, <1>7 DEF EngineNext, engineVars

\* The engine implements the order of the steps for every plan that puts a step
\* in a later epoch than what it needs.
THEOREM EngineImplementsOrder == EngineSpec => ImplementsOrder
<1>1. EngineInit => Order!OrderInit
  BY DEF EngineInit, Order!OrderInit, In, Phase, Active
<1>2. IInv /\ [EngineNext]_engineVars => [Order!OrderNext]_(Order!orderVars)
  BY StepImplementsOrder
<1> QED
  BY <1>1, <1>2, InvariantIInv, PTL
     DEF EngineSpec, ImplementsOrder, Order!OrderSpec

-----------------------------------------------------------------------------
(* What the steps leave, and that it is what the later ones read.  F       *)
(* stands for a set of facts that has all that the steps named have made.  *)

\* Step s has left all it makes in F.
Leaves(s, c, F) == \A q \in Active : StepWork(s, c)[q].makes \subseteq F

\* What validate() says of the numbers of a configuration.
LEMMA ConfigFacts ==
  ASSUME NEW c \in Configs
  PROVE  /\ c.active \in Nat /\ c.approved \in Nat /\ c.endorsed \in Nat
         /\ c.endorsed <= c.approved /\ c.approved <= c.active /\ c.active <= MaxSp
         /\ c.ports \in Nat /\ 0 < c.ports /\ c.shown \subseteq Contracts
<1>1. c \in [ active : 0..MaxSp, approved : 0..MaxSp, endorsed : 0..MaxSp,
             ports : PortCounts, shown : Outputs ] /\ Validate(c)
  BY DEF Configs
<1>2. c.ports \in Nat /\ c.ports # 0
  BY <1>1, PipelineAssumption
<1>3. c.active \in 0..MaxSp /\ c.approved \in 0..MaxSp /\ c.endorsed \in 0..MaxSp
  BY <1>1
<1> QED BY <1>1, <1>2, <1>3, PipelineAssumption DEF Validate

\* What Lotus leaves when its phases are over.
LEMMA LotusLeaves ==
  ASSUME NEW c, NEW F, Leaves("Lotus", c, F)
  PROVE  /\ LotusRuns \in F
         /\ Keys({"lotus_api_port", "lotus_p2p_port", "lotus_container_id",
                  "lotus_container_name"}) \subseteq F
BY DEF Leaves, Active, StepWork, Lotus, Work, Keys, Allocating

\* What LotusMiner leaves when its phases are over.
LEMMA LotusMinerLeaves ==
  ASSUME NEW c, NEW F, Leaves("LotusMiner", c, F)
  PROVE  /\ World("blocks") \in F
         /\ Keys({"lotus_miner_api_port", "lotus_miner_container_id",
                  "lotus_miner_container_name"}) \subseteq F
BY DEF Leaves, Active, StepWork, LotusMiner, Work, Keys, Allocating

\* What ETHAccFunding leaves when its phases are over.
LEMMA ETHAccFundingLeaves ==
  ASSUME NEW c, NEW F, Leaves("ETHAccFunding", c, F)
  PROVE  /\ World("eth_funded") \in F
         /\ Keys({"global_faucet_address", "deployer_foc", "deployer_mockusdfc",
                  "deployer_multicall3", "user"}) \subseteq F
         /\ PerSp({"pdp_sp_address"}, c.active) \subseteq F
BY DEF Leaves, Active, StepWork, ETHAccFunding, Work, Keys, Accounts

\* What USDFCDeploy leaves when its phases are over.
LEMMA USDFCDeployLeaves ==
  ASSUME NEW c, NEW F, Leaves("USDFCDeploy", c, F)
  PROVE  /\ World("token") \in F
         /\ Keys({"mockusdfc_contract_address"}) \subseteq F
BY DEF Leaves, Active, StepWork, USDFCDeploy, Work, Keys

\* What USDFCFunding leaves when its phases are over.
LEMMA USDFCFundingLeaves ==
  ASSUME NEW c, NEW F, Leaves("USDFCFunding", c, F)
  PROVE  /\ World("usdfc_funded") \in F
BY DEF Leaves, Active, StepWork, USDFCFunding, Work, Keys

\* What MultiCall3Deploy leaves when its phases are over.
LEMMA MultiCall3DeployLeaves ==
  ASSUME NEW c, NEW F, Leaves("MultiCall3Deploy", c, F)
  PROVE  /\ Keys({"multicall3_address"}) \subseteq F
BY DEF Leaves, Active, StepWork, MultiCall3Deploy, Work, Keys

\* What FOCDeploy leaves when its phases are over.
LEMMA FOCDeployLeaves ==
  ASSUME NEW c, NEW F, Leaves("FOCDeploy", c, F)
  PROVE  /\ World("foc") \in F
         /\ Keys(c.shown) \subseteq F
BY DEF Leaves, Active, StepWork, FOCDeploy, Work, Keys

\* What Database leaves when its phases are over.
LEMMA DatabaseLeaves ==
  ASSUME NEW c, NEW F, Leaves("Database", c, F)
  PROVE  /\ World("databases") \in F
         /\ PerSp({"postgres_port", "scylla_port"}, c.active) \subseteq F
BY DEF Leaves, Active, StepWork, Database, Work, Keys, Allocating

\* What Curio leaves when its phases are over.
LEMMA CurioLeaves ==
  ASSUME NEW c, NEW F, Leaves("Curio", c, F)
  PROVE  /\ World("curio") \in F
         /\ PerSp({"pdp_port", "other_ports"}, c.active) \subseteq F
         /\ PerSp({"container_id", "container_name"}, c.active) \subseteq F
BY DEF Leaves, Active, StepWork, Curio, Work, Keys, Allocating, Loading

\* What PdpSpRegistration leaves when its phases are over.
LEMMA PdpSpRegistrationLeaves ==
  ASSUME NEW c, NEW F, Leaves("PdpSpRegistration", c, F)
  PROVE  /\ World("registered") \in F
         /\ PerSp({"is_approved", "provider_id"}, c.active) \subseteq F
         /\ PerSp({"approved_true"}, c.approved) \subseteq F
BY DEF Leaves, Active, StepWork, PdpSpRegistration, Work, Keys, Loading

\* F has what the steps that s needs have made, and the addresses UserSetup asks of the
\* context are among those the script's output showed.
Ready(s, c, F) ==
  /\ World("genesis") \in F
  /\ \A n \in StepNeeds[s] : Leaves(n, c, F)
  /\ s = "UserSetup" => Asked[s] \subseteq c.shown

\* Each phase of s finds what it reads there, with what the earlier ones made.
Finds(s, c, F) ==
  /\ StepWork(s, c)["pre"].reads \subseteq F
  /\ StepWork(s, c)["pre"].makes \subseteq F => StepWork(s, c)["execute"].reads \subseteq F
  /\ StepWork(s, c)["pre"].makes \subseteq F /\ StepWork(s, c)["execute"].makes \subseteq F =>
       StepWork(s, c)["post"].reads \subseteq F

\* PrerequisitesCheck needs nothing another step made.
LEMMA PrerequisitesCheckFinds ==
  ASSUME NEW c \in Configs, NEW F, Ready("PrerequisitesCheck", c, F)
  PROVE  Finds("PrerequisitesCheck", c, F)
BY DEF Finds, StepWork, PrerequisitesCheck, Work, Keys, PerSp, Nothing, Ready

\* Lotus needs nothing another step made.
LEMMA LotusFinds ==
  ASSUME NEW c \in Configs, NEW F, Ready("Lotus", c, F)
  PROVE  Finds("Lotus", c, F)
BY DEF Finds, StepWork, Lotus, Work, Keys, PerSp, Allocating, Ready

\* Database needs nothing another step made.
LEMMA DatabaseFinds ==
  ASSUME NEW c \in Configs, NEW F, Ready("Database", c, F)
  PROVE  Finds("Database", c, F)
BY DEF Finds, StepWork, Database, Work, Keys, PerSp, Allocating, Ready

\* LotusMiner finds what it reads once Lotus left it.
LEMMA LotusMinerFinds ==
  ASSUME NEW c \in Configs, NEW F, Ready("LotusMiner", c, F)
  PROVE  Finds("LotusMiner", c, F)
<1>1. Leaves("Lotus", c, F)
  BY DEF Ready, StepNeeds
<1> QED BY <1>1, ConfigFacts, LotusLeaves
    DEF Finds, StepWork, LotusMiner, Work, Keys, PerSp, Allocating, Ready

\* ETHAccFunding finds what it reads once Lotus and LotusMiner left it.
LEMMA ETHAccFundingFinds ==
  ASSUME NEW c \in Configs, NEW F, Ready("ETHAccFunding", c, F)
  PROVE  Finds("ETHAccFunding", c, F)
<1>1. Leaves("Lotus", c, F) /\ Leaves("LotusMiner", c, F)
  BY DEF Ready, StepNeeds
<1> QED BY <1>1, ConfigFacts, LotusLeaves, LotusMinerLeaves
    DEF Finds, StepWork, ETHAccFunding, Work, Keys, PerSp, Accounts, Ready

\* USDFCDeploy finds what it reads once Lotus and ETHAccFunding left it.
LEMMA USDFCDeployFinds ==
  ASSUME NEW c \in Configs, NEW F, Ready("USDFCDeploy", c, F)
  PROVE  Finds("USDFCDeploy", c, F)
<1>1. Leaves("Lotus", c, F) /\ Leaves("ETHAccFunding", c, F)
  BY DEF Ready, StepNeeds
<1> QED BY <1>1, ConfigFacts, LotusLeaves, ETHAccFundingLeaves
    DEF Finds, StepWork, USDFCDeploy, Work, Keys, PerSp, Ready

\* MultiCall3Deploy finds what it reads once Lotus and ETHAccFunding left it.
LEMMA MultiCall3DeployFinds ==
  ASSUME NEW c \in Configs, NEW F, Ready("MultiCall3Deploy", c, F)
  PROVE  Finds("MultiCall3Deploy", c, F)
<1>1. Leaves("Lotus", c, F) /\ Leaves("ETHAccFunding", c, F)
  BY DEF Ready, StepNeeds
<1> QED BY <1>1, ConfigFacts, LotusLeaves, ETHAccFundingLeaves
    DEF Finds, StepWork, MultiCall3Deploy, Work, Keys, PerSp, Ready

\* USDFCFunding finds what it reads once Lotus, ETHAccFunding and USDFCDeploy left it.
LEMMA USDFCFundingFinds ==
  ASSUME NEW c \in Configs, NEW F, Ready("USDFCFunding", c, F)
  PROVE  Finds("USDFCFunding", c, F)
<1>1. Leaves("Lotus", c, F) /\ Leaves("ETHAccFunding", c, F) /\ Leaves("USDFCDeploy", c, F)
  BY DEF Ready, StepNeeds
<1> QED BY <1>1, ConfigFacts, LotusLeaves, ETHAccFundingLeaves, USDFCDeployLeaves
    DEF Finds, StepWork, USDFCFunding, Work, Keys, PerSp, Nothing, Ready

\* FOCDeploy finds what it reads once Lotus, ETHAccFunding and USDFCDeploy left it.
LEMMA FOCDeployFinds ==
  ASSUME NEW c \in Configs, NEW F, Ready("FOCDeploy", c, F)
  PROVE  Finds("FOCDeploy", c, F)
<1>1. Leaves("Lotus", c, F) /\ Leaves("ETHAccFunding", c, F) /\ Leaves("USDFCDeploy", c, F)
  BY DEF Ready, StepNeeds
<1> QED BY <1>1, ConfigFacts, LotusLeaves, ETHAccFundingLeaves, USDFCDeployLeaves
    DEF Finds, StepWork, FOCDeploy, Work, Keys, PerSp, Nothing, Ready

\* Curio finds what it reads once Lotus, ETHAccFunding, Database and FOCDeploy left it.
LEMMA CurioFinds ==
  ASSUME NEW c \in Configs, NEW F, Ready("Curio", c, F)
  PROVE  Finds("Curio", c, F)
<1>1. /\ Leaves("Lotus", c, F)
      /\ Leaves("ETHAccFunding", c, F)
      /\ Leaves("Database", c, F)
      /\ Leaves("FOCDeploy", c, F)
  BY DEF Ready, StepNeeds
<1>2. /\ LotusRuns \in F
      /\ Keys({"lotus_api_port", "lotus_p2p_port", "lotus_container_id",
               "lotus_container_name"}) \subseteq F
      /\ World("eth_funded") \in F
      /\ Keys({"global_faucet_address", "deployer_foc", "deployer_mockusdfc",
               "deployer_multicall3", "user"}) \subseteq F
      /\ PerSp({"pdp_sp_address"}, c.active) \subseteq F
      /\ World("databases") \in F
      /\ PerSp({"postgres_port", "scylla_port"}, c.active) \subseteq F
      /\ World("foc") \in F
  BY <1>1, LotusLeaves, ETHAccFundingLeaves, DatabaseLeaves, FOCDeployLeaves
<1> QED BY <1>2, ConfigFacts DEF Finds, StepWork, Curio, Work, Keys, PerSp, Allocating,
    Loading, Ready

\* PdpSpRegistration finds what it reads once Lotus, ETHAccFunding, USDFCDeploy,
\* FOCDeploy and Curio left it.
LEMMA PdpSpRegistrationFinds ==
  ASSUME NEW c \in Configs, NEW F, Ready("PdpSpRegistration", c, F)
  PROVE  Finds("PdpSpRegistration", c, F)
<1>1. /\ Leaves("Lotus", c, F)
      /\ Leaves("ETHAccFunding", c, F)
      /\ Leaves("USDFCDeploy", c, F)
      /\ Leaves("FOCDeploy", c, F)
      /\ Leaves("Curio", c, F)
  BY DEF Ready, StepNeeds
<1>2. /\ LotusRuns \in F
      /\ Keys({"lotus_api_port", "lotus_p2p_port", "lotus_container_id",
               "lotus_container_name"}) \subseteq F
      /\ World("eth_funded") \in F
      /\ Keys({"global_faucet_address", "deployer_foc", "deployer_mockusdfc",
               "deployer_multicall3", "user"}) \subseteq F
      /\ PerSp({"pdp_sp_address"}, c.active) \subseteq F
      /\ World("token") \in F
      /\ Keys({"mockusdfc_contract_address"}) \subseteq F
      /\ World("foc") \in F
      /\ World("curio") \in F
      /\ PerSp({"pdp_port", "other_ports"}, c.active) \subseteq F
      /\ PerSp({"container_id", "container_name"}, c.active) \subseteq F
  BY <1>1, LotusLeaves, ETHAccFundingLeaves, USDFCDeployLeaves, FOCDeployLeaves, CurioLeaves
<1> QED BY <1>2, ConfigFacts DEF Finds, StepWork, PdpSpRegistration, Work, Keys, PerSp,
    Loading, Ready

\* Endorsement finds what it reads once Lotus, ETHAccFunding, FOCDeploy and
\* PdpSpRegistration left it.
LEMMA EndorsementFinds ==
  ASSUME NEW c \in Configs, NEW F, Ready("Endorsement", c, F)
  PROVE  Finds("Endorsement", c, F)
<1>1. /\ Leaves("Lotus", c, F)
      /\ Leaves("ETHAccFunding", c, F)
      /\ Leaves("FOCDeploy", c, F)
      /\ Leaves("PdpSpRegistration", c, F)
  BY DEF Ready, StepNeeds
<1>2. /\ LotusRuns \in F
      /\ Keys({"lotus_api_port", "lotus_p2p_port", "lotus_container_id",
               "lotus_container_name"}) \subseteq F
      /\ World("eth_funded") \in F
      /\ Keys({"global_faucet_address", "deployer_foc", "deployer_mockusdfc",
               "deployer_multicall3", "user"}) \subseteq F
      /\ PerSp({"pdp_sp_address"}, c.active) \subseteq F
      /\ World("foc") \in F
      /\ World("registered") \in F
      /\ PerSp({"is_approved", "provider_id"}, c.active) \subseteq F
      /\ PerSp({"approved_true"}, c.approved) \subseteq F
  BY <1>1, LotusLeaves, ETHAccFundingLeaves, FOCDeployLeaves, PdpSpRegistrationLeaves
<1>3. /\ PerSp({"provider_id"}, c.endorsed) \subseteq F
      /\ PerSp({"pdp_sp_address"}, c.endorsed) \subseteq F
      /\ PerSp({"approved_true"}, c.endorsed) \subseteq F
  BY <1>2, ConfigFacts DEF PerSp
<1>4. PerSp({"pdp_sp_address", "approved_true"}, c.endorsed) \subseteq F
  BY <1>3 DEF PerSp
<1>5. StepWork("Endorsement", c)["pre"].reads \subseteq F
  BY <1>2, <1>3, <1>4 DEF StepWork, Endorsement, Work, Keys, Loading
<1>6. StepWork("Endorsement", c)["execute"].reads \subseteq F
  BY <1>2, <1>3 DEF StepWork, Endorsement, Work, Keys, Loading, Nothing
<1>7. StepWork("Endorsement", c)["post"].reads \subseteq F
  BY <1>2, <1>3 DEF StepWork, Endorsement, Work, Keys, Loading, Nothing
<1> QED BY <1>5, <1>6, <1>7 DEF Finds

\* UserSetup finds what it reads once Lotus, ETHAccFunding, USDFCDeploy, USDFCFunding
\* and FOCDeploy left it.
LEMMA UserSetupFinds ==
  ASSUME NEW c \in Configs, NEW F, Ready("UserSetup", c, F)
  PROVE  Finds("UserSetup", c, F)
<1>1. Leaves("Lotus", c, F) /\ Leaves("ETHAccFunding", c, F) /\ Leaves("USDFCDeploy", c, F)
      /\ Leaves("USDFCFunding", c, F) /\ Leaves("FOCDeploy", c, F)
  BY DEF Ready, StepNeeds
<1>2. Keys({"filecoin_pay_v1_contract", "filecoin_warm_storage_service_proxy"}) \subseteq F
  <2>1. {"filecoin_pay_v1_contract", "filecoin_warm_storage_service_proxy"} \subseteq c.shown
    BY DEF Ready, Asked
  <2> QED BY <1>1, <2>1, FOCDeployLeaves DEF Keys
<1>3. /\ LotusRuns \in F /\ World("foc") \in F /\ World("usdfc_funded") \in F
      /\ World("eth_funded") \in F
      /\ Keys({"mockusdfc_contract_address", "user", "lotus_api_port"}) \subseteq F
  BY <1>1, LotusLeaves, ETHAccFundingLeaves, USDFCDeployLeaves, USDFCFundingLeaves,
     FOCDeployLeaves DEF Keys
<1>4. StepWork("UserSetup", c)["pre"].reads \subseteq F
  BY <1>3 DEF StepWork, UserSetup, Work
<1>5. StepWork("UserSetup", c)["execute"].reads \subseteq F
  BY <1>2, <1>3 DEF StepWork, UserSetup, Work, Keys
<1>6. StepWork("UserSetup", c)["post"].reads \subseteq F
  BY DEF StepWork, UserSetup, Work, Nothing
<1> QED BY <1>4, <1>5, <1>6 DEF Finds

-----------------------------------------------------------------------------
(* The inductive invariant.                                                *)

Types ==
  /\ cfg \in Configs
  /\ file \in [ kind : {"absent", "empty", "json", "torn"},
                entries : SUBSET Address ]
  /\ held \in [Deployers -> SUBSET Address]
  /\ stage \in [Deployers -> {"deploy", "load", "truncate", "write", "written"}]
  /\ reason \in [Steps -> {"none", "missing", "ports", "broken"}]

\* What a phase makes stays in the context.  What it read there stays too, and the
\* addresses it took from the file are of those the script's output showed.
Makes(s, p) == StepWork(s, cfg)[p].makes \subseteq facts

Had(s, p) ==
  /\ StepWork(s, cfg)[p].reads \subseteq facts
  /\ StepWork(s, cfg)[p].loads => StepWork(s, cfg)[p].entries \cap Contracts \subseteq cfg.shown

Kept ==
  /\ World("genesis") \in facts /\ Key("active_count") \in facts
  /\ \A s \in Steps :
       /\ phase[s] \in {"execute", "post", "done"} => Makes(s, "pre") /\ Had(s, "pre")
       /\ phase[s] \in {"post", "done"} => Makes(s, "execute") /\ Had(s, "execute")
       /\ phase[s] = "done" => Makes(s, "post") /\ Had(s, "post")
  /\ \A d \in Deployers : stage[d] # "deploy" => Makes(d, "execute") /\ Had(d, "execute")

\* No address of a contract is in the file, or about to be, that was not shown.
OnlyShown ==
  /\ file.entries \cap Contracts \subseteq cfg.shown
  /\ \A d \in Deployers : held[d] \cap Contracts \subseteq cfg.shown

\* A deployer is through its execute phase when it has written the file.
Staged ==
  \A d \in Deployers :
    /\ phase[d] \in {"waiting", "pre"} => stage[d] = "deploy"
    /\ phase[d] \in {"post", "done"} => stage[d] = "written"
    /\ stage[d] = "written" => phase[d] \in {"post", "done", "failed"}

\* The file is empty between the truncation and the write of a deployer that has it for
\* itself, as "FOCDeploy" has in both orders and all have in the sequential one.
Alone == IF plan = SequentialPlan THEN Deployers ELSE {"FOCDeploy"}
InTheFile(es) == file.kind = "json" /\ es \subseteq file.entries

FileHolds ==
  /\ \A d \in Alone : stage[d] = "write" => file.kind = "empty"
  /\ stage["FOCDeploy"] = "written" => InTheFile(cfg.shown)
  /\ plan = SequentialPlan /\ stage["USDFCDeploy"] = "written" =>
       /\ \A d \in Deployers : stage[d] \in {"truncate", "write"} => "usdfc" \in held[d]
       /\ (\A d \in Deployers : stage[d] # "write") => InTheFile({"usdfc"})

\* Ports are taken before execute, and the four steps that take some take no more
\* than there should be.
Taken(s, n) == IF phase[s] \in {"waiting", "pre"} THEN 0 ELSE n

Enough == 4 + 6 * cfg.active

\* What the steps past their allocations have taken, and Portainer.
Allotted ==
  1 + Taken("Lotus", 2) + Taken("LotusMiner", 1)
    + Taken("Database", 2 * cfg.active) + Taken("Curio", 4 * cfg.active)

PortsTaken ==
  /\ used \in Nat /\ 1 <= used /\ used <= cfg.ports
  /\ cfg.ports < Enough \/ used <= Allotted

\* Only a step that has failed has a reason.
Reasons == \A s \in Steps : reason[s] # "none" => phase[s] = "failed"

PInv ==
  /\ IInv
  /\ Types /\ Kept /\ OnlyShown /\ Staged /\ FileHolds /\ PortsTaken /\ Reasons /\ FailureHasACause

-----------------------------------------------------------------------------
(* What the invariants of the engine say of these steps.                   *)

\* A step of the pipeline is one of the engine, or none.
LEMMA EngineMoves ==
  ASSUME [Next]_vars
  PROVE  [EngineNext]_engineVars
BY PipelineAssumption DEF Next, vars, EngineNext, engineVars, Ends, Starts, Runs, Does,
   Deploys,
   Loads, Truncates, Writes, Misses, RunsOutOfPorts, Breaks, Panics

\* The phases one after the other.
LEMMA AfterFacts ==
  /\ After["pre"] = "execute" /\ After["execute"] = "post" /\ After["post"] = "done"
BY DEF After

\* The entries of each deployer.
LEMMA EntriesFacts ==
  /\ \A c : /\ Entries("USDFCDeploy", c) = {"usdfc"}
            /\ Entries("MultiCall3Deploy", c) = {"multicall"}
            /\ Entries("FOCDeploy", c) = c.shown
  /\ "usdfc" \notin Contracts /\ "multicall" \notin Contracts
  /\ Types => \A d \in Deployers :
       /\ Entries(d, cfg) \subseteq Address
       /\ Entries(d, cfg) \cap Contracts \subseteq cfg.shown
<1>1. \A c : /\ Entries("USDFCDeploy", c) = {"usdfc"}
            /\ Entries("MultiCall3Deploy", c) = {"multicall"}
            /\ Entries("FOCDeploy", c) = c.shown
  BY DEF Entries
<1>2. "usdfc" \notin Contracts /\ "multicall" \notin Contracts
  BY DEF Contracts
<1>3. Types => cfg.shown \subseteq Contracts
  BY ConfigFacts DEF Types
<1> QED BY <1>1, <1>2, <1>3 DEF Deployers, Address

\* Where the engine is, with the steps and the plans of the pipeline.
LEMMA PhaseTypes ==
  ASSUME IInv
  PROVE  /\ phase \in [Steps -> Phase]
         /\ plan \in {SequentialPlan, ParallelPlan} /\ plan \in Plans
         /\ Len(plan) \in Nat /\ epoch \in 1..Len(plan)
BY PipelineAssumption, PlanFacts DEF IInv, EngineTypeOK

\* A step moves alone.
LEMMA EnterMoves ==
  ASSUME IInv, NEW s \in Steps, NEW from, NEW to, Enter(s, from, to)
  PROVE  phase[s] = from /\ phase'[s] = to /\ \A t \in Steps \ {s} : phase'[t] = phase[t]
BY PhaseTypes DEF Enter

\* The steps whose results a step uses are done when it has begun.
LEMMA NeedsDone ==
  ASSUME IInv, NEW s \in Steps, phase[s] # "waiting", NEW n \in StepNeeds[s]
  PROVE  n \in Steps /\ phase[n] = "done"
<1>1. PICK i \in 1..epoch : s \in plan[i]
  BY PipelineAssumption DEF IInv, Epochs
<1>2. i \in 1..Len(plan)
  BY PhaseTypes
<1>3. PICK j \in 1..(i - 1) : n \in Steps /\ n \in plan[j]
  BY <1>1, <1>2, PhaseTypes, NeedsAssumption, PipelineAssumption
<1>4. j \in 1..(epoch - 1)
  BY PhaseTypes
<1> QED BY <1>3, <1>4 DEF IInv, Epochs

\* The places of the deployers in the two plans.
LEMMA Places ==
  /\ Len(SequentialPlan) = 12 /\ Len(ParallelPlan) = 10
  /\ "USDFCDeploy" \in SequentialPlan[4] /\ "MultiCall3Deploy" \in SequentialPlan[6]
  /\ "USDFCDeploy" \in ParallelPlan[5] /\ "MultiCall3Deploy" \in ParallelPlan[5]
  /\ "FOCDeploy" \in SequentialPlan[7] /\ "FOCDeploy" \in ParallelPlan[6]
  /\ \A i \in 1..12 :
       /\ "MultiCall3Deploy" \in SequentialPlan[i] => i = 6
       /\ "FOCDeploy" \in SequentialPlan[i] => i = 7
       /\ {"Curio", "PdpSpRegistration", "Endorsement"} \cap SequentialPlan[i] # {} => 9 <= i
  /\ \A i \in 1..10 :
       /\ "FOCDeploy" \in ParallelPlan[i] => i = 6
       /\ {"Curio", "PdpSpRegistration", "Endorsement"} \cap ParallelPlan[i] # {} => 7 <= i
<1>1. \A i \in 1..12 : \/ i = 1 \/ i = 2 \/ i = 3 \/ i = 4 \/ i = 5 \/ i = 6
                       \/ i = 7 \/ i = 8 \/ i = 9 \/ i = 10 \/ i = 11 \/ i = 12
  OBVIOUS
<1>2. \A i \in 1..10 : \/ i = 1 \/ i = 2 \/ i = 3 \/ i = 4 \/ i = 5
                       \/ i = 6 \/ i = 7 \/ i = 8 \/ i = 9 \/ i = 10
  OBVIOUS
<1> QED BY <1>1, <1>2 DEF SequentialPlan, ParallelPlan

\* FOC is deployed after the two others; in the sequential order those take turns; all
\* three are through when Curio and what follows begin.
LEMMA DeployersInTurn ==
  ASSUME IInv
  PROVE  /\ phase["FOCDeploy"] # "waiting" =>
              phase["USDFCDeploy"] = "done" /\ phase["MultiCall3Deploy"] = "done"
         /\ plan = SequentialPlan /\ phase["MultiCall3Deploy"] # "waiting" =>
              phase["USDFCDeploy"] = "done"
         /\ \A s \in {"Curio", "PdpSpRegistration", "Endorsement"} :
              phase[s] # "waiting" => \A d \in Deployers : phase[d] = "done"
<1>1. \A s \in Steps : phase[s] # "waiting" => \E i \in 1..epoch : s \in plan[i]
  BY PipelineAssumption DEF IInv, Epochs
<1>2. \A j \in 1..(epoch - 1) : \A s \in plan[j] : phase[s] = "done"
  BY DEF IInv, Epochs
<1>3. epoch \in Nat /\ epoch <= Len(plan)
  BY PhaseTypes
<1>4. CASE plan = SequentialPlan
  <2>1. epoch <= 12
    BY <1>3, <1>4, Places
  <2>2. phase["MultiCall3Deploy"] # "waiting" => 6 <= epoch
    BY <1>1, <1>3, <1>4, <2>1, Places DEF Steps
  <2>3. phase["FOCDeploy"] # "waiting" => 7 <= epoch
    BY <1>1, <1>3, <1>4, <2>1, Places DEF Steps
  <2>4. \A s \in {"Curio", "PdpSpRegistration", "Endorsement"} :
          phase[s] # "waiting" => 9 <= epoch
    BY <1>1, <1>3, <1>4, <2>1, Places DEF Steps
  <2>5. /\ 6 <= epoch => phase["USDFCDeploy"] = "done"
        /\ 7 <= epoch => phase["MultiCall3Deploy"] = "done"
        /\ 9 <= epoch => phase["FOCDeploy"] = "done"
    BY <1>2, <1>3, <1>4, Places
  <2>6. 9 <= epoch => 7 <= epoch /\ 6 <= epoch
    BY <1>3
  <2>7. 7 <= epoch => 6 <= epoch
    BY <1>3
  <2> QED BY <2>2, <2>3, <2>4, <2>5, <2>6, <2>7 DEF Deployers
<1>5. CASE plan = ParallelPlan
  <2>1. epoch <= 10
    BY <1>3, <1>5, Places
  <2>2. phase["FOCDeploy"] # "waiting" => 6 <= epoch
    BY <1>1, <1>3, <1>5, <2>1, Places DEF Steps
  <2>3. \A s \in {"Curio", "PdpSpRegistration", "Endorsement"} :
          phase[s] # "waiting" => 7 <= epoch
    BY <1>1, <1>3, <1>5, <2>1, Places DEF Steps
  <2>4. /\ 6 <= epoch => phase["USDFCDeploy"] = "done" /\ phase["MultiCall3Deploy"] = "done"
        /\ 7 <= epoch => phase["FOCDeploy"] = "done"
    BY <1>2, <1>3, <1>5, Places
  <2>5. 7 <= epoch => 6 <= epoch
    BY <1>3
  <2>6. SequentialPlan # ParallelPlan
    BY Places
  <2> QED BY <1>5, <2>2, <2>3, <2>4, <2>5, <2>6 DEF Deployers
<1> QED BY <1>4, <1>5, PhaseTypes

\* A step whose epoch is not the current one has not begun, or is done.
LEMMA OthersRest ==
  ASSUME IInv, NEW t \in Steps, t \notin plan[epoch]
  PROVE  phase[t] \in {"waiting", "done"}
<1> SUFFICES ASSUME phase[t] # "waiting" PROVE phase[t] = "done"
  OBVIOUS
<1>1. PICK i \in 1..epoch : t \in plan[i]
  BY PipelineAssumption DEF IInv, Epochs
<1>2. i \in 1..(epoch - 1)
  BY <1>1, PhaseTypes
<1> QED BY <1>1, <1>2 DEF IInv, Epochs

\* No two deployers of which one has the file for itself are in the same epoch.
LEMMA Apart ==
  ASSUME IInv, NEW d \in Deployers, NEW e \in Deployers, d # e,
         d \in Alone \/ e \in Alone, d \in plan[epoch]
  PROVE  e \notin plan[epoch]
<1>1. epoch \in 1..Len(plan)
  BY PhaseTypes
<1>2. CASE plan = SequentialPlan
  <2>1. epoch \in 1..12
    BY <1>1, <1>2, Places
  <2>2. 4 \in 1..12 /\ "USDFCDeploy" \in plan[4]
    BY <1>2, Places
  <2>3. "USDFCDeploy" \in plan[epoch] => epoch = 4
    BY <1>1, <1>2, <2>2, Places, PlanFacts
  <2> QED BY <1>2, <2>1, <2>3, Places DEF Deployers
<1>3. CASE plan = ParallelPlan
  <2>1. epoch \in 1..10
    BY <1>1, <1>3, Places
  <2>2. /\ 5 \in 1..10
        /\ "USDFCDeploy" \in plan[5] /\ "MultiCall3Deploy" \in plan[5]
    BY <1>3, Places
  <2>3. /\ "USDFCDeploy" \in plan[epoch] => epoch = 5
        /\ "MultiCall3Deploy" \in plan[epoch] => epoch = 5
    BY <1>1, <1>3, <2>2, Places, PlanFacts
  <2>4. SequentialPlan # ParallelPlan
    BY Places
  <2>5. d = "FOCDeploy" \/ e = "FOCDeploy"
    BY <1>3, <2>4 DEF Alone
  <2> QED BY <1>3, <2>1, <2>3, <2>5, Places DEF Deployers
<1> QED BY <1>2, <1>3, PhaseTypes

\* While a deployer is at work, one of the other two that shares no epoch with it is not
\* between its load and its write.
LEMMA Sole ==
  ASSUME IInv, Staged, NEW d \in Deployers, NEW e \in Deployers, d # e,
         d \in Alone \/ e \in Alone, d \in plan[epoch]
  PROVE  phase[e] \in {"waiting", "done"} /\ stage[e] \in {"deploy", "written"}
<1>1. phase[e] \in {"waiting", "done"}
  BY Apart, OthersRest DEF Deployers, Steps
<1> QED BY <1>1 DEF Staged

-----------------------------------------------------------------------------
(* The phases one after the other.                                         *)

\* Every step finds what it reads once the steps it needs have left it.
LEMMA InputsAreReady ==
  ASSUME NEW s \in Steps, NEW c \in Configs, NEW F, Ready(s, c, F)
  PROVE  Finds(s, c, F)
BY PrerequisitesCheckFinds, LotusFinds, LotusMinerFinds, ETHAccFundingFinds, USDFCDeployFinds,
   USDFCFundingFinds, MultiCall3DeployFinds, FOCDeployFinds, DatabaseFinds, CurioFinds,
   PdpSpRegistrationFinds, EndorsementFinds, UserSetupFinds DEF Steps

\* A step that is done has left all it makes.
LEMMA DoneLeaves ==
  ASSUME Kept, NEW s \in Steps, phase[s] = "done"
  PROVE  Leaves(s, cfg, facts)
BY DEF Kept, Makes, Leaves, Active

\* What a phase reads of the context and of the world is there, if the script's output
\* showed what UserSetup asks for.
LEMMA InputsAreThere ==
  ASSUME IInv, Types, Kept, NEW s \in Steps, phase[s] \in Active,
         s = "UserSetup" => Asked[s] \subseteq cfg.shown
  PROVE  Now(s).reads \subseteq facts
<1>1. \A n \in StepNeeds[s] : Leaves(n, cfg, facts)
  BY NeedsDone, DoneLeaves DEF Active
<1>2. Finds(s, cfg, facts)
  BY <1>1, InputsAreReady DEF Ready, Kept, Types
<1>3. CASE phase[s] = "pre"
  BY <1>2, <1>3 DEF Finds, Now
<1>4. CASE phase[s] = "execute"
  BY <1>2, <1>4 DEF Finds, Now, Kept, Makes
<1>5. CASE phase[s] = "post"
  BY <1>2, <1>5 DEF Finds, Now, Kept, Makes
<1> QED BY <1>3, <1>4, <1>5 DEF Active

\* Only three steps read the file; they want the contracts they ask for, and the
\* registration "usdfc" too.
LEMMA LoadFacts ==
  ASSUME NEW s \in Steps, NEW c, NEW p \in Active, StepWork(s, c)[p].loads
  PROVE  /\ s \in {"Curio", "PdpSpRegistration", "Endorsement"}
         /\ \/ s = "Curio" /\ StepWork(s, c)[p].entries = {}
            \/ /\ s = "PdpSpRegistration"
               /\ StepWork(s, c)[p].entries \subseteq Asked[s] \cup {"usdfc"}
            \/ s = "Endorsement" /\ StepWork(s, c)[p].entries \subseteq Asked[s]
<1>1. CASE s \in {"PrerequisitesCheck", "Lotus", "LotusMiner", "ETHAccFunding", "USDFCDeploy"}
  <2>1. /\ ~StepWork(s, c)["pre"].loads /\ ~StepWork(s, c)["execute"].loads
        /\ ~StepWork(s, c)["post"].loads
    BY <1>1 DEF StepWork, Work, Nothing, Allocating, PrerequisitesCheck, Lotus, LotusMiner,
       ETHAccFunding, USDFCDeploy
  <2> QED BY <2>1 DEF Active
<1>2. CASE s \in {"USDFCFunding", "MultiCall3Deploy", "FOCDeploy", "Database", "UserSetup"}
  <2>1. /\ ~StepWork(s, c)["pre"].loads /\ ~StepWork(s, c)["execute"].loads
        /\ ~StepWork(s, c)["post"].loads
    BY <1>2 DEF StepWork, Work, Nothing, Allocating, USDFCFunding, MultiCall3Deploy,
       FOCDeploy, Database, UserSetup
  <2> QED BY <2>1 DEF Active
<1>3. CASE s = "Curio"
  <2>1. /\ ~StepWork(s, c)["pre"].loads /\ ~StepWork(s, c)["post"].loads
        /\ StepWork(s, c)["execute"].entries = {}
    BY <1>3 DEF StepWork, Work, Allocating, Loading, Curio
  <2> QED BY <1>3, <2>1 DEF Active
<1>4. CASE s = "PdpSpRegistration"
  <2>1. /\ StepWork(s, c)["pre"].entries \subseteq Asked[s] \cup {"usdfc"}
        /\ StepWork(s, c)["execute"].entries \subseteq Asked[s] \cup {"usdfc"}
        /\ StepWork(s, c)["post"].entries \subseteq Asked[s] \cup {"usdfc"}
    BY <1>4 DEF StepWork, Work, Loading, PdpSpRegistration, Asked
  <2> QED BY <1>4, <2>1 DEF Active
<1>5. CASE s = "Endorsement"
  <2>1. StepWork(s, c)["pre"].entries \subseteq Asked[s]
    BY <1>5 DEF StepWork, Work, Loading, Endorsement, Asked
  <2>2. StepWork(s, c)["execute"].entries \subseteq Asked[s]
    BY <1>5 DEF StepWork, Work, Nothing, Loading, Endorsement, Asked
  <2>3. StepWork(s, c)["post"].entries \subseteq Asked[s]
    BY <1>5 DEF StepWork, Work, Nothing, Loading, Endorsement, Asked
  <2> QED BY <1>5, <2>1, <2>2, <2>3 DEF Active
<1> QED BY <1>1, <1>2, <1>3, <1>4, <1>5 DEF Steps

\* The ports each step takes before it executes; no phase takes one later.
PortsOf(s, c) ==
  CASE s = "Lotus" -> 2
    [] s = "LotusMiner" -> 1
    [] s = "Database" -> 2 * c.active
    [] s = "Curio" -> 4 * c.active
    [] OTHER -> 0

\* That is what the steps ask for.
LEMMA PortsFacts ==
  ASSUME NEW s \in Steps, NEW c
  PROVE  /\ StepWork(s, c)["pre"].ports = PortsOf(s, c)
         /\ StepWork(s, c)["execute"].ports = 0 /\ StepWork(s, c)["post"].ports = 0
<1>1. CASE s \in {"Lotus", "LotusMiner", "Database"}
  BY <1>1 DEF StepWork, Work, Allocating, Lotus, LotusMiner, Database, PortsOf
<1>2. CASE s = "Curio"
  BY <1>2 DEF StepWork, Work, Allocating, Loading, Curio, PortsOf
<1>3. CASE s \in {"PrerequisitesCheck", "ETHAccFunding", "USDFCDeploy", "USDFCFunding",
                  "MultiCall3Deploy", "FOCDeploy", "UserSetup"}
  BY <1>3 DEF StepWork, Work, Nothing, PrerequisitesCheck, ETHAccFunding, USDFCDeploy,
     USDFCFunding, MultiCall3Deploy, FOCDeploy, UserSetup, PortsOf
<1>4. CASE s = "PdpSpRegistration"
  BY <1>4 DEF StepWork, Work, Loading, PdpSpRegistration, PortsOf
<1>5. CASE s = "Endorsement"
  BY <1>5 DEF StepWork, Work, Nothing, Loading, Endorsement, PortsOf
<1> QED BY <1>1, <1>2, <1>3, <1>4, <1>5 DEF Steps

-----------------------------------------------------------------------------
(* What a step does to the phases, the plan and the configuration.         *)

Moved(s, from, to) ==
  /\ phase[s] = from /\ phase'[s] = to
  /\ \A t \in Steps \ {s} : phase'[t] = phase[t]

\* Each action moves the phase of its step as the engine says, and no other.
LEMMA Moves ==
  ASSUME IInv, NEW s \in Steps
  PROVE  /\ Starts(s) => Moved(s, "waiting", "pre") /\ UNCHANGED dataVars
         /\ Does(s) \/ Writes(s) =>
              phase[s] \in Active /\ Moved(s, phase[s], After[phase[s]])
         /\ Misses(s) \/ RunsOutOfPorts(s) \/ Breaks(s) \/ Panics(s) =>
              phase[s] \in Active /\ Moved(s, phase[s], "failed")
         /\ Deploys(s) \/ Loads(s) \/ Truncates(s) => UNCHANGED phase
         /\ Starts(s) \/ Runs(s) => s \in plan[epoch] /\ UNCHANGED <<plan, cfg>>
<1>1. ASSUME NEW from, NEW to, Enter(s, from, to)
      PROVE  Moved(s, from, to) /\ s \in plan[epoch]
  BY <1>1, EnterMoves DEF Moved, Enter, IsDue
<1>2. Starts(s) => Enter(s, "waiting", "pre") /\ UNCHANGED dataVars
  BY DEF Starts, Begin
<1>3. Pass(s) => phase[s] \in Active /\ Enter(s, phase[s], After[phase[s]])
  BY DEF Pass
<1>4. Does(s) \/ Writes(s) => Pass(s)
  BY DEF Does, Writes
<1>5. Fail(s) \/ Panic(s) => phase[s] \in Active /\ Enter(s, phase[s], "failed")
  BY DEF Fail, Panic
<1>6. Misses(s) \/ RunsOutOfPorts(s) \/ Breaks(s) \/ Panics(s) => Fail(s) \/ Panic(s)
  BY DEF Misses, RunsOutOfPorts, Breaks, Panics
<1>7. Deploys(s) \/ Loads(s) \/ Truncates(s) => UNCHANGED phase /\ s \in plan[epoch]
  BY DEF Deploys, Loads, Truncates, IsDue, engineVars
<1>8. Starts(s) \/ Runs(s) => UNCHANGED <<plan, cfg>>
  BY DEF Starts, Begin, Runs, Does, Deploys, Loads, Truncates, Writes, Misses,
     RunsOutOfPorts, Breaks, Panics, Pass, Fail, Panic, dataVars, engineVars
<1> QED BY <1>1, <1>2, <1>3, <1>4, <1>5, <1>6, <1>7, <1>8 DEF Runs

\* The end of an epoch moves no step.
LEMMA EndsMovesNothing ==
  ASSUME Ends \/ UNCHANGED vars
  PROVE  UNCHANGED <<plan, phase, dataVars>>
BY DEF Ends, Join, vars, engineVars

\* A phase is only ever left for a later one.
LEMMA Forward ==
  ASSUME IInv, [Next]_vars, NEW t \in Steps
  PROVE  /\ phase[t] # "waiting" => phase'[t] # "waiting"
         /\ phase[t] \notin {"waiting", "pre"} => phase'[t] \notin {"waiting", "pre"}
         /\ phase[t] \in {"done", "failed"} => phase'[t] = phase[t]
         /\ UNCHANGED <<plan, cfg>>
<1>1. CASE Ends \/ UNCHANGED vars
  BY <1>1, EndsMovesNothing DEF dataVars
<1>2. ASSUME NEW s \in Steps, Starts(s) \/ Runs(s)
      PROVE  /\ phase[t] # "waiting" => phase'[t] # "waiting"
             /\ phase[t] \notin {"waiting", "pre"} => phase'[t] \notin {"waiting", "pre"}
             /\ phase[t] \in {"done", "failed"} => phase'[t] = phase[t]
             /\ UNCHANGED <<plan, cfg>>
  <2>1. CASE t = s
    BY <1>2, <2>1, Moves, AfterFacts DEF Moved, Active, Runs
  <2>2. CASE t # s
    BY <1>2, <2>2, Moves DEF Moved, Runs
  <2> QED BY <2>1, <2>2
<1> QED BY <1>1, <1>2 DEF Next

-----------------------------------------------------------------------------
(* Each part of the invariant is kept.                                     *)

\* The types are kept.
LEMMA KeepTypes ==
  ASSUME Types, IInv, [Next]_vars
  PROVE  Types'
<1>1. CASE Ends \/ UNCHANGED vars
  BY <1>1, EndsMovesNothing DEF dataVars, Types
<1>2. ASSUME NEW s \in Steps, Starts(s) \/ Runs(s)
      PROVE  Types'
  <2> USE DEF Types
  <2>1. CASE Starts(s)
    BY <2>1 DEF Starts, dataVars
  <2>2. CASE Does(s)
    BY <2>2 DEF Does
  <2>3. CASE Deploys(s)
    BY <2>3 DEF Deploys
  <2>4. CASE Loads(s)
    <3>1. Loaded \in SUBSET Address
      BY DEF Loaded
    <3> QED BY <2>4, <3>1 DEF Loads
  <2>5. CASE Truncates(s)
    <3>1. File("empty", {}) \in [ kind : {"absent", "empty", "json", "torn"},
                                  entries : SUBSET Address ]
      BY DEF File
    <3> QED BY <2>5, <3>1 DEF Truncates
  <2>6. CASE Writes(s)
    <3>1. s \in Deployers
      BY <2>6 DEF Writes, InFile
    <3>2. held[s] \cup Entries(s, cfg) \in SUBSET Address
      BY <3>1, EntriesFacts
    <3>3. Overwritten(held[s] \cup Entries(s, cfg)) \in
            [ kind : {"absent", "empty", "json", "torn"},
              entries : SUBSET Address ]
      BY <3>2 DEF Overwritten, File
    <3> QED BY <2>6, <3>3 DEF Writes
  <2>7. CASE Misses(s)
    BY <2>7 DEF Misses
  <2>8. CASE RunsOutOfPorts(s)
    BY <2>8 DEF RunsOutOfPorts
  <2>9. CASE Breaks(s)
    BY <2>9 DEF Breaks
  <2>10. CASE Panics(s)
    BY <2>10 DEF Panics
  <2> QED BY <1>2, <2>1, <2>2, <2>3, <2>4, <2>5, <2>6, <2>7, <2>8, <2>9, <2>10 DEF Runs
<1> QED BY <1>1, <1>2 DEF Next

\* A step gets its reason as it fails, and stays failed.
LEMMA KeepReasons ==
  ASSUME Types, IInv, Reasons, [Next]_vars
  PROVE  Reasons'
<1>1. CASE Ends \/ UNCHANGED vars
  BY <1>1, EndsMovesNothing DEF dataVars, Reasons
<1>2. ASSUME NEW s \in Steps, Starts(s) \/ Runs(s)
      PROVE  Reasons'
  <2>1. \A t \in Steps \ {s} : reason'[t] = reason[t]
    BY <1>2 DEF Types, Starts, Runs, Does, Deploys, Loads, Truncates, Writes, Misses,
       RunsOutOfPorts, Breaks, Panics, dataVars
  <2>2. reason'[s] # reason[s] => phase'[s] = "failed"
    BY <1>2, Moves DEF Starts, Runs, Does, Deploys, Loads, Truncates, Writes, Moved, dataVars
  <2>3. \A t \in Steps : phase[t] = "failed" => phase'[t] = "failed"
    BY Forward
  <2> QED BY <2>1, <2>2, <2>3 DEF Reasons
<1> QED BY <1>1, <1>2 DEF Next

\* The stage of a deployer follows its phase.
LEMMA KeepStaged ==
  ASSUME Types, IInv, Staged, [Next]_vars
  PROVE  Staged'
<1>1. CASE Ends \/ UNCHANGED vars
  BY <1>1, EndsMovesNothing DEF dataVars, Staged
<1>2. ASSUME NEW s \in Steps, Starts(s) \/ Runs(s)
      PROVE  Staged'
  <2> SUFFICES ASSUME NEW d \in Deployers
               PROVE  /\ phase'[d] \in {"waiting", "pre"} => stage'[d] = "deploy"
                      /\ phase'[d] \in {"post", "done"} => stage'[d] = "written"
                      /\ stage'[d] = "written" => phase'[d] \in {"post", "done", "failed"}
    BY DEF Staged
  <2>0. d \in Steps
    BY DEF Deployers, Steps
  <2>1. CASE d # s
    <3>1. phase'[d] = phase[d]
      BY <1>2, <2>0, <2>1, Moves DEF Moved, Runs
    <3>2. stage'[d] = stage[d]
      BY <1>2, <2>1 DEF Types, Starts, Runs, Does, Deploys, Loads, Truncates, Writes, Misses,
         RunsOutOfPorts, Breaks, Panics, dataVars
    <3> QED BY <3>1, <3>2 DEF Staged
  <2>2. CASE d = s
    <3>1. CASE Starts(s)
      BY <2>2, <3>1, Moves DEF Moved, dataVars, Staged
    <3>2. CASE Does(s)
      <4>1. /\ phase[s] \in {"pre", "post"} /\ phase'[s] = After[phase[s]]
            /\ stage'[s] = stage[s]
        BY <2>2, <3>2, Moves DEF Moved, Does, InFile, Active
      <4> QED BY <2>2, <4>1, AfterFacts DEF Staged
    <3>3. CASE Deploys(s) \/ Loads(s) \/ Truncates(s)
      <4>1. phase'[s] = "execute" /\ stage'[s] \in {"load", "truncate", "write"}
        BY <2>2, <3>3, Moves DEF Deploys, Loads, Truncates, InFile, Types
      <4> QED BY <2>2, <4>1
    <3>4. CASE Writes(s)
      <4>1. phase'[s] = "post"
        BY <3>4, Moves, AfterFacts DEF Moved, Writes, InFile
      <4>2. stage'[s] = "written"
        BY <2>2, <3>4 DEF Writes, Types
      <4> QED BY <2>2, <4>1, <4>2
    <3>5. CASE Misses(s) \/ RunsOutOfPorts(s) \/ Breaks(s) \/ Panics(s)
      <4>1. phase'[s] = "failed"
        BY <3>5, Moves DEF Moved
      <4> QED BY <2>2, <4>1
    <3> QED BY <1>2, <3>1, <3>2, <3>3, <3>4, <3>5 DEF Runs
  <2> QED BY <2>1, <2>2
<1> QED BY <1>1, <1>2 DEF Next

\* A phase that finds its inputs had what it read, and has it for good.
LEMMA InputsHad ==
  ASSUME Types, OnlyShown, NEW s \in Steps, phase[s] \in Active, HasInputs(s)
  PROVE  Had(s, phase[s])
BY DEF HasInputs, Had, Now, OnlyShown

\* What a phase makes is in the context from its end on, and what it had is too.
LEMMA KeepKept ==
  ASSUME Types, IInv, OnlyShown, Staged, Kept, [Next]_vars
  PROVE  Kept'
<1> DEFINE Settled(t, p) == Makes(t, p) /\ Had(t, p)
<1>1. CASE Ends \/ UNCHANGED vars
  BY <1>1, EndsMovesNothing DEF dataVars, Kept, Makes, Had
<1>2. ASSUME NEW s \in Steps, Starts(s) \/ Runs(s)
      PROVE  Kept'
  <2>1. facts \subseteq facts' /\ cfg' = cfg
    BY <1>2 DEF Starts, Runs, Does, Deploys, Loads, Truncates, Writes, Misses,
       RunsOutOfPorts, Breaks, Panics, dataVars
  <2>2. \A t \in Steps : \A p \in Active : Settled(t, p) => Settled(t, p)'
    BY <2>1 DEF Makes, Had
  <2>3. ASSUME Does(s) \/ Deploys(s)
        PROVE  /\ StepWork(s, cfg)[phase[s]].makes \subseteq facts'
               /\ phase[s] \in Active /\ Had(s, phase[s])
    <3>1. phase[s] \in Active /\ HasInputs(s)
      BY <2>3 DEF Does, Deploys, Pass, InFile, Active
    <3> QED BY <2>3, <3>1, InputsHad DEF Does, Deploys, Now
  <2>4. Writes(s) => phase[s] = "execute" /\ Settled(s, "execute")
    BY DEF Writes, InFile, Kept
  <2>5. ASSUME NEW t \in Steps
        PROVE  /\ phase'[t] \in {"execute", "post", "done"} => Settled(t, "pre")'
               /\ phase'[t] \in {"post", "done"} => Settled(t, "execute")'
               /\ phase'[t] = "done" => Settled(t, "post")'
    <3>1. /\ phase[t] \in {"execute", "post", "done"} => Settled(t, "pre")'
          /\ phase[t] \in {"post", "done"} => Settled(t, "execute")'
          /\ phase[t] = "done" => Settled(t, "post")'
      BY <2>2 DEF Kept, Active
    <3>2. CASE phase'[t] = phase[t] \/ phase'[t] \in {"pre", "failed"}
      BY <3>1, <3>2
    <3>3. CASE phase'[t] # phase[t] /\ phase'[t] \notin {"pre", "failed"}
      <4>1. t = s /\ (Does(s) \/ Writes(s))
        BY <1>2, <3>3, Moves DEF Moved, Runs
      <4>2. phase[s] \in Active /\ phase'[s] = After[phase[s]]
        BY <4>1, Moves DEF Moved
      <4>3. ASSUME NEW p \in Active, p = phase[s]
            PROVE  Settled(s, p)'
        <5>1. CASE Does(s)
          BY <2>1, <2>3, <4>3, <5>1 DEF Makes, Had
        <5>2. CASE Writes(s)
          BY <2>2, <2>4, <4>3, <5>2
        <5> QED BY <4>1, <5>1, <5>2
      <4>4. CASE phase[s] = "pre"
        BY <4>1, <4>2, <4>4, <4>3, AfterFacts
      <4>5. CASE phase[s] = "execute"
        BY <3>1, <4>1, <4>2, <4>5, <4>3, AfterFacts
      <4>6. CASE phase[s] = "post"
        BY <3>1, <4>1, <4>2, <4>6, <4>3, AfterFacts
      <4> QED BY <4>2, <4>4, <4>5, <4>6 DEF Active
    <3> QED BY <3>2, <3>3
  <2>6. ASSUME NEW d \in Deployers, stage'[d] # "deploy"
        PROVE  Settled(d, "execute")'
    <3>1. d \in Steps
      BY DEF Deployers, Steps
    <3>2. CASE stage[d] # "deploy"
      BY <2>2, <3>1, <3>2 DEF Kept, Active
    <3>3. CASE stage[d] = "deploy"
      <4>1. d = s /\ phase[s] = "execute" /\ Deploys(s)
        BY <1>2, <2>6, <3>3 DEF Types, Starts, Runs, Does, Deploys, Loads, Truncates, Writes,
           Misses, RunsOutOfPorts, Breaks, Panics, dataVars, InFile
      <4> QED BY <2>1, <2>3, <4>1 DEF Makes, Had
    <3> QED BY <3>2, <3>3
  <2>7. World("genesis") \in facts' /\ Key("active_count") \in facts'
    BY <2>1 DEF Kept
  <2> QED BY <2>5, <2>6, <2>7 DEF Kept
<1> QED BY <1>1, <1>2 DEF Next

\* Only a deployer in its execute phase touches the file, what was read of it and the
\* stages; it is the only one of its epoch in the cases the invariant speaks of.
LEMMA FileAtRest ==
  ASSUME Types, NEW s \in Steps, Starts(s) \/ Runs(s)
  PROVE  \/ UNCHANGED <<file, held, stage>>
         \/ /\ s \in Deployers /\ phase[s] = "execute" /\ s \in plan[epoch]
            /\ \/ Deploys(s) \/ Loads(s) \/ Truncates(s) \/ Writes(s)
            /\ \A d \in Deployers \ {s} : stage'[d] = stage[d] /\ held'[d] = held[d]
BY DEF Types, Starts, Runs, Does, Deploys, Loads, Truncates, Writes, Misses,
   RunsOutOfPorts, Breaks, Panics, dataVars, InFile, IsDue, Pass, Enter

\* The three moves of a deployer on the file, and the one before them.
LEMMA FileStages ==
  ASSUME Types, NEW s \in Deployers
  PROVE  /\ Deploys(s) => stage[s] = "deploy" /\ stage'[s] = "load" /\ UNCHANGED <<file, held>>
         /\ Loads(s) => /\ stage[s] = "load" /\ stage'[s] = "truncate" /\ UNCHANGED file
                        /\ held'[s] = IF file.kind = "json" THEN file.entries ELSE {}
         /\ Truncates(s) => /\ stage[s] = "truncate" /\ stage'[s] = "write"
                            /\ UNCHANGED held /\ file'.kind = "empty"
         /\ Writes(s) => /\ stage[s] = "write" /\ stage'[s] = "written" /\ UNCHANGED held
                         /\ file.kind = "empty" =>
                              /\ file'.kind = "json"
                              /\ file'.entries = held[s] \cup Entries(s, cfg)
BY DEF Types, Deploys, Loads, Truncates, Writes, Loaded, File, Overwritten

\* A deployer puts into the file what it found there and what it has been shown.
LEMMA KeepOnlyShown ==
  ASSUME Types, IInv, OnlyShown, [Next]_vars
  PROVE  OnlyShown'
<1>1. cfg' = cfg
  BY Forward DEF Steps
<1>2. CASE UNCHANGED <<file, held>>
  BY <1>1, <1>2 DEF OnlyShown
<1>3. ASSUME NEW s \in Deployers, Loads(s) \/ Truncates(s) \/ Writes(s)
      PROVE  OnlyShown'
  <2>1. CASE Loads(s)
    <3>1. file' = file /\ held' = [held EXCEPT ![s] = Loaded]
      BY <2>1 DEF Loads
    <3>2. Loaded \cap Contracts \subseteq cfg.shown
      BY DEF Loaded, OnlyShown
    <3> QED BY <1>1, <3>1, <3>2 DEF OnlyShown, Types
  <2>2. CASE Truncates(s)
    <3>1. held' = held /\ file'.entries = {}
      BY <2>2 DEF Truncates, File
    <3> QED BY <1>1, <3>1 DEF OnlyShown
  <2>3. CASE Writes(s)
    <3>1. held' = held /\ file' = Overwritten(held[s] \cup Entries(s, cfg))
      BY <2>3 DEF Writes
    <3>2. (held[s] \cup Entries(s, cfg)) \cap Contracts \subseteq cfg.shown
      BY EntriesFacts DEF OnlyShown
    <3>3. file'.entries \cap Contracts \subseteq cfg.shown
      BY <3>1, <3>2 DEF Overwritten, File, OnlyShown
    <3> QED BY <1>1, <3>1, <3>3 DEF OnlyShown
  <2> QED BY <1>3, <2>1, <2>2, <2>3
<1>4. ASSUME NEW s \in Steps, Starts(s) \/ Runs(s)
      PROVE  UNCHANGED <<file, held>> \/ (s \in Deployers /\ (Loads(s) \/ Truncates(s) \/ Writes(s)))
  BY <1>4 DEF Starts, Runs, Does, Deploys, Loads, Truncates, Writes, Misses,
     RunsOutOfPorts, Breaks, Panics, dataVars, InFile
<1>5. Ends \/ UNCHANGED vars => UNCHANGED <<file, held>>
  BY EndsMovesNothing DEF dataVars
<1> QED BY <1>2, <1>3, <1>4, <1>5 DEF Next

\* No deployer takes an entry the invariant speaks of out of the file.
LEMMA KeepFileHolds ==
  ASSUME Types, IInv, Staged, FileHolds, [Next]_vars
  PROVE  FileHolds'
<1>0. plan' = plan /\ cfg' = cfg
  BY Forward DEF Steps
<1>1. CASE UNCHANGED <<file, held, stage>>
  BY <1>0, <1>1 DEF FileHolds, InTheFile, Alone
<1>2. ASSUME NEW s \in Deployers, phase[s] = "execute", s \in plan[epoch],
             Deploys(s) \/ Loads(s) \/ Truncates(s) \/ Writes(s),
             \A d \in Deployers \ {s} : stage'[d] = stage[d] /\ held'[d] = held[d]
      PROVE  FileHolds'
  <2>1. ASSUME NEW d \in Alone, stage'[d] = "write"
        PROVE  file'.kind = "empty"
    <3>1. d \in Deployers
      BY DEF Alone, Deployers
    <3>2. CASE d = s
      BY <1>2, <2>1, <3>2, FileStages
    <3>3. CASE d # s
      BY <1>2, <2>1, <3>1, <3>3, Sole
    <3> QED BY <3>2, <3>3
  <2>2. ASSUME stage'["FOCDeploy"] = "written"
        PROVE  InTheFile(cfg.shown)'
    <3>0. "FOCDeploy" \in Deployers /\ "FOCDeploy" \in Alone
      BY DEF Alone, Deployers
    <3>1. CASE s = "FOCDeploy"
      <4>1. Writes(s) /\ file.kind = "empty"
        BY <1>2, <2>2, <3>0, <3>1, FileStages DEF FileHolds
      <4> QED BY <1>0, <3>1, <4>1, FileStages, EntriesFacts DEF InTheFile
    <3>2. CASE s # "FOCDeploy"
      <4>1. phase["FOCDeploy"] \in {"waiting", "done"} /\ stage["FOCDeploy"] = "written"
        BY <1>2, <2>2, <3>0, <3>2, Sole
      <4>2. phase["FOCDeploy"] = "done"
        BY <3>0, <4>1 DEF Staged
      <4> QED BY <1>2, <3>2, <4>2, DeployersInTurn DEF Deployers
    <3> QED BY <3>1, <3>2
  <2>3. ASSUME plan = SequentialPlan, stage'["USDFCDeploy"] = "written"
        PROVE  /\ \A d \in Deployers :
                    stage'[d] \in {"truncate", "write"} => "usdfc" \in held'[d]
               /\ (\A d \in Deployers : stage'[d] # "write") => InTheFile({"usdfc"})'
    <3>0. Alone = Deployers /\ "USDFCDeploy" \in Deployers
      BY <2>3 DEF Alone, Deployers
    <3>1. \A d \in Deployers \ {s} :
            phase[d] \in {"waiting", "done"} /\ stage[d] \in {"deploy", "written"}
      BY <1>2, <3>0, Sole
    <3>2. CASE s = "USDFCDeploy"
      <4>1. Writes(s) /\ file.kind = "empty"
        BY <1>2, <2>3, <3>0, <3>2, FileStages DEF FileHolds
      <4>2. InTheFile({"usdfc"})'
        BY <3>2, <4>1, FileStages, EntriesFacts DEF InTheFile
      <4>3. stage'[s] = "written"
        BY <4>1, FileStages
      <4> QED BY <1>2, <3>1, <4>2, <4>3
    <3>3. CASE s # "USDFCDeploy"
      <4>1. stage["USDFCDeploy"] = "written"
        BY <1>2, <2>3, <3>0, <3>3
      <4>2. \A d \in Deployers : stage[d] \in {"truncate", "write"} => "usdfc" \in held[d]
        BY <2>3, <4>1 DEF FileHolds
      <4>3. stage[s] # "write" => InTheFile({"usdfc"})
        BY <2>3, <3>1, <4>1 DEF FileHolds
      <4>4. CASE Deploys(s)
        BY <1>2, <3>1, <4>3, <4>4, FileStages DEF InTheFile
      <4>5. CASE Loads(s)
        BY <1>2, <3>1, <4>3, <4>5, FileStages DEF InTheFile
      <4>6. CASE Truncates(s)
        BY <1>2, <3>1, <4>2, <4>6, FileStages
      <4>7. CASE Writes(s)
        <5>1. file.kind = "empty"
          BY <3>0, <4>7, FileStages DEF FileHolds
        <5>2. "usdfc" \in held[s] /\ stage'[s] = "written"
          BY <4>2, <4>7, FileStages
        <5>3. InTheFile({"usdfc"})'
          BY <4>7, <5>1, <5>2, FileStages DEF InTheFile
        <5> QED BY <1>2, <3>1, <5>2, <5>3
      <4> QED BY <1>2, <4>4, <4>5, <4>6, <4>7
    <3> QED BY <3>2, <3>3
  <2> QED BY <1>0, <2>1, <2>2, <2>3 DEF FileHolds, Alone
<1>3. Ends \/ UNCHANGED vars => UNCHANGED <<file, held, stage>>
  BY EndsMovesNothing DEF dataVars
<1> QED BY <1>1, <1>2, <1>3, FileAtRest DEF Next

-----------------------------------------------------------------------------
(* Ports.                                                                  *)

\* What is allotted is never more than enough.
LEMMA AllottedNow ==
  ASSUME Types
  PROVE  Allotted \in Nat /\ Allotted <= Enough
<1>1. cfg.active \in Nat
  BY ConfigFacts DEF Types
<1> QED BY <1>1 DEF Allotted, Enough, Taken

\* It only grows, by what a step allocates when that step is through its pre_execute.
LEMMA AllottedFacts ==
  ASSUME Types, IInv, [Next]_vars
  PROVE  /\ Allotted \in Nat /\ Allotted' \in Nat /\ Enough \in Nat /\ Enough' = Enough
         /\ Allotted <= Allotted' /\ Allotted' <= Enough
         /\ \A s \in Steps : phase[s] = "pre" /\ phase'[s] # "pre" =>
              Allotted + PortsOf(s, cfg) <= Allotted'
<1>1. cfg.active \in Nat /\ cfg' = cfg
  BY ConfigFacts, Forward DEF Types, Steps
<1> DEFINE n == cfg.active
           a1 == Taken("Lotus", 2)
           a2 == Taken("LotusMiner", 1)
           a3 == Taken("Database", 2 * n)
           a4 == Taken("Curio", 4 * n)
           b1 == Taken("Lotus", 2)'
           b2 == Taken("LotusMiner", 1)'
           b3 == Taken("Database", 2 * cfg.active)'
           b4 == Taken("Curio", 4 * cfg.active)'
<1>2. n \in Nat
  BY <1>1
<1>3. a1 \in {0, 2} /\ a2 \in {0, 1} /\ a3 \in {0, 2 * n} /\ a4 \in {0, 4 * n}
  BY DEF Taken
<1>4. b1 \in {a1, 2} /\ b2 \in {a2, 1} /\ b3 \in {a3, 2 * n} /\ b4 \in {a4, 4 * n}
  BY <1>1, Forward DEF Taken, Steps
<1>5. Allotted = 1 + a1 + a2 + a3 + a4 /\ Allotted' = 1 + b1 + b2 + b3 + b4
  BY DEF Allotted
<1>6. Enough = 4 + 6 * n /\ Enough' = Enough
  BY <1>1 DEF Enough
<1>7. /\ phase["Lotus"] = "pre" /\ phase'["Lotus"] # "pre" => a1 = 0 /\ b1 = 2
      /\ phase["LotusMiner"] = "pre" /\ phase'["LotusMiner"] # "pre" => a2 = 0 /\ b2 = 1
      /\ phase["Database"] = "pre" /\ phase'["Database"] # "pre" => a3 = 0 /\ b3 = 2 * n
      /\ phase["Curio"] = "pre" /\ phase'["Curio"] # "pre" => a4 = 0 /\ b4 = 4 * n
  BY <1>1, Forward DEF Taken, Steps
<1> HIDE DEF n, a1, a2, a3, a4, b1, b2, b3, b4
<1>8. /\ a1 \in Nat /\ a2 \in Nat /\ a3 \in Nat /\ a4 \in Nat
      /\ b1 \in Nat /\ b2 \in Nat /\ b3 \in Nat /\ b4 \in Nat
      /\ a1 <= b1 /\ a2 <= b2 /\ a3 <= b3 /\ a4 <= b4
      /\ b1 <= 2 /\ b2 <= 1 /\ b3 <= 2 * n /\ b4 <= 4 * n
  BY <1>2, <1>3, <1>4
<1>9. /\ Allotted \in Nat /\ Allotted' \in Nat /\ Enough \in Nat
      /\ Allotted <= Allotted' /\ Allotted' <= Enough
  BY <1>2, <1>5, <1>6, <1>8
<1>10. ASSUME NEW s \in Steps, phase[s] = "pre", phase'[s] # "pre"
       PROVE  Allotted + PortsOf(s, cfg) <= Allotted'
  <2>1. CASE s = "Lotus"
    BY <1>5, <1>7, <1>8, <1>10, <2>1 DEF PortsOf
  <2>2. CASE s = "LotusMiner"
    BY <1>5, <1>7, <1>8, <1>10, <2>2 DEF PortsOf
  <2>3. CASE s = "Database"
    <3>1. PortsOf(s, cfg) = 2 * n
      BY <2>3 DEF PortsOf, n
    <3> QED BY <1>2, <1>5, <1>7, <1>8, <1>10, <2>3, <3>1
  <2>4. CASE s = "Curio"
    <3>1. PortsOf(s, cfg) = 4 * n
      BY <2>4 DEF PortsOf, n
    <3> QED BY <1>2, <1>5, <1>7, <1>8, <1>10, <2>4, <3>1
  <2>5. CASE s \notin {"Lotus", "LotusMiner", "Database", "Curio"}
    <3>1. PortsOf(s, cfg) = 0
      BY <2>5 DEF PortsOf
    <3> QED BY <1>9, <3>1
  <2> QED BY <2>1, <2>2, <2>3, <2>4, <2>5
<1> QED BY <1>6, <1>9, <1>10

\* What a phase allocates fits into what is allotted once it is over.
LEMMA PortsFit ==
  ASSUME Types, IInv, [Next]_vars, NEW s \in Steps, phase[s] \in Active, phase'[s] # phase[s]
  PROVE  /\ Now(s).ports \in Nat
         /\ Allotted + Now(s).ports <= Allotted'
<1>1. cfg.active \in Nat
  BY ConfigFacts DEF Types
<1>2. CASE phase[s] = "pre"
  <2>1. Now(s).ports = PortsOf(s, cfg)
    BY <1>2, PortsFacts DEF Now
  <2>2. PortsOf(s, cfg) \in Nat
    BY <1>1 DEF PortsOf
  <2> QED BY <1>2, <2>1, <2>2, AllottedFacts
<1>3. CASE phase[s] # "pre"
  <2>1. Now(s).ports = 0
    BY <1>3, PortsFacts DEF Now, Active
  <2> QED BY <2>1, AllottedFacts
<1> QED BY <1>2, <1>3

\* Allocations stay within what is allotted, or the range is too short.
LEMMA KeepPortsTaken ==
  ASSUME Types, IInv, PortsTaken, [Next]_vars
  PROVE  PortsTaken'
<1>1. /\ used \in Nat /\ 1 <= used /\ used <= cfg.ports
      /\ cfg.ports < Enough \/ used <= Allotted
      /\ cfg.ports \in Nat /\ cfg' = cfg
  BY ConfigFacts, Forward DEF PortsTaken, Allotted, Types, Steps
<1>2. SUFFICES /\ used' \in Nat /\ 1 <= used' /\ used' <= cfg.ports
               /\ cfg.ports < Enough \/ used' <= Allotted'
  BY <1>1, AllottedFacts DEF PortsTaken, Allotted
<1>3. CASE used' = used
  BY <1>1, <1>3, AllottedFacts
<1>4. ASSUME NEW s \in Steps, Does(s)
      PROVE  /\ used' \in Nat /\ 1 <= used' /\ used' <= cfg.ports
             /\ cfg.ports < Enough \/ used' <= Allotted'
  <2>1. used' = used + Now(s).ports /\ used + Now(s).ports <= cfg.ports
    BY <1>4 DEF Does, HasPorts
  <2>2. phase[s] \in Active /\ phase'[s] # phase[s]
    BY <1>4, Moves, AfterFacts DEF Moved, Active
  <2>3. Now(s).ports \in Nat /\ Allotted + Now(s).ports <= Allotted'
    BY <2>2, PortsFit
  <2> QED BY <1>1, <2>1, <2>3, AllottedFacts
<1>5. ASSUME NEW s \in Steps, RunsOutOfPorts(s)
      PROVE  used' = cfg.ports /\ cfg.ports < Enough
  <2>1. used' = cfg.ports /\ ~(used + Now(s).ports <= cfg.ports)
    BY <1>5 DEF RunsOutOfPorts, HasPorts
  <2>2. phase[s] \in Active /\ phase'[s] # phase[s]
    BY <1>5, Moves DEF Moved, Active
  <2>3. Now(s).ports \in Nat /\ Allotted + Now(s).ports <= Allotted'
    BY <2>2, PortsFit
  <2> QED BY <1>1, <2>1, <2>3, AllottedFacts
<1>6. ASSUME NEW s \in Steps, Starts(s) \/ Runs(s)
      PROVE  used' = used \/ Does(s) \/ RunsOutOfPorts(s)
  BY <1>6 DEF Starts, Runs, Deploys, Loads, Truncates, Writes, Misses, Breaks, Panics,
      dataVars
<1>7. Ends \/ UNCHANGED vars => used' = used
  BY EndsMovesNothing DEF dataVars
<1>8. CASE Ends \/ UNCHANGED vars
  BY <1>3, <1>7, <1>8
<1>9. ASSUME NEW s \in Steps, Starts(s) \/ Runs(s)
      PROVE  /\ used' \in Nat /\ 1 <= used' /\ used' <= cfg.ports
             /\ cfg.ports < Enough \/ used' <= Allotted'
  <2>1. CASE RunsOutOfPorts(s)
    <3>1. used' = cfg.ports /\ cfg.ports < Enough /\ 1 <= cfg.ports
      BY <1>1, <1>5, <2>1
    <3> QED BY <1>1, <3>1
  <2> QED BY <1>3, <1>4, <1>6, <1>9, <2>1
<1> QED BY <1>8, <1>9 DEF Next

-----------------------------------------------------------------------------
(* No step fails for a reason of the program's own, but for the race.      *)

\* Once the deployers are through, what was shown is in the file, and in the sequential
\* order "usdfc" is too.
LEMMA FileInTheEnd ==
  ASSUME IInv, Staged, FileHolds, \A d \in Deployers : phase[d] = "done"
  PROVE  /\ InTheFile(cfg.shown)
         /\ plan = SequentialPlan => InTheFile({"usdfc"})
         /\ [Next]_vars /\ Types => UNCHANGED file
<1>1. \A d \in Deployers : stage[d] = "written" /\ phase[d] # "execute"
  BY DEF Staged
<1>2. "FOCDeploy" \in Deployers /\ "USDFCDeploy" \in Deployers
  BY DEF Deployers
<1>3. InTheFile(cfg.shown) /\ (plan = SequentialPlan => InTheFile({"usdfc"}))
  BY <1>1, <1>2 DEF FileHolds
<1>4. [Next]_vars /\ Types => UNCHANGED file
  <2>1. Ends \/ UNCHANGED vars => UNCHANGED file
    BY EndsMovesNothing DEF dataVars
  <2> QED BY <1>1, <2>1, FileAtRest DEF Next
<1> QED BY <1>3, <1>4

\* What a step can miss.
Unshown(s) == s \in DOMAIN Asked /\ ~(Asked[s] \subseteq cfg.shown)
Raced(s) == plan = ParallelPlan /\ s = "PdpSpRegistration" /\ "usdfc" \notin file.entries

\* The steps that ask for the address of a contract.
LEMMA AskedFacts == DOMAIN Asked = {"PdpSpRegistration", "Endorsement", "UserSetup"}
BY DEF Asked

\* A step that misses something was not shown a contract, or USDFC was raced for.
LEMMA MissesOnlyThese ==
  ASSUME PInv, NEW s \in Steps, Misses(s)
  PROVE  Raced(s) \/ Unshown(s)
<1> USE DEF PInv
<1> SUFFICES ASSUME ~Unshown(s) PROVE Raced(s)
  OBVIOUS
<1>1. phase[s] \in Active /\ ~HasInputs(s)
  BY DEF Misses, Fail
<1>2. Now(s).loads /\ ~(file.kind = "json" /\ Now(s).entries \subseteq file.entries)
  <2>1. s = "UserSetup" => Asked[s] \subseteq cfg.shown
    BY AskedFacts DEF Unshown
  <2> QED BY <1>1, <2>1, InputsAreThere DEF HasInputs
<1>3. /\ s \in {"Curio", "PdpSpRegistration", "Endorsement"}
      /\ \/ Now(s).entries \subseteq cfg.shown
         \/ s = "PdpSpRegistration" /\ Now(s).entries \subseteq cfg.shown \cup {"usdfc"}
  BY <1>1, <1>2, LoadFacts, AskedFacts DEF Now, Unshown
<1>4. \A d \in Deployers : phase[d] = "done"
  BY <1>1, <1>3, DeployersInTurn DEF Active
<1>5. InTheFile(cfg.shown) /\ (plan = SequentialPlan => InTheFile({"usdfc"}))
  BY <1>4, FileInTheEnd
<1>6. s = "PdpSpRegistration" /\ "usdfc" \notin file.entries
  BY <1>2, <1>3, <1>5 DEF InTheFile
<1> QED BY <1>5, <1>6, PhaseTypes DEF InTheFile, Raced

\* A failure has its cause when it happens, and the cause stays.
LEMMA KeepFailureHasACause ==
  ASSUME PInv, [Next]_vars
  PROVE  FailureHasACause'
<1> USE DEF PInv
<1>1. plan' = plan /\ cfg' = cfg /\ cfg.ports \in Nat
  BY Forward, ConfigFacts DEF Steps, Types
<1> SUFFICES ASSUME NEW t \in Steps
             PROVE  /\ reason'[t] = "missing" => Raced(t)' \/ Unshown(t)
                    /\ reason'[t] = "ports" => cfg.ports < 4 + 6 * cfg.active
  BY <1>1 DEF FailureHasACause, Raced, Unshown
<1>2. CASE reason'[t] = reason[t]
  <2>1. ASSUME reason[t] = "missing", ~Unshown(t)
        PROVE  Raced(t) /\ file' = file
    <3>1. Raced(t) /\ t = "PdpSpRegistration" /\ phase[t] # "waiting"
      BY <2>1 DEF FailureHasACause, Reasons, Raced, Unshown
    <3>2. \A d \in Deployers : phase[d] = "done"
      BY <3>1, DeployersInTurn
    <3> QED BY <3>1, <3>2, FileInTheEnd
  <2> QED BY <1>1, <1>2, <2>1 DEF FailureHasACause, Raced
<1>3. CASE reason'[t] # reason[t]
  <2>1. PICK s \in Steps : Starts(s) \/ Runs(s)
    BY <1>3, EndsMovesNothing DEF Next, dataVars
  <2>2. \/ Misses(s) /\ t = s /\ reason'[t] = "missing" /\ file' = file
        \/ RunsOutOfPorts(s) /\ t = s /\ reason'[t] = "ports"
        \/ reason'[t] = "broken"
    BY <1>3, <2>1 DEF Types, Starts, Runs, Does, Deploys, Loads, Truncates, Writes, Misses,
       RunsOutOfPorts, Breaks, Panics, dataVars
  <2>3. CASE Misses(s) /\ t = s /\ reason'[t] = "missing" /\ file' = file
    BY <1>1, <2>3, MissesOnlyThese DEF Raced
  <2>4. CASE RunsOutOfPorts(s) /\ t = s /\ reason'[t] = "ports"
    <3>1. used' = cfg.ports /\ ~(used + Now(s).ports <= cfg.ports)
      BY <2>4 DEF RunsOutOfPorts, HasPorts
    <3>2. phase[s] \in Active /\ phase'[s] # phase[s]
      BY <2>4, Moves DEF Moved, Active
    <3>3. Now(s).ports \in Nat /\ Allotted + Now(s).ports <= Allotted'
      BY <3>2, PortsFit
    <3>4. used \in Nat /\ (cfg.ports < Enough \/ used <= Allotted)
      BY DEF PortsTaken, Allotted
    <3>5. cfg.ports < Enough
      BY <1>1, <3>1, <3>3, <3>4, AllottedFacts
    <3> QED BY <2>4, <3>5 DEF Enough
  <2> QED BY <2>2, <2>3, <2>4
<1> QED BY <1>2, <1>3

-----------------------------------------------------------------------------
(* The invariant and the theorems.                                         *)

\* A start begins with the invariant.
LEMMA InitPInv == Init => PInv
<1> SUFFICES ASSUME Init PROVE PInv
  OBVIOUS
<1> USE DEF Init
<1>1. IInv
  BY InitIInv
<1>2. \A s \in Steps : phase[s] = "waiting"
  BY PipelineAssumption DEF EngineInit
<1>3. Types
  BY DEF Types, File
<1>4. Staged /\ FileHolds /\ OnlyShown
  BY <1>2 DEF Staged, FileHolds, OnlyShown, File, Alone, Deployers, Steps
<1>5. Kept
  BY <1>2 DEF Kept, Keys
<1>6. PortsTaken
  <2>1. cfg.ports \in Nat /\ 0 < cfg.ports
    BY ConfigFacts
  <2>2. Allotted = 1
    BY <1>2 DEF Allotted, Taken, Steps
  <2> QED BY <2>1, <2>2 DEF PortsTaken, Allotted
<1>7. Reasons /\ FailureHasACause
  BY DEF Reasons, FailureHasACause
<1> QED BY <1>1, <1>3, <1>4, <1>5, <1>6, <1>7 DEF PInv

\* Every step keeps it.
LEMMA NextPInv == PInv /\ [Next]_vars => PInv'
<1> SUFFICES ASSUME PInv, [Next]_vars PROVE PInv'
  OBVIOUS
<1>1. IInv'
  BY EngineMoves, NextIInv DEF PInv
<1>2. Types' /\ Kept' /\ OnlyShown' /\ Staged' /\ FileHolds' /\ PortsTaken' /\ Reasons'
  BY KeepTypes, KeepKept, KeepOnlyShown, KeepStaged, KeepFileHolds, KeepPortsTaken, KeepReasons DEF PInv
<1>3. FailureHasACause'
  BY KeepFailureHasACause
<1> QED BY <1>1, <1>2, <1>3 DEF PInv

\* So it holds throughout.
LEMMA InvariantPInv == Spec => []PInv
BY InitPInv, NextPInv, PTL DEF Spec

\* What the engine's theorems say is true of the pipeline: a run of it is a run of the
\* engine with steps that do something.
THEOREM PipelineIsEngine == Spec => EngineSpec
<1>1. Init => EngineInit
  BY DEF Init
<1>2. [Next]_vars => [EngineNext]_engineVars
  BY EngineMoves
<1> QED BY <1>1, <1>2, PTL DEF Spec, EngineSpec

\* The types, and with them that the range of ports is used up to 4 + 6 * MaxSp at most.
THEOREM PipelineTypeCorrect == Spec => []TypeOK
<1>1. PInv => TypeOK
  <2> SUFFICES ASSUME PInv PROVE TypeOK
    OBVIOUS
  <2> USE DEF PInv
  <2>1. /\ cfg.active \in Nat /\ cfg.active <= MaxSp /\ cfg.ports \in Nat
        /\ Allotted \in Nat /\ Allotted <= Enough /\ Enough = 4 + 6 * cfg.active
    BY ConfigFacts, AllottedNow DEF Types, Enough
  <2>2. used \in 1 .. (4 + 6 * MaxSp)
    BY <2>1, PipelineAssumption DEF PortsTaken, Allotted
  <2> QED BY <2>2 DEF TypeOK, IInv, Types
<1> QED BY <1>1, InvariantPInv, PTL

\* No thread of an epoch outlives the start, whatever fails.
THEOREM PipelineQuiet == Spec => []QuietWhenOver
BY PipelineIsEngine, QuietAtTheEnd, PTL

\* The start reports success only when every step is done, an error only when one failed.
THEOREM PipelineHonest == Spec => []OutcomeIsHonest
BY PipelineIsEngine, OutcomeHonest, PTL

\* In both orders every step starts once, after the steps whose results it uses.
THEOREM PipelineImplementsOrder == Spec => ImplementsOrder
BY PipelineIsEngine, EngineImplementsOrder, PTL

\* With any configuration validate() accepts and any number of providers, no step of
\* either order misses what an earlier one should have left, but for the address of USDFC
\* after a race of epoch 5 and the contracts the script's output did not show, of which
\* only those a step asks for stop it; 4 + 6 * active ports are enough.
THEOREM FailureIsCaused == Spec => []FailureHasACause
<1>1. PInv => FailureHasACause
  BY DEF PInv
<1> QED BY <1>1, InvariantPInv, PTL

\* Every step the export of devnet-info.json takes a key from, or that asks for the address
\* of a contract, is in both plans.
LEMMA PlansHoldAll ==
  /\ "Lotus" \in SequentialPlan[1] /\ "Lotus" \in ParallelPlan[2]
  /\ "LotusMiner" \in SequentialPlan[2] /\ "LotusMiner" \in ParallelPlan[3]
  /\ "ETHAccFunding" \in SequentialPlan[3] /\ "ETHAccFunding" \in ParallelPlan[4]
  /\ "Database" \in SequentialPlan[8] /\ "Database" \in ParallelPlan[6]
  /\ "Curio" \in SequentialPlan[9] /\ "Curio" \in ParallelPlan[7]
  /\ "PdpSpRegistration" \in SequentialPlan[10] /\ "PdpSpRegistration" \in ParallelPlan[8]
  /\ "Endorsement" \in SequentialPlan[11] /\ "Endorsement" \in ParallelPlan[9]
  /\ "UserSetup" \in SequentialPlan[12] /\ "UserSetup" \in ParallelPlan[10]
BY DEF SequentialPlan, ParallelPlan

\* What the steps that are done asked for is in the context: two took it from the file,
\* which has only what was shown, one from the context itself.
LEMMA AskedIsThere ==
  ASSUME PInv, \A s \in DOMAIN Asked \cup {"FOCDeploy"} : phase[s] = "done"
  PROVE  Keys(cfg.shown \cup AskedFor) \subseteq facts
<1> USE DEF PInv
<1>1. \A s \in DOMAIN Asked : \A p \in Active : Had(s, p)
  BY AskedFacts DEF Kept, Active, Steps
<1>2. Keys(cfg.shown) \subseteq facts
  BY DoneLeaves, FOCDeployLeaves DEF Steps
<1>3. Asked["PdpSpRegistration"] \subseteq cfg.shown
  <2>1. {"service_provider_registry_proxy", "filecoin_warm_storage_service_proxy",
         "filecoin_warm_storage_service_state_view"} \subseteq Contracts
    BY DEF Contracts
  <2>2. Had("PdpSpRegistration", "pre") /\ Had("PdpSpRegistration", "post")
    BY <1>1, AskedFacts DEF Active
  <2>3. /\ "service_provider_registry_proxy" \in cfg.shown
        /\ "filecoin_warm_storage_service_proxy" \in cfg.shown
    BY <2>1, <2>2 DEF Had, StepWork, PdpSpRegistration, Loading, Work
  <2>4. "filecoin_warm_storage_service_state_view" \in cfg.shown
    BY <2>1, <2>2 DEF Had, StepWork, PdpSpRegistration, Loading, Work
  <2> QED BY <2>3, <2>4 DEF Asked
<1>4. Asked["Endorsement"] \subseteq cfg.shown
  <2>1. Had("Endorsement", "pre") /\ "endorsements" \in Contracts
    BY <1>1, AskedFacts DEF Active, Contracts
  <2> QED BY <2>1 DEF Had, StepWork, Endorsement, Loading, Work, Asked
<1>5. Keys(Asked["UserSetup"]) \subseteq facts
  <2>1. Had("UserSetup", "execute")
    BY <1>1, AskedFacts DEF Active
  <2> QED BY <2>1 DEF Had, StepWork, UserSetup, Work, Asked, Keys
<1> QED BY <1>2, <1>3, <1>4, <1>5, AskedFacts DEF AskedFor, Keys

\* When the start reports success, all the export can lack is the address of a contract
\* that the output of the script did not show and no step asks for.
THEOREM SuccessIsExported == Spec => []SuccessIsExportable
<1>1. PInv /\ OutcomeIsHonest => SuccessIsExportable
  <2> SUFFICES ASSUME PInv, OutcomeIsHonest, outcome = "ok"
               PROVE  ExportReads \ facts \subseteq Keys(Contracts \ (cfg.shown \cup AskedFor))
    BY DEF SuccessIsExportable
  <2>1. \A i \in 1..Len(plan) : \A s \in plan[i] : phase[s] = "done"
    BY DEF OutcomeIsHonest
  <2>2. \A s \in {"Lotus", "LotusMiner", "ETHAccFunding", "USDFCDeploy", "MultiCall3Deploy",
                  "FOCDeploy", "Database", "Curio", "PdpSpRegistration", "Endorsement",
                  "UserSetup"} : phase[s] = "done"
    <3>1. CASE plan = SequentialPlan
      BY <2>1, <3>1, Places, PlansHoldAll
    <3>2. CASE plan = ParallelPlan
      BY <2>1, <3>2, Places, PlansHoldAll
    <3> QED BY <3>1, <3>2, PhaseTypes DEF PInv
  <2>3. \A s \in {"Lotus", "LotusMiner", "ETHAccFunding", "USDFCDeploy", "MultiCall3Deploy",
                  "FOCDeploy", "Database", "Curio", "PdpSpRegistration"} :
          Leaves(s, cfg, facts)
    BY <2>2, DoneLeaves DEF PInv, Steps
  <2>4. Keys({ "user", "multicall3_address", "mockusdfc_contract_address",
               "lotus_api_port", "lotus_container_id",
               "lotus_container_name", "lotus_miner_api_port",
               "lotus_miner_container_id", "lotus_miner_container_name",
               "active_count" }) \subseteq facts
    BY <2>3, LotusLeaves, LotusMinerLeaves, ETHAccFundingLeaves, USDFCDeployLeaves,
       MultiCall3DeployLeaves DEF Keys, PInv, Kept
  <2>5. PerSp({ "pdp_sp_address", "pdp_port", "container_id", "container_name",
                "is_approved", "postgres_port", "scylla_port" }, cfg.active) \subseteq facts
    BY <2>3, ETHAccFundingLeaves, DatabaseLeaves, CurioLeaves, PdpSpRegistrationLeaves
       DEF PerSp
  <2>6. Keys(cfg.shown \cup AskedFor) \subseteq facts
    BY <2>2, AskedFacts, AskedIsThere
  <2>7. Keys(Contracts) \ facts \subseteq Keys(Contracts \ (cfg.shown \cup AskedFor))
    BY <2>6 DEF Keys
  <2> QED BY <2>4, <2>5, <2>7 DEF ExportReads
<1> QED BY <1>1, InvariantPInv, PipelineHonest, PTL
=============================================================================
