----------------------------- MODULE MCPipeline -----------------------------
(***************************************************************************)
(* The pipeline with both plans and up to MaxSp service providers.         *)
(***************************************************************************)
EXTENDS Pipeline

MCPlans == {SequentialPlan, ParallelPlan}

\* Just enough for one and for two service providers; the first is too few for two.
MCPortCounts == {10, 16}

\* The script's output shows every address, as the program expects of it; none; or all
\* but one that a step asks for, one for each of the three steps, or that none asks for.
MCAllShown == {Contracts}
MCOutputs ==
  {Contracts, {}} \cup
  { Contracts \ {n} :
      n \in { "filecoin_warm_storage_service_state_view", "endorsements",
              "filecoin_pay_v1_contract", "session_key_registry" } }
=============================================================================
