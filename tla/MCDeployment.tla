---------------------------- MODULE MCDeployment ----------------------------
(***************************************************************************)
(* Four contracts and up to three starts, any of which may break off.      *)
(***************************************************************************)
EXTENDS Deployment

MCContracts == <<"session_key_registry", "pdp_verifier", "filecoin_pay", "endorsements">>
MCPredeployed == <<"filecoin_pay", "pdp_verifier">>
=============================================================================
