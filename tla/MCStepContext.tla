--------------------------- MODULE MCStepContext ---------------------------
(***************************************************************************)
(* Two steps of an epoch, two calls each, on two keys.                     *)
(***************************************************************************)
EXTENDS StepContext

CONSTANTS usdfc, multicall3, address, tx

MCThreads == {usdfc, multicall3}
MCKeys == {address, tx}
=============================================================================
