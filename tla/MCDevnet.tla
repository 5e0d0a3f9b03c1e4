------------------------------ MODULE MCDevnet ------------------------------
(***************************************************************************)
(* Commands on one machine, at most two at a time, in histories of at most *)
(* MaxCommands commands and MaxTroubles failures, kills and crashes.       *)
(***************************************************************************)
EXTENDS Devnet, TLC

CONSTANTS p1, p2, r1, r2

MCProcs == {p1, p2}
MCRuns == {r1, r2}
Symmetric == Permutations(MCProcs) \cup Permutations(MCRuns)
=============================================================================
