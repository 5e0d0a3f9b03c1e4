------------------------------ MODULE MCSetup ------------------------------
(***************************************************************************)
(* Two commands at a time on one home directory, two repositories with two *)
(* refs each, in histories of at most MaxCommands commands and MaxTroubles *)
(* failures and kills.                                                     *)
(***************************************************************************)
EXTENDS Setup, TLC

CONSTANTS p1, p2, e1, e2

MCProcs == {p1, p2}
MCEntropy == {e1, e2}
MCRefs == {"v1", "v2"}
MCUrls == {"upstream", "fork"}
Symmetric == Permutations(MCProcs) \cup Permutations(MCEntropy)
=============================================================================
