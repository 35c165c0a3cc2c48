---------------------------- MODULE MCMiningJobs ----------------------------
(***************************************************************************)
(* Two templates on one block: the second one has new transactions.        *)
(***************************************************************************)
EXTENDS MiningJobs

TwoPrev == <<1, 1>>
=============================================================================
