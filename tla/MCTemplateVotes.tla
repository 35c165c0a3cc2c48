-------------------------- MODULE MCTemplateVotes ---------------------------
(***************************************************************************)
(* Two peers of different subnets; two blocks in a line; two transactions, *)
(* of which the second spends the first, and an entry that has the first   *)
(* one's id and other data.                                                *)
(***************************************************************************)
EXTENDS TemplateVotes

TwoKeys == <<1, 2>>
TwoBlocks == <<{1}, {1, 2}>>
Spends == <<{}, {1}, {}>>
Claimed == <<1, 2, 1>>
=============================================================================
