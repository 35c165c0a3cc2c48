---------------------------- MODULE MCBlockLedger ---------------------------
(***************************************************************************)
(* A few blocks at the first heights.                                      *)
(***************************************************************************)
EXTENDS BlockLedger

\* Two blocks at height 1, the second a rival of the first, and one at height 2.
RivalHeight == <<1, 1, 2>>

PairHeight == <<1, 2>>
=============================================================================
