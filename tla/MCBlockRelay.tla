---------------------------- MODULE MCBlockRelay ----------------------------
(***************************************************************************)
(* A light node behind another one, which is in a ring with two full nodes *)
(* of which one may fail.                                                  *)
(***************************************************************************)
EXTENDS BlockRelay

\* 1 and 2 are light, 3 and 4 full; 4 is unsteady and connected to 1 and 3.
MCPeers == <<{2, 3, 4}, {1}, {1, 4}, {1, 3}>>
=============================================================================
