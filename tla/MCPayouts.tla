----------------------------- MODULE MCPayouts ------------------------------
(***************************************************************************)
(* Three kinds of shares: two addresses, an ordinary and a hard one, and a *)
(* stale one.                                                              *)
(***************************************************************************)
EXTENDS Payouts

MCKind == {[addr |-> 1, diff |-> 10, stale |-> FALSE],
           [addr |-> 2, diff |-> 30, stale |-> FALSE],
           [addr |-> 1, diff |-> 10, stale |-> TRUE]}
=============================================================================
