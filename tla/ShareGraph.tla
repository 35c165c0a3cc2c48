----------------------------- MODULE ShareGraph -----------------------------
(***************************************************************************)
(* Shares and their parents.  A share is its hash, taken to commit to its  *)
(* content, its parent included: so it does where a node computes it, but  *)
(* AddSharesOutcomes keeps the Hash a synced or an older share comes with. *)
(* Hashes are positive naturals ordered like the hex strings the code      *)
(* compares; 0 stands for the null hash (genesisHash).                     *)
(***************************************************************************)
EXTENDS Integers

CONSTANTS
    Hash,       \* the shares that may ever arrive
    Parent      \* PreviousShareHash, Genesis for none

Genesis == 0

\* Parent-closed sets of shares, and a share's line: itself and its ancestors.
ParentClosed(S) == \A h \in S : Parent[h] \in Hash => Parent[h] \in S

Line == [h \in Hash |->
            {a \in Hash : \A S \in SUBSET Hash : h \in S /\ ParentClosed(S) => a \in S}]

\* The shares on the line from h back to its ancestor a, both included.
Between(a, h) == {b \in Line[h] : a \in Line[b]}

ASSUME HashAssumption == Hash \subseteq Nat \ {Genesis}
\* If a share's hash commits to its parent's, following parents always ends: every
\* set of shares has one whose parent is not in it.  Of a hash that came with the
\* share (sharechain.go:141) this is an assumption on the peer that made it.
ASSUME FoundedAssumption ==
    \A S \in SUBSET Hash : S # {} => \E h \in S : Parent[h] \notin S
=============================================================================
