---------------------------- MODULE MCShareSync -----------------------------
(***************************************************************************)
(* Two nodes, one with a chain whose first share is gone, one new.         *)
(***************************************************************************)
EXTENDS ShareSync

\* A line 1-2-3 whose first share nobody holds any more and whose next, 4, is still to
\* be found; 5, an invalid share on 3, and 6 on that.
MCParent == <<0, 1, 2, 3, 3, 5>>
MCDiff == <<1, 1, 1, 1, 1, 1>>
MCLoaded == [n \in Node |-> IF n = 1 THEN {2, 3} ELSE {}]
=============================================================================
