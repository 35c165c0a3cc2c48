---------------------------- MODULE MCShareStore ----------------------------
(***************************************************************************)
(* Two shares over their database.                                         *)
(***************************************************************************)
EXTENDS ShareStore

\* Running totals along the parent links, for the constants TotalWork and TotalLen.
MCTotalWork[h \in Hash] == OwnWork(h) + IF Parent[h] \in Hash THEN MCTotalWork[Parent[h]] ELSE 0
MCTotalLen[h \in Hash] == OwnLen(h) + IF Parent[h] \in Hash THEN MCTotalLen[Parent[h]] ELSE 0

\* Share 2, of an outdated version, is dated before the rule but not before its parent 1.
TwoParent == <<0, 1>>
TwoDiff == <<1, 1>>
TwoTs == <<1, 0>>
TwoDefect == <<"none", "version">>
TwoExpected == <<1, 1>>
=============================================================================
