---------------------------- MODULE MCShareChain ----------------------------
(***************************************************************************)
(* Share graphs small enough for TLC.                                      *)
(***************************************************************************)
EXTENDS ShareChain

\* Running totals along the parent links, for the constants TotalWork and TotalLen.
MCTotalWork[h \in Hash] == OwnWork(h) + IF Parent[h] \in Hash THEN MCTotalWork[Parent[h]] ELSE 0
MCTotalLen[h \in Hash] == OwnLen(h) + IF Parent[h] \in Hash THEN MCTotalLen[Parent[h]] ELSE 0

\* A line 1-2-3 and a fork 4 on 1. Share 2 is of an outdated version and dated
\* before the rule, but not before its parent; 4 carries more work than 2 and 3.
ForkParent == <<0, 1, 2, 1>>
ForkDiff == <<1, 1, 1, 2>>
ForkTs == <<1, 0, 1, 2>>
ForkDefect == <<"none", "version", "none", "none">>
ForkExpected == <<1, 1, 1, 1>>

\* A line 1-2-3 whose first share breaks the version rule and whose third claims
\* the wrong difficulty.
LineParent == <<0, 1, 2>>
LineTs == <<1, 1, 1>>
BadLineDefect == <<"version", "none", "none">>
BadLineDiff == <<1, 1, 2>>
Ones == <<1, 1, 1>>

\* On the first share: a stale one, 2, dated before the median, and a block, 3, that
\* claims the wrong difficulty; on 3, one that pays out wrongly.
RulesParent == <<0, 1, 1, 3>>
RulesDiff == <<1, 1, 2, 1>>
RulesTs == <<1, 2, 1, 2>>
RulesDefect == <<"none", "time", "none", "coinbase">>
RulesExpected == <<1, 1, 1, 1>>
=============================================================================
