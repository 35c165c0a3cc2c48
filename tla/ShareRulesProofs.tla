-------------------------- MODULE ShareRulesProofs --------------------------
(***************************************************************************)
(* More about ShareChain, for every share graph and every bound: which     *)
(* shares pass, which are rejected, what is left waiting, and which share  *)
(* is the tip.                                                             *)
(***************************************************************************)
EXTENDS ShareChainProofs, FiniteSetTheorems

-----------------------------------------------------------------------------
(***************************************************************************)
(* The version rule: NoOptOut.                                             *)
(***************************************************************************)

\* DatedInv(L): what NoOptOut needs, but for the shares of L, which were trusted unseen.
DatedInv(L) == /\ CurUnverified /\ DepartedAged /\ CurDated
               /\ \A h \in (verified \cap held) \ L : Dated(h)

\* A share stored again while a pass or `verified` refers to it is past retention.
LEMMA AddSharesDated ==
  ASSUME NEW L, ChainInv, DatedInv(L), NEW B \in SUBSET Hash, NEW t \in Readings, AddShares(B, t)
  PROVE  DatedInv(L)'
<1> DEFINE new == {h \in B \ held : CheckShareTime(h, t) /\ ValidAlone(h)}
<1>1. TypeOK /\ DepartedAged
  BY DEF ChainInv, DatedInv
<1>2. /\ held' = held \cup new /\ verified' = verified /\ now' = now
      /\ pc' = pc /\ pend' = pend /\ cur' = cur
  BY DEF AddShares
<1>3. \A h \in new : h \in Hash /\ h \notin held
  OBVIOUS
<1> HIDE DEF new
<1>4. \A h \in new : Departed(h) => Aged(h)'
  BY <1>1, <1>2, <1>3 DEF DepartedAged, Aged
<1>5. DepartedAged'
  <2>1. \A g \in Hash : Departed(g)' => Departed(g)
    BY <1>2 DEF Departed, UnderWay, InTurn
  <2> QED
    BY <1>1, <1>2, <2>1 DEF DepartedAged, Aged
<1>6. CurDated'
  <2>1. ASSUME pc \notin {"idle", "next"}, cur \in new PROVE Aged(cur)'
    BY <1>2, <1>3, <1>4, <2>1 DEF Departed, UnderWay, Aged
  <2> QED
    BY <1>2, <2>1 DEF DatedInv, CurDated, Dated, Aged
<1>7. \A h \in (verified' \cap held') \ L : Dated(h)'
  <2>1. \A h \in verified \cap new : Aged(h)'
    BY <1>3, <1>4 DEF Departed
  <2> QED
    BY <1>2, <2>1 DEF DatedInv, Dated, Aged
<1> QED
  BY <1>2, <1>5, <1>6, <1>7 DEF DatedInv, CurUnverified

\* Removing shares past retention, or any while no pass runs.
LEMMA RemoveDated ==
  ASSUME NEW L, ChainInv, DatedInv(L), NEW D \in SUBSET Hash, unlinkShares(D),
         UNCHANGED <<passVars, now>>,
         pc = "idle" \/ \A h \in D : Aged(h)
  PROVE  DatedInv(L)'
<1>1. TypeOK /\ DepartedAged /\ PassLocals
  BY DEF ChainInv, DatedInv
<1>2. /\ held' = held \ D /\ verified' = verified \ (D \cap held) /\ now' = now
      /\ pc' = pc /\ pend' = pend /\ cur' = cur
  BY DEF unlinkShares, passVars
<1>3. DepartedAged'
  <2> SUFFICES ASSUME NEW g \in Hash, Departed(g)'
               PROVE  Aged(g)
    BY <1>2 DEF DepartedAged, Aged
  <2>1. CASE g \notin held
    <3>1. Departed(g)
      BY <1>2, <2>1 DEF Departed, UnderWay, InTurn
    <3> QED
      BY <1>1, <3>1 DEF DepartedAged
  <2>2. CASE g \in held
    <3>1. g \in D /\ g \notin verified'
      BY <1>2, <2>2 DEF Departed
    <3>2. pc # "idle"
      BY <1>1, <1>2, <3>1 DEF Departed, UnderWay, InTurn, PassLocals
    <3> QED
      BY <3>1, <3>2
  <2> QED
    BY <2>1, <2>2
<1> QED
  BY <1>2, <1>3 DEF DatedInv, CurUnverified, CurDated, Dated, Aged

LEMMA MaintenanceDated ==
  ASSUME NEW L, ChainInv, DatedInv(L), Maintenance
  PROVE  DatedInv(L)'
<1>1. CASE PruneOldShares
  <2>1. /\ unlinkShares({h \in held : Aged(h)}) /\ UNCHANGED <<passVars, now>>
        /\ {h \in held : Aged(h)} \in SUBSET Hash
    BY <1>1 DEF PruneOldShares, removeShares, ChainInv, TypeOK
  <2> QED
    BY <2>1, RemoveDated
<1>2. ASSUME NEW t \in Readings, pruneUnverified(t) PROVE DatedInv(L)'
  <2>1. PICK D \in SUBSET Unverified : removeShares(D)
    BY <1>2 DEF pruneUnverified, dropUnverified
  <2>2. UNCHANGED <<passVars, now>> /\ pc = "idle"
    BY <1>2 DEF pruneUnverified, dropUnverified
  <2>3. D \in SUBSET Hash /\ unlinkShares(D)
    BY <2>1 DEF Unverified, removeShares
  <2> QED
    BY <2>2, <2>3, RemoveDated
<1> QED
  BY <1>1, <1>2 DEF Maintenance

\* effectiveTimeLocked: a parent that is not held any more is past retention, so it is
\* older than a share that is not.
LEMMA PassEffDated ==
  ASSUME NEW L, ChainInv, DatedInv(L), PassEff
  PROVE  DatedInv(L)'
<1>1. TypeOK /\ DepartedAged /\ pc = "eff" /\ cur \in Hash
  BY DEF ChainInv, DatedInv, PassEff, TypeOK, PassPoints
<1>2. /\ UNCHANGED <<held, verified, now, cur, pend>>
      /\ pc' \in {"accept", "reject", "time"}
      /\ pc' \in {"accept", "time"} =>
            \/ EffectiveTime(cur) < V2MandatoryActivation
            \/ Defect[cur] # "version"
  <2>1. EffectiveTime(cur) \in Nat
    BY <1>1, ShareAssumption DEF EffectiveTime, TypeOK
  <2> QED
    BY <2>1, BoundAssumption DEF PassEff, Verdict, storeVars
<1>3. DepartedAged'
  BY <1>1, <1>2 DEF DepartedAged, Departed, UnderWay, InTurn, Aged
<1>4. CurDated'
  <2> SUFFICES ASSUME cur \in held, EffectiveTime(cur) < V2MandatoryActivation, ~Aged(cur)
               PROVE  Dated(cur)
    BY <1>2 DEF CurDated, Dated, Aged
  <2>1. Ts[cur] \in Nat /\ At(Ts, Parent[cur]) \in Nat
    BY <1>1, ShareAssumption DEF At
  <2>2. Ts[cur] =< EffectiveTime(cur)
    BY <1>1, <2>1, ShareAssumption DEF EffectiveTime, TypeOK
  <2>3. EffectiveTime(cur) \in Nat /\ V2MandatoryActivation \in Nat
    BY <1>1, ShareAssumption, BoundAssumption DEF EffectiveTime, TypeOK
  <2>4. At(Ts, Parent[cur]) =< EffectiveTime(cur)
    <3>1. CASE Parent[cur] \in held
      BY <1>1, <2>1, <3>1, ShareAssumption DEF EffectiveTime, TypeOK, At
    <3>2. CASE Parent[cur] \in Hash \ held
      <4>1. Departed(Parent[cur])
        BY <1>1, <3>2 DEF Departed, InTurn
      <4> QED
        BY <1>1, <2>1, <2>2, <2>3, <3>2, <4>1, ShareAssumption, BoundAssumption
           DEF DepartedAged, Aged, TypeOK, At
    <3>3. CASE Parent[cur] \notin Hash
      BY <1>1, <2>1, <2>2, <3>3, ShareAssumption DEF At, EffectiveTime, TypeOK
    <3> QED
      BY <3>1, <3>2, <3>3
  <2> QED
    BY <2>1, <2>2, <2>3, <2>4 DEF Dated
<1> QED
  BY <1>2, <1>3, <1>4 DEF DatedInv, CurUnverified, Dated, Aged

LEMMA PassDated ==
  ASSUME NEW L, ChainInv, DatedInv(L), Pass
  PROVE  DatedInv(L)'
<1>1. TypeOK /\ DepartedAged /\ CurDated /\ CurUnverified /\ PassLocals /\ UnderWayHeld
      /\ GhostsAged /\ Genesis \notin Hash
  BY HashAssumption DEF ChainInv, DatedInv
<1>2. CurUnverified'
  BY CurUnverifiedStep DEF DatedInv, Next
<1>3. CASE PassTime \/ PassTarget \/ PassDiff \/ PassCoinbase \/ PassPayout
  <2>1. /\ UNCHANGED <<held, verified, now, cur, pend>> /\ InTurn /\ InTurn'
        /\ pc \in {"time", "target", "diff", "coinbase", "payout", "accept"}
    BY <1>3 DEF PassTime, PassTarget, PassDiff, PassCoinbase, PassPayout, Verdict, storeVars, InTurn
  <2> QED
    BY <1>2, <2>1 DEF DatedInv, DepartedAged, Departed, UnderWay, InTurn, Aged, CurDated, Dated
<1>4. CASE PassStart \/ PassEnd
  <2>1. /\ UNCHANGED <<held, verified, now>> /\ pc' \in {"idle", "next"}
        /\ pend' = {} \/ pend' = held \ verified
    BY <1>4 DEF PassStart, PassEnd, PassReset, storeVars
  <2>2. \A g \in Hash : Departed(g)' => Departed(g)
    BY <2>1 DEF Departed, UnderWay, InTurn
  <2> QED
    BY <1>1, <1>2, <2>1, <2>2 DEF DatedInv, DepartedAged, Aged, CurDated, Dated
<1>5. ASSUME NEW h \in Hash, PassNext(h) PROVE DatedInv(L)'
  <2>1. /\ UNCHANGED <<held, verified, now>> /\ pc = "next" /\ h \in pend /\ pend' = pend \ {h}
        /\ \/ UNCHANGED <<pc, cur>>
           \/ pc' = "eff" /\ cur' = h /\ Verifiable(h)
    BY <1>5 DEF PassNext, TakeTurn, storeVars
  <2>2. \A g \in Hash : Departed(g)' => Departed(g)
    BY <1>1, <2>1 DEF Departed, UnderWay, InTurn, Verifiable
  <2> QED
    BY <1>1, <1>2, <2>1, <2>2 DEF DatedInv, DepartedAged, Aged, CurDated, Dated
<1>6. CASE PassAccept
  <2>1. /\ UNCHANGED <<held, now, pend>> /\ pc = "accept" /\ pc' = "next"
        /\ verified' = verified \cup {cur}
    BY <1>6 DEF PassAccept, TurnOver
  <2>2. \A g \in Hash : Departed(g)' => Departed(g)
    BY <2>1 DEF Departed, UnderWay, InTurn
  <2>3. cur \in held => Dated(cur)
    BY <1>1, <2>1 DEF CurDated
  <2> QED
    BY <1>1, <1>2, <2>1, <2>2, <2>3 DEF DatedInv, DepartedAged, Aged, CurDated, Dated
<1>7. CASE PassReject
  <2>1. /\ UNCHANGED <<now, pend>> /\ pc = "reject" /\ pc' = "next"
        /\ held' = held \ {cur} /\ verified' \subseteq verified
    BY <1>7 DEF PassReject, TurnOver, unlinkShares
  <2>2. cur \notin pend /\ cur \notin verified'
    BY <1>1, <2>1 DEF ChainInv, CurUnverified
  <2>3. \A g \in Hash : Departed(g)' => Departed(g)
    BY <2>1, <2>2 DEF Departed, UnderWay, InTurn
  <2> QED
    BY <1>1, <1>2, <2>1, <2>3 DEF DatedInv, DepartedAged, Aged, CurDated, Dated
<1> QED
  BY <1>3, <1>4, <1>5, <1>6, <1>7, PassEffDated DEF Pass

\* Time only ages the departed further.
LEMMA TickDated ==
  ASSUME NEW L, ChainInv, DatedInv(L), Tick
  PROVE  DatedInv(L)'
<1>1. TypeOK /\ now' = now + 1 /\ UNCHANGED <<held, verified, pc, cur, pend>>
  BY DEF ChainInv, Tick, storeVars, passVars
<1>2. \A h \in Hash : Aged(h) => Aged(h)'
  BY <1>1, ShareAssumption, BoundAssumption DEF Aged, TypeOK
<1>3. DepartedAged'
  BY <1>1, <1>2 DEF DatedInv, DepartedAged, Departed, UnderWay, InTurn
<1> QED
  BY <1>1, <1>2, <1>3 DEF DatedInv, CurUnverified, CurDated, Dated, TypeOK

LEMMA DatedStutter ==
  ASSUME NEW L, DatedInv(L), UNCHANGED <<held, verified, now, pc, cur, pend>>
  PROVE  DatedInv(L)'
BY DEF DatedInv, CurUnverified, DepartedAged, Departed, UnderWay, InTurn, Aged, CurDated, Dated

\* The inductive invariant behind the version rule.
THEOREM DatedCorrect == Spec => []DatedInv({})
<1>1. Init => DatedInv({})
  BY DEF Init, InitPass, DatedInv, CurUnverified, DepartedAged, Departed, UnderWay, InTurn, CurDated
<1>2. ASSUME ChainInv, DatedInv({}), [Next]_vars PROVE DatedInv({})'
  <2>1. CASE UNCHANGED vars
    BY <1>2, <2>1, DatedStutter DEF vars, storeVars, passVars
  <2> QED
    BY <1>2, <2>1, AddSharesDated, MaintenanceDated, PassDated, TickDated DEF Next, Arrivals
<1> QED
  BY <1>1, <1>2, ChainCorrect, PTL DEF Spec

\* No share of an outdated version within retention is verified by backdating itself
\* below its parent, for every share graph and however prunes and arrivals on old clock
\* readings interleave with the reads of the pass.
THEOREM VersionRuleHolds == Spec => []NoOptOut
<1>1. DatedInv({}) => NoOptOut
  BY DEF DatedInv, Dated, NoOptOut
<1> QED
  BY <1>1, DatedCorrect, PTL
-----------------------------------------------------------------------------
(***************************************************************************)
(* Rejections: RejectedForCause.                                           *)
(***************************************************************************)

\* A share has finitely many ancestors.
LEMMA LineFinite ==
  ASSUME NEW h \in Hash
  PROVE  IsFiniteSet(Line[h])
<1> DEFINE S == {x \in Hash : ~IsFiniteSet(Line[x])}
<1>1. SUFFICES ASSUME S # {} PROVE FALSE
  OBVIOUS
<1>2. PICK x \in S : Parent[x] \notin S
  BY <1>1, FoundedAssumption
<1>3. CASE Parent[x] \in Hash
  <2>1. IsFiniteSet(Line[Parent[x]])
    BY <1>2, <1>3
  <2>2. IsFiniteSet(Line[Parent[x]] \cup {x})
    BY <2>1, FS_AddElement
  <2>3. Line[x] = Line[Parent[x]] \cup {x}
    BY <1>2, <1>3, LineStep
  <2> QED
    BY <1>2, <2>2, <2>3
<1>4. CASE Parent[x] \notin Hash
  <2>1. Line[x] = {x}
    BY <1>2, <1>4, LineRoot
  <2>2. IsFiniteSet({x})
    BY FS_Singleton
  <2> QED
    BY <1>2, <2>1, <2>2
<1> QED
  BY <1>3, <1>4

\* A full lookbehind and a complete payout window stay so while nothing of the line goes.
LEMMA WalkStays ==
  ASSUME NEW p \in Hash, \A a \in Line[p] : a \in held => a \in held',
         Cardinality(WalkOf(p, TargetLookbehind)) >= TargetLookbehind
  PROVE  Cardinality(WalkOf(p, TargetLookbehind)') >= TargetLookbehind
<1> DEFINE W == WalkOf(p, TargetLookbehind)
           V == WalkOf(p, TargetLookbehind)'
<1>1. p # Genesis
  BY HashAssumption
<1>2. /\ W = {b \in Line[p] \ Stale :
                 /\ Between(b, p) \subseteq held
                 /\ Cardinality(Between(b, p) \ Stale) <= TargetLookbehind}
      /\ V = {b \in Line[p] \ Stale :
                 /\ Between(b, p) \subseteq held'
                 /\ Cardinality(Between(b, p) \ Stale) <= TargetLookbehind}
  BY <1>1 DEF WalkOf, Walk, WalkStart
<1>3. ASSUME NEW b \in Line[p], Between(b, p) \subseteq held
      PROVE  Between(b, p) \subseteq held'
  BY <1>3 DEF Between
<1>4. W \subseteq V /\ V \subseteq Line[p]
  BY <1>2, <1>3
<1>5. IsFiniteSet(V) /\ IsFiniteSet(W) /\ Cardinality(W) =< Cardinality(V)
  <2> HIDE DEF V, W
  <2>1. IsFiniteSet(V)
    BY <1>4, LineFinite, FS_Subset
  <2> QED
    BY <1>4, <2>1, FS_Subset
<1>6. Cardinality(V) \in Nat /\ Cardinality(W) \in Nat /\ TargetLookbehind \in Nat
  BY <1>5, FS_CardinalityType, BoundAssumption
<1>7. Cardinality(W) >= TargetLookbehind
  OBVIOUS
<1> HIDE DEF V, W
<1>8. Cardinality(V) >= TargetLookbehind
  BY <1>5, <1>6, <1>7
<1> QED
  BY <1>8 DEF V

LEMMA WindowStays ==
  ASSUME NEW p \in Hash, \A a \in Line[p] : a \in held => a \in held', WindowComplete(p)
  PROVE  WindowComplete(p)'
<1>1. p # Genesis
  BY HashAssumption
<1>2. ASSUME NEW a \in Line[p], Between(a, p) \subseteq held
      PROVE  Between(a, p) \subseteq held'
  BY <1>2 DEF Between
<1> QED
  BY <1>1, <1>2 DEF WindowComplete

\* A step that leaves the pass alone and removes only shares past retention.
LEMMA HeldKeepsCause ==
  ASSUME ChainInv, CauseInv, UNCHANGED <<pc, cur, rejected>>,
         \A h \in Hash : Aged(h) => Aged(h)',
         \A h \in held : h \in held' \/ Aged(h)'
  PROVE  CauseInv'
<1>1. TypeOK
  BY DEF ChainInv
<1>2. \A h \in Hash : LineAged(h) => LineAged(h)'
  BY LineSelf DEF LineAged
<1>3. \A h \in Hash : Cause(h) => Cause(h)'
  BY <1>2 DEF Cause, InvalidOnItsOwn
<1>4. RejectedForCause'
  BY <1>1, <1>3 DEF CauseInv, RejectedForCause, TypeOK
<1>5. (pc = "reject" => Cause(cur))'
  <2> SUFFICES ASSUME pc = "reject" PROVE Cause(cur)'
    OBVIOUS
  <2>1. cur \in Hash /\ Cause(cur)
    BY <1>1 DEF TypeOK, PassPoints, CauseInv
  <2>2. Cause(cur)' <=> (InvalidOnItsOwn(cur) \/ (cur \notin Stale /\ LineAged(cur)')
                         \/ (cur \notin Stale \cup Solved /\ Parent[cur] = Genesis))
    BY DEF Cause, InvalidOnItsOwn
  <2> QED
    BY <1>2, <2>1, <2>2 DEF Cause
<1>6. ASSUME InTurn, ~LineAged(cur)', Parent[cur] \in Hash
      PROVE  \A a \in Line[Parent[cur]] : a \in held => a \in held'
  <2>1. cur \in Hash
    BY <1>1, <1>6 DEF TypeOK, InTurn, PassPoints
  <2>2. Line[Parent[cur]] \subseteq Line[cur]
    BY <1>6, <2>1, LineStep
  <2>3. cur' = cur
    OBVIOUS
  <2>4. \A a \in Line[cur] : ~Aged(a)'
    BY <1>6, <2>3 DEF LineAged
  <2> QED
    BY <2>2, <2>4
<1>7. (pc = "diff" /\ Parent[cur] \in Hash =>
           LineAged(cur) \/ Cardinality(WalkOf(Parent[cur], TargetLookbehind)) >= TargetLookbehind)'
  <2> SUFFICES ASSUME pc = "diff", Parent[cur] \in Hash, ~LineAged(cur)'
               PROVE  Cardinality(WalkOf(Parent[cur], TargetLookbehind)') >= TargetLookbehind
    OBVIOUS
  <2>1. cur \in Hash /\ InTurn
    BY <1>1 DEF TypeOK, PassPoints, InTurn
  <2>2. ~LineAged(cur)
    BY <1>2, <2>1 DEF LineAged
  <2>3. Cardinality(WalkOf(Parent[cur], TargetLookbehind)) >= TargetLookbehind
    BY <2>2 DEF CauseInv
  <2>4. PICK p \in Hash : p = Parent[cur] /\ p = Parent[cur']
    OBVIOUS
  <2>5. Cardinality(WalkOf(p, TargetLookbehind)') >= TargetLookbehind
    BY <1>6, <2>1, <2>3, <2>4, WalkStays
  <2>6. WalkOf(Parent[cur], TargetLookbehind)' = WalkOf(p, TargetLookbehind)'
    BY <2>4 DEF WalkOf, Walk, WalkStart
  <2> QED
    BY <2>5, <2>6
<1>8. (pc = "payout" => LineAged(cur) \/ WindowComplete(Parent[cur]))'
  <2> SUFFICES ASSUME pc = "payout", ~LineAged(cur)'
               PROVE  WindowComplete(Parent[cur])'
    OBVIOUS
  <2>1. cur \in Hash /\ InTurn
    BY <1>1 DEF TypeOK, PassPoints, InTurn
  <2>2. ~LineAged(cur)
    BY <1>2, <2>1 DEF LineAged
  <2>3. WindowComplete(Parent[cur])
    BY <2>2 DEF CauseInv
  <2>4. CASE Parent[cur] \in Hash
    <3>1. PICK p \in Hash : p = Parent[cur] /\ p = Parent[cur']
      BY <2>4
    <3>2. WindowComplete(p)'
      BY <1>6, <2>1, <2>3, <2>4, <3>1, WindowStays
    <3> QED
      BY <3>1, <3>2 DEF WindowComplete
  <2>5. CASE Parent[cur] \notin Hash
    BY <2>1, <2>5, ShareAssumption DEF WindowComplete
  <2> QED
    BY <2>4, <2>5
<1>9. (pc \in {"target", "diff", "coinbase", "payout"} => cur \notin Stale)'
  BY DEF CauseInv
<1> QED
  BY <1>4, <1>5, <1>7, <1>8, <1>9 DEF CauseInv

LEMMA PassCause ==
  ASSUME ChainInv, CauseInv, Pass
  PROVE  CauseInv'
<1>1. TypeOK /\ PassLocals
  BY DEF ChainInv
<1>2. ASSUME now' = now, NEW h, Cause(h) PROVE Cause(h)'
  BY <1>2 DEF Cause, InvalidOnItsOwn, LineAged, Aged
<1>3. ASSUME pc' \in {"idle", "next", "eff", "time", "accept"}, now' = now,
             \A h \in rejected' : Cause(h)
      PROVE  CauseInv'
  BY <1>2, <1>3 DEF CauseInv, RejectedForCause
<1>4. CASE PassStart \/ PassEnd
  BY <1>3, <1>4 DEF PassStart, PassEnd, PassReset, CauseInv, RejectedForCause
<1>5. CASE \E h \in Hash : PassNext(h)
  BY <1>3, <1>5 DEF PassNext, TakeTurn, CauseInv, RejectedForCause
<1>6. CASE PassAccept \/ PassReject
  BY <1>3, <1>6 DEF PassAccept, PassReject, TurnOver, CauseInv, RejectedForCause
<1>7. ASSUME pc \in {"eff", "time", "target", "diff", "coinbase", "payout"}, Verdict(pc')
      PROVE  /\ cur \in Hash /\ \A h \in rejected' : Cause(h)'
             /\ UNCHANGED <<held, tip, now, cur, rejected>>
  <2>1. UNCHANGED <<held, tip, now, cur, rejected>>
    BY <1>7 DEF Verdict, storeVars, workVars
  <2>2. cur \in Hash
    BY <1>1, <1>7 DEF TypeOK, PassPoints
  <2> QED
    BY <1>2, <2>1, <2>2 DEF CauseInv, RejectedForCause
<1>8. ASSUME now' = now, cur' = cur, cur \in Hash, Cause(cur) PROVE Cause(cur)'
  BY <1>8 DEF Cause, InvalidOnItsOwn, LineAged, Aged
<1>9. CASE PassEff
  <2>1. Verdict(pc') /\ pc = "eff" /\ pc' \in {"accept", "reject", "time"}
        /\ (pc' = "reject" => Defect[cur] = "version")
    BY <1>9 DEF PassEff, Verdict
  <2>2. pc' = "reject" => Cause(cur)
    BY <2>1 DEF Cause, InvalidOnItsOwn
  <2> QED
    BY <1>7, <1>8, <2>1, <2>2 DEF CauseInv, RejectedForCause
<1>10. CASE PassTime
  <2>1. Verdict(pc') /\ pc = "time" /\ pc' \in {"accept", "reject", "target"}
        /\ (pc' = "reject" => Defect[cur] = "time") /\ (pc' = "target" => cur \notin Stale)
    BY <1>10 DEF PassTime, Verdict
  <2>2. pc' = "reject" => Cause(cur)
    BY <2>1 DEF Cause, InvalidOnItsOwn
  <2> QED
    BY <1>7, <1>8, <2>1, <2>2 DEF CauseInv, RejectedForCause
<1>11. CASE PassTarget
  <2>1. /\ Verdict(pc') /\ pc = "target" /\ pc' \in {"diff", "coinbase"}
        /\ pc' = "diff" => Cardinality(WalkOf(Parent[cur], TargetLookbehind)) >= TargetLookbehind
    BY <1>11 DEF PassTarget, Verdict
  <2>2. cur \notin Stale /\ UNCHANGED <<held, tip, now, cur, rejected>>
    BY <1>7, <2>1 DEF CauseInv
  <2>3. WalkOf(Parent[cur], TargetLookbehind)' = WalkOf(Parent[cur], TargetLookbehind)
    BY <2>2 DEF WalkOf, Walk, WalkStart
  <2> QED
    BY <1>7, <2>1, <2>2, <2>3 DEF CauseInv, RejectedForCause
<1>12. CASE PassDiff
  <2>1. /\ Verdict(pc') /\ pc = "diff" /\ pc' \in {"reject", "coinbase"} /\ cur \notin Stale
        /\ pc' = "reject" => cur \notin Solved /\ Diff[cur] # ExpectedDiff(Parent[cur])
    BY <1>12 DEF PassDiff, Verdict, CauseInv
  <2>2. ASSUME pc' = "reject" PROVE Cause(cur)
    <3>1. CASE Parent[cur] \in Hash
      <4>1. Parent[cur] # Genesis
        BY <3>1, HashAssumption
      <4>2. CASE LineAged(cur)
        BY <2>1, <4>2 DEF Cause
      <4>3. CASE ~LineAged(cur)
        <5>1. Cardinality(WalkOf(Parent[cur], TargetLookbehind)) >= TargetLookbehind
          BY <2>1, <3>1, <4>3 DEF CauseInv
        <5>2. ExpectedDiff(Parent[cur]) = Expected[Parent[cur]]
          BY <4>1, <5>1 DEF ExpectedDiff, WalkStart
        <5> QED
          BY <2>1, <2>2, <3>1, <5>2 DEF Cause, InvalidOnItsOwn
      <4> QED
        BY <4>2, <4>3
    <3>2. CASE Parent[cur] \notin Hash
      BY <1>7, <2>1, <2>2, <3>2, ShareAssumption DEF Cause
    <3> QED
      BY <3>1, <3>2
  <2> QED
    BY <1>7, <1>8, <2>1, <2>2 DEF CauseInv, RejectedForCause
<1>13. CASE PassCoinbase
  <2>1. /\ Verdict(pc') /\ pc = "coinbase" /\ pc' \in {"payout", "accept"} /\ cur \notin Stale
        /\ pc' = "payout" => WindowComplete(Parent[cur])
    BY <1>13 DEF PassCoinbase, Verdict, CauseInv
  <2>2. UNCHANGED <<held, tip, now, cur, rejected>>
    BY <1>7, <2>1
  <2>3. WindowComplete(Parent[cur])' <=> WindowComplete(Parent[cur])
    BY <2>2 DEF WindowComplete
  <2> QED
    BY <1>7, <2>1, <2>2, <2>3 DEF CauseInv, RejectedForCause
<1>14. CASE PassPayout
  <2>1. /\ Verdict(pc') /\ pc = "payout" /\ pc' \in {"reject", "accept"} /\ cur \notin Stale
        /\ pc' = "reject" => (WindowComplete(Parent[cur]) => Defect[cur] = "coinbase")
    BY <1>14 DEF PassPayout, Verdict, CauseInv
  <2>2. pc' = "reject" => Cause(cur)
    BY <2>1 DEF Cause, InvalidOnItsOwn, CauseInv
  <2> QED
    BY <1>7, <1>8, <2>1, <2>2 DEF CauseInv, RejectedForCause
<1> QED
  BY <1>4, <1>5, <1>6, <1>9, <1>10, <1>11, <1>12, <1>13, <1>14 DEF Pass

\* A pass rejects for cause, for every share graph: what one check found still holds when
\* the next one reads the chain again, or a share of the line left retention.
THEOREM RejectsForCause == Spec => []RejectedForCause
<1>1. Init => CauseInv
  BY DEF Init, InitPass, CauseInv, RejectedForCause
<1>2. ASSUME ChainInv, CauseInv, [Next]_vars PROVE CauseInv'
  <2>1. TypeOK /\ PassLocals
    BY <1>2 DEF ChainInv
  <2>2. CASE Arrivals
    BY <1>2, <2>2, HeldKeepsCause DEF Arrivals, AddShares, Aged
  <2>3. CASE PruneOldShares
    <3>1. /\ UNCHANGED <<now, pc, cur, rejected>>
          /\ \A h \in held : h \in held' \/ Aged(h)
      BY <2>3 DEF PruneOldShares, removeShares, unlinkShares, passVars
    <3> QED
      BY <1>2, <3>1, HeldKeepsCause DEF Aged
  <2>4. CASE \E t \in Readings : pruneUnverified(t)
    <3>1. pc' = "idle" /\ rejected' = {}
      BY <2>1, <2>4 DEF pruneUnverified, dropUnverified, passVars, PassLocals
    <3> QED
      BY <3>1 DEF CauseInv, RejectedForCause
  <2>5. CASE Tick
    <3>1. now' = now + 1 /\ UNCHANGED <<held, pc, cur, rejected>>
      BY <2>5 DEF Tick, storeVars, passVars
    <3>2. \A h \in Hash : Aged(h) => Aged(h)'
      BY <2>1, <3>1, ShareAssumption, BoundAssumption DEF Aged, TypeOK
    <3> QED
      BY <1>2, <3>1, <3>2, HeldKeepsCause
  <2>6. CASE UNCHANGED vars
    <3>1. UNCHANGED <<held, now, pc, cur, rejected>>
      BY <2>6 DEF vars, storeVars, passVars
    <3> QED
      BY <1>2, <3>1, HeldKeepsCause DEF Aged
  <2> QED
    BY <1>2, <2>2, <2>3, <2>4, <2>5, <2>6, PassCause DEF Next, Maintenance
<1>3. CauseInv => RejectedForCause
  BY DEF CauseInv
<1> QED
  BY <1>1, <1>2, <1>3, ChainCorrect, PTL DEF Spec
-----------------------------------------------------------------------------
(***************************************************************************)
(* What a pass leaves waiting: NoneLeftBehind.                             *)
(***************************************************************************)

\* An update of natural values along growing totals yields naturals.
LEMMA AccumulatedNat ==
  ASSUME NEW f \in [Hash -> Nat], NEW total \in [Hash -> Nat],
         \A h \in Hash : At(total, Parent[h]) =< total[h],
         NEW H \in SUBSET Hash, NEW U \in SUBSET H
  PROVE  Accumulated(f, total, U, H) \in [Hash -> Nat]
<1> DEFINE F == Accumulated(f, total, U, H)
           S == {h \in Hash : F[h] \notin Nat}
<1>1. F \in [Hash -> Int] /\ \A h \in H \ U : F[h] = f[h]
  <2>1. f \in [Hash -> Int]
    OBVIOUS
  <2> QED
    BY <2>1, AccumulatedElse
<1>2. \A h \in Hash \ H : F[h] = 0
  BY DEF Accumulated
<1>3. ASSUME NEW h \in S PROVE Parent[h] \in S
  <2>1. h \in U
    BY <1>1, <1>2, <1>3
  <2>2. F[h] = total[h] - At(total, Parent[h]) + (IF Parent[h] \in H THEN F[Parent[h]] ELSE 0)
    <3>1. f \in [Hash -> Int]
      OBVIOUS
    <3> QED
      BY <2>1, <3>1, AccumulatedFits
  <2>3. total[h] \in Nat /\ At(total, Parent[h]) \in Nat /\ At(total, Parent[h]) =< total[h]
    BY <1>3 DEF At
  <2>4. F[h] \notin Nat
    BY <1>3
  <2>5. Parent[h] \in H => F[Parent[h]] \in Int
    BY <1>1
  <2> HIDE DEF F
  <2>6. Parent[h] \in H /\ F[Parent[h]] \notin Nat
    BY <2>2, <2>3, <2>4, <2>5
  <2> QED
    BY <2>6
<1>4. S = {}
  BY <1>3, FoundedAssumption
<1> QED
  BY <1>1, <1>4

\* The totals grow along the parent links by each share's own part.
LEMMA TotalsGrow ==
  ASSUME NEW h \in Hash
  PROVE  /\ OwnWork(h) \in Nat /\ OwnLen(h) \in Nat
         /\ At(TotalWork, Parent[h]) =< TotalWork[h] /\ At(TotalLen, Parent[h]) =< TotalLen[h]
         /\ TotalLen[h] - At(TotalLen, Parent[h]) = OwnLen(h)
<1>1. OwnWork(h) \in Nat /\ OwnLen(h) \in Nat
  BY ShareAssumption, BoundAssumption DEF OwnWork, OwnLen
<1>2. /\ At(TotalWork, Parent[h]) \in Nat /\ At(TotalLen, Parent[h]) \in Nat
      /\ TotalWork[h] = OwnWork(h) + At(TotalWork, Parent[h])
      /\ TotalLen[h] = OwnLen(h) + At(TotalLen, Parent[h])
  BY TotalAssumption DEF At
<1> QED
  BY <1>1, <1>2

\* One update: a share it does not visit was held, and no parent came to it.
LEMMA UpdateAtLeast ==
  ASSUME TypeOK, LenAtLeast, held' \in SUBSET Hash, ChildrenExact',
         NEW S \in SUBSET held', updateWork(Descendants(S, children')),
         \A h \in held' \ Descendants(S, children') :
             h \in held /\ (Parent[h] \in held' => Parent[h] \in held)
  PROVE  LenAtLeast'
<1> DEFINE U == Descendants(S, children')
<1>1. \A q \in Hash : children'[q] = {x \in held' : Parent[x] = q}
  BY DEF ChildrenExact
<1>2. U \in SUBSET held'
  BY <1>1, DescendantsHeld
<1>3. ASSUME NEW h \in held', Parent[h] \in U PROVE h \in U
  BY <1>1, <1>3, DescendantsClosed
<1>4. /\ cumWork' = Accumulated(cumWork, TotalWork, U, held')
      /\ chainLen' = Accumulated(chainLen, TotalLen, U, held')
  BY DEF updateWork
<1>5. /\ cumWork \in [Hash -> Nat] /\ chainLen \in [Hash -> Nat]
      /\ TotalWork \in [Hash -> Nat] /\ TotalLen \in [Hash -> Nat]
  BY TotalAssumption DEF LenAtLeast
<1>6. cumWork' \in [Hash -> Nat] /\ chainLen' \in [Hash -> Nat]
  BY <1>2, <1>4, <1>5, TotalsGrow, AccumulatedNat
<1>7. ASSUME NEW h \in held'
      PROVE  chainLen'[h] >= OwnLen(h) + (IF Parent[h] \in held' THEN chainLen'[Parent[h]] ELSE 0)
  <2>1. OwnLen(h) \in Nat /\ h \in Hash
    BY TotalsGrow
  <2>2. CASE h \in U
    <3>1. chainLen'[h] = TotalLen[h] - At(TotalLen, Parent[h])
                         + (IF Parent[h] \in held' THEN chainLen'[Parent[h]] ELSE 0)
      <4>1. chainLen \in [Hash -> Int]
        BY <1>5
      <4> QED
        BY <1>2, <1>4, <1>5, <2>2, <4>1, AccumulatedFits
    <3>2. TotalLen[h] - At(TotalLen, Parent[h]) = OwnLen(h)
      BY <2>1, TotalsGrow
    <3> HIDE DEF U
    <3> QED
      BY <1>6, <2>1, <3>1, <3>2
  <2>3. CASE h \notin U
    <3>1. Parent[h] \notin U /\ h \in held /\ (Parent[h] \in held' => Parent[h] \in held)
      BY <1>3, <2>3
    <3> HIDE DEF U
    <3>2. \A x \in held' \ U : chainLen'[x] = chainLen[x]
      BY <1>4 DEF Accumulated
    <3>3. chainLen[h] >= OwnLen(h) + (IF Parent[h] \in held THEN chainLen[Parent[h]] ELSE 0)
      BY <3>1 DEF LenAtLeast
    <3>4. chainLen'[h] = chainLen[h] /\ chainLen[h] \in Nat
      BY <1>5, <2>1, <2>3, <3>2
    <3>5. CASE Parent[h] \in held'
      BY <2>1, <3>1, <3>2, <3>3, <3>4, <3>5
    <3>6. CASE Parent[h] \notin held'
      <4>1. Parent[h] \in held => chainLen[Parent[h]] \in Nat
        BY <1>5 DEF TypeOK
      <4> QED
        BY <2>1, <3>3, <3>4, <3>6, <4>1
    <3> QED
      BY <3>5, <3>6
  <2> QED
    BY <2>2, <2>3
<1> QED
  BY <1>6, <1>7 DEF LenAtLeast

\* While shares only leave, lengths only fall.
LEMMA LengthsFall ==
  ASSUME TypeOK, LenAtLeast, LenAtLeast', held' \in SUBSET held, ChildrenExact',
         NEW S \in SUBSET held', updateWork(Descendants(S, children'))
  PROVE  \A h \in held' : chainLen'[h] =< chainLen[h]
<1> DEFINE U == Descendants(S, children')
           X == {h \in held' : ~(chainLen'[h] =< chainLen[h])}
<1>1. \A q \in Hash : children'[q] = {x \in held' : Parent[x] = q}
  BY DEF ChildrenExact
<1>2. U \in SUBSET held' /\ held' \in SUBSET Hash
  BY <1>1, DescendantsHeld DEF TypeOK
<1>3. chainLen' = Accumulated(chainLen, TotalLen, U, held')
  BY DEF updateWork
<1>4. chainLen \in [Hash -> Nat] /\ chainLen' \in [Hash -> Nat] /\ TotalLen \in [Hash -> Nat]
  BY TotalAssumption DEF LenAtLeast
<1>5. ASSUME NEW h \in X PROVE Parent[h] \in X
  <2>1. h \in Hash /\ h \in held /\ OwnLen(h) \in Nat
    BY <1>2, TotalsGrow
  <2>2. h \in U
    <3> HIDE DEF U
    <3>1. h \notin U => chainLen'[h] = chainLen[h]
      BY <1>3, <2>1 DEF Accumulated
    <3> QED
      BY <1>4, <2>1, <3>1
  <2>3. chainLen'[h] = TotalLen[h] - At(TotalLen, Parent[h])
                       + (IF Parent[h] \in held' THEN chainLen'[Parent[h]] ELSE 0)
    <3>1. chainLen \in [Hash -> Int]
      BY <1>4
    <3> QED
      BY <1>2, <1>3, <1>4, <2>2, <3>1, AccumulatedFits
  <2>4. TotalLen[h] - At(TotalLen, Parent[h]) = OwnLen(h)
    BY <2>1, TotalsGrow
  <2>5. chainLen[h] >= OwnLen(h) + (IF Parent[h] \in held THEN chainLen[Parent[h]] ELSE 0)
    BY <2>1 DEF LenAtLeast
  <2>6. ~(chainLen'[h] =< chainLen[h]) /\ chainLen[h] \in Nat /\ chainLen'[h] \in Nat
    BY <1>4, <2>1
  <2>7. Parent[h] \in held => chainLen[Parent[h]] \in Nat /\ chainLen'[Parent[h]] \in Nat
    BY <1>4 DEF TypeOK
  <2> HIDE DEF U
  <2>8. Parent[h] \in held' /\ ~(chainLen'[Parent[h]] =< chainLen[Parent[h]])
    <3>1. CASE Parent[h] \in held'
      BY <2>1, <2>3, <2>4, <2>5, <2>6, <2>7, <3>1
    <3>2. CASE Parent[h] \notin held'
      BY <2>1, <2>3, <2>4, <2>5, <2>6, <2>7, <3>2
    <3> QED
      BY <3>1, <3>2
  <2> QED
    BY <2>8
<1>6. X = {}
  <2>1. X \in SUBSET Hash
    BY <1>2
  <2> QED
    BY <1>5, <2>1, FoundedAssumption
<1> QED
  BY <1>6

\* Both prunes, PassReject and PassEnd: shares leave, and an update follows.
LEMMA LeavingLengths ==
  ASSUME ChainInv, ChainInv', LenAtLeast, held' \in SUBSET held,
         NEW S \in SUBSET held', updateWork(Descendants(S, children'))
  PROVE  LenAtLeast' /\ \A h \in held' : chainLen'[h] =< chainLen[h]
<1>1. TypeOK /\ held' \in SUBSET Hash /\ ChildrenExact'
  BY DEF ChainInv, TypeOK
<1>2. LenAtLeast'
  BY <1>1, UpdateAtLeast
<1> QED
  BY <1>1, <1>2, LengthsFall
\* removeShares unlinks, then updates below what it unlinked.
LEMMA RemoveShape ==
  ASSUME ChainInv, NEW D \in SUBSET Hash, removeShares(D)
  PROVE  /\ held' = held \ D /\ verified' = verified \ (D \cap held)
         /\ \E S \in SUBSET held' : updateWork(Descendants(S, children'))
<1> DEFINE S == UNION {children'[h] : h \in D}
<1>1. unlinkShares(D) /\ updateWork(Descendants(S, children'))
  BY DEF removeShares, dropWork
<1>2. ChildrenExact'
  BY <1>1 DEF ChainInv, TypeOK, unlinkShares, ChildrenExact
<1>3. S \in SUBSET held'
  BY <1>2 DEF ChildrenExact
<1> HIDE DEF S
<1> QED
  BY <1>1, <1>3 DEF unlinkShares

\* A share does not become verifiable while shares only leave.
LEMMA VerifiableFalls ==
  ASSUME TypeOK, LenAtLeast, LenAtLeast', held' \in SUBSET held, verified' \in SUBSET verified,
         \A h \in held' : chainLen'[h] =< chainLen[h],
         NEW h, Verifiable(h)'
  PROVE  Verifiable(h)
<1> DEFINE p == Parent[h]
<1>1. CASE p \in held' /\ chainLen'[p] >= TargetLookbehind
  <2>1. p \in held /\ p \in Hash /\ chainLen'[p] =< chainLen[p]
    BY <1>1 DEF TypeOK
  <2>2. chainLen[p] \in Nat /\ chainLen'[p] \in Nat /\ TargetLookbehind \in Nat
    BY <2>1, BoundAssumption DEF LenAtLeast
  <2> HIDE DEF p
  <2>3. chainLen[p] >= TargetLookbehind
    BY <1>1, <2>1, <2>2
  <2> QED
    BY <2>1, <2>3 DEF Verifiable, p
<1> QED
  BY <1>1 DEF Verifiable

\* Both prunes keep NoneMissed.
LEMMA RemoveMissesNone ==
  ASSUME ChainInv, ChainInv', LenAtLeast, NoneMissed, NEW D \in SUBSET Hash, removeShares(D),
         UNCHANGED passVars
  PROVE  LenAtLeast' /\ NoneMissed'
<1>1. /\ held' = held \ D /\ verified' = verified \ (D \cap held)
      /\ \E S \in SUBSET held' : updateWork(Descendants(S, children'))
  BY RemoveShape
<1>2. LenAtLeast' /\ \A h \in held' : chainLen'[h] =< chainLen[h]
  BY <1>1, LeavingLengths
<1>3. \A h : Verifiable(h)' => Verifiable(h)
  BY <1>1, <1>2, VerifiableFalls DEF ChainInv
<1>4. UNCHANGED <<pc, due, pend, pendLen, cur>> /\ held' \ verified' \subseteq held \ verified
  BY <1>1 DEF passVars
<1>5. StillToCome' = StillToCome /\ LastPass' = LastPass
  BY <1>4 DEF StillToCome, LastPass
<1> QED
  BY <1>2, <1>3, <1>4, <1>5 DEF NoneMissed

LEMMA MaintenanceMissesNone ==
  ASSUME ChainInv, LenAtLeast, NoneMissed, Maintenance
  PROVE  LenAtLeast' /\ NoneMissed'
<1>1. ChainInv'
  BY MaintenanceInv
<1>2. PICK D \in SUBSET Hash : removeShares(D)
  BY DEF Maintenance, PruneOldShares, pruneUnverified, dropUnverified, Unverified, ChainInv, TypeOK
<1>3. UNCHANGED passVars
  BY DEF Maintenance, PruneOldShares, pruneUnverified, dropUnverified
<1> QED
  BY <1>1, <1>2, <1>3, RemoveMissesNone

\* A new batch has its own caller, whose pass is still to run.
LEMMA AddSharesMissesNone ==
  ASSUME ChainInv, LenAtLeast, NEW B \in SUBSET Hash, NEW t \in Readings, AddShares(B, t)
  PROVE  LenAtLeast' /\ NoneMissed'
<1> DEFINE new == {h \in B \ held : CheckShareTime(h, t) /\ ValidAlone(h)}
           U == Descendants(new, children')
<1>1. ChainInv'
  BY AddSharesInv
<1>2. held' = held \cup new /\ updateWork(U) /\ due' = due + 1 /\ pc' = pc
  BY DEF AddShares
<1>3. /\ new \in SUBSET held' /\ held' \in SUBSET Hash /\ ChildrenExact'
      /\ \A q \in Hash : children'[q] = {x \in held' : Parent[x] = q}
  BY <1>1, <1>2 DEF ChainInv, TypeOK, ChildrenExact
<1>4. new \subseteq U
  BY <1>3, DescendantsHeld
<1>5. ASSUME NEW h \in held' \ U
      PROVE  h \in held /\ (Parent[h] \in held' => Parent[h] \in held)
  <2>1. Parent[h] \notin U
    BY <1>3, <1>5, DescendantsClosed
  <2> QED
    BY <1>2, <1>4, <1>5, <2>1
<1>6. LenAtLeast'
  <2> HIDE DEF new
  <2> QED
    BY <1>2, <1>3, <1>5, UpdateAtLeast DEF ChainInv
<1>7. ~LastPass' /\ ~(pc' = "idle" /\ due' = 0)
  BY <1>2 DEF ChainInv, PassLocals, LastPass, TypeOK
<1> QED
  BY <1>6, <1>7 DEF NoneMissed

\* A pass snapshots every share that waits, parents sorting before children.
LEMMA PassStartMissesNone ==
  ASSUME ChainInv, LenAtLeast, NoneMissed, PassStart
  PROVE  NoneMissed'
<1>1. /\ TypeOK /\ WorkFitsButRejected /\ rejected = {} /\ cur = Genesis /\ Genesis \notin Hash
      /\ UNCHANGED <<held, verified, chainLen>>
  BY HashAssumption DEF PassStart, ChainInv, PassLocals, storeVars, workVars
<1>2. CASE held \ verified = {}
  <2>1. pc' = "idle"
    BY <1>2 DEF PassStart, PassReset
  <2> QED
    BY <1>1, <1>2, <2>1 DEF NoneMissed, LastPass
<1>3. CASE held \ verified # {}
  <2>1. /\ pc' = "next" /\ pend' = held \ verified /\ cur' = cur
        /\ pendLen' = [h \in Hash |-> IF h \in held \ verified THEN chainLen[h] ELSE 0]
    BY <1>3 DEF PassStart
  <2>2. StillToCome' = held \ verified
    BY <1>1, <2>1 DEF StillToCome
  <2>3. ASSUME NEW h \in held \ verified, NEW p \in held \ verified, h \notin Stale, Parent[h] = p
        PROVE  pendLen'[p] < pendLen'[h]
    <3>1. chainLen[h] = 1 + chainLen[p]
      BY <1>1, <2>3 DEF WorkFitsButRejected, WorkFits, OwnLen
    <3>2. pendLen'[p] = chainLen[p] /\ pendLen'[h] = chainLen[h] /\ chainLen[p] \in Int
      BY <1>1, <2>1, <2>3 DEF TypeOK
    <3> QED
      BY <3>1, <3>2
  <2> QED
    BY <1>1, <2>1, <2>2, <2>3 DEF NoneMissed
<1> QED
  BY <1>2, <1>3

\* The least of the pending shares is next; it is skipped only if it cannot be verified.
LEMMA PassNextMissesNone ==
  ASSUME ChainInv, NoneMissed, NEW x \in Hash, PassNext(x)
  PROVE  NoneMissed'
<1>1. /\ TypeOK /\ cur = Genesis /\ Genesis \notin Hash /\ pc = "next" /\ x \in pend
      /\ UNCHANGED <<held, verified, chainLen, pendLen, due>> /\ pend' = pend \ {x}
      /\ \A g \in pend : pendLen[x] =< pendLen[g]
  BY HashAssumption DEF PassNext, TakeTurn, ChainInv, PassLocals, storeVars, workVars
<1>2. \/ pc' = "eff" /\ cur' = x
      \/ UNCHANGED <<pc, cur>> /\ ~(x \notin verified /\ Verifiable(x))
  BY DEF PassNext, TakeTurn
<1>3. /\ StillToCome = pend /\ StillToCome' \subseteq StillToCome
      /\ \A h \in StillToCome \ StillToCome' : h = x /\ ~(x \notin verified /\ Verifiable(x))
  BY <1>1, <1>2 DEF StillToCome
<1>4. \A h : Verifiable(h)' <=> Verifiable(h)
  BY <1>1 DEF Verifiable
<1>5. (LastPass' => LastPass) /\ pc' # "idle"
  BY <1>1, <1>2 DEF LastPass
<1>6. \A h \in StillToCome, p \in StillToCome' : h \notin StillToCome' => pendLen[h] =< pendLen[p]
  BY <1>1, <1>3
<1> QED
  BY <1>1, <1>3, <1>4, <1>5, <1>6 DEF NoneMissed

\* A share's children come after it in the sorted snapshot, so accepting it leaves none behind.
LEMMA PassAcceptMissesNone ==
  ASSUME ChainInv, NoneMissed, PassAccept
  PROVE  NoneMissed'
<1>1. /\ TypeOK /\ cur \notin pend /\ pc = "accept" /\ pc' = "next"
      /\ UNCHANGED <<held, chainLen, pend, pendLen, due>>
      /\ cur' = Genesis /\ verified' = verified \cup {cur} /\ Genesis \notin Hash /\ cur \in Hash
  BY HashAssumption DEF PassAccept, TurnOver, ChainInv, TypeOK, PassPoints
<1>2. StillToCome = pend \cup {cur} /\ StillToCome' = pend /\ (LastPass' <=> LastPass)
  BY <1>1 DEF StillToCome, LastPass
<1>3. ASSUME LastPass, NEW h \in held \ (verified' \cup Stale), Verifiable(h)' PROVE h \in pend
  <2>1. h \in held \ (verified \cup Stale) /\ h # cur
    BY <1>1
  <2>2. CASE Parent[h] = cur
    <3>1. pendLen[cur] < pendLen[h]
      BY <1>2, <1>3, <2>1, <2>2 DEF NoneMissed
    <3>2. h \notin StillToCome => pendLen[h] =< pendLen[cur]
      BY <1>2, <1>3, <2>1 DEF NoneMissed
    <3>3. pendLen[h] \in Int /\ pendLen[cur] \in Int
      BY <1>1, <2>1 DEF TypeOK
    <3>4. h \in StillToCome
      BY <3>1, <3>2, <3>3
    <3> QED
      BY <1>2, <2>1, <3>4
  <2>3. CASE Parent[h] # cur
    <3>1. Verifiable(h)
      BY <1>1, <1>3, <2>3 DEF Verifiable
    <3> QED
      BY <1>2, <1>3, <2>1, <3>1 DEF NoneMissed
  <2> QED
    BY <2>2, <2>3
<1>4. ASSUME LastPass, NEW h \in held \ verified', NEW p \in pend
      PROVE  /\ h \notin pend => pendLen[h] =< pendLen[p]
             /\ h \notin Stale /\ Parent[h] = p => pendLen[p] < pendLen[h]
  <2>1. h \in held \ verified /\ h # cur /\ p \in StillToCome
    BY <1>1, <1>2
  <2> QED
    BY <1>2, <1>4, <2>1 DEF NoneMissed
<1> QED
  BY <1>1, <1>2, <1>3, <1>4 DEF NoneMissed

LEMMA PassRejectMissesNone ==
  ASSUME ChainInv, ChainInv', LenAtLeast, NoneMissed, PassReject
  PROVE  LenAtLeast' /\ NoneMissed'
<1>1. /\ TypeOK /\ cur \notin pend /\ pc = "reject" /\ pc' = "next" /\ updateWork({})
      /\ UNCHANGED <<pend, pendLen, due>> /\ held' = held \ {cur}
      /\ verified' = verified \ ({cur} \cap held)
      /\ cur' = Genesis /\ Genesis \notin Hash /\ cur \in Hash
  BY HashAssumption DEF PassReject, TurnOver, unlinkShares, ChainInv, TypeOK, PassPoints
<1>2. Descendants({}, children') = {}
  BY DEF Descendants
<1>3. LenAtLeast' /\ \A h \in held' : chainLen'[h] =< chainLen[h]
  <2>1. updateWork(Descendants({}, children')) /\ held' \in SUBSET held
    BY <1>1, <1>2
  <2> QED
    BY <2>1, LeavingLengths
<1>4. \A h : Verifiable(h)' => Verifiable(h)
  BY <1>1, <1>3, VerifiableFalls
<1>5. /\ StillToCome = pend \cup {cur} /\ StillToCome' = pend /\ (LastPass' <=> LastPass)
      /\ held' \ verified' \subseteq (held \ verified) \ {cur}
  BY <1>1 DEF StillToCome, LastPass
<1>6. ASSUME LastPass, NEW h \in held' \ (verified' \cup Stale), Verifiable(h)' PROVE h \in pend
  BY <1>4, <1>5, <1>6 DEF NoneMissed
<1>7. ASSUME LastPass, NEW h \in held' \ verified', NEW p \in pend
      PROVE  /\ h \notin pend => pendLen[h] =< pendLen[p]
             /\ h \notin Stale /\ Parent[h] = p => pendLen[p] < pendLen[h]
  <2>1. h \in held \ verified /\ h # cur /\ p \in StillToCome
    BY <1>5
  <2> QED
    BY <1>5, <1>7, <2>1 DEF NoneMissed
<1> QED
  BY <1>1, <1>3, <1>5, <1>6, <1>7 DEF NoneMissed

LEMMA PassEndMissesNone ==
  ASSUME ChainInv, ChainInv', LenAtLeast, NoneMissed, PassEnd
  PROVE  LenAtLeast' /\ NoneMissed'
<1> DEFINE S == UNION {children'[h] : h \in rejected}
<1>1. /\ TypeOK /\ ChildrenExact' /\ pc = "next" /\ pend = {} /\ cur = Genesis /\ Genesis \notin Hash
      /\ UNCHANGED <<held, verified>> /\ pc' = "idle" /\ due' = due - 1
      /\ updateWork(Descendants(S, children'))
  BY HashAssumption DEF PassEnd, PassReset, dropWork, storeVars, ChainInv, PassLocals
<1>2. S \in SUBSET held'
  BY <1>1 DEF ChildrenExact, TypeOK, ChainInv
<1>3. LenAtLeast' /\ \A h \in held' : chainLen'[h] =< chainLen[h]
  <2> HIDE DEF S
  <2> QED
    BY <1>1, <1>2, LeavingLengths
<1>4. \A h : Verifiable(h)' => Verifiable(h)
  BY <1>1, <1>3, VerifiableFalls
<1>5. StillToCome = {} /\ ~LastPass' /\ (due' = 0 => LastPass)
  BY <1>1 DEF StillToCome, LastPass, TypeOK
<1> QED
  BY <1>1, <1>3, <1>4, <1>5 DEF NoneMissed

LEMMA PassMissesNone ==
  ASSUME ChainInv, LenAtLeast, NoneMissed, Pass
  PROVE  LenAtLeast' /\ NoneMissed'
<1>1. ChainInv'
  BY PassInv
<1>2. CASE PassReject \/ PassEnd
  BY <1>1, <1>2, PassRejectMissesNone, PassEndMissesNone
<1>3. ASSUME UNCHANGED <<held, chainLen, cumWork>> PROVE LenAtLeast'
  BY <1>3 DEF LenAtLeast
<1>4. CASE PassStart
  BY <1>3, <1>4, PassStartMissesNone DEF PassStart, storeVars, workVars
<1>5. ASSUME NEW x \in Hash, PassNext(x) PROVE LenAtLeast' /\ NoneMissed'
  BY <1>3, <1>5, PassNextMissesNone DEF PassNext, TakeTurn, storeVars, workVars
<1>6. CASE PassAccept
  BY <1>3, <1>6, PassAcceptMissesNone DEF PassAccept
<1>7. CASE PassEff \/ PassTime \/ PassTarget \/ PassDiff \/ PassCoinbase \/ PassPayout
  <2>1. /\ UNCHANGED <<held, verified, chainLen, cumWork, due, pend, pendLen, cur>>
        /\ pc # "idle" /\ pc' # "idle"
    BY <1>7 DEF PassEff, PassTime, PassTarget, PassDiff, PassCoinbase, PassPayout, Verdict,
                storeVars, workVars
  <2>2. NoneMissed'
    BY <2>1 DEF NoneMissed, LastPass, StillToCome, Verifiable
  <2> QED
    BY <1>3, <2>1, <2>2
<1> QED
  BY <1>2, <1>4, <1>5, <1>6, <1>7 DEF Pass

\* The inductive invariant behind NoneLeftBehind.
THEOREM WaitCorrect == Spec => [](LenAtLeast /\ NoneMissed)
<1>1. Init => LenAtLeast /\ NoneMissed
  BY DEF Init, InitPass, LenAtLeast, NoneMissed, LastPass
<1>2. ASSUME ChainInv, LenAtLeast, NoneMissed, [Next]_vars PROVE LenAtLeast' /\ NoneMissed'
  <2>1. CASE Tick \/ UNCHANGED vars
    <3>1. UNCHANGED <<held, verified, chainLen, cumWork, pc, due, pend, pendLen, cur>>
      BY <2>1 DEF Tick, vars, storeVars, workVars, passVars
    <3>2. LenAtLeast'
      BY <1>2, <3>1 DEF LenAtLeast
    <3>3. NoneMissed'
      BY <1>2, <3>1 DEF NoneMissed, LastPass, StillToCome, Verifiable
    <3> QED
      BY <3>2, <3>3
  <2> QED
    BY <1>2, <2>1, AddSharesMissesNone, PassMissesNone, MaintenanceMissesNone DEF Next, Arrivals
<1> QED
  BY <1>1, <1>2, ChainCorrect, PTL DEF Spec

\* Once every caller's pass has run, no non-stale share that could be verified waits, for
\* every share graph: sorting by length puts parents first, and lengths fall as shares go.
THEOREM NothingLeftBehind == Spec => []NoneLeftBehind
<1>1. ChainInv /\ NoneMissed => NoneLeftBehind
  BY HashAssumption DEF ChainInv, PassLocals, NoneMissed, NoneLeftBehind, StillToCome
<1> QED
  BY <1>1, ChainCorrect, WaitCorrect, PTL
-----------------------------------------------------------------------------
(***************************************************************************)
(* The tip: TipIsBest.                                                     *)
(***************************************************************************)

\* A share an update reaches is one it starts from, or its parent is reached.
LEMMA DescendantsStep ==
  ASSUME NEW hs, NEW kids, NEW h \in Descendants(hs, kids), h \notin hs
  PROVE  h \in Hash /\ Parent[h] \in Descendants(hs, kids)
<1>1. PICK s \in hs : s \in Line[h] /\ \A b \in Between(s, h) \ {s} : b \in kids[Parent[b]]
  BY DEF Descendants
<1>2. h \in Hash /\ s # h
  BY DEF Descendants
<1>3. Parent[h] \in Hash
  BY <1>1, <1>2, LineRoot
<1>4. s \in Line[Parent[h]]
  BY <1>1, <1>2, <1>3, LineStep
<1>5. Between(s, h) = {h} \cup Between(s, Parent[h])
  BY <1>2, <1>3, <1>4, BetweenStep
<1> QED
  BY <1>1, <1>2, <1>3, <1>4, <1>5 DEF Descendants

\* What is reached from the children of R is held; with a share its held children are
\* reached, and so are those of R.
LEMMA ReachedBelow ==
  ASSUME NEW H \in SUBSET Hash, NEW R \in SUBSET Hash, NEW kids,
         \A q \in Hash : kids[q] = {x \in H : Parent[x] = q}
  PROVE  LET U == Descendants(UNION {kids[r] : r \in R}, kids)
         IN  U \subseteq H /\ \A h \in H : Parent[h] \in U \cup R => h \in U
<1> DEFINE S == UNION {kids[r] : r \in R}
           U == Descendants(S, kids)
<1>1. S \in SUBSET H
  OBVIOUS
<1>2. S \subseteq U /\ U \subseteq H
  BY <1>1, DescendantsHeld
<1>3. ASSUME NEW h \in H, Parent[h] \in U PROVE h \in U
  BY <1>1, <1>3, DescendantsClosed
<1>4. ASSUME NEW h \in H, Parent[h] \in R PROVE h \in S
  BY <1>4
<1> HIDE DEF U, S
<1>5. U \subseteq H /\ \A h \in H : Parent[h] \in U \cup R => h \in U
  BY <1>2, <1>3, <1>4
<1> QED
  BY <1>5 DEF U, S

LEMMA LaggingHeld ==
  ASSUME TypeOK, ChildrenExact
  PROVE  /\ Lagging \subseteq held
         /\ \A h \in held : Parent[h] \in Lagging \cup rejected => h \in Lagging
BY ReachedBelow DEF Lagging, TypeOK, ChildrenExact

\* A share of V that lags behind goes on doing so, if V has with each share its held
\* parent, or the parent is rejected.
LEMMA LaggingStays ==
  ASSUME ChainInv, ChainInv', NEW V, V \subseteq held \cap held', rejected \subseteq rejected',
         \A h \in V : Parent[h] \in held => Parent[h] \in V \cup rejected'
  PROVE  V \cap Lagging \subseteq Lagging'
<1> DEFINE X == {h \in V \cap Lagging : h \notin Lagging'}
<1>1. TypeOK /\ ChildrenExact /\ TypeOK' /\ ChildrenExact'
  BY DEF ChainInv
<1>2. Lagging \subseteq held
  BY <1>1, LaggingHeld
<1>3. \A h \in held' : Parent[h] \in Lagging' \cup rejected' => h \in Lagging'
  BY <1>1, ReachedBelow DEF Lagging, TypeOK, ChildrenExact
<1>4. ASSUME NEW h \in X PROVE Parent[h] \in X
  <2>1. Parent[h] \notin Lagging' \cup rejected'
    BY <1>3
  <2>2. h \notin UNION {children[r] : r \in rejected}
    BY <1>1, <2>1 DEF ChildrenExact, TypeOK
  <2>3. Parent[h] \in Lagging
    BY <2>2, DescendantsStep DEF Lagging
  <2> QED
    BY <1>2, <2>1, <2>3
<1>5. X \in SUBSET Hash
  BY <1>1 DEF TypeOK
<1> QED
  BY <1>4, <1>5, FoundedAssumption

\* The best of the shares that changed and of the old best is the best of all, if the old
\* best lost no work.
LEMMA BestStays ==
  ASSUME NEW w \in [Hash -> Int], NEW w2 \in [Hash -> Int],
         NEW C \in SUBSET Hash, NEW C2 \in SUBSET Hash, NEW N, C \subseteq C2, C2 \subseteq C \cup N,
         NEW t \in Best(C, w), w[t] =< w2[t],
         \A c \in C \ N : w2[c] = w[c],
         NEW t2 \in Best((N \cup {t}) \cap C2, w2)
  PROVE  t2 \in Best(C2, w2)
<1>1. t \in C /\ t \in Hash /\ t2 \in C2 /\ t2 \in Hash
  BY DEF Best
<1>2. ASSUME NEW d \in C2 \ {t2} PROVE betterTip(w2[t2], t2, w2[d], d)
  <2>1. CASE d \in N \cup {t}
    BY <2>1 DEF Best
  <2>2. CASE d \notin N \cup {t}
    <3>1. d \in C /\ w2[d] = w[d] /\ betterTip(w[t], t, w[d], d)
      BY <2>2 DEF Best
    <3>2. t2 = t \/ betterTip(w2[t2], t2, w2[t], t)
      BY <1>1 DEF Best
    <3>3. /\ w[t] \in Int /\ w2[t] \in Int /\ w[d] \in Int /\ w2[d] \in Int /\ w2[t2] \in Int
          /\ t \in Int /\ t2 \in Int /\ d \in Int
      BY <1>1, HashAssumption
    <3> QED
      BY <3>1, <3>2, <3>3 DEF betterTip
  <2> QED
    BY <2>1, <2>2
<1> QED
  BY <1>1, <1>2 DEF Best

\* Storing a batch takes no work from a share that does not lag behind.
LEMMA AddSharesWorkGrows ==
  ASSUME ChainInv, ChainInv', LenAtLeast, LenAtLeast',
         NEW B \in SUBSET Hash, NEW t \in Readings, AddShares(B, t)
  PROVE  \A h \in held \ Lagging : cumWork[h] =< cumWork'[h]
<1> DEFINE X == {h \in held \ Lagging : ~(cumWork[h] =< cumWork'[h])}
<1>1. /\ TypeOK /\ ChildrenExact /\ WorkFitsButRejected /\ WorkFitsButRejected'
      /\ held \subseteq held' /\ rejected' = rejected
  BY DEF ChainInv, AddShares
<1>2. \A h \in held : Parent[h] \in Lagging \cup rejected => h \in Lagging
  BY <1>1, LaggingHeld
<1>3. cumWork \in [Hash -> Nat] /\ cumWork' \in [Hash -> Nat]
  BY DEF LenAtLeast
<1>4. ASSUME NEW h \in X PROVE Parent[h] \in X
  <2>1. h \in held /\ h \in held' /\ h \in Hash /\ Parent[h] \notin Lagging \cup rejected
    BY <1>1, <1>2 DEF TypeOK
  <2>2. /\ cumWork[h] = OwnWork(h) + (IF Parent[h] \in held THEN cumWork[Parent[h]] ELSE 0)
        /\ cumWork'[h] = OwnWork(h) + (IF Parent[h] \in held' THEN cumWork'[Parent[h]] ELSE 0)
    BY <1>1, <2>1 DEF WorkFitsButRejected, WorkFits
  <2>3. ~(cumWork[h] =< cumWork'[h]) /\ OwnWork(h) \in Nat
    BY <2>1, TotalsGrow
  <2>4. /\ Parent[h] \in held => cumWork[Parent[h]] \in Nat /\ cumWork'[Parent[h]] \in Nat
        /\ Parent[h] \in held' => cumWork'[Parent[h]] \in Nat
    BY <1>1, <1>3 DEF TypeOK, ChainInv
  <2>5. CASE Parent[h] \in held
    <3>1. ~(cumWork[Parent[h]] =< cumWork'[Parent[h]])
      BY <1>1, <2>2, <2>3, <2>4, <2>5
    <3> QED
      BY <2>1, <2>5, <3>1
  <2>6. CASE Parent[h] \notin held
    BY <2>2, <2>3, <2>4, <2>6
  <2> QED
    BY <2>5, <2>6
<1>5. X \in SUBSET Hash
  BY <1>1 DEF TypeOK
<1>6. X = {}
  BY <1>4, <1>5, FoundedAssumption
<1> QED
  BY <1>6

\* Storing a batch brings work to contenders, and new contenders past retention.
LEMMA AddSharesTip ==
  ASSUME ChainInv, ChainInv', LenAtLeast, LenAtLeast', TipBestOrLagging,
         NEW B \in SUBSET Hash, NEW t \in Readings, AddShares(B, t)
  PROVE  TipBestOrLagging'
<1> DEFINE new == {h \in B \ held : CheckShareTime(h, t) /\ ValidAlone(h)}
           U == Descendants(new, children')
<1>1. /\ TypeOK /\ GhostsAged
      /\ held' = held \cup new /\ verified' = verified /\ rejected' = rejected
      /\ updateWork(U) /\ considerTip(U)
  BY DEF ChainInv, AddShares
<1>2. new \subseteq U
  <2>1. /\ new \in SUBSET held' /\ held' \in SUBSET Hash
        /\ \A q \in Hash : children'[q] = {x \in held' : Parent[x] = q}
    BY <1>1 DEF ChainInv, TypeOK, ChildrenExact
  <2> QED
    BY <2>1, DescendantsHeld
<1>3. /\ Candidates \subseteq Candidates' /\ Candidates' \subseteq Candidates \cup U
      /\ Candidates \subseteq held
      /\ Candidates \in SUBSET Hash /\ Candidates' \in SUBSET Hash
  BY <1>1, <1>2 DEF Candidates, TypeOK
<1> HIDE DEF U, new
<1> SUFFICES ASSUME Candidates' # {}, Candidates' \cap Lagging' = {}
             PROVE  tip' \in Best(Candidates', cumWork')
  BY DEF TipBestOrLagging
<1>4. held \cap Lagging \subseteq Lagging'
  <2>1. held \subseteq held \cap held' /\ rejected \subseteq rejected'
    BY <1>1
  <2>2. \A h \in held : Parent[h] \in held => Parent[h] \in held \cup rejected'
    OBVIOUS
  <2> QED
    BY <2>1, <2>2, LaggingStays
<1>5. Candidates \cap Lagging = {}
  BY <1>3, <1>4
<1>6. tip' \in IF (U \cup {tip}) \cap Candidates' = {} THEN {tip}
              ELSE Best((U \cup {tip}) \cap Candidates', cumWork')
  BY <1>1 DEF considerTip, moveTip
<1>7. CASE Candidates = {}
  <2>1. (U \cup {tip}) \cap Candidates' = Candidates'
    BY <1>3, <1>7
  <2> QED
    BY <1>6, <2>1
<1>8. CASE Candidates # {}
  <2>1. tip \in Best(Candidates, cumWork)
    BY <1>5, <1>8 DEF TipBestOrLagging
  <2>2. tip \in Candidates
    BY <2>1 DEF Best
  <2>3. \A h \in Candidates : cumWork[h] =< cumWork'[h]
    BY <1>3, <1>5, AddSharesWorkGrows
  <2>4. \A h \in Candidates \ U : cumWork'[h] = cumWork[h]
    BY <1>1, <1>3 DEF updateWork, Accumulated
  <2>5. tip' \in Best((U \cup {tip}) \cap Candidates', cumWork')
    BY <1>3, <1>6, <2>2
  <2>6. cumWork \in [Hash -> Int] /\ cumWork' \in [Hash -> Int] /\ cumWork[tip] =< cumWork'[tip]
    BY <2>2, <2>3 DEF ChainInv, TypeOK
  <2> QED
    BY <1>3, <2>1, <2>4, <2>5, <2>6, BestStays
<1> QED
  BY <1>7, <1>8

\* A verified share joins the contenders with the work it has.
LEMMA PassAcceptTip ==
  ASSUME ChainInv, TipBestOrLagging, PassAccept
  PROVE  TipBestOrLagging'
<1>1. /\ TypeOK /\ UNCHANGED <<held, children, cumWork, rejected>> /\ verified' = verified \cup {cur}
      /\ considerTip({cur}) /\ cur \in Hash
  BY DEF ChainInv, PassAccept, TypeOK, PassPoints
<1>2. /\ Candidates \subseteq Candidates' /\ Candidates' \subseteq Candidates \cup {cur}
      /\ Candidates \in SUBSET Hash /\ Candidates' \in SUBSET Hash /\ Lagging' = Lagging
  BY <1>1 DEF Candidates, Lagging, TypeOK
<1> SUFFICES ASSUME Candidates' # {}, Candidates' \cap Lagging = {}
             PROVE  tip' \in Best(Candidates', cumWork')
  BY <1>2 DEF TipBestOrLagging
<1>3. tip' \in IF ({cur} \cup {tip}) \cap Candidates' = {} THEN {tip}
               ELSE Best(({cur} \cup {tip}) \cap Candidates', cumWork')
  BY <1>1 DEF considerTip, moveTip
<1>4. CASE Candidates = {}
  <2>1. Candidates' = {cur} /\ ({cur} \cup {tip}) \cap Candidates' = {cur}
    BY <1>2, <1>4
  <2> QED
    BY <1>3, <2>1
<1>5. CASE Candidates # {}
  <2>1. tip \in Best(Candidates, cumWork)
    BY <1>2, <1>5 DEF TipBestOrLagging
  <2>2. tip \in Candidates
    BY <2>1 DEF Best
  <2>3. tip' \in Best(({cur} \cup {tip}) \cap Candidates', cumWork')
    BY <1>2, <1>3, <2>2
  <2>4. cumWork \in [Hash -> Int] /\ cumWork[tip] =< cumWork[tip] /\ cumWork' = cumWork
    BY <1>1, <1>2, <2>2 DEF TypeOK
  <2> QED
    BY <1>2, <2>1, <2>3, <2>4, BestStays
<1> QED
  BY <1>4, <1>5

\* The candidates and their work stay, and so does what lags behind.
LEMMA TipStays ==
  ASSUME TipBestOrLagging, Candidates' = Candidates, tip' = tip,
         Candidates \cap Lagging \subseteq Lagging',
         \A h \in Candidates : cumWork'[h] = cumWork[h]
  PROVE  TipBestOrLagging'
BY DEF TipBestOrLagging, Best

\* A rejected share was no candidate, and the candidates below it now lag behind.
LEMMA PassRejectTip ==
  ASSUME ChainInv, ChainInv', CurUnverified, TipBestOrLagging, PassReject
  PROVE  TipBestOrLagging'
<1>1. /\ TypeOK /\ held' = held \ {cur} /\ verified' = verified \ ({cur} \cap held)
      /\ updateWork({}) /\ tip' = tip /\ rejected' = rejected \cup {cur}
  BY DEF ChainInv, PassReject, unlinkShares
<1>2. Candidates' = Candidates /\ Candidates \subseteq held'
  BY <1>1 DEF Candidates, CurUnverified
<1>3. \A h \in Candidates : cumWork'[h] = cumWork[h]
  BY <1>1, <1>2 DEF updateWork, Accumulated, TypeOK
<1>4. held' \cap Lagging \subseteq Lagging'
  <2>1. held' \subseteq held \cap held' /\ rejected \subseteq rejected'
    BY <1>1
  <2>2. \A h \in held' : Parent[h] \in held => Parent[h] \in held' \cup rejected'
    BY <1>1
  <2> QED
    BY <2>1, <2>2, LaggingStays
<1> QED
  BY <1>1, <1>2, <1>3, <1>4, TipStays

\* dropWorkLocked looks for the tip again when it touches a candidate.
LEMMA PassEndTip ==
  ASSUME ChainInv, TipBestOrLagging, PassEnd
  PROVE  TipBestOrLagging'
<1>1. /\ UNCHANGED <<held, verified, children>> /\ dropWork(rejected, FALSE)
      /\ held \in SUBSET Hash
  BY DEF PassEnd, storeVars, ChainInv, TypeOK
<1>2. /\ Candidates' = Candidates /\ Candidates \subseteq held' /\ updateWork(Lagging)
      /\ IF Lagging \cap Candidates' # {} THEN selectTip ELSE tip' = tip
  BY <1>1 DEF dropWork, Lagging, Candidates
<1>3. CASE Lagging \cap Candidates' # {}
  BY <1>2, <1>3 DEF selectTip, moveTip, TipBestOrLagging
<1>4. CASE Lagging \cap Candidates' = {}
  <2>1. \A h \in Candidates : cumWork'[h] = cumWork[h]
    BY <1>1, <1>2, <1>4 DEF updateWork, Accumulated
  <2> QED
    BY <1>2, <1>4, <2>1, TipStays
<1> QED
  BY <1>3, <1>4

\* A prune looks for the tip again when a candidate left or one lost work.
LEMMA RemoveTip ==
  ASSUME ChainInv, ChainInv', TipBestOrLagging, NEW D \in SUBSET Hash, removeShares(D),
         UNCHANGED passVars
  PROVE  TipBestOrLagging'
<1> DEFINE S == UNION {children'[h] : h \in D}
           U == Descendants(S, children')
<1>1. /\ held' = held \ D /\ verified' = verified \ (D \cap held) /\ updateWork(U)
      /\ IF D \cap Candidates # {} \/ U \cap Candidates' # {} THEN selectTip ELSE tip' = tip
  BY DEF removeShares, unlinkShares, dropWork
<1>2. /\ \A q \in Hash : children'[q] = {x \in held' : Parent[x] = q}
      /\ held' \in SUBSET Hash /\ rejected' = rejected
  BY DEF ChainInv, ChildrenExact, TypeOK, passVars
<1>3. CASE D \cap Candidates # {} \/ U \cap Candidates' # {}
  BY <1>1, <1>3 DEF selectTip, moveTip, TipBestOrLagging
<1>4. CASE D \cap Candidates = {} /\ U \cap Candidates' = {}
  <2>1. S \in SUBSET held'
    BY <1>2
  <2>2. /\ S \subseteq U
        /\ \A h \in held' : Parent[h] \in U => h \in U
    BY <1>2, <2>1, DescendantsHeld, DescendantsClosed
  <2>3. \A h \in held' \ U : Parent[h] \in held => Parent[h] \in held' \ U
    BY <1>1, <1>2, <2>2
  <2> HIDE DEF U, S
  <2>4. Candidates' = Candidates /\ Candidates \subseteq held' \ U
    BY <1>1, <1>4 DEF Candidates
  <2>5. (held' \ U) \cap Lagging \subseteq Lagging'
    <3>1. /\ held' \ U \subseteq held \cap held' /\ rejected \subseteq rejected'
          /\ \A h \in held' \ U : Parent[h] \in held => Parent[h] \in (held' \ U) \cup rejected'
      BY <1>1, <1>2, <2>3
    <3> QED
      BY <3>1, LaggingStays
  <2>6. \A h \in Candidates : cumWork'[h] = cumWork[h]
    BY <1>1, <1>2, <2>4 DEF updateWork, Accumulated
  <2>7. tip' = tip
    BY <1>1, <1>4
  <2> QED
    BY <2>4, <2>5, <2>6, <2>7, TipStays
<1> QED
  BY <1>3, <1>4

LEMMA MaintenanceTip ==
  ASSUME ChainInv, ChainInv', TipBestOrLagging, Maintenance
  PROVE  TipBestOrLagging'
<1>1. PICK D \in SUBSET Hash : removeShares(D)
  BY DEF Maintenance, PruneOldShares, pruneUnverified, dropUnverified, Unverified, ChainInv, TypeOK
<1>2. UNCHANGED passVars
  BY DEF Maintenance, PruneOldShares, pruneUnverified, dropUnverified
<1> QED
  BY <1>1, <1>2, RemoveTip

LEMMA TipUnaffected ==
  ASSUME TipBestOrLagging, UNCHANGED <<held, verified, children, cumWork, tip, rejected>>
  PROVE  TipBestOrLagging'
BY DEF TipBestOrLagging, Candidates, Lagging

LEMMA PassTip ==
  ASSUME ChainInv, ChainInv', CurUnverified, TipBestOrLagging, Pass
  PROVE  TipBestOrLagging'
<1>1. CASE PassAccept \/ PassReject \/ PassEnd
  BY <1>1, PassAcceptTip, PassRejectTip, PassEndTip
<1>2. CASE PassStart
  BY <1>2, TipUnaffected DEF PassStart, PassReset, storeVars, workVars, ChainInv, PassLocals
<1>3. CASE \E h \in Hash : PassNext(h)
  BY <1>3, TipUnaffected DEF PassNext, TakeTurn, storeVars, workVars
<1>4. CASE PassEff \/ PassTime \/ PassTarget \/ PassDiff \/ PassCoinbase \/ PassPayout
  BY <1>4, TipUnaffected DEF PassEff, PassTime, PassTarget, PassDiff, PassCoinbase, PassPayout,
                             Verdict, storeVars, workVars
<1> QED
  BY <1>1, <1>2, <1>3, <1>4 DEF Pass

\* Between passes the tip is the candidate selectTipLocked would pick from scratch, for
\* every share graph, although considerTipLocked compares only the shares a step touched
\* and a rejected share's descendants keep its work until the pass ends.
THEOREM TipStaysBest == Spec => []TipIsBest
<1>1. Init => TipBestOrLagging
  BY DEF Init, TipBestOrLagging, Candidates
<1>2. ASSUME ChainInv, ChainInv', DatedInv({}), LenAtLeast, LenAtLeast', TipBestOrLagging,
             [Next]_vars
      PROVE  TipBestOrLagging'
  <2>1. CASE Tick \/ UNCHANGED vars
    BY <1>2, <2>1, TipUnaffected DEF Tick, vars, storeVars, workVars, passVars
  <2>2. CASE Pass
    BY <1>2, <2>2, PassTip DEF DatedInv
  <2> QED
    BY <1>2, <2>1, <2>2, AddSharesTip, MaintenanceTip DEF Next, Arrivals
<1>3. ChainInv /\ TipBestOrLagging => TipIsBest
  BY DEF ChainInv, PassLocals, TipBestOrLagging, TipIsBest, Lagging, Descendants
<1> QED
  BY <1>1, <1>2, <1>3, ChainCorrect, DatedCorrect, WaitCorrect, PTL DEF Spec
=============================================================================
