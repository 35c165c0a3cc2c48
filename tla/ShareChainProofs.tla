-------------------------- MODULE ShareChainProofs --------------------------
(***************************************************************************)
(* Proofs about ShareChain, for every share graph and every bound.         *)
(***************************************************************************)
EXTENDS ShareChain, TLAPS

-----------------------------------------------------------------------------
(***************************************************************************)
(* The line of a share.                                                    *)
(***************************************************************************)

\* A line is a set of shares that contains the share it starts from.
LEMMA LineSelf ==
  ASSUME NEW h \in Hash
  PROVE  h \in Line[h] /\ Line[h] \subseteq Hash
BY DEF Line

\* A line contains the parents of its members.
LEMMA LineClosed ==
  ASSUME NEW h \in Hash
  PROVE  ParentClosed(Line[h])
BY ShareAssumption DEF Line, ParentClosed

\* A line is the smallest parent-closed set around its first share.
LEMMA LineLeast ==
  ASSUME NEW h \in Hash, NEW S \in SUBSET Hash, h \in S, ParentClosed(S)
  PROVE  Line[h] \subseteq S
BY DEF Line

\* The line of a member lies within the line.
LEMMA LineTrans ==
  ASSUME NEW h \in Hash, NEW b \in Line[h]
  PROVE  Line[b] \subseteq Line[h]
BY LineSelf, LineClosed, LineLeast

\* A share's line is the share followed by its parent's line.
LEMMA LineStep ==
  ASSUME NEW h \in Hash, Parent[h] \in Hash
  PROVE  Line[h] = {h} \cup Line[Parent[h]]
<1> DEFINE p == Parent[h]
           S == {h} \cup Line[p]
<1>1. S \in SUBSET Hash /\ h \in S
  BY LineSelf
<1>2. ParentClosed(S)
  BY LineSelf, LineClosed DEF ParentClosed
<1>3. Line[h] \subseteq S
  BY <1>1, <1>2, LineLeast
<1>4. h \in Line[h] /\ p \in Line[h]
  BY LineSelf, LineClosed DEF ParentClosed
<1>5. Line[p] \subseteq Line[h]
  BY <1>4, LineTrans
<1> QED
  BY <1>3, <1>4, <1>5

\* The line of a first share is that share.
LEMMA LineRoot ==
  ASSUME NEW h \in Hash, Parent[h] \notin Hash
  PROVE  Line[h] = {h}
<1>1. {h} \in SUBSET Hash /\ ParentClosed({h})
  BY DEF ParentClosed
<1> QED
  BY <1>1, LineLeast, LineSelf

\* No share is among its own ancestors: such a cycle would be a set of shares that all
\* have their parent in it.
LEMMA Acyclic ==
  ASSUME NEW h \in Hash, Parent[h] \in Hash
  PROVE  h \notin Line[Parent[h]]
<1>1. SUFFICES ASSUME h \in Line[Parent[h]] PROVE FALSE
  OBVIOUS
<1> DEFINE S == {x \in Line[h] : h \in Line[x]}
<1>2. S \in SUBSET Hash /\ h \in S
  BY LineSelf
<1>3. PICK x \in S : Parent[x] \notin S
  BY <1>2, FoundedAssumption
<1>4. CASE x = h
  BY <1>1, <1>3, <1>4, LineSelf, LineClosed DEF ParentClosed
<1>5. CASE x # h
  <2>1. x \in Hash /\ Parent[x] \in Hash
    BY <1>2, <1>5, LineRoot
  <2>2. h \in Line[Parent[x]] /\ Parent[x] \in Line[h]
    BY <1>5, <2>1, LineStep, LineClosed DEF ParentClosed
  <2> QED
    BY <1>3, <2>2
<1> QED
  BY <1>4, <1>5

\* Two shares on each other's line are the same share.
LEMMA LineAntisymmetric ==
  ASSUME NEW h \in Hash, NEW a \in Line[h], h \in Line[a]
  PROVE  a = h
<1>1. SUFFICES ASSUME a # h PROVE FALSE
  OBVIOUS
<1>2. Parent[h] \in Hash
  BY <1>1, LineRoot
<1>3. a \in Line[Parent[h]]
  BY <1>1, <1>2, LineStep
<1>4. h \in Line[Parent[h]]
  BY <1>2, <1>3, LineTrans
<1> QED
  BY <1>2, <1>4, Acyclic

\* The stretch from a share to itself is the share.
LEMMA BetweenSelf ==
  ASSUME NEW h \in Hash
  PROVE  Between(h, h) = {h}
BY LineSelf, LineAntisymmetric DEF Between

\* The stretch down to h is the stretch down to its parent, and h.
LEMMA BetweenStep ==
  ASSUME NEW h \in Hash, Parent[h] \in Hash, NEW a \in Line[Parent[h]]
  PROVE  /\ a \in Line[h]
         /\ Between(a, h) = {h} \cup Between(a, Parent[h])
<1>1. Line[h] = {h} \cup Line[Parent[h]]
  BY LineStep
<1> QED
  BY <1>1 DEF Between

-----------------------------------------------------------------------------
(***************************************************************************)
(* updateWorkLocked.                                                       *)
(***************************************************************************)

\* A share and its parent, both updated, start adding up at the same ancestor.
LEMMA TopsStep ==
  ASSUME NEW U, NEW h \in Hash, h \in U, Parent[h] \in Hash, Parent[h] \in U
  PROVE  Tops(h, U) = Tops(Parent[h], U)
<1> DEFINE p == Parent[h]
<1>1. Line[h] = {h} \cup Line[p]
  BY LineStep
<1>2. ASSUME NEW a \in Line[p]
      PROVE  Between(a, h) = {h} \cup Between(a, p)
  BY BetweenStep
<1>3. ASSUME NEW a \in Tops(h, U)
      PROVE  a \in Tops(p, U)
  <2>1. a \in Line[h] /\ Between(a, h) \subseteq U /\ Parent[a] \notin U
    BY DEF Tops
  <2>2. a \in Line[p]
    BY <1>1, <2>1
  <2> QED
    BY <1>2, <2>1, <2>2 DEF Tops
<1>4. ASSUME NEW a \in Tops(p, U)
      PROVE  a \in Tops(h, U)
  <2>1. a \in Line[p] /\ Between(a, p) \subseteq U /\ Parent[a] \notin U
    BY DEF Tops
  <2>2. a \in Line[h] /\ Between(a, h) \subseteq U
    BY <1>1, <1>2, <2>1
  <2> QED
    BY <2>1, <2>2 DEF Tops
<1> QED
  BY <1>3, <1>4

\* An updated share whose parent is not updated starts at itself.
LEMMA TopsRoot ==
  ASSUME NEW U, NEW h \in Hash, h \in U, Parent[h] \notin U
  PROVE  Tops(h, U) = {h}
<1>1. h \in Tops(h, U)
  BY BetweenSelf, LineSelf DEF Tops
<1>2. ASSUME NEW a \in Tops(h, U), a # h
      PROVE  FALSE
  <2>1. a \in Line[h] /\ Between(a, h) \subseteq U
    BY <1>2 DEF Tops
  <2>2. Parent[h] \in Hash
    BY <1>2, <2>1, LineRoot
  <2>3. a \in Line[Parent[h]]
    BY <1>2, <2>1, <2>2, LineStep
  <2>4. Parent[h] \in Between(a, h)
    BY <2>2, <2>3, LineStep, LineSelf DEF Between
  <2> QED
    BY <2>1, <2>4
<1> QED
  BY <1>1, <1>2

\* After an update every visited share has its held parent's value plus its own.
LEMMA AccumulatedFits ==
  ASSUME NEW f \in [Hash -> Int], NEW total \in [Hash -> Nat],
         NEW H \in SUBSET Hash, NEW U \in SUBSET H, NEW h \in U
  PROVE  Accumulated(f, total, U, H)[h] =
            total[h] - At(total, Parent[h])
            + (IF Parent[h] \in H THEN Accumulated(f, total, U, H)[Parent[h]] ELSE 0)
<1> DEFINE F == Accumulated(f, total, U, H)
           p == Parent[h]
           Top(x) == CHOOSE a \in Tops(x, U) : TRUE
           Base(a) == IF Parent[a] \in H THEN f[Parent[a]] ELSE 0
<1>1. ASSUME NEW x \in U
      PROVE  F[x] = total[x] - At(total, Parent[Top(x)]) + Base(Top(x))
  BY DEF Accumulated
<1>2. p \in H \ U => F[p] = f[p]
  BY DEF Accumulated
<1>3. ASSUME NEW a
      PROVE  At(total, Parent[a]) \in Int /\ Base(a) \in Int
  BY DEF At
<1>4. SUFFICES F[h] = total[h] - At(total, p) + (IF p \in H THEN F[p] ELSE 0)
  OBVIOUS
<1>5. CASE p \in U
  <2>1. Top(h) = Top(p)
    BY <1>5, TopsStep
  <2>2. F[h] = total[h] - At(total, Parent[Top(h)]) + Base(Top(h))
    BY <1>1
  <2>3. F[p] = total[p] - At(total, Parent[Top(p)]) + Base(Top(p))
    BY <1>1, <1>5
  <2>4. At(total, Parent[Top(h)]) \in Int /\ Base(Top(h)) \in Int
    BY <1>3
  <2>5. At(total, p) = total[p] /\ total[p] \in Int /\ total[h] \in Int /\ p \in H
    BY <1>5 DEF At
  <2> HIDE DEF F, Top, Base
  <2> QED
    BY <2>1, <2>2, <2>3, <2>4, <2>5
<1>6. CASE p \notin U
  <2>1. Top(h) = h
    BY <1>6, TopsRoot
  <2>2. F[h] = total[h] - At(total, Parent[Top(h)]) + Base(Top(h))
    BY <1>1
  <2>3. F[h] = total[h] - At(total, p) + Base(h)
    BY <2>1, <2>2
  <2> HIDE DEF F, Top
  <2> QED
    BY <1>2, <1>6, <2>3
<1> QED
  BY <1>5, <1>6

\* An update leaves the other held shares alone and yields integers.
LEMMA AccumulatedElse ==
  ASSUME NEW f \in [Hash -> Int], NEW total \in [Hash -> Nat],
         NEW H \in SUBSET Hash, NEW U
  PROVE  /\ Accumulated(f, total, U, H) \in [Hash -> Int]
         /\ \A h \in H \ U : Accumulated(f, total, U, H)[h] = f[h]
<1>1. ASSUME NEW x
      PROVE  At(total, x) \in Int /\ (IF x \in H THEN f[x] ELSE 0) \in Int
  BY DEF At
<1>2. ASSUME NEW h \in Hash
      PROVE  Accumulated(f, total, U, H)[h] \in Int
  <2> DEFINE a == CHOOSE x \in Tops(h, U) : TRUE
  <2>1. total[h] - At(total, Parent[a]) + (IF Parent[a] \in H THEN f[Parent[a]] ELSE 0) \in Int
    BY <1>1
  <2> QED
    BY <2>1 DEF Accumulated
<1> QED
  BY <1>2 DEF Accumulated

\* The shares an update reaches from hs include hs and are held.
LEMMA DescendantsHeld ==
  ASSUME NEW H \in SUBSET Hash, NEW hs \in SUBSET H, NEW kids,
         \A p \in Hash : kids[p] = {h \in H : Parent[h] = p}
  PROVE  hs \subseteq Descendants(hs, kids) /\ Descendants(hs, kids) \subseteq H
<1>1. hs \subseteq Descendants(hs, kids)
  BY BetweenSelf, LineSelf DEF Descendants
<1>2. ASSUME NEW h \in Descendants(hs, kids), h \notin hs
      PROVE  h \in H
  <2>1. PICK s \in hs : s \in Line[h] /\ \A b \in Between(s, h) \ {s} : b \in kids[Parent[b]]
    BY DEF Descendants
  <2>2. h \in Hash /\ h \in Between(s, h) \ {s}
    BY <1>2, <2>1, LineSelf DEF Descendants, Between
  <2>3. Parent[h] \in Hash
    BY <1>2, <2>1, <2>2, LineRoot
  <2> QED
    BY <2>1, <2>2, <2>3
<1> QED
  BY <1>1, <1>2

\* ... and with a share they include its held children.
LEMMA DescendantsClosed ==
  ASSUME NEW H \in SUBSET Hash, NEW hs \in SUBSET H, NEW kids,
         \A p \in Hash : kids[p] = {h \in H : Parent[h] = p},
         NEW h \in H, Parent[h] \in Descendants(hs, kids)
  PROVE  h \in Descendants(hs, kids)
<1> DEFINE p == Parent[h]
<1>1. p \in Hash
  BY DEF Descendants
<1>2. PICK s \in hs : s \in Line[p] /\ \A b \in Between(s, p) \ {s} : b \in kids[Parent[b]]
  BY DEF Descendants
<1>3. s \in Line[h] /\ Between(s, h) = {h} \cup Between(s, p)
  BY <1>1, <1>2, BetweenStep
<1>4. h \in kids[Parent[h]]
  BY <1>1
<1> QED
  BY <1>2, <1>3, <1>4 DEF Descendants

\* One update of the maps: a share it visits fits its parent's values; so does one it
\* does not visit, if it fitted before and its parent did not come or go.
LEMMA UpdateFits ==
  ASSUME TypeOK, held' \in SUBSET Hash, ChildrenExact',
         NEW S \in SUBSET held', updateWork(Descendants(S, children')),
         NEW h \in held',
         \/ h \in Descendants(S, children')
         \/ h \in held /\ WorkFits(h) /\ (Parent[h] \in held' <=> Parent[h] \in held)
  PROVE  WorkFits(h)'
<1> DEFINE U == Descendants(S, children')
           p == Parent[h]
<1>1. \A q \in Hash : children'[q] = {x \in held' : Parent[x] = q}
  BY DEF ChildrenExact
<1>2. U \in SUBSET held'
  BY <1>1, DescendantsHeld
<1>3. p \in U => h \in U
  BY <1>1, DescendantsClosed
<1>4. /\ cumWork \in [Hash -> Int] /\ chainLen \in [Hash -> Int]
      /\ TotalWork \in [Hash -> Nat] /\ TotalLen \in [Hash -> Nat]
  BY TotalAssumption DEF TypeOK
<1>5. /\ cumWork' = Accumulated(cumWork, TotalWork, U, held')
      /\ chainLen' = Accumulated(chainLen, TotalLen, U, held')
  BY DEF updateWork
<1>6. /\ TotalWork[h] = OwnWork(h) + At(TotalWork, p)
      /\ TotalLen[h] = OwnLen(h) + At(TotalLen, p)
      /\ OwnWork(h) \in Int /\ OwnLen(h) \in Int
      /\ At(TotalWork, p) \in Int /\ At(TotalLen, p) \in Int
  BY <1>4, TotalAssumption, ShareAssumption, BoundAssumption DEF OwnWork, OwnLen, At
<1>7. CASE h \in U
  <2>1. cumWork'[h] = TotalWork[h] - At(TotalWork, p) + (IF p \in held' THEN cumWork'[p] ELSE 0)
    BY <1>2, <1>4, <1>5, <1>7, AccumulatedFits
  <2>2. chainLen'[h] = TotalLen[h] - At(TotalLen, p) + (IF p \in held' THEN chainLen'[p] ELSE 0)
    BY <1>2, <1>4, <1>5, <1>7, AccumulatedFits
  <2> HIDE DEF U
  <2> QED
    BY <1>6, <2>1, <2>2 DEF WorkFits
<1>8. CASE h \notin U
  <2>1. p \notin U
    BY <1>3, <1>8
  <2> HIDE DEF U
  <2>2. \A x \in held' \ U : cumWork'[x] = cumWork[x] /\ chainLen'[x] = chainLen[x]
    BY <1>5 DEF Accumulated
  <2>3. h \in held /\ WorkFits(h) /\ (p \in held' <=> p \in held)
    BY <1>8 DEF U
  <2> QED
    BY <1>8, <2>1, <2>2, <2>3 DEF WorkFits
<1> QED
  BY <1>7, <1>8

\* An update and a tip move keep the types.
LEMMA WorkTyped ==
  ASSUME TypeOK, held' \in SUBSET Hash, NEW U, updateWork(U)
  PROVE  cumWork' \in [Hash -> Int] /\ chainLen' \in [Hash -> Int]
BY AccumulatedElse, TotalAssumption DEF TypeOK, updateWork

LEMMA TipTyped ==
  ASSUME TypeOK, NEW C \in SUBSET Hash, moveTip(C)
  PROVE  tip' \in Hash \cup {Genesis}
BY DEF TypeOK, moveTip, Best

-----------------------------------------------------------------------------
(***************************************************************************)
(* The actions preserve ChainInv.                                          *)
(***************************************************************************)

\* Unlinking keeps the index, the arrival times and the ghosts in order.
LEMMA UnlinkInv ==
  ASSUME ChainInv, NEW D \in SUBSET Hash, unlinkShares(D), now' = now
  PROVE  /\ held' \in SUBSET Hash /\ verified' \in SUBSET Hash /\ dirty' \in SUBSET Hash
         /\ received' \in [Hash -> Int] /\ children' \in [Hash -> SUBSET Hash]
         /\ ChildrenExact' /\ ReceivedExact'
         /\ \A h \in verified' \ held' : Aged(h)
         /\ Candidates' \subseteq Hash
<1> DEFINE gone == D \cap held
<1>1. TypeOK /\ ChildrenExact /\ ReceivedExact /\ GhostsAged
  BY DEF ChainInv
<1>2. /\ held' \in SUBSET Hash /\ verified' \in SUBSET Hash /\ dirty' \in SUBSET Hash
      /\ received' \in [Hash -> Int] /\ children' \in [Hash -> SUBSET Hash]
  BY <1>1 DEF TypeOK, unlinkShares, NotReceived
<1>3. ChildrenExact'
  BY <1>1 DEF unlinkShares, ChildrenExact, TypeOK
<1>4. ReceivedExact'
  BY <1>1 DEF unlinkShares, ReceivedExact, Unverified, Aged, TypeOK
<1>5. \A h \in verified' \ held' : Aged(h)
  BY <1>1 DEF unlinkShares, GhostsAged
<1> QED
  BY <1>2, <1>3, <1>4, <1>5 DEF Candidates

\* dropWorkLocked restores the fit of every share whose parent was unlinked.
LEMMA DropFits ==
  ASSUME TypeOK, held' \in SUBSET Hash, children' \in [Hash -> SUBSET Hash], ChildrenExact',
         Candidates' \subseteq Hash, NEW D \in SUBSET Hash, NEW r \in BOOLEAN, dropWork(D, r)
  PROVE  /\ cumWork' \in [Hash -> Int] /\ chainLen' \in [Hash -> Int]
         /\ tip' \in Hash \cup {Genesis}
         /\ \A h \in held' : (\/ Parent[h] \in D
                             \/ /\ h \in held /\ WorkFits(h)
                                /\ Parent[h] \in held' <=> Parent[h] \in held) => WorkFits(h)'
<1> DEFINE S == UNION {children'[h] : h \in D}
           U == Descendants(S, children')
<1>1. \A q \in Hash : children'[q] = {x \in held' : Parent[x] = q}
  BY DEF ChildrenExact
<1>2. S \in SUBSET held'
  BY <1>1
<1>3. S \subseteq U
  BY <1>1, <1>2, DescendantsHeld
<1>4. updateWork(U)
  BY DEF dropWork
<1>5. cumWork' \in [Hash -> Int] /\ chainLen' \in [Hash -> Int]
  BY <1>4, WorkTyped
<1>6. tip' \in Hash \cup {Genesis}
  <2>1. moveTip(Candidates') \/ tip' = tip
    BY DEF dropWork, selectTip
  <2> QED
    BY <2>1, TipTyped DEF TypeOK
<1>7. ASSUME NEW h \in held',
             \/ Parent[h] \in D
             \/ h \in held /\ WorkFits(h) /\ (Parent[h] \in held' <=> Parent[h] \in held)
      PROVE  WorkFits(h)'
  <2>1. Parent[h] \in D => h \in S
    BY <1>1
  <2>2. h \in U \/ (h \in held /\ WorkFits(h) /\ (Parent[h] \in held' <=> Parent[h] \in held))
    BY <1>3, <1>7, <2>1
  <2> QED
    BY <1>2, <1>4, <2>2, UpdateFits
<1> QED
  BY <1>5, <1>6, <1>7

\* Removing shares, none of them under way in a pass unless past retention.
LEMMA RemoveInv ==
  ASSUME ChainInv, NEW D \in SUBSET Hash, removeShares(D), UNCHANGED <<passVars, now>>,
         \A h \in D : UnderWay(h) => Aged(h)
  PROVE  ChainInv'
<1> DEFINE rescan == D \cap Candidates # {}
<1>1. unlinkShares(D) /\ dropWork(D, rescan) /\ rescan \in BOOLEAN /\ now' = now
  BY DEF removeShares
<1>2. TypeOK
  BY DEF ChainInv
<1>3. /\ held' \in SUBSET Hash /\ verified' \in SUBSET Hash /\ dirty' \in SUBSET Hash
      /\ received' \in [Hash -> Int] /\ children' \in [Hash -> SUBSET Hash]
      /\ ChildrenExact' /\ ReceivedExact'
      /\ \A h \in verified' \ held' : Aged(h)
      /\ Candidates' \subseteq Hash
  BY <1>1, UnlinkInv
<1>4. /\ cumWork' \in [Hash -> Int] /\ chainLen' \in [Hash -> Int]
      /\ tip' \in Hash \cup {Genesis}
      /\ \A h \in held' : (\/ Parent[h] \in D
                          \/ /\ h \in held /\ WorkFits(h)
                             /\ Parent[h] \in held' <=> Parent[h] \in held) => WorkFits(h)'
  BY <1>1, <1>2, <1>3, DropFits
<1>5. /\ now' = now /\ due' = due /\ pc' = pc /\ pend' = pend /\ pendLen' = pendLen
      /\ cur' = cur /\ hLen' = hLen /\ eff' = eff /\ rejected' = rejected
  BY DEF passVars
<1>6. TypeOK'
  BY <1>2, <1>3, <1>4, <1>5 DEF TypeOK
<1>7. GhostsAged'
  BY <1>3, <1>5 DEF GhostsAged, Aged
<1>8. UnderWayHeld'
  BY <1>1, <1>5 DEF ChainInv, UnderWayHeld, UnderWay, Aged, unlinkShares
<1>9. WorkFitsButRejected'
  BY <1>1, <1>4, <1>5 DEF ChainInv, WorkFitsButRejected, unlinkShares
<1>10. (cur \notin pend)' /\ PassLocals'
  BY <1>5 DEF ChainInv, PassLocals
<1> QED
  BY <1>3, <1>6, <1>7, <1>8, <1>9, <1>10 DEF ChainInv

\* AddSharesOutcomes: a stored share that is in `verified` already was a ghost, so it is
\* past retention.
LEMMA AddSharesInv ==
  ASSUME ChainInv, NEW B \in SUBSET Hash, NEW t \in Readings, AddShares(B, t)
  PROVE  ChainInv'
<1> DEFINE new == {h \in B \ held : CheckShareTime(h, t) /\ ValidAlone(h)}
           U == Descendants(new, children')
<1>1. TypeOK /\ ChildrenExact /\ ReceivedExact /\ GhostsAged
  BY DEF ChainInv
<1>2. /\ held' = held \cup new /\ verified' = verified /\ dirty' = dirty
      /\ received' = [h \in Hash |-> IF h \in new THEN t ELSE received[h]]
      /\ children' = [p \in Hash |-> children[p] \cup {h \in new : Parent[h] = p}]
      /\ updateWork(U) /\ considerTip(U)
      /\ due' = due + 1
      /\ now' = now /\ pc' = pc /\ pend' = pend /\ pendLen' = pendLen
      /\ cur' = cur /\ hLen' = hLen /\ eff' = eff /\ rejected' = rejected
  BY DEF AddShares
<1>3. new \in SUBSET Hash /\ new \cap held = {} /\ held' \in SUBSET Hash
  BY <1>1, <1>2 DEF TypeOK
<1>4. t \in Nat /\ \A h \in new \cap verified : Aged(h)'
  BY <1>1, <1>2, <1>3 DEF GhostsAged, Aged, Readings, TypeOK
<1>5. ChildrenExact'
  BY <1>1, <1>2 DEF ChildrenExact, TypeOK
<1>6. ReceivedExact'
  <2> HIDE DEF new
  <2> QED
    BY <1>1, <1>2, <1>3, <1>4 DEF ReceivedExact, Unverified, NotReceived, Aged, TypeOK
<1>7. cumWork' \in [Hash -> Int] /\ chainLen' \in [Hash -> Int]
  BY <1>1, <1>2, <1>3, WorkTyped
<1>8. tip' \in Hash \cup {Genesis}
  <2>1. Candidates' \subseteq Hash
    BY <1>1, <1>2 DEF Candidates, TypeOK
  <2>2. moveTip((U \cup {tip}) \cap Candidates')
    BY <1>2 DEF considerTip
  <2> QED
    BY <1>1, <2>1, <2>2, TipTyped
<1>9. TypeOK'
  <2>1. children' \in [Hash -> SUBSET Hash] /\ received' \in [Hash -> Int]
    BY <1>1, <1>2, <1>4 DEF TypeOK
  <2> QED
    BY <1>1, <1>2, <1>3, <1>7, <1>8, <2>1 DEF TypeOK
<1>10. GhostsAged' /\ UnderWayHeld'
  BY <1>2 DEF ChainInv, GhostsAged, UnderWayHeld, UnderWay, Aged
<1>11. WorkFitsButRejected'
  <2>1. new \subseteq U
    BY <1>2, <1>3, <1>5, DescendantsHeld DEF ChildrenExact
  <2>2. ASSUME NEW h \in held', Parent[h] \in new
        PROVE  h \in U
    <3>1. Parent[h] \in U
      BY <2>1, <2>2
    <3> QED
      BY <1>2, <1>3, <1>5, <3>1, DescendantsClosed DEF ChildrenExact
  <2>3. ASSUME NEW h \in held', Parent[h] \notin rejected
        PROVE  WorkFits(h)'
    <3>1. \/ h \in U
          \/ h \in held /\ WorkFits(h) /\ (Parent[h] \in held' <=> Parent[h] \in held)
      BY <1>2, <2>1, <2>2, <2>3 DEF ChainInv, WorkFitsButRejected
    <3> QED
      BY <1>1, <1>2, <1>3, <1>5, <3>1, UpdateFits
  <2> QED
    BY <1>2, <2>3 DEF WorkFitsButRejected
<1>12. (cur \notin pend)' /\ PassLocals'
  BY <1>1, <1>2 DEF ChainInv, PassLocals, TypeOK
<1> QED
  BY <1>5, <1>6, <1>9, <1>10, <1>11, <1>12 DEF ChainInv

\* Both prunes.
LEMMA MaintenanceInv == ChainInv /\ Maintenance => ChainInv'
<1>1. ASSUME ChainInv, PruneOldShares PROVE ChainInv'
  <2>1. /\ removeShares({h \in held : Aged(h)}) /\ UNCHANGED <<passVars, now>>
        /\ {h \in held : Aged(h)} \in SUBSET Hash
    BY <1>1 DEF PruneOldShares, ChainInv, TypeOK
  <2> QED
    BY <1>1, <2>1, RemoveInv
<1>2. ASSUME ChainInv, NEW t \in Readings, pruneUnverified(t) PROVE ChainInv'
  <2>1. PICK D \in SUBSET Hash : removeShares(D)
    BY <1>2 DEF pruneUnverified, dropUnverified, Unverified
  <2>2. UNCHANGED <<passVars, now>>
    BY <1>2 DEF pruneUnverified, dropUnverified
  <2>3. \A h \in D : ~UnderWay(h)
    BY <1>2 DEF pruneUnverified, ChainInv, PassLocals, UnderWay
  <2> QED
    BY <1>2, <2>1, <2>2, <2>3, RemoveInv
<1> QED
  BY <1>1, <1>2 DEF Maintenance

\* The steps of a pass that only read the chain.
LEMMA PassReadInv ==
  ASSUME ChainInv, UNCHANGED <<storeVars, workVars, now>>, TypeOK',
         \A h \in Hash : UnderWay(h)' => UnderWay(h) \/ h \in held,
         rejected' = rejected, (cur \notin pend)', PassLocals'
  PROVE  ChainInv'
<1>1. /\ ChildrenExact' /\ ReceivedExact' /\ GhostsAged'
  BY DEF ChainInv, ChildrenExact, ReceivedExact, Unverified, GhostsAged, Aged, storeVars
<1>2. UnderWayHeld'
  BY DEF ChainInv, UnderWayHeld, Aged, storeVars
<1>3. WorkFitsButRejected'
  BY DEF ChainInv, WorkFitsButRejected, WorkFits, storeVars, workVars
<1> QED
  BY <1>1, <1>2, <1>3 DEF ChainInv

LEMMA PassStartInv == ChainInv /\ PassStart => ChainInv'
<1> SUFFICES ASSUME ChainInv, PassStart PROVE ChainInv'
  OBVIOUS
<1>1. TypeOK /\ PassLocals /\ pc = "idle" /\ due > 0 /\ UNCHANGED <<storeVars, workVars, now>>
  BY DEF ChainInv, PassStart
<1>2. CASE held \ verified = {}
  <2>1. PassReset /\ due' = due - 1
    BY <1>2 DEF PassStart
  <2>2. TypeOK'
    BY <1>1, <2>1 DEF TypeOK, PassReset, PassPoints, storeVars, workVars
  <2> QED
    BY <1>1, <2>1, <2>2, PassReadInv, HashAssumption
       DEF PassReset, UnderWay, PassLocals, Genesis
<1>3. CASE held \ verified # {}
  <2>1. /\ pc' = "next" /\ pend' = held \ verified
        /\ pendLen' = [h \in Hash |-> IF h \in held \ verified THEN chainLen[h] ELSE 0]
        /\ UNCHANGED <<due, cur, hLen, eff, rejected>>
    BY <1>3 DEF PassStart
  <2>2. TypeOK'
    BY <1>1, <2>1 DEF TypeOK, PassPoints, storeVars, workVars
  <2>3. cur = Genesis /\ Genesis \notin Hash
    BY <1>1, HashAssumption DEF PassLocals
  <2> QED
    BY <1>1, <2>1, <2>2, <2>3, PassReadInv DEF UnderWay, PassLocals, TypeOK
<1> QED
  BY <1>2, <1>3

LEMMA PassNextInv == ASSUME ChainInv, NEW h \in Hash, PassNext(h) PROVE ChainInv'
<1>1. TypeOK /\ PassLocals /\ cur \notin pend
  BY DEF ChainInv
<1>2. /\ pc = "next" /\ h \in pend /\ pend' = pend \ {h}
      /\ UNCHANGED <<storeVars, workVars, now, due, pendLen, eff, rejected>>
      /\ \/ UNCHANGED <<pc, cur, hLen>>
         \/ /\ pc' = "eff" /\ cur' = h
            /\ hLen' = IF Parent[h] \in held THEN chainLen[Parent[h]] ELSE 0
  BY DEF PassNext, TakeTurn
<1>3. hLen' \in Int
  BY <1>1, <1>2 DEF TypeOK
<1>4. TypeOK'
  BY <1>1, <1>2, <1>3 DEF TypeOK, PassPoints, storeVars, workVars
<1>5. (cur \notin pend)' /\ PassLocals'
  BY <1>1, <1>2 DEF PassLocals
<1>6. \A x \in Hash : UnderWay(x)' => UnderWay(x)
  BY <1>1, <1>2 DEF UnderWay
<1> QED
  BY <1>2, <1>4, <1>5, <1>6, PassReadInv

\* checkConsensus only moves the pass to its verdict.
LEMMA VerdictInv ==
  ASSUME ChainInv, pc \in {"eff", "time", "target", "diff", "coinbase", "payout"}, eff' \in Nat,
         NEW point \in PassPoints \ {"idle", "next"}, Verdict(point)
  PROVE  ChainInv'
<1>1. TypeOK /\ PassLocals /\ cur \notin pend
  BY DEF ChainInv
<1>2. /\ pc' = point
      /\ UNCHANGED <<storeVars, workVars, now, due, pend, pendLen, cur, hLen, rejected>>
  BY DEF Verdict
<1>3. cur \in Hash
  BY <1>1 DEF TypeOK, PassPoints
<1>4. TypeOK'
  BY <1>1, <1>2, <1>3 DEF TypeOK, PassPoints, storeVars, workVars
<1>5. (cur \notin pend)' /\ PassLocals'
  BY <1>1, <1>2 DEF PassLocals
<1>6. \A x \in Hash : UnderWay(x)' => UnderWay(x)
  BY <1>2 DEF UnderWay
<1> QED
  BY <1>2, <1>4, <1>5, <1>6, PassReadInv

LEMMA PassChecksInv ==
  ChainInv /\ (PassEff \/ PassTime \/ PassTarget \/ PassDiff \/ PassCoinbase \/ PassPayout) => ChainInv'
<1>1. ASSUME ChainInv, PassEff PROVE ChainInv'
  <2>1. cur \in Hash
    BY <1>1 DEF ChainInv, TypeOK, PassEff, PassPoints
  <2>2. EffectiveTime(cur) \in Nat
    BY <1>1, <2>1, ShareAssumption DEF EffectiveTime, ChainInv, TypeOK
  <2>3. \E point \in {"accept", "reject", "time"} : Verdict(point)
    BY <1>1 DEF PassEff
  <2> QED
    BY <1>1, <2>2, <2>3, VerdictInv DEF PassEff, PassPoints
<1>2. ASSUME ChainInv, PassTime PROVE ChainInv'
  <2>1. \E point \in {"accept", "reject", "target"} : Verdict(point)
    BY <1>2 DEF PassTime
  <2> QED
    BY <1>2, <2>1, VerdictInv DEF PassTime, PassPoints, ChainInv, TypeOK
<1>3. ASSUME ChainInv, PassTarget PROVE ChainInv'
  <2>1. \E point \in {"diff", "coinbase"} : Verdict(point)
    BY <1>3 DEF PassTarget
  <2> QED
    BY <1>3, <2>1, VerdictInv DEF PassTarget, PassPoints, ChainInv, TypeOK
<1>4. ASSUME ChainInv, PassCoinbase PROVE ChainInv'
  <2>1. \E point \in {"accept", "payout"} : Verdict(point)
    BY <1>4 DEF PassCoinbase
  <2> QED
    BY <1>4, <2>1, VerdictInv DEF PassCoinbase, PassPoints, ChainInv, TypeOK
<1>5. ASSUME ChainInv, PassDiff PROVE ChainInv'
  <2>1. \E point \in {"reject", "coinbase"} : Verdict(point)
    BY <1>5 DEF PassDiff
  <2> QED
    BY <1>5, <2>1, VerdictInv DEF PassDiff, PassPoints, ChainInv, TypeOK
<1>6. ASSUME ChainInv, PassPayout PROVE ChainInv'
  <2>1. \E point \in {"accept", "reject"} : Verdict(point)
    BY <1>6 DEF PassPayout
  <2> QED
    BY <1>6, <2>1, VerdictInv DEF PassPayout, PassPoints, ChainInv, TypeOK
<1> QED
  BY <1>1, <1>2, <1>3, <1>4, <1>5, <1>6

\* markVerifiedLocked: if the share is no longer held it was pruned by age.
LEMMA PassAcceptInv == ChainInv /\ PassAccept => ChainInv'
<1> SUFFICES ASSUME ChainInv, PassAccept PROVE ChainInv'
  OBVIOUS
<1>1. TypeOK /\ ChildrenExact /\ ReceivedExact /\ GhostsAged /\ UnderWayHeld /\ PassLocals
  BY DEF ChainInv
<1>2. /\ pc = "accept" /\ verified' = verified \cup {cur} /\ dirty' = dirty \cup {cur}
      /\ received' = [received EXCEPT ![cur] = NotReceived]
      /\ held' = held /\ children' = children /\ cumWork' = cumWork /\ chainLen' = chainLen
      /\ considerTip({cur})
      /\ pc' = "next" /\ cur' = Genesis /\ hLen' = 0 /\ eff' = 0 /\ rejected' = rejected
      /\ now' = now /\ due' = due /\ pend' = pend /\ pendLen' = pendLen
  BY DEF PassAccept, TurnOver
<1>3. cur \in Hash
  BY <1>1, <1>2 DEF TypeOK, PassPoints
<1>4. cur \in held \/ Aged(cur)
  BY <1>1, <1>2, <1>3 DEF UnderWayHeld, UnderWay
<1>5. tip' \in Hash \cup {Genesis}
  <2>1. Candidates' \subseteq Hash
    BY <1>1, <1>2 DEF Candidates, TypeOK
  <2>2. moveTip(({cur} \cup {tip}) \cap Candidates')
    BY <1>2 DEF considerTip
  <2> QED
    BY <1>1, <2>1, <2>2, TipTyped
<1>6. TypeOK'
  <2>1. received' \in [Hash -> Int]
    BY <1>1, <1>2 DEF TypeOK, NotReceived
  <2> QED
    BY <1>1, <1>2, <1>3, <1>5, <2>1 DEF TypeOK, PassPoints
<1>7. ReceivedExact'
  BY <1>1, <1>2, <1>3 DEF ReceivedExact, Unverified, Aged, TypeOK
<1>8. GhostsAged'
  BY <1>1, <1>2, <1>4 DEF GhostsAged, Aged
<1>9. ChildrenExact' /\ UnderWayHeld'
  BY <1>1, <1>2 DEF ChildrenExact, UnderWayHeld, UnderWay, Aged
<1>10. WorkFitsButRejected'
  BY <1>2 DEF ChainInv, WorkFitsButRejected, WorkFits
<1>11. (cur \notin pend)' /\ PassLocals'
  BY <1>1, <1>2, HashAssumption DEF PassLocals, TypeOK
<1> QED
  BY <1>6, <1>7, <1>8, <1>9, <1>10, <1>11 DEF ChainInv

\* A rejected share's children are the ones excused until the pass ends.
LEMMA PassRejectInv == ChainInv /\ PassReject => ChainInv'
<1> SUFFICES ASSUME ChainInv, PassReject PROVE ChainInv'
  OBVIOUS
<1>1. TypeOK /\ UnderWayHeld /\ PassLocals /\ WorkFitsButRejected /\ cur \notin pend
  BY DEF ChainInv
<1>2. /\ pc = "reject" /\ unlinkShares({cur}) /\ updateWork({}) /\ tip' = tip
      /\ rejected' = rejected \cup {cur}
      /\ pc' = "next" /\ cur' = Genesis /\ hLen' = 0 /\ eff' = 0
      /\ now' = now /\ due' = due /\ pend' = pend /\ pendLen' = pendLen
  BY DEF PassReject, TurnOver
<1>3. cur \in Hash
  BY <1>1, <1>2 DEF TypeOK, PassPoints
<1>4. /\ held' \in SUBSET Hash /\ verified' \in SUBSET Hash /\ dirty' \in SUBSET Hash
      /\ received' \in [Hash -> Int] /\ children' \in [Hash -> SUBSET Hash]
      /\ ChildrenExact' /\ ReceivedExact'
      /\ \A h \in verified' \ held' : Aged(h)
  BY <1>2, <1>3, UnlinkInv
<1>5. cumWork' \in [Hash -> Int] /\ chainLen' \in [Hash -> Int]
  BY <1>1, <1>2, <1>4, WorkTyped
<1>6. TypeOK'
  BY <1>1, <1>2, <1>3, <1>4, <1>5 DEF TypeOK, PassPoints
<1>7. GhostsAged'
  BY <1>2, <1>4 DEF GhostsAged, Aged
<1>8. UnderWayHeld'
  BY <1>1, <1>2 DEF UnderWayHeld, UnderWay, Aged, unlinkShares
<1>9. WorkFitsButRejected'
  <2>1. held' = held \ {cur}
    BY <1>2 DEF unlinkShares
  <2>2. \A h \in held' : cumWork'[h] = cumWork[h] /\ chainLen'[h] = chainLen[h]
    BY <1>2, <1>4 DEF updateWork, Accumulated
  <2> QED
    BY <1>1, <1>2, <2>1, <2>2 DEF WorkFitsButRejected, WorkFits
<1>10. (cur \notin pend)' /\ PassLocals'
  BY <1>1, <1>2, HashAssumption DEF PassLocals, TypeOK
<1> QED
  BY <1>4, <1>6, <1>7, <1>8, <1>9, <1>10 DEF ChainInv

\* The end of the pass brings the excused children up to date.
LEMMA PassEndInv == ChainInv /\ PassEnd => ChainInv'
<1> SUFFICES ASSUME ChainInv, PassEnd PROVE ChainInv'
  OBVIOUS
<1>1. TypeOK /\ ChildrenExact /\ WorkFitsButRejected
  BY DEF ChainInv
<1>2. /\ UNCHANGED storeVars /\ dropWork(rejected, FALSE) /\ now' = now /\ due' = due - 1
      /\ pc' = "idle" /\ pend' = {} /\ cur' = Genesis /\ hLen' = 0 /\ eff' = 0
      /\ pendLen' = [h \in Hash |-> 0] /\ rejected' = {}
  BY DEF PassEnd, PassReset
<1>3. /\ held' = held /\ verified' = verified /\ received' = received
      /\ children' = children /\ dirty' = dirty
  BY <1>2 DEF storeVars
<1>4. held' \in SUBSET Hash /\ children' \in [Hash -> SUBSET Hash] /\ Candidates' \subseteq Hash
  BY <1>1, <1>3 DEF TypeOK, Candidates
<1>5. ChildrenExact' /\ ReceivedExact' /\ GhostsAged'
  BY <1>2, <1>3 DEF ChainInv, ChildrenExact, ReceivedExact, Unverified, GhostsAged, Aged
<1>6. /\ cumWork' \in [Hash -> Int] /\ chainLen' \in [Hash -> Int]
      /\ tip' \in Hash \cup {Genesis}
      /\ \A h \in held' : (\/ Parent[h] \in rejected
                          \/ /\ h \in held /\ WorkFits(h)
                             /\ Parent[h] \in held' <=> Parent[h] \in held) => WorkFits(h)'
  BY <1>1, <1>2, <1>4, <1>5, DropFits DEF TypeOK
<1>7. due' \in Nat
  BY <1>1, <1>2 DEF ChainInv, TypeOK, PassLocals, PassEnd
<1>8. TypeOK'
  BY <1>1, <1>2, <1>3, <1>6, <1>7 DEF TypeOK, PassPoints
<1>9. WorkFitsButRejected'
  BY <1>1, <1>3, <1>6 DEF WorkFitsButRejected
<1>10. UnderWayHeld' /\ (cur \notin pend)' /\ PassLocals'
  BY <1>2 DEF UnderWayHeld, UnderWay, PassLocals
<1> QED
  BY <1>5, <1>8, <1>9, <1>10 DEF ChainInv

LEMMA PassInv == ChainInv /\ Pass => ChainInv'
BY PassStartInv, PassNextInv, PassChecksInv, PassAcceptInv, PassRejectInv, PassEndInv DEF Pass

\* Time only adds to the shares past retention.
LEMMA TickInv == ChainInv /\ Tick => ChainInv'
<1> SUFFICES ASSUME ChainInv, Tick PROVE ChainInv'
  OBVIOUS
<1>1. /\ TypeOK /\ now' = now + 1 /\ UNCHANGED <<storeVars, workVars, passVars>>
  BY DEF ChainInv, Tick
<1>2. TypeOK'
  BY <1>1 DEF TypeOK, storeVars, workVars, passVars
<1>3. \A h \in Hash : Aged(h) => Aged(h)'
  BY <1>1, ShareAssumption, BoundAssumption DEF Aged, TypeOK
<1>4. GhostsAged' /\ UnderWayHeld'
  BY <1>1, <1>3 DEF ChainInv, GhostsAged, UnderWayHeld, UnderWay, storeVars, passVars, TypeOK
<1>5. ChildrenExact' /\ ReceivedExact'
  BY <1>1, <1>3 DEF ChainInv, ChildrenExact, ReceivedExact, Unverified, storeVars, TypeOK
<1>6. WorkFitsButRejected'
  BY <1>1 DEF ChainInv, WorkFitsButRejected, WorkFits, storeVars, workVars, passVars
<1>7. (cur \notin pend)' /\ PassLocals'
  BY <1>1 DEF ChainInv, PassLocals, passVars
<1> QED
  BY <1>2, <1>4, <1>5, <1>6, <1>7 DEF ChainInv

LEMMA ChainInvInit == Init => ChainInv
<1> SUFFICES ASSUME Init PROVE ChainInv
  OBVIOUS
<1>1. TypeOK /\ PassLocals /\ cur \notin pend
  BY DEF Init, InitPass, TypeOK, PassPoints, NotReceived, PassLocals
<1>2. ChildrenExact /\ ReceivedExact /\ GhostsAged
  BY DEF Init, ChildrenExact, ReceivedExact, Unverified, GhostsAged
<1>3. UnderWayHeld /\ WorkFitsButRejected
  BY DEF Init, InitPass, UnderWayHeld, UnderWay, WorkFitsButRejected
<1> QED
  BY <1>1, <1>2, <1>3 DEF ChainInv

LEMMA ChainInvStutter == ChainInv /\ UNCHANGED vars => ChainInv'
BY DEF ChainInv, vars, storeVars, workVars, passVars, TypeOK, ChildrenExact, ReceivedExact,
       Unverified, GhostsAged, Aged, UnderWayHeld, UnderWay, WorkFitsButRejected, WorkFits,
       PassLocals

\* The inductive invariant holds in every reachable state of the chain, for every
\* share graph, every difficulty and every retention bound.
THEOREM ChainCorrect == Spec => []ChainInv
<1>1. ChainInv /\ [Next]_vars => ChainInv'
  BY AddSharesInv, PassInv, MaintenanceInv, TickInv, ChainInvStutter DEF Next, Arrivals
<1> QED
  BY ChainInvInit, <1>1, PTL DEF Spec

-----------------------------------------------------------------------------
(***************************************************************************)
(* The theorems.                                                           *)
(***************************************************************************)

\* The incremental updates of addWorkLocked, removeSharesLocked and verifyPending
\* leave every held share with the work and length a full recompute would give.
THEOREM WorkStaysExact == Spec => []WorkExact
<1>1. ChainInv => WorkExact
  BY DEF ChainInv, WorkFitsButRejected, PassLocals, WorkExact
<1> QED
  BY ChainCorrect, <1>1, PTL

\* The children index lists exactly the held children.
THEOREM ChildrenStayExact == Spec => []ChildrenExact
<1>1. ChainInv => ChildrenExact
  BY DEF ChainInv
<1> QED
  BY ChainCorrect, <1>1, PTL

\* The arrival map times every unverified held share and no verified one within
\* retention, although a pass may mark a share verified that PruneOldShares has just
\* removed and a caller with an old clock reading may then store it again.
THEOREM ReceivedStaysExact == Spec => []ReceivedExact
<1>1. ChainInv => ReceivedExact
  BY DEF ChainInv
<1> QED
  BY ChainCorrect, <1>1, PTL

\* Types.
THEOREM TypeCorrect == Spec => []TypeOK
<1>1. ChainInv => TypeOK
  BY DEF ChainInv
<1> QED
  BY ChainCorrect, <1>1, PTL

-----------------------------------------------------------------------------
(***************************************************************************)
(* The chain implements ShareLife.                                         *)
(***************************************************************************)

\* verified entries whose share is gone are past retention: markVerifiedLocked may hit
\* a share PruneOldShares has just taken, and never one that was rejected or expired.
THEOREM GhostsStayAged == Spec => []GhostsAged
<1>1. ChainInv => GhostsAged
  BY DEF ChainInv
<1> QED
  BY ChainCorrect, <1>1, PTL

\* The share in its turn has not been verified.
CurUnverified == cur \notin verified

LEMMA CurUnverifiedStep == ChainInv /\ CurUnverified /\ [Next]_vars => CurUnverified'
<1> SUFFICES ASSUME ChainInv, CurUnverified, [Next]_vars PROVE CurUnverified'
  OBVIOUS
<1>1. TypeOK /\ Genesis \notin Hash
  BY HashAssumption DEF ChainInv
<1>2. CASE Arrivals
  BY <1>2 DEF Arrivals, AddShares, CurUnverified
<1>3. ASSUME NEW D, unlinkShares(D), cur' = cur PROVE CurUnverified'
  BY <1>3 DEF unlinkShares, CurUnverified
<1>4. CASE Maintenance
  BY <1>3, <1>4 DEF Maintenance, PruneOldShares, pruneUnverified, dropUnverified, removeShares,
                    passVars
<1>5. CASE Tick
  BY <1>5 DEF Tick, storeVars, passVars, CurUnverified
<1>6. CASE UNCHANGED vars
  BY <1>6 DEF vars, storeVars, passVars, CurUnverified
<1>7. ASSUME Verdict(pc') PROVE CurUnverified'
  BY <1>7 DEF Verdict, storeVars, CurUnverified
<1>8. CASE PassEff \/ PassTime \/ PassTarget \/ PassDiff \/ PassCoinbase \/ PassPayout
  <2>1. \E point : Verdict(point)
    BY <1>8 DEF PassEff, PassTime, PassTarget, PassDiff, PassCoinbase, PassPayout
  <2> QED
    BY <1>7, <2>1 DEF Verdict
<1>9. CASE PassAccept \/ PassReject
  <2>1. cur' = Genesis
    BY <1>9 DEF PassAccept, PassReject, TurnOver
  <2>2. cur \in Hash
    BY <1>1, <1>9 DEF PassAccept, PassReject, TypeOK, PassPoints
  <2>3. verified' \subseteq Hash
    BY <1>1, <1>9, <2>2 DEF PassAccept, PassReject, unlinkShares, TypeOK
  <2> QED
    BY <1>1, <2>1, <2>3 DEF CurUnverified
<1>10. CASE PassEnd
  BY <1>1, <1>10 DEF PassEnd, PassReset, storeVars, TypeOK, CurUnverified
<1>11. CASE PassStart
  BY <1>1, <1>11 DEF PassStart, PassReset, storeVars, TypeOK, CurUnverified
<1>12. CASE \E h \in Hash : PassNext(h)
  BY <1>12 DEF PassNext, TakeTurn, storeVars, CurUnverified
<1> QED
  BY <1>2, <1>4, <1>5, <1>6, <1>8, <1>9, <1>10, <1>11, <1>12 DEF Next, Pass

\* Storing a batch is an arrival; what comes back verified was a ghost, past retention.
LEMMA AddSharesArrive ==
  ASSUME ChainInv, NEW B \in SUBSET Hash, NEW t \in Readings, AddShares(B, t)
  PROVE  \E N \in SUBSET Hash : Life!Arrive(N)
<1> DEFINE new == {h \in B \ held : CheckShareTime(h, t) /\ ValidAlone(h)}
           back == new \cap verified
<1>1. TypeOK /\ GhostsAged
  BY DEF ChainInv
<1>2. held' = held \cup new /\ verified' = verified /\ now' = now
  BY DEF AddShares
<1>3. \A h \in new : h \in Hash /\ h \notin held /\ Ts[h] >= now - MaxShareAge - MaxWait
  BY <1>1, ShareAssumption, BoundAssumption DEF CheckShareTime, Readings, TypeOK
<1>4. back \in SUBSET {h \in new : Ts[h] < now - MaxShareAge}
  BY <1>1, <1>3 DEF GhostsAged, Aged
<1> HIDE DEF new
<1>5. /\ new \cap ((held \ verified) \cup (held \cap verified)) = {}
      /\ (held \cap verified)' = (held \cap verified) \cup back
      /\ (held \ verified)' = (held \ verified) \cup (new \ back)
  BY <1>2, <1>3
<1>6. Life!Arrive(new)
  BY <1>2, <1>3, <1>4, <1>5 DEF Life!Arrive, Life!Old
<1> QED
  BY <1>3, <1>6

\* Shares unlinked, the verified ones among them past retention, leave.
LEMMA UnlinkLeaves ==
  ASSUME TypeOK, NEW D \in SUBSET Hash, unlinkShares(D), now' = now,
         \A h \in D \cap verified \cap held : Aged(h)
  PROVE  Life!Leave(D)
<1>1. /\ (held \ verified)' = (held \ verified) \ D
      /\ (held \cap verified)' = (held \cap verified) \ D
  BY DEF unlinkShares
<1> QED
  BY <1>1 DEF Aged, Life!Leave, Life!Old

\* Maintenance makes shares leave.
LEMMA MaintenanceMaps ==
  ASSUME ChainInv, Maintenance
  PROVE  Life!Next
<1>1. TypeOK /\ ReceivedExact
  BY DEF ChainInv
<1>2. CASE PruneOldShares
  <2>1. /\ unlinkShares({h \in held : Aged(h)}) /\ now' = now
        /\ {h \in held : Aged(h)} \in SUBSET Hash
    BY <1>1, <1>2 DEF PruneOldShares, removeShares, TypeOK
  <2>2. Life!Leave({h \in held : Aged(h)})
    BY <1>1, <2>1, UnlinkLeaves
  <2> QED
    BY <2>1, <2>2 DEF Life!Next
<1>3. ASSUME NEW t \in Readings, pruneUnverified(t) PROVE Life!Next
  <2>1. PICK D \in SUBSET Unverified : removeShares(D)
    BY <1>3 DEF pruneUnverified, dropUnverified
  <2>2. now' = now
    BY <1>3 DEF pruneUnverified, dropUnverified
  <2>3. /\ D \in SUBSET Hash /\ unlinkShares(D)
        /\ \A h \in D \cap verified \cap held : Aged(h)
    BY <1>1, <2>1 DEF Unverified, ReceivedExact, removeShares
  <2>4. Life!Leave(D)
    BY <1>1, <2>2, <2>3, UnlinkLeaves
  <2> QED
    BY <2>3, <2>4 DEF Life!Next
<1> QED
  BY <1>2, <1>3 DEF Maintenance

\* A pass accepts the share in its turn, makes it leave, or changes nothing a caller sees.
LEMMA PassMaps ==
  ASSUME ChainInv, CurUnverified, Pass
  PROVE  Life!Next \/ UNCHANGED <<held, verified, now>>
<1>1. TypeOK
  BY DEF ChainInv
<1>2. CASE PassAccept
  <2>1. cur \in Hash /\ held' = held /\ verified' = verified \cup {cur} /\ now' = now
    BY <1>1, <1>2 DEF PassAccept, TurnOver, TypeOK, PassPoints
  <2>2. CASE cur \in held
    <3>1. /\ cur \in held \ verified
          /\ (held \ verified)' = (held \ verified) \ {cur}
          /\ (held \cap verified)' = (held \cap verified) \cup {cur}
      BY <2>1, <2>2 DEF CurUnverified
    <3>2. Life!Accept(cur)
      BY <2>1, <3>1 DEF Life!Accept
    <3> QED
      BY <2>1, <3>2 DEF Life!Next
  <2>3. CASE cur \notin held
    <3>1. /\ (held \ verified)' = held \ verified
          /\ (held \cap verified)' = held \cap verified
      BY <2>1, <2>3
    <3>2. Life!Leave({})
      BY <2>1, <3>1 DEF Life!Leave
    <3> QED
      BY <3>2 DEF Life!Next
  <2> QED
    BY <2>2, <2>3
<1>3. CASE PassReject
  <2>1. cur \in Hash /\ unlinkShares({cur}) /\ now' = now
    BY <1>1, <1>3 DEF PassReject, TurnOver, TypeOK, PassPoints
  <2>2. {cur} \in SUBSET Hash /\ {cur} \cap verified \cap held = {}
    BY <2>1 DEF CurUnverified
  <2>3. Life!Leave({cur})
    BY <1>1, <2>1, <2>2, UnlinkLeaves
  <2> QED
    BY <2>2, <2>3 DEF Life!Next
<1>4. CASE PassEff \/ PassTime \/ PassTarget \/ PassDiff \/ PassCoinbase \/ PassPayout
  BY <1>4 DEF PassEff, PassTime, PassTarget, PassDiff, PassCoinbase, PassPayout, Verdict, storeVars
<1>5. CASE PassStart \/ PassEnd \/ \E h \in Hash : PassNext(h)
  BY <1>5 DEF PassStart, PassEnd, PassNext, TakeTurn, storeVars
<1> QED
  BY <1>2, <1>3, <1>4, <1>5 DEF Pass

\* For every share graph and every interleaving of callers, passes and prunes the chain
\* implements ShareLife: a share within retention is verified once, in its own turn,
\* while it is held, and a verified share is lost to its age alone.
THEOREM ImplementsShareLife == Spec => Lifecycle
<1>1. Init => Life!Init /\ CurUnverified
  BY DEF Init, InitPass, Life!Init, CurUnverified
<1>2. ASSUME ChainInv, CurUnverified, [Next]_vars
      PROVE  [Life!Next]_(Life!lifeVars)
  <2>1. ASSUME UNCHANGED <<held, verified, now>>
        PROVE  UNCHANGED Life!lifeVars
    BY <2>1 DEF Life!lifeVars
  <2>2. CASE UNCHANGED vars
    BY <2>1, <2>2 DEF vars, storeVars
  <2>3. CASE Arrivals
    BY <1>2, <2>3, AddSharesArrive DEF Arrivals, Life!Next
  <2>4. CASE Pass
    BY <1>2, <2>1, <2>4, PassMaps
  <2>5. CASE Maintenance
    BY <1>2, <2>5, MaintenanceMaps
  <2>6. CASE Tick
    BY <2>6 DEF Tick, storeVars, Life!Next, Life!Elapse
  <2> QED
    BY <1>2, <2>2, <2>3, <2>4, <2>5, <2>6 DEF Next
<1> QED
  BY <1>1, <1>2, CurUnverifiedStep, ChainCorrect, PTL DEF Spec, Lifecycle, Life!Spec
=============================================================================
