----------------------------- MODULE ShareChain -----------------------------
(***************************************************************************)
(* The in-memory share chain of one node (work/sharechain.go): shares are  *)
(* stored first and verified later, while maintenance prunes them.         *)
(*                                                                         *)
(* Three goroutine families touch it.                                      *)
(*   - AddSharesOutcomes callers (gossip, sync, download, stratum): one    *)
(*     critical section of `mutex` stores a batch, then the caller waits   *)
(*     for `verifyMu` and runs one verification pass (verifyPending).      *)
(*   - A pass holds verifyMu throughout but takes `mutex` only for short   *)
(*     sections, so stores and PruneOldShares run between any two of them. *)
(*   - maintenanceLoop: PruneOldShares (mutex only) and pruneUnverified    *)
(*     (verifyMu, then mutex).                                             *)
(* Every action below is one critical section of `mutex`.                  *)
(*                                                                         *)
(* AddSharesOutcomes and pruneUnverified go by a clock reading taken       *)
(* before they ask for their locks; PruneOldShares reads under the lock.   *)
(*                                                                         *)
(* Difficulty, timestamp and validity are functions of a share's hash,     *)
(* which commits to them.                                                  *)
(***************************************************************************)
EXTENDS Integers, FiniteSets, ShareGraph

CONSTANTS
    Diff,               \* getTargetDiff, in units of work
    Stale,              \* shares whose StaleInfo is not StaleInfoNone
    Ts,                 \* ShareInfo.Timestamp
    Defect,             \* the rule a share breaks, or "none"
    Solved,             \* shares whose POWHash also meets the network target
    Expected,           \* difficulty due on top of a share, given a full lookbehind
    TotalWork,          \* work from a share back to the first of its line
    TotalLen,           \* non-stale shares from a share back to the first
    MinPoolShareDiff, TargetLookbehind, MedianTimeShares,
    PPLNSShares, PPLNSWork, MaxPPLNSWindowAge,
    MaxShareTimeFuture, MaxShareAge, UnverifiedShareTTL, MaxUnverifiedShares,
    ConsensusV2Activation, V2MandatoryActivation, ConsensusV3Activation,
    MaxTime,            \* bound: the clock stops here
    MaxWait,            \* bound: how long a caller waits for a lock after its reading
    MaxCallers          \* bound: AddSharesOutcomes calls waiting for verifyMu

NotReceived == -1       \* absent from the `received` map

VARIABLES
    held,       \* keys of sc.shares
    verified,   \* keys of sc.verified
    received,   \* sc.received: arrival time, NotReceived for an absent key
    cumWork,    \* sc.cumWork, 0 for an absent key as a Go map reads
    chainLen,   \* sc.chainLen, likewise
    children,   \* sc.children: hash -> held shares built on it
    tip,        \* sc.TipHash
    dirty,      \* sc.dirty: what the next Commit has to write
    now,        \* the node's clock
    due,        \* callers that stored their batch and wait to run a pass
    pc,         \* where the running pass is; "idle" when verifyMu is free
    pend,       \* shares of the pass's snapshot still to be looked at
    pendLen,    \* their chainLen when the pass sorted them
    cur,        \* the share being checked
    hLen,       \* its parent's chainLen, as read at the start of its turn
    eff,        \* its effective time
    rejected    \* rejectedList

storeVars == <<held, verified, received, children, dirty>>
workVars == <<cumWork, chainLen, tip>>
passVars == <<due, pc, pend, pendLen, cur, hLen, eff, rejected>>
vars == <<storeVars, workVars, passVars, now>>

(***************************************************************************)
(* Shares.                                                                 *)
(***************************************************************************)

\* A share's own work (updateWorkLocked): none if stale, else at least the floor.
OwnWork(h) == IF h \in Stale THEN 0
              ELSE IF Diff[h] < MinPoolShareDiff THEN MinPoolShareDiff ELSE Diff[h]

OwnLen(h) == IF h \in Stale THEN 0 ELSE 1

\* The value of f at a hash, 0 outside Hash.
At(f, h) == IF h \in Hash THEN f[h] ELSE 0

Defects == {"none", "form", "version", "time", "coinbase"}
PassPoints == {"idle", "next", "eff", "time", "target", "diff", "coinbase", "payout",
               "accept", "reject"}

ASSUME ShareAssumption ==
    /\ Parent \in [Hash -> Hash \cup {Genesis}]
    /\ Stale \subseteq Hash
    /\ Solved \subseteq Hash
    /\ Diff \in [Hash -> Nat]
    /\ Ts \in [Hash -> Nat]
    /\ Defect \in [Hash -> Defects]
    /\ Expected \in [Hash -> Nat]
\* TotalWork and TotalLen are running totals along the parent links.
ASSUME TotalAssumption ==
    /\ TotalWork \in [Hash -> Nat]
    /\ TotalLen \in [Hash -> Nat]
    /\ \A h \in Hash : /\ TotalWork[h] = OwnWork(h) + At(TotalWork, Parent[h])
                       /\ TotalLen[h] = OwnLen(h) + At(TotalLen, Parent[h])
ASSUME BoundAssumption ==
    /\ MinPoolShareDiff \in Nat \ {0}
    /\ {TargetLookbehind, MedianTimeShares, PPLNSShares, PPLNSWork, MaxPPLNSWindowAge,
        MaxShareTimeFuture, MaxShareAge, UnverifiedShareTTL, MaxUnverifiedShares,
        ConsensusV2Activation, V2MandatoryActivation, ConsensusV3Activation,
        MaxTime, MaxWait, MaxCallers} \subseteq Nat
    /\ ConsensusV2Activation =< V2MandatoryActivation

-----------------------------------------------------------------------------
(***************************************************************************)
(* Cumulative work and the tip.  These operators read the primed maps: the *)
(* code runs them after it has changed shares, verified and children.      *)
(***************************************************************************)

\* Mutant of Descendants: a late parent's work does not reach its children.
DescendantsNone(hs, kids) == hs

\* The shares updateWorkLocked reaches from hs through the children index.
Descendants(hs, kids) ==
    {h \in Hash : \E s \in hs : /\ s \in Line[h]
                                /\ \A b \in Between(s, h) \ {s} : b \in kids[Parent[b]]}

\* The ancestors of h in U from which U runs unbroken down to h and whose own
\* parent is outside U: where the work of h starts to be added up.
Tops(h, U) == {a \in Line[h] : Between(a, h) \subseteq U /\ Parent[a] \notin U}

\* f after updateWorkLocked visited U, H being the held shares: each share of U gets
\* its held parent's value plus its own, parents first. `total` holds the running
\* totals of the own values, so the sum of a stretch is a difference of two.
Accumulated(f, total, U, H) ==
    [h \in Hash |->
        IF h \notin H THEN 0
        ELSE IF h \notin U THEN f[h]
        ELSE LET a == CHOOSE x \in Tops(h, U) : TRUE
             IN  total[h] - At(total, Parent[a]) + (IF Parent[a] \in H THEN f[Parent[a]] ELSE 0)]

updateWork(U) ==
    /\ cumWork' = Accumulated(cumWork, TotalWork, U, held')
    /\ chainLen' = Accumulated(chainLen, TotalLen, U, held')

\* Verified, held, not stale (isTipCandidateLocked).
Candidates == (verified \cap held) \ Stale

betterTip(w, h, bestW, bestS) == w > bestW \/ (w = bestW /\ h > bestS)

Best(C, w) == {c \in C : \A d \in C \ {c} : betterTip(w[c], c, w[d], d)}

\* The tip becomes the best of C, or stays if C is empty.
moveTip(C) == tip' \in IF C = {} THEN {tip} ELSE Best(C, cumWork')

selectTip == moveTip(Candidates')

\* Mutant of considerTip: the current tip is not among the contenders.
considerTipNew(hs) == moveTip(hs \cap Candidates')

considerTip(hs) == moveTip((hs \cup {tip}) \cap Candidates')

\* Mutant of unlinkShares: the removed share's own children entry goes as well.
unlinkSharesOrphaning(D) ==
    LET gone == D \cap held IN
    /\ held' = held \ gone
    /\ verified' = verified \ gone
    /\ received' = [h \in Hash |-> IF h \in gone THEN NotReceived ELSE received[h]]
    /\ children' = [p \in Hash |-> IF p \in gone THEN {} ELSE children[p] \ gone]
    /\ dirty' = dirty \cup gone

\* unlinkShareLocked for every share of D that is held.
unlinkShares(D) ==
    LET gone == D \cap held IN
    /\ held' = held \ gone
    /\ verified' = verified \ gone
    /\ received' = [h \in Hash |-> IF h \in gone THEN NotReceived ELSE received[h]]
    /\ children' = [p \in Hash |-> children[p] \ gone]
    /\ dirty' = dirty \cup gone

\* dropWorkLocked, after D was unlinked.
dropWork(D, rescan) ==
    LET U == Descendants(UNION {children'[h] : h \in D}, children') IN
    /\ updateWork(U)
    /\ IF rescan \/ U \cap Candidates' # {} THEN selectTip ELSE tip' = tip

removeShares(D) ==
    /\ unlinkShares(D)
    /\ dropWork(D, D \cap Candidates # {})

-----------------------------------------------------------------------------
(***************************************************************************)
(* Storing, pruning and the clock.                                         *)
(***************************************************************************)

\* What the caller of a locked operation may have read from the clock before the lock.
Readings == {t \in 0..now : now - t <= MaxWait}

\* Mutant of CheckShareTime: shares past retention are let in.
CheckShareTimeFuture(h, t) == Ts[h] <= t + MaxShareTimeFuture

\* CheckShareTime: neither too far ahead nor past the retention window, at time t.
CheckShareTime(h, t) == Ts[h] <= t + MaxShareTimeFuture /\ Ts[h] >= t - MaxShareAge

\* CheckShareTargetFloor, then IsValid.
ValidAlone(h) == Diff[h] >= MinPoolShareDiff /\ Defect[h] # "form"

\* AddSharesOutcomes up to its first Unlock, for a caller that read t from the clock
\* before Lock. A share past retention by now may still pass, and if a pass verified it
\* after it was pruned (see PassAccept), it comes back as a verified share.
AddShares(B, t) ==
    LET new == {h \in B \ held : CheckShareTime(h, t) /\ ValidAlone(h)} IN
    /\ due < MaxCallers
    /\ held' = held \cup new
    /\ UNCHANGED <<verified, dirty>>
    /\ received' = [h \in Hash |-> IF h \in new THEN t ELSE received[h]]
    /\ children' = [p \in Hash |-> children[p] \cup {h \in new : Parent[h] = p}]
    /\ LET U == Descendants(new, children') IN
       updateWork(U) /\ considerTip(U)
    /\ due' = due + 1
    /\ UNCHANGED <<now, pc, pend, pendLen, cur, hLen, eff, rejected>>

\* Shares past the retention window.
Aged(h) == Ts[h] < now - MaxShareAge

\* PruneOldShares: takes mutex but not verifyMu, so a pass may be running.
PruneOldShares ==
    /\ \E h \in held : Aged(h)
    /\ removeShares({h \in held : Aged(h)})
    /\ UNCHANGED <<passVars, now>>

\* Unverified shares that a verified share builds on without a verified one between.
Backing == {p \in held \ verified :
               \E h \in verified \cap held :
                   p \in Line[h] /\ Between(p, h) \ {h} \subseteq held \ verified}

Unverified == {h \in Hash : received[h] # NotReceived}

\* Drop the expired at time t, then the oldest arrivals above the cap.
dropUnverified(t) ==
    LET expired == {h \in Unverified \ Backing : t - received[h] >= UnverifiedShareTTL}
        keep == Unverified \ expired
    IN  /\ \E over \in SUBSET keep :
              /\ Cardinality(over) = (IF Cardinality(keep) > MaxUnverifiedShares
                                      THEN Cardinality(keep) - MaxUnverifiedShares ELSE 0)
              /\ \A o \in over, k \in keep \ over : received[o] <= received[k]
              /\ expired \cup over # {}
              /\ removeShares(expired \cup over)
        /\ UNCHANGED <<passVars, now>>

\* Mutant of pruneUnverified: without verifyMu.
pruneUnverifiedUnlocked(t) == dropUnverified(t)

\* pruneUnverified takes verifyMu, so no pass is running; its argument was read before.
pruneUnverified(t) == pc = "idle" /\ dropUnverified(t)

Tick == /\ now < MaxTime
        /\ now' = now + 1
        /\ UNCHANGED <<storeVars, workVars, passVars>>

-----------------------------------------------------------------------------
(***************************************************************************)
(* A verification pass (verifyPending and checkConsensus).                 *)
(***************************************************************************)

\* The pass's local state while no pass runs.
PassReset == /\ pc' = "idle" /\ pend' = {} /\ cur' = Genesis /\ hLen' = 0 /\ eff' = 0
             /\ pendLen' = [h \in Hash |-> 0]
             /\ rejected' = {}

\* Take verifyMu and snapshot the pending shares with the lengths they sort by.
PassStart ==
    LET todo == held \ verified IN
    /\ pc = "idle" /\ due > 0
    /\ IF todo = {} THEN PassReset /\ due' = due - 1
       ELSE /\ pc' = "next"
            /\ pend' = todo
            /\ pendLen' = [h \in Hash |-> IF h \in todo THEN chainLen[h] ELSE 0]
            /\ UNCHANGED <<due, cur, hLen, eff, rejected>>
    /\ UNCHANGED <<storeVars, workVars, now>>

\* A parent counts if it is genesis, verified, or held with a full lookbehind.
Verifiable(h) == \/ Parent[h] = Genesis
                 \/ Parent[h] \in verified
                 \/ Parent[h] \in held /\ chainLen[Parent[h]] >= TargetLookbehind

\* The turn of h starts, or h is skipped.
TakeTurn(h) ==
    /\ pend' = pend \ {h}
    /\ IF h \notin verified /\ Verifiable(h)
       THEN /\ pc' = "eff" /\ cur' = h
            /\ hLen' = IF Parent[h] \in held THEN chainLen[Parent[h]] ELSE 0
       ELSE UNCHANGED <<pc, cur, hLen>>
    /\ UNCHANGED <<storeVars, workVars, now, due, pendLen, eff, rejected>>

\* Mutant of PassNext: the snapshot is not sorted.
PassNextUnsorted(h) == pc = "next" /\ h \in pend /\ TakeTurn(h)

\* The next share in the sorted order.
PassNext(h) ==
    /\ pc = "next" /\ h \in pend
    /\ \A g \in pend : pendLen[h] <= pendLen[g]
    /\ TakeTurn(h)

\* Mutant of EffectiveTime: the share's own timestamp only.
OwnTime(h) == Ts[h]

\* effectiveTimeLocked: the later of the share's timestamp and its held parent's.
EffectiveTime(h) ==
    IF Parent[h] \in held /\ Ts[Parent[h]] > Ts[h] THEN Ts[Parent[h]] ELSE Ts[h]

\* The non-stale shares held on the unbroken line back from a share; the walk
\* starts at the tip when it is given the null hash (getOrderedChainWalkLocked).
WalkStart(p) == IF p = Genesis THEN tip ELSE p
Walk(p) == LET s == WalkStart(p) IN
           IF s \notin Hash THEN {}
           ELSE {b \in Line[s] \ Stale : Between(b, s) \subseteq held}

\* The first n shares of a walk.
WalkOf(p, n) == {b \in Walk(p) : Cardinality(Between(b, WalkStart(p)) \ Stale) <= n}

\* hasCompletePPLNSWindow: the line back from p is held up to genesis, or until the
\* window is full by share count or work, or reaches past the window's age.
WindowComplete(p) ==
    \/ p = Genesis
    \/ \E a \in Line[p] :
          LET seg == Between(a, p) IN
          /\ seg \subseteq held
          /\ \/ Parent[a] = Genesis
             \/ Cardinality(seg \ Stale) >= PPLNSShares
             \/ TotalWork[p] - At(TotalWork, Parent[a]) >= PPLNSWork
             \/ a \notin Stale /\ \E f \in seg \ Stale : /\ Between(f, p) \ Stale = {f}
                                                         /\ Ts[a] < Ts[f] - MaxPPLNSWindowAge

Verdict(point) == /\ pc' = point
                  /\ UNCHANGED <<storeVars, workVars, now, due, pend, pendLen, cur, hLen, rejected>>

\* effectiveTimeLocked, the activation test and the share version rule.
PassEff ==
    LET e == EffectiveTime(cur) IN
    /\ pc = "eff"
    /\ eff' = e
    /\ Verdict(IF e < ConsensusV2Activation THEN "accept"
               ELSE IF e >= V2MandatoryActivation /\ Defect[cur] = "version" THEN "reject"
               ELSE "time")

\* Median time past, enforced once enough shares are held; stale shares stop here.
PassTime ==
    LET known == Parent[cur] # Genesis /\ Cardinality(Walk(Parent[cur])) >= MedianTimeShares IN
    /\ pc = "time"
    /\ UNCHANGED eff
    /\ Verdict(IF eff >= ConsensusV3Activation /\ known /\ Defect[cur] = "time" THEN "reject"
               ELSE IF cur \in Stale THEN "accept"
               ELSE "target")

\* The difficulty rule is enforced when the whole lookbehind is held and activated...
PassTarget ==
    LET w == WalkOf(Parent[cur], TargetLookbehind)
        enforced == /\ Cardinality(w) >= TargetLookbehind
                    /\ \A b \in w : Cardinality(Between(b, WalkStart(Parent[cur])) \ Stale)
                                        = TargetLookbehind => Ts[b] >= ConsensusV2Activation
    IN  /\ pc = "target"
        /\ UNCHANGED eff
        /\ Verdict(IF enforced THEN "diff" ELSE "coinbase")

\* GetExpectedShareDifficulty: the floor unless the whole lookbehind is held.
ExpectedDiff(p) == IF Cardinality(WalkOf(p, TargetLookbehind)) >= TargetLookbehind
                   THEN Expected[WalkStart(p)] ELSE MinPoolShareDiff

\* Mutant of PassDiff: no exception for a share that is a block.
PassDiffBlocksToo ==
    /\ pc = "diff"
    /\ UNCHANGED eff
    /\ Verdict(IF Diff[cur] # ExpectedDiff(Parent[cur]) THEN "reject" ELSE "coinbase")

\* ...and the difficulty due is read under a lock of its own.
PassDiff ==
    /\ pc = "diff"
    /\ UNCHANGED eff
    /\ Verdict(IF cur \notin Solved /\ Diff[cur] # ExpectedDiff(Parent[cur]) THEN "reject"
               ELSE "coinbase")

\* The payout rule is enforced when the parent's payout window is complete...
PassCoinbase ==
    /\ pc = "coinbase"
    /\ UNCHANGED eff
    /\ Verdict(IF /\ hLen >= TargetLookbehind /\ WindowComplete(Parent[cur])
                  /\ eff >= ConsensusV2Activation + MaxPPLNSWindowAge THEN "payout"
               ELSE "accept")

\* ...and VerifyShareCoinbase reads the window again: over one cut short meanwhile
\* the payouts it computes may or may not be the share's.
PassPayout ==
    /\ pc = "payout"
    /\ UNCHANGED eff
    /\ \/ (WindowComplete(Parent[cur]) => Defect[cur] # "coinbase") /\ Verdict("accept")
       \/ (WindowComplete(Parent[cur]) => Defect[cur] = "coinbase") /\ Verdict("reject")

\* Mutant of TurnOver: the pass falls through to the verdict with no share.
TurnOverFallsThrough == /\ pc' = "accept" /\ cur' = Genesis /\ hLen' = 0 /\ eff' = 0
                        /\ UNCHANGED <<now, due, pend, pendLen>>

TurnOver == /\ pc' = "next" /\ cur' = Genesis /\ hLen' = 0 /\ eff' = 0
            /\ UNCHANGED <<now, due, pend, pendLen>>

\* markVerifiedLocked. It does not look whether the share is still held.
PassAccept ==
    /\ pc = "accept"
    /\ verified' = verified \cup {cur}
    /\ received' = [received EXCEPT ![cur] = NotReceived]
    /\ dirty' = dirty \cup {cur}
    /\ UNCHANGED <<held, children, cumWork, chainLen, rejected>>
    /\ considerTip({cur})
    /\ TurnOver

\* Unlink a rejected share; its descendants keep their work until the pass ends.
PassReject ==
    /\ pc = "reject"
    /\ unlinkShares({cur})
    /\ updateWork({})
    /\ tip' = tip
    /\ rejected' = rejected \cup {cur}
    /\ TurnOver

\* All turns taken: drop the rejected shares' work and release verifyMu.
PassEnd ==
    /\ pc = "next" /\ pend = {}
    /\ UNCHANGED storeVars
    /\ dropWork(rejected, FALSE)
    /\ PassReset
    /\ due' = due - 1
    /\ UNCHANGED now

Pass == PassStart \/ (\E h \in Hash : PassNext(h)) \/ PassEff \/ PassTime \/ PassTarget
        \/ PassDiff \/ PassCoinbase \/ PassPayout \/ PassAccept \/ PassReject \/ PassEnd

-----------------------------------------------------------------------------
InitPass == /\ due = 0 /\ pc = "idle" /\ pend = {} /\ cur = Genesis /\ hLen = 0 /\ eff = 0
            /\ pendLen = [h \in Hash |-> 0]
            /\ rejected = {}

\* NewShareChain: no shares, the null hash as tip.
Init == /\ held = {} /\ verified = {} /\ dirty = {}
        /\ received = [h \in Hash |-> NotReceived]
        /\ cumWork = [h \in Hash |-> 0]
        /\ chainLen = [h \in Hash |-> 0]
        /\ children = [h \in Hash |-> {}]
        /\ tip = Genesis
        /\ now = 0
        /\ InitPass

Maintenance == PruneOldShares \/ \E t \in Readings : pruneUnverified(t)

Arrivals == \E B \in SUBSET Hash \ {{}}, t \in Readings : AddShares(B, t)

Next == Arrivals \/ Pass \/ Maintenance \/ Tick

Spec == Init /\ [][Next]_vars

-----------------------------------------------------------------------------
(***************************************************************************)
(* Properties.                                                             *)
(***************************************************************************)

\* The types of the chain's maps and of the running pass, which has a share in hand
\* while it checks one.
TypeOK ==
    /\ held \subseteq Hash /\ verified \subseteq Hash /\ dirty \subseteq Hash
    /\ received \in [Hash -> Int]
    /\ cumWork \in [Hash -> Int] /\ chainLen \in [Hash -> Int]
    /\ children \in [Hash -> SUBSET Hash]
    /\ tip \in Hash \cup {Genesis}
    /\ now \in Nat /\ due \in Nat
    /\ pc \in PassPoints
    /\ pend \subseteq Hash /\ rejected \subseteq Hash
    /\ pendLen \in [Hash -> Int]
    /\ cur \in Hash \cup {Genesis}
    /\ pc \in PassPoints \ {"idle", "next"} => cur \in Hash
    /\ hLen \in Int /\ eff \in Nat

\* children lists exactly the held shares built on each hash: unlinkShareLocked and
\* linkLocked keep the index updateWorkLocked walks in step with the share map.
ChildrenExact == \A p \in Hash : children[p] = {h \in held : Parent[h] = p}

\* `received` times held shares only, every unverified one among them, and no verified
\* one within retention: pruneUnverified, which goes by it, misses no unverified share
\* and can expire a verified one only past retention, whatever PruneOldShares does in
\* the middle of a pass and however old the reading of a caller that stores again.
ReceivedExact ==
    /\ Unverified \subseteq held
    /\ held \ verified \subseteq Unverified
    /\ \A h \in Unverified \cap verified : Aged(h)

\* What recomputeWorkAndTipLocked would compute for h from its parent's values.
WorkFits(h) ==
    LET p == Parent[h] IN
    /\ cumWork[h] = OwnWork(h) + (IF p \in held THEN cumWork[p] ELSE 0)
    /\ chainLen[h] = OwnLen(h) + (IF p \in held THEN chainLen[p] ELSE 0)

\* Between passes the incrementally maintained work and length of every held share
\* are what a full recompute gives, through late parents, rejections and prunes.
WorkExact == pc = "idle" => \A h \in held : WorkFits(h)

\* Between passes the tip is the candidate with the most work (ties by hash), the
\* one selectTipLocked would pick from scratch; it lags only when none is left.
TipIsBest == pc = "idle" /\ Candidates # {} => tip \in Best(Candidates, cumWork)

\* When every caller's pass has run, no non-stale share that the pass could have
\* verified is left waiting for an unrelated later call: verifyPending orders its
\* snapshot by length so that parents come first.
NoneLeftBehind ==
    pc = "idle" /\ due = 0 => \A h \in held \ (verified \cup Stale) : ~Verifiable(h)

\* A share of an outdated version cannot opt out of V2MandatoryActivation by
\* backdating itself below its parent: effectiveTimeLocked, even though the parent
\* may be pruned between the read that let the share in and the one that dates it.
\* Past retention nothing is said: a share older than its parent, stored on an old
\* reading when the parent is gone, is dated by itself until PruneOldShares takes it.
NoOptOut ==
    \A h \in verified \cap held :
        ~Aged(h) /\ Defect[h] = "version" =>
            Ts[h] < V2MandatoryActivation /\ At(Ts, Parent[h]) < V2MandatoryActivation

\* A share breaks a rule that is about itself and its own ancestors; a stale share
\* answers for its version and time only, and a block for any difficulty.
InvalidOnItsOwn(h) ==
    \/ Defect[h] \in {"version", "time"}
    \/ h \notin Stale /\ Defect[h] = "coinbase"
    \/ h \notin Stale \cup Solved /\ Parent[h] \in Hash /\ Diff[h] # Expected[Parent[h]]

\* A share builds on one past retention.
LineAged(h) == \E a \in Line[h] : Aged(a)

\* Why a pass may reject h. A first share is held to the difficulty due on our tip.
Cause(h) == \/ InvalidOnItsOwn(h)
            \/ h \notin Stale /\ LineAged(h)
            \/ h \notin Stale \cup Solved /\ Parent[h] = Genesis

\* A pass rejects a share only for a rule it breaks, or because a share it builds on
\* left retention between two of the reads its checks make. The one exception is a
\* first share, which checkConsensus compares with the difficulty due on top of our tip.
RejectedForCause == \A h \in rejected : Cause(h)

\* verified entries whose share is gone are past retention: only a caller with an old
\* reading can bring one back.
GhostsAged == \A h \in verified \ held : Aged(h)

\* The chain a caller sees: shares that wait and shares that are verified.
Life == INSTANCE ShareLife WITH pending <- held \ verified, accepted <- held \cap verified

\* The chain implements ShareLife. A share within retention becomes verified by its own
\* pass while it is held, and a verified share leaves only past retention: a share that
\* markVerified hits after PruneOldShares took it can be stored again as verified unseen
\* only by a caller whose reading is older than that prune, and neither a rejection nor
\* pruneUnverified ever takes a verified one within retention.
Lifecycle == Life!Spec

-----------------------------------------------------------------------------
(***************************************************************************)
(* The inductive invariant behind ChildrenExact, ReceivedExact, WorkExact. *)
(***************************************************************************)

\* A share under way in a pass is held, or was pruned by age meanwhile.
UnderWay(h) == h \in pend \/ (pc \notin {"idle", "next"} /\ h = cur)
UnderWayHeld == \A h \in Hash : UnderWay(h) => h \in held \/ Aged(h)

\* Only the children of a share this pass rejected may still carry its work.
WorkFitsButRejected == \A h \in held : Parent[h] \in rejected \/ WorkFits(h)

\* A pass runs for a caller; outside it nothing is pending or rejected, and outside
\* a share's turn there is no current share.
PassLocals == /\ pc = "idle" => rejected = {} /\ pend = {}
              /\ pc \in {"idle", "next"} => cur = Genesis
              /\ pc # "idle" => due > 0

ChainInv == /\ TypeOK
            /\ ChildrenExact /\ ReceivedExact
            /\ GhostsAged /\ UnderWayHeld /\ cur \notin pend
            /\ WorkFitsButRejected /\ PassLocals

-----------------------------------------------------------------------------
(***************************************************************************)
(* The inductive invariants behind NoOptOut, RejectedForCause, TipIsBest   *)
(* and NoneLeftBehind.                                                     *)
(***************************************************************************)

InTurn == pc \notin {"idle", "next"}

\* Shares a pass, or `verified`, still refers to although they are no longer held.
Departed(g) == g \notin held /\ (g \in verified \/ UnderWay(g) \/ (InTurn /\ g = Parent[cur]))

\* They left by age.
DepartedAged == \A g \in Hash : Departed(g) => Aged(g)

\* h does not opt out of the version rule.
Dated(h) == ~Aged(h) /\ Defect[h] = "version" =>
                Ts[h] < V2MandatoryActivation /\ At(Ts, Parent[h]) < V2MandatoryActivation

\* A share past PassEff that is still held has been dated by a parent it cannot precede.
CurDated == pc \in {"time", "target", "diff", "coinbase", "payout", "accept"} /\ cur \in held
                => Dated(cur)

\* What a check found stays so for the next one, unless a share of the line leaves
\* retention.
CauseInv ==
    /\ RejectedForCause
    /\ pc = "reject" => Cause(cur)
    /\ pc \in {"target", "diff", "coinbase", "payout"} => cur \notin Stale
    /\ pc = "diff" /\ Parent[cur] \in Hash =>
           LineAged(cur) \/ Cardinality(WalkOf(Parent[cur], TargetLookbehind)) >= TargetLookbehind
    /\ pc = "payout" => LineAged(cur) \/ WindowComplete(Parent[cur])

\* The shares whose work the end of the pass brings up to date.
Lagging == Descendants(UNION {children[r] : r \in rejected}, children)

\* The tip is the best candidate, or the pass has yet to lower a candidate's work.
TipBestOrLagging ==
    Candidates # {} /\ Candidates \cap Lagging = {} => tip \in Best(Candidates, cumWork)

\* A share carries at least its own length and its held parent's.
LenAtLeast == /\ chainLen \in [Hash -> Nat] /\ cumWork \in [Hash -> Nat]
              /\ \A h \in held :
                     chainLen[h] >= OwnLen(h) + (IF Parent[h] \in held THEN chainLen[Parent[h]] ELSE 0)

\* While no caller but the pass's own waits, every share the pass could verify is still
\* to come, and the ones it has passed over sorted before those.
LastPass == pc # "idle" /\ due = 1
StillToCome == pend \cup ({cur} \cap Hash)

NoneMissed ==
    /\ LastPass \/ (pc = "idle" /\ due = 0) =>
           \A h \in held \ (verified \cup Stale) : Verifiable(h) => h \in StillToCome
    /\ LastPass => \A h \in held \ verified, p \in StillToCome :
           /\ h \notin StillToCome => pendLen[h] <= pendLen[p]
           /\ h \notin Stale /\ Parent[h] = p => pendLen[p] < pendLen[h]

-----------------------------------------------------------------------------
(***************************************************************************)
(* What the repository says of the chain, where the code does otherwise.   *)
(***************************************************************************)

\* README.md:23: the node enforces the pool-wide share difficulty over a 200-share
\* lookbehind. A share whose parent had a full lookbehind when the pass sorted it is
\* verified only at the difficulty due there.
DifficultyEnforced ==
    pc = "accept" /\ eff >= ConsensusV2Activation /\ cur \notin Stale \cup Solved
    /\ pendLen[cur] > TargetLookbehind =>
        Diff[cur] = Expected[Parent[cur]]
=============================================================================
