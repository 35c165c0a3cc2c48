--------------------------- MODULE PayoutsProofs ----------------------------
(***************************************************************************)
(* Proofs about Payouts, for any chain, window, retention and difficulty   *)
(* rule: which shares are paid depends on the chain alone once the window  *)
(* passes for complete, pruning leaves the window alone, and a coinbase    *)
(* pays out its reward to the unit.                                        *)
(***************************************************************************)
EXTENDS Payouts, FiniteSetTheorems, SequenceTheorems, WellFoundedInduction, TLAPS

Share == [addr : Int, diff : Int, stale : BOOLEAN, time : Int]

-----------------------------------------------------------------------------
LEMMA ReachUp ==
    ASSUME NEW c \in Seq(Share), NEW H, NEW i \in Reach(c, H), NEW j \in DOMAIN c, i <= j
    PROVE  j \in Reach(c, H)
BY DEF Reach

LEMMA ReachFinite ==
    ASSUME NEW c \in Seq(Share), NEW H
    PROVE  /\ IsFiniteSet(Counted(c, Reach(c, H)))
           /\ IsFiniteSet(Lookback(c, H))
           /\ Cardinality(Lookback(c, H)) <= ChainLen(c, H)
           /\ ChainLen(c, H) \in Nat
<1>1. IsFiniteSet(1 .. Len(c))  BY FS_Interval
<1>2. Counted(c, Reach(c, H)) \in SUBSET (1 .. Len(c))  BY DEF Counted, Reach
<1>3. IsFiniteSet(Counted(c, Reach(c, H)))  BY <1>1, <1>2, FS_Subset
<1>4. Lookback(c, H) \in SUBSET Counted(c, Reach(c, H))  BY DEF Lookback
<1> QED  BY <1>3, <1>4, FS_Subset, FS_CardinalityType DEF ChainLen

\* A share out of reach of a node that holds TargetLookbehind shares is too far back to
\* count for the difficulty.
LEMMA LookbackIn ==
    ASSUME NEW c \in Seq(Share), NEW G, NEW H, ChainLen(c, G) >= TargetLookbehind
    PROVE  Lookback(c, H) \subseteq Lookback(c, G)
<1> SUFFICES ASSUME NEW i \in Lookback(c, H), i \notin Lookback(c, G) PROVE FALSE
  OBVIOUS
<1> DEFINE S == Counted(c, Reach(c, G))
           T == Counted(c, i .. Len(c))
<1>1. i \in 1 .. Len(c) /\ ~c[i].stale /\ Cardinality(T) <= TargetLookbehind
  BY DEF Lookback, Counted, Reach
<1>2. i \notin Reach(c, G)  BY <1>1 DEF Lookback, Counted
<1>3. \A j \in Reach(c, G) : j \in DOMAIN c /\ j > i
  BY <1>1, <1>2, ReachUp DEF Reach
<1>4. S \cup {i} \in SUBSET T  BY <1>1, <1>3 DEF Counted
<1>5. i \notin S  BY <1>2 DEF Counted
<1>6. IsFiniteSet(T)
  <2>1. IsFiniteSet(i .. Len(c))  BY <1>1, FS_Interval
  <2>2. T \in SUBSET (i .. Len(c))  BY DEF Counted
  <2> QED  BY <2>1, <2>2, FS_Subset
<1>7. Cardinality(S \cup {i}) <= Cardinality(T)  BY <1>4, <1>6, FS_Subset
<1>8. Cardinality(S \cup {i}) = Cardinality(S) + 1
  <2>1. IsFiniteSet(S)  BY ReachFinite
  <2> HIDE DEF S, T
  <2> QED  BY <1>5, <2>1, FS_AddElement
<1>9. Cardinality(S) >= TargetLookbehind /\ Cardinality(S) \in Nat
  BY ReachFinite DEF ChainLen
<1>10. Cardinality(T) \in Nat  BY <1>6, FS_CardinalityType
<1> HIDE DEF S, T
<1> QED  BY <1>1, <1>7, <1>8, <1>9, <1>10, PayoutAssumption

LEMMA DiffSame ==
    ASSUME NEW c \in Seq(Share), NEW G, NEW H,
           ChainLen(c, G) >= TargetLookbehind, ChainLen(c, H) >= TargetLookbehind
    PROVE  ExpectedDiff(c, G) = ExpectedDiff(c, H)
<1>1. Lookback(c, H) \subseteq Lookback(c, G)  BY LookbackIn
<1>2. Lookback(c, G) \subseteq Lookback(c, H)  BY LookbackIn
<1>3. Lookback(c, G) = Lookback(c, H)  BY <1>1, <1>2
<1> QED  BY <1>3 DEF ExpectedDiff

\* A walk that ended of itself visits no share less than one that goes on.
LEMMA WalkedIn ==
    ASSUME NEW c \in Seq(Share), NEW G, NEW H, NEW d,
           NEW i \in Walked(c, G, d), i = 1 \/ Full(c, d, i)
    PROVE  Walked(c, H, d) \subseteq Walked(c, G, d)
<1> SUFFICES ASSUME NEW k \in Walked(c, H, d) PROVE k \in Walked(c, G, d)
  OBVIOUS
<1>1. i \in 1 .. Len(c) /\ k \in 1 .. Len(c) /\ i \in Reach(c, G)  BY DEF Walked, Reach
<1>2. \A j \in k + 1 .. Len(c) : ~Full(c, d, j)  BY DEF Walked
<1>3. ~(k < i)  BY <1>1, <1>2
<1>4. k \in Reach(c, G)  BY <1>1, <1>3, ReachUp
<1> QED  BY <1>2, <1>4 DEF Walked

LEMMA WindowSame ==
    ASSUME NEW c \in Seq(Share), NEW G, NEW H, Ready(c, G), Ready(c, H)
    PROVE  Window(c, G) = Window(c, H)
<1> DEFINE d == ExpectedDiff(c, G)
<1>1. d = ExpectedDiff(c, H)  BY DiffSame DEF Ready
<1>2. CASE c = <<>>
  <2>1. DOMAIN c = {}  BY <1>2
  <2> QED  BY <2>1 DEF Window, Counted, Walked, Reach
<1>3. CASE c # <<>>
  <2>1. PICK i \in Walked(c, G, d) : i = 1 \/ Full(c, d, i)
    BY <1>3 DEF Ready, WindowComplete
  <2>2. PICK j \in Walked(c, H, d) : j = 1 \/ Full(c, d, j)
    BY <1>1, <1>3 DEF Ready, WindowComplete
  <2>3. Walked(c, G, d) = Walked(c, H, d)
    <3> HIDE DEF d
    <3>1. Walked(c, H, d) \subseteq Walked(c, G, d)  BY <2>1, WalkedIn
    <3>2. Walked(c, G, d) \subseteq Walked(c, H, d)  BY <2>2, WalkedIn
    <3> QED  BY <3>1, <3>2
  <2> QED  BY <1>1, <2>3 DEF Window
<1> QED  BY <1>2, <1>3

-----------------------------------------------------------------------------
\* The payouts of a job come from some holding that was ready, and so does its difficulty.
JobFrom(j) ==
    /\ j = [at |-> j.at, line |-> j.line, reward |-> j.reward, diff |-> j.diff,
            sure |-> j.sure, outs |-> j.outs]
    /\ j.at \in {"split", "job"} /\ j.line \in Seq(Share)
    /\ j.sure => \E H : Ready(j.line, H)
                        /\ j.outs = Outputs(j.line, Window(j.line, H), j.reward, Address)
    /\ j.sure /\ j.at = "job" =>
          \E H : ChainLen(j.line, H) >= TargetLookbehind /\ j.diff = ExpectedDiff(j.line, H)

PayInv == /\ chain \in Seq(Share) /\ held \subseteq DOMAIN chain /\ now \in Int
          /\ job = [at |-> "none"] \/ JobFrom(job)

LEMMA JobFromVerifies ==
    ASSUME PayInv PROVE HonestVerifies
<1> SUFFICES ASSUME job.at = "job", job.sure, NEW H \in SUBSET DOMAIN job.line
             PROVE  VerifyShare(job, H)
  BY DEF HonestVerifies
<1>1. JobFrom(job)
  <2>1. job # [at |-> "none"]
    <3> SUFFICES ASSUME job = [at |-> "none"] PROVE FALSE  OBVIOUS
    <3>1. job.at = "none"  OBVIOUS
    <3> QED  BY <3>1
  <2> QED  BY <2>1 DEF PayInv
<1> DEFINE c == job.line
<1>2. c \in Seq(Share)  BY <1>1 DEF JobFrom
<1>3. PICK F : Ready(c, F) /\ job.outs = Outputs(c, Window(c, F), job.reward, Address)
  BY <1>1 DEF JobFrom
<1>4. PICK G : ChainLen(c, G) >= TargetLookbehind /\ job.diff = ExpectedDiff(c, G)
  BY <1>1 DEF JobFrom
<1> HIDE DEF c
<1>5. ASSUME Cardinality(Lookback(c, H)) >= TargetLookbehind
      PROVE  job.diff = ExpectedDiff(c, H)
  <2>1. ChainLen(c, H) >= TargetLookbehind
    BY <1>2, <1>5, ReachFinite, FS_CardinalityType, PayoutAssumption
  <2> QED  BY <1>2, <1>4, <2>1, DiffSame
<1>6. ASSUME Ready(c, H)
      PROVE  job.outs = Outputs(c, Window(c, H), job.reward, Address)
  BY <1>2, <1>3, <1>6, WindowSame
<1> QED  BY <1>5, <1>6 DEF VerifyShare, c

LEMMA PayInitInv ==
    ASSUME Init PROVE PayInv
BY DEF Init, PayInv

LEMMA PayNextInv ==
    ASSUME PayInv, [Next]_vars PROVE PayInv'
<1> USE DEF PayInv
<1>1. ASSUME NEW k \in Kind, NEW t, Extend(k, t) PROVE PayInv'
  <2> DEFINE s == [addr |-> k.addr, diff |-> k.diff, stale |-> k.stale, time |-> t]
  <2>1. s \in Share  BY <1>1, PayoutAssumption DEF Share, Extend
  <2>2. chain' = Append(chain, s)  BY <1>1 DEF Extend
  <2> HIDE DEF s
  <2>3. chain' \in Seq(Share) /\ Len(chain') = Len(chain) + 1  BY <2>1, <2>2
  <2>4. held' \subseteq DOMAIN chain'  BY <1>1, <2>3 DEF Extend
  <2> QED  BY <1>1, <2>3, <2>4 DEF Extend
<1>2. ASSUME NEW t \in 0 .. Len(chain), NEW r \in Reward, SplitCoinbase(t, r) PROVE PayInv'
  <2> DEFINE c == SubSeq(chain, 1, t)
             H == held \cap 1 .. t
             o == Outputs(c, Window(c, H), r, Address)
  <2>1. c \in Seq(Share)
    <3>1. \A i \in 1 .. t : chain[i] \in Share  OBVIOUS
    <3> QED  BY <3>1, SubSeqProperties
  <2>2. job' = [at |-> "split", line |-> c, reward |-> r, diff |-> 0, sure |-> Ready(c, H),
                outs |-> o]
    BY <1>2 DEF SplitCoinbase
  <2> HIDE DEF c, H, o
  <2>3. JobFrom(job')
    <3>1. /\ job'.at = "split" /\ job'.line = c /\ job'.reward = r /\ job'.outs = o
          /\ job'.diff = 0 /\ job'.sure = Ready(c, H)
      BY <2>2
    <3> QED  BY <2>1, <2>2, <3>1 DEF JobFrom, o
  <2> QED  BY <1>2, <2>3 DEF SplitCoinbase, JobFrom
<1>3. ASSUME CommitTarget PROVE PayInv'
  <2> DEFINE c == job.line
             H == held \cap DOMAIN c
             e == ExpectedDiff(c, H)
             y == job.sure /\ Ready(c, H)
  <2>1. JobFrom(job)
    <3>1. job # [at |-> "none"]
      <4> SUFFICES ASSUME job = [at |-> "none"] PROVE FALSE  OBVIOUS
      <4>1. job.at = "none"  OBVIOUS
      <4> QED  BY <4>1, <1>3 DEF CommitTarget
    <3> QED  BY <3>1
  <2>2. job' = [job EXCEPT !.at = "job", !.sure = y, !.diff = e]
    BY <1>3, <2>1 DEF CommitTarget, JobFrom
  <2> HIDE DEF c, H, e, y
  <2>3. job' = [at |-> "job", line |-> job.line, reward |-> job.reward, diff |-> e,
                sure |-> y, outs |-> job.outs]
    BY <2>1, <2>2 DEF JobFrom
  <2>4. /\ job'.at = "job" /\ job'.line = c /\ job'.reward = job.reward
        /\ job'.outs = job.outs /\ job'.diff = e /\ job'.sure = y
    BY <2>3 DEF c
  <2>5. c \in Seq(Share)  BY <2>1 DEF JobFrom, c
  <2>6. y => \E F : Ready(c, F) /\ job.outs = Outputs(c, Window(c, F), job.reward, Address)
    BY <2>1 DEF JobFrom, y, c
  <2>7. y => ChainLen(c, H) >= TargetLookbehind /\ e = ExpectedDiff(c, H)
    BY DEF y, e, Ready
  <2>8. JobFrom(job')  BY <2>3, <2>4, <2>5, <2>6, <2>7 DEF JobFrom
  <2> QED  BY <1>3, <2>8 DEF CommitTarget
<1>4. ASSUME NEW i \in DOMAIN chain, Receive(i) PROVE PayInv'  BY <1>4 DEF Receive
<1>5. ASSUME PruneOldShares PROVE PayInv'  BY <1>5 DEF PruneOldShares
<1>6. ASSUME Tick PROVE PayInv'  BY <1>6 DEF Tick
<1>7. ASSUME UNCHANGED vars PROVE PayInv'  BY <1>7 DEF vars
<1> QED  BY <1>1, <1>2, <1>3, <1>4, <1>5, <1>6, <1>7 DEF Next

\* Nodes that can check a share's payouts agree about them, for every chain, whatever each
\* of them holds: a share that pays what its node worked out from a complete window passes
\* VerifyShareCoinbase and the difficulty rule everywhere.
THEOREM HonestSharesVerify == Spec => []HonestVerifies
<1>1. Init => PayInv  BY PayInitInv
<1>2. PayInv /\ [Next]_vars => PayInv'  BY PayNextInv
<1>3. PayInv => HonestVerifies  BY JobFromVerifies
<1> QED  BY <1>1, <1>2, <1>3, PTL DEF Spec

-----------------------------------------------------------------------------
(***************************************************************************)
(* Pruning.                                                                *)
(***************************************************************************)
\* Induction over the subsets of a finite set, by way of a least counterexample: among sets
\* of its subsets there is one that has no other below it.
LEMMA LeastSet ==
    ASSUME NEW S, IsFiniteSet(S), NEW M, M \subseteq SUBSET S, M # {}
    PROVE  \E s \in M : \A t \in M : t \subseteq s => t = s
<1> DEFINE R == StrictSubsetOrdering(S)
<1>1. M \subseteq FiniteSubsetsOf(S)  BY FS_Subset DEF FiniteSubsetsOf
<1>2. IsWellFoundedOn(R, FiniteSubsetsOf(S))  BY FS_StrictSubsetOrderingWellFounded
<1> HIDE DEF R
<1>3. PICK s \in M : \A t \in M : ~(<<t, s>> \in R)  BY <1>1, <1>2, WFMin
<1>4. ASSUME NEW t \in M, t \subseteq s, t # s  PROVE FALSE
  <2>1. <<t, s>> \in (SUBSET S) \X (SUBSET S)  OBVIOUS
  <2>2. <<t, s>> \in R  BY <1>4, <2>1 DEF R, StrictSubsetOrdering
  <2> QED  BY <1>3, <2>2
<1> QED  BY <1>4

\* A finite set of numbers has a greatest one.
LEMMA MaxOf ==
    ASSUME NEW S, IsFiniteSet(S), \A x \in S : x \in Int, S # {}
    PROVE  Max(S) \in S
<1> DEFINE M == {s \in SUBSET S : s # {} /\ \A m \in s : \E y \in s : ~(m >= y)}
<1> SUFFICES ASSUME M # {} PROVE FALSE  BY DEF Max
<1>1. M \subseteq SUBSET S  OBVIOUS
<1>2. PICK s \in M : \A t \in M : t \subseteq s => t = s
  <2> HIDE DEF M
  <2> QED  BY <1>1, LeastSet
<1>3. PICK x \in s : TRUE  OBVIOUS
<1>4. s \subseteq Int /\ s \ {x} \in SUBSET S /\ s \ {x} \notin M  BY <1>2, <1>3
<1>5. CASE s \ {x} = {}
  <2>1. \A y \in s : x >= y  BY <1>4, <1>5
  <2> QED  BY <1>3, <2>1
<1>6. CASE s \ {x} # {}
  <2>1. PICK m \in s \ {x} : \A y \in s \ {x} : m >= y  BY <1>4, <1>6
  <2>2. (\A y \in s : m >= y) \/ (\A y \in s : x >= y)  BY <1>3, <1>4, <2>1
  <2> QED  BY <1>3, <2>1, <2>2
<1> QED  BY <1>5, <1>6

LEMMA TimeInt ==
    ASSUME NEW c \in Seq(Share) PROVE \A i \in DOMAIN c : c[i].time \in Int
<1> SUFFICES ASSUME NEW i \in DOMAIN c PROVE c[i].time \in Int
  OBVIOUS
<1>1. c[i] \in Share  OBVIOUS
<1> QED  BY <1>1 DEF Share

\* A share is dated near the clock when it joins the chain, so none is far behind one
\* below it.
InOrder == \A i, j \in DOMAIN chain :
              /\ chain[i].time <= now + MaxShareTimeFuture
              /\ i <= j => chain[i].time - Skew <= chain[j].time

LEMMA InOrderNext ==
    ASSUME PayInv, InOrder, [Next]_vars PROVE InOrder'
<1> USE DEF InOrder
<1>1. ASSUME NEW k \in Kind, NEW t, Extend(k, t) PROVE InOrder'
  <2> DEFINE s == [addr |-> k.addr, diff |-> k.diff, stale |-> k.stale, time |-> t]
  <2>1. /\ s \in Share /\ s.time = t
        /\ t \in Int /\ t >= now - MaxJobAge - MaxShareTimePast /\ t <= now + MaxShareTimeFuture
    BY <1>1, PayoutAssumption DEF Share, PayInv, Extend
  <2>2. chain' = Append(chain, s) /\ now' = now  BY <1>1 DEF Extend
  <2> HIDE DEF s
  <2>3. /\ DOMAIN chain' = 1 .. Len(chain) + 1
        /\ \A i \in 1 .. Len(chain) : chain'[i] = chain[i]
        /\ chain'[Len(chain) + 1] = s
    BY <2>1, <2>2 DEF PayInv
  <2>4. \A i \in DOMAIN chain : chain[i].time \in Int  BY TimeInt DEF PayInv
  <2> QED  BY <2>1, <2>2, <2>3, <2>4, PayoutAssumption DEF PayInv, Skew
<1>2. ASSUME Tick PROVE InOrder'
  <2>1. \A i \in DOMAIN chain : chain[i].time \in Int  BY TimeInt DEF PayInv
  <2> QED  BY <1>2, <2>1, PayoutAssumption DEF Tick, PayInv
<1>3. ASSUME UNCHANGED <<chain, now>> PROVE InOrder'  BY <1>3
<1>4. CASE UNCHANGED vars  BY <1>3, <1>4 DEF vars
<1>5. ASSUME NEW t, NEW r, SplitCoinbase(t, r) PROVE InOrder'  BY <1>3, <1>5 DEF SplitCoinbase
<1>6. ASSUME NEW i, Receive(i) PROVE InOrder'  BY <1>3, <1>6 DEF Receive
<1>7. CASE CommitTarget  BY <1>3, <1>7 DEF CommitTarget
<1>8. CASE PruneOldShares  BY <1>3, <1>8 DEF PruneOldShares
<1> QED  BY <1>1, <1>2, <1>4, <1>5, <1>6, <1>7, <1>8 DEF Next

LEMMA ReachLess ==
    ASSUME NEW c \in Seq(Share), NEW H, NEW G \in SUBSET H
    PROVE  /\ Reach(c, G) \subseteq Reach(c, H)
           /\ Lookback(c, G) \subseteq Lookback(c, H)
           /\ \A d : Walked(c, G, d) \subseteq Walked(c, H, d)
<1>1. Reach(c, G) \subseteq Reach(c, H)  BY DEF Reach
<1> QED  BY <1>1 DEF Lookback, Counted, Walked

\* What pruning leaves of the chain holds the whole window on a recent tip.
LEMMA PrunedWindow ==
    ASSUME PayInv, InOrder, PruneOldShares,
           NEW x, x = Max(Counted(chain, DOMAIN chain)), Counted(chain, DOMAIN chain) # {},
           chain[x].time - MaxWindowAge - Skew >= now - maxShareAge,
           Cardinality(Lookback(chain, held')) = Cardinality(Lookback(chain, held))
    PROVE  Window(chain, held') = Window(chain, held)
<1> USE DEF PayInv
<1>1. held' \subseteq held  BY DEF PruneOldShares
<1>2. Lookback(chain, held') = Lookback(chain, held)
  BY <1>1, ReachLess, ReachFinite, FS_Subset
<1>3. ExpectedDiff(chain, held') = ExpectedDiff(chain, held)  BY <1>2 DEF ExpectedDiff
<1>4. Window(chain, held') \subseteq Window(chain, held)
  BY <1>1, <1>3, ReachLess DEF Window, Counted
<1>5. x \in DOMAIN chain
  <2>1. Counted(chain, DOMAIN chain) \in SUBSET (1 .. Len(chain))  BY DEF Counted
  <2>2. IsFiniteSet(1 .. Len(chain))  BY FS_Interval
  <2>3. IsFiniteSet(Counted(chain, DOMAIN chain))  BY <2>1, <2>2, FS_Subset
  <2> QED  BY <2>1, <2>3, MaxOf
<1>6. ASSUME NEW i \in Window(chain, held) PROVE i \in Window(chain, held')
  <2>1. /\ i \in DOMAIN chain /\ i .. Len(chain) \subseteq held
        /\ chain[i].time >= chain[x].time - MaxWindowAge
    <3>1. i \in DOMAIN chain /\ i .. Len(chain) \subseteq held /\ ~TooOld(chain, i)
      BY <1>6 DEF Window, Counted, Walked, Reach
    <3>2. chain[i].time \in Int /\ chain[x].time \in Int  BY <1>5, <3>1, TimeInt
    <3> QED  BY <3>1, <3>2, PayoutAssumption DEF TooOld
  <2>2. \A j \in i .. Len(chain) : chain[j].time >= now - maxShareAge
    <3> SUFFICES ASSUME NEW j \in i .. Len(chain) PROVE chain[j].time >= now - maxShareAge
      OBVIOUS
    <3>1. j \in DOMAIN chain /\ chain[i].time - Skew <= chain[j].time  BY <2>1 DEF InOrder
    <3>2. /\ chain[j].time \in Int /\ chain[i].time \in Int /\ chain[x].time \in Int
      BY <1>5, <2>1, <3>1, TimeInt
    <3> QED  BY <2>1, <3>1, <3>2, PayoutAssumption DEF Skew
  <2>3. i \in Reach(chain, held')
    BY <2>1, <2>2 DEF Reach, PruneOldShares
  <2>4. i \in Walked(chain, held', ExpectedDiff(chain, held'))
    BY <1>3, <1>6, <2>3 DEF Window, Walked, Counted
  <2> QED  BY <1>6, <2>4 DEF Window, Counted
<1> QED  BY <1>4, <1>6

LEMMA OnlyPruneShrinks ==
    ASSUME PayInv, [Next]_vars, held' # held, held' \subseteq held
    PROVE  PruneOldShares
BY DEF Next, vars, Extend, SplitCoinbase, CommitTarget, Receive, Tick

\* Keeping shares for the age of the tip, of a payout window and the skew of timestamps is
\* enough: no prune then changes what the chain pays, for any chain and any windows.
THEOREM PruneKeepsPayouts == Spec => PruneKeepsWindow
<1>1. Init => PayInv /\ InOrder  BY PayInitInv DEF Init, InOrder
<1>2. PayInv /\ InOrder /\ [Next]_vars => (PayInv /\ InOrder)'  BY PayNextInv, InOrderNext
<1>3. PayInv /\ InOrder /\ [Next]_vars =>
      [LET new == Counted(chain, DOMAIN chain) IN
       /\ held' # held /\ held' \subseteq held
       /\ new # {} /\ chain[Max(new)].time - MaxWindowAge - Skew >= now - maxShareAge
       /\ Cardinality(Lookback(chain, held')) = Cardinality(Lookback(chain, held))
       => Window(chain, held') = Window(chain, held)]_vars
  BY OnlyPruneShrinks, PrunedWindow
<1> QED  BY <1>1, <1>2, <1>3, PTL DEF Spec, PruneKeepsWindow

-----------------------------------------------------------------------------
(***************************************************************************)
(* Sums.  MapThenSumSet takes the elements of a set in an order of its     *)
(* own; its value does not depend on it, which takes an induction over     *)
(* finite sets.  The three sums of the model are proved to be sums one by  *)
(* one, since a lemma about an operator argument could not be used.        *)
(***************************************************************************)
\* F adds up g over the subsets of S, whatever element is taken out first.
Additive(F, g, S) ==
    /\ F \in [SUBSET S -> Int] /\ F[{}] = 0
    /\ \A t \in SUBSET S : \A x \in t : F[t] = g[x] + F[t \ {x}]

\* There is one sum, as the order in which elements are taken does not matter.
LEMMA AdditiveExists ==
    ASSUME NEW S, IsFiniteSet(S), NEW g, \A x \in S : g[x] \in Int
    PROVE  \E F : Additive(F, g, S)
<1> DEFINE M == {s \in SUBSET S : ~\E F : Additive(F, g, s)}
<1> SUFFICES ASSUME M # {} PROVE FALSE  OBVIOUS
<1>1. M \subseteq SUBSET S  OBVIOUS
<1>2. PICK s \in M : \A t \in M : t \subseteq s => t = s
  <2> HIDE DEF M
  <2> QED  BY <1>1, LeastSet
<1>3. s # {}
  <2> SUFFICES ASSUME s = {} PROVE FALSE  OBVIOUS
  <2>1. Additive([t \in SUBSET s |-> 0], g, s)  BY DEF Additive
  <2> QED  BY <2>1
<1>4. PICK y \in s : TRUE  BY <1>3
<1> DEFINE r == s \ {y}
<1>5. PICK F : Additive(F, g, r)  BY <1>2, <1>4
<1> DEFINE G == [t \in SUBSET s |-> IF y \in t THEN g[y] + F[t \ {y}] ELSE F[t]]
<1>6. \A t \in SUBSET s : t \ {y} \in SUBSET r /\ (y \notin t => t \in SUBSET r)  OBVIOUS
<1>7. G \in [SUBSET s -> Int]
  <2> SUFFICES ASSUME NEW t \in SUBSET s
               PROVE  (IF y \in t THEN g[y] + F[t \ {y}] ELSE F[t]) \in Int
    OBVIOUS
  <2>1. g[y] \in Int  BY <1>1, <1>2
  <2>2. F[t \ {y}] \in Int /\ (y \notin t => F[t] \in Int)  BY <1>5, <1>6 DEF Additive
  <2> HIDE DEF r, M
  <2> QED  BY <2>1, <2>2
<1>8. G[{}] = 0  BY <1>5 DEF Additive
<1>9. ASSUME NEW t \in SUBSET s, NEW x \in t  PROVE G[t] = g[x] + G[t \ {x}]
  <2>0. g[x] \in Int /\ g[y] \in Int  BY <1>1, <1>2
  <2>1. CASE x = y
    <3>1. y \notin t \ {x} /\ t \ {x} \in SUBSET s  BY <2>1
    <3> QED  BY <2>1, <3>1
  <2>2. CASE x # y /\ y \notin t
    <3>1. t \in SUBSET r /\ x \in t /\ t \ {x} \in SUBSET s  BY <1>6, <2>2
    <3>2. F[t] = g[x] + F[t \ {x}]  BY <1>5, <3>1 DEF Additive
    <3> QED  BY <2>2, <3>1, <3>2
  <2>3. CASE x # y /\ y \in t
    <3>1. t \ {y} \in SUBSET r /\ x \in t \ {y} /\ t \ {x} \in SUBSET s /\ y \in t \ {x}
      BY <1>6, <2>3
    <3>2. (t \ {y}) \ {x} = (t \ {x}) \ {y}  OBVIOUS
    <3>3. F[t \ {y}] = g[x] + F[(t \ {y}) \ {x}]  BY <1>5, <3>1 DEF Additive
    <3>4. G[t] = g[y] + F[t \ {y}]  BY <2>3
    <3>5. G[t \ {x}] = g[y] + F[(t \ {x}) \ {y}]  BY <3>1
    <3>6. F[(t \ {x}) \ {y}] \in Int
       <4>1. (t \ {x}) \ {y} \in SUBSET r  OBVIOUS
       <4> QED  BY <4>1, <1>5 DEF Additive
    <3>7. F[t \ {y}] = g[x] + F[(t \ {x}) \ {y}]  BY <3>2, <3>3
    <3>8. \A a, b, d \in Int : a + (b + d) = b + (a + d)  OBVIOUS
    <3> HIDE DEF G, r, M
    <3> QED  BY <2>0, <3>4, <3>5, <3>6, <3>7, <3>8
  <2> QED  BY <2>1, <2>2, <2>3
<1> HIDE DEF G
<1>10. Additive(G, g, s)  BY <1>7, <1>8, <1>9 DEF Additive
<1> QED  BY <1>10

\* What MapThenSumSet works with: it takes an element of its choice out of the set until
\* none is left.
Pick(s) == CHOOSE x \in s : TRUE

Iterates(i, g, T) ==
    i = [s \in SUBSET T |-> IF s = {} THEN 0 ELSE g[Pick(s)] + i[s \ {Pick(s)}]]

\* Taking elements by choice comes to that sum.
LEMMA IterationIs ==
    ASSUME NEW S, IsFiniteSet(S), NEW g, NEW F, Additive(F, g, S), NEW T \in SUBSET S, NEW i,
           Iterates(i, g, T)
    PROVE  i[T] = F[T]
<1> USE DEF Iterates
<1> DEFINE M == {s \in SUBSET T : i[s] # F[s]}
<1> SUFFICES ASSUME M # {} PROVE FALSE  OBVIOUS
<1>1. M \subseteq SUBSET T /\ IsFiniteSet(T)  BY FS_Subset
<1>2. PICK s \in M : \A t \in M : t \subseteq s => t = s
  <2> HIDE DEF M
  <2> QED  BY <1>1, LeastSet
<1>3. s # {}  BY DEF Additive
<1>4. Pick(s) \in s  BY <1>3 DEF Pick
<1>5. i[s \ {Pick(s)}] = F[s \ {Pick(s)}]  BY <1>2, <1>4
<1>6. i[s] = g[Pick(s)] + i[s \ {Pick(s)}]  BY <1>3
<1>7. F[s] = g[Pick(s)] + F[s \ {Pick(s)}]  BY <1>4 DEF Additive
<1> QED  BY <1>5, <1>6, <1>7

\* The work of shares is the sum of what each counts for.
LEMMA WorkAdditive ==
    ASSUME NEW c, NEW S, IsFiniteSet(S), \A i \in S : Credit(c[i]) \in Int
    PROVE  Additive([T \in SUBSET S |-> WorkIn(c, T)], [i \in S |-> Credit(c[i])], S)
<1> DEFINE g == [i \in S |-> Credit(c[i])]
<1>1. \A i \in S : g[i] \in Int  OBVIOUS
<1>2. PICK F : Additive(F, g, S)
  <2> HIDE DEF g
  <2> QED  BY <1>1, AdditiveExists
<1>3. ASSUME NEW T \in SUBSET S  PROVE WorkIn(c, T) = F[T]
  <2> DEFINE G == [s \in SUBSET T |-> F[s]]
             it == CHOOSE i : i = [s \in SUBSET T |->
                      IF s = {} THEN 0
                          ELSE Credit(c[(CHOOSE x \in s : TRUE)])
                                 + i[s \ {CHOOSE x \in s : TRUE}]]
  <2>1. ASSUME NEW s \in SUBSET T, s # {}
        PROVE  /\ Pick(s) \in s /\ g[Pick(s)] = Credit(c[Pick(s)]) /\ s \ {Pick(s)} \in SUBSET T
               /\ F[s] = g[Pick(s)] + F[s \ {Pick(s)}]
    <3>1. Pick(s) \in s  BY <2>1 DEF Pick
    <3> QED  BY <1>2, <3>1 DEF Additive
  <2>2. G = [s \in SUBSET T |-> IF s = {} THEN 0 ELSE Credit(c[Pick(s)]) + G[s \ {Pick(s)}]]
    <3>1. \A s \in SUBSET T : G[s] = IF s = {} THEN 0 ELSE Credit(c[Pick(s)]) + G[s \ {Pick(s)}]
     BY <1>2, <2>1 DEF Additive
    <3> QED  BY <3>1
  <2>3. it = [s \in SUBSET T |-> IF s = {} THEN 0 ELSE Credit(c[Pick(s)]) + it[s \ {Pick(s)}]]
    <3> HIDE DEF G
    <3> QED  BY <2>2, Zenon DEF Pick
  <2>4. WorkIn(c, T) = it[T]
   BY Zenon DEF WorkIn, MapThenSumSet, MapThenFoldSet
  <2> HIDE DEF it
  <2>5. Iterates(it, g, T)  BY <2>1, <2>3 DEF Iterates
  <2> HIDE DEF g
  <2> QED  BY <1>2, <2>4, <2>5, IterationIs
<1>4. [T \in SUBSET S |-> WorkIn(c, T)] = F
  <2>1. F \in [SUBSET S -> Int]  BY <1>2 DEF Additive
  <2> QED  BY <1>3, <2>1
<1> QED  BY <1>2, <1>4

\* The sums that Left and PaysReward are about.
PartsOf(c, W, r, A) == LET part(a) == Part(c, W, r, a) IN MapThenSumSet(part, A)
AmountsOf(O) == LET amount(o) == o.amount IN MapThenSumSet(amount, O)

\* What addresses are paid by their parts is the sum of the parts.
LEMMA PartsAdditive ==
    ASSUME NEW c, NEW W, NEW r, NEW S, IsFiniteSet(S), \A a \in S : Part(c, W, r, a) \in Int
    PROVE  Additive([T \in SUBSET S |-> PartsOf(c, W, r, T)], [a \in S |-> Part(c, W, r, a)], S)
<1> DEFINE g == [a \in S |-> Part(c, W, r, a)]
<1>1. \A a \in S : g[a] \in Int  OBVIOUS
<1>2. PICK F : Additive(F, g, S)
  <2> HIDE DEF g
  <2> QED  BY <1>1, AdditiveExists
<1>3. ASSUME NEW T \in SUBSET S  PROVE PartsOf(c, W, r, T) = F[T]
  <2> DEFINE G == [s \in SUBSET T |-> F[s]]
             it == CHOOSE i : i = [s \in SUBSET T |->
                      IF s = {} THEN 0
                          ELSE Part(c, W, r, (CHOOSE x \in s : TRUE))
                                 + i[s \ {CHOOSE x \in s : TRUE}]]
  <2>1. ASSUME NEW s \in SUBSET T, s # {}
        PROVE  /\ Pick(s) \in s /\ g[Pick(s)] = Part(c, W, r, Pick(s)) /\ s \ {Pick(s)} \in SUBSET T
               /\ F[s] = g[Pick(s)] + F[s \ {Pick(s)}]
    <3>1. Pick(s) \in s  BY <2>1 DEF Pick
    <3> QED  BY <1>2, <3>1 DEF Additive
  <2>2. G = [s \in SUBSET T |-> IF s = {} THEN 0 ELSE Part(c, W, r, Pick(s)) + G[s \ {Pick(s)}]]
    <3>1. \A s \in SUBSET T : G[s] = IF s = {} THEN 0 ELSE Part(c, W, r, Pick(s)) + G[s \ {Pick(s)}]
     BY <1>2, <2>1 DEF Additive
    <3> QED  BY <3>1
  <2>3. it = [s \in SUBSET T |-> IF s = {} THEN 0 ELSE Part(c, W, r, Pick(s)) + it[s \ {Pick(s)}]]
    <3> HIDE DEF G
    <3> QED  BY <2>2, Zenon DEF Pick
  <2>4. PartsOf(c, W, r, T) = it[T]
   BY Zenon DEF PartsOf, MapThenSumSet, MapThenFoldSet
  <2> HIDE DEF it
  <2>5. Iterates(it, g, T)  BY <2>1, <2>3 DEF Iterates
  <2> HIDE DEF g
  <2> QED  BY <1>2, <2>4, <2>5, IterationIs
<1>4. [T \in SUBSET S |-> PartsOf(c, W, r, T)] = F
  <2>1. F \in [SUBSET S -> Int]  BY <1>2 DEF Additive
  <2> QED  BY <1>3, <2>1
<1> QED  BY <1>2, <1>4

\* What outputs pay is the sum of their amounts.
LEMMA AmountsAdditive ==
    ASSUME NEW S, IsFiniteSet(S), \A o \in S : o.amount \in Int
    PROVE  Additive([T \in SUBSET S |-> AmountsOf(T)], [o \in S |-> o.amount], S)
<1> DEFINE g == [o \in S |-> o.amount]
<1>1. \A o \in S : g[o] \in Int  OBVIOUS
<1>2. PICK F : Additive(F, g, S)
  <2> HIDE DEF g
  <2> QED  BY <1>1, AdditiveExists
<1>3. ASSUME NEW T \in SUBSET S  PROVE AmountsOf(T) = F[T]
  <2> DEFINE G == [s \in SUBSET T |-> F[s]]
             it == CHOOSE i : i = [s \in SUBSET T |->
                      IF s = {} THEN 0
                          ELSE (CHOOSE x \in s : TRUE).amount
                                 + i[s \ {CHOOSE x \in s : TRUE}]]
  <2>1. ASSUME NEW s \in SUBSET T, s # {}
        PROVE  /\ Pick(s) \in s /\ g[Pick(s)] = Pick(s).amount /\ s \ {Pick(s)} \in SUBSET T
               /\ F[s] = g[Pick(s)] + F[s \ {Pick(s)}]
    <3>1. Pick(s) \in s  BY <2>1 DEF Pick
    <3> QED  BY <1>2, <3>1 DEF Additive
  <2>2. G = [s \in SUBSET T |-> IF s = {} THEN 0 ELSE Pick(s).amount + G[s \ {Pick(s)}]]
    <3>1. \A s \in SUBSET T : G[s] = IF s = {} THEN 0 ELSE Pick(s).amount + G[s \ {Pick(s)}]
     BY <1>2, <2>1 DEF Additive
    <3> QED  BY <3>1
  <2>3. it = [s \in SUBSET T |-> IF s = {} THEN 0 ELSE Pick(s).amount + it[s \ {Pick(s)}]]
    <3> HIDE DEF G
    <3> QED  BY <2>2, Zenon DEF Pick
  <2>4. AmountsOf(T) = it[T]
   BY Zenon DEF AmountsOf, MapThenSumSet, MapThenFoldSet
  <2> HIDE DEF it
  <2>5. Iterates(it, g, T)  BY <2>1, <2>3 DEF Iterates
  <2> HIDE DEF g
  <2> QED  BY <1>2, <2>4, <2>5, IterationIs
<1>4. [T \in SUBSET S |-> AmountsOf(T)] = F
  <2>1. F \in [SUBSET S -> Int]  BY <1>2 DEF Additive
  <2> QED  BY <1>3, <2>1
<1> QED  BY <1>2, <1>4

\* Sums over disjoint sets add up.
LEMMA AdditiveDisjoint ==
    ASSUME NEW S, IsFiniteSet(S), NEW g, NEW F, Additive(F, g, S), \A x \in S : g[x] \in Int,
           NEW A \in SUBSET S, NEW B \in SUBSET S, A \cap B = {}
    PROVE  F[A \cup B] = F[A] + F[B]
<1> DEFINE M == {s \in SUBSET B : F[A \cup s] # F[A] + F[s]}
<1> SUFFICES ASSUME M # {} PROVE FALSE  OBVIOUS
<1>1. M \subseteq SUBSET B /\ IsFiniteSet(B)  BY FS_Subset
<1>2. PICK s \in M : \A t \in M : t \subseteq s => t = s
  <2> HIDE DEF M
  <2> QED  BY <1>1, LeastSet
<1>0. F \in [SUBSET S -> Int] /\ F[{}] = 0  BY DEF Additive
<1>3. s # {}
  <2> SUFFICES ASSUME s = {} PROVE FALSE  OBVIOUS
  <2>1. A \cup s = A /\ F[s] = 0 /\ F[A] \in Int  BY <1>0
  <2>2. F[A \cup s] = F[A] + F[s]  BY <2>1
  <2> QED  BY <1>2, <2>2
<1>4. PICK x \in s : TRUE  BY <1>3
<1>5. F[A \cup (s \ {x})] = F[A] + F[s \ {x}]  BY <1>2, <1>4
<1>6. (A \cup s) \ {x} = A \cup (s \ {x}) /\ A \cup s \in SUBSET S /\ x \in A \cup s
      /\ s \in SUBSET S /\ s \ {x} \in SUBSET S
  BY <1>1, <1>2, <1>4
<1>7. F[A \cup s] = g[x] + F[(A \cup s) \ {x}]  BY <1>6 DEF Additive
<1>8. F[s] = g[x] + F[s \ {x}]  BY <1>4, <1>6 DEF Additive
<1>9. g[x] \in Int /\ F[A] \in Int /\ F[s \ {x}] \in Int  BY <1>0, <1>4, <1>6
<1>10. F[A \cup s] = g[x] + (F[A] + F[s \ {x}])  BY <1>5, <1>6, <1>7
<1>11. F[A \cup s] # F[A] + F[s]  BY <1>2
<1> HIDE DEF M
<1> QED  BY <1>8, <1>9, <1>10, <1>11

\* A sum of positive terms is positive, unless it is empty.
LEMMA AdditivePositive ==
    ASSUME NEW S, IsFiniteSet(S), NEW g, NEW F, Additive(F, g, S),
           \A x \in S : g[x] \in Int /\ g[x] > 0,
           NEW A \in SUBSET S
    PROVE  F[A] >= 0 /\ (A # {} => F[A] > 0)
<1> DEFINE M == {s \in SUBSET S : ~(F[s] >= 0 /\ (s # {} => F[s] > 0))}
<1> SUFFICES ASSUME M # {} PROVE FALSE  OBVIOUS
<1>1. M \subseteq SUBSET S  OBVIOUS
<1>2. PICK s \in M : \A t \in M : t \subseteq s => t = s
  <2> HIDE DEF M
  <2> QED  BY <1>1, LeastSet
<1>0. F \in [SUBSET S -> Int] /\ F[{}] = 0  BY DEF Additive
<1>a. s # {}
  <2>1. F[{}] >= 0  BY <1>0
  <2> QED  BY <1>2, <2>1
<1>3. PICK x \in s : TRUE  BY <1>a
<1>4. s \ {x} \in SUBSET S /\ s \ {x} \notin M  BY <1>2, <1>3
<1>5. F[s \ {x}] >= 0 /\ F[s \ {x}] \in Int  BY <1>0, <1>4
<1>6. F[s] = g[x] + F[s \ {x}] /\ g[x] \in Int /\ g[x] > 0  BY <1>3 DEF Additive
<1>7. F[s] > 0 /\ F[s] >= 0  BY <1>5, <1>6
<1> QED  BY <1>7

-----------------------------------------------------------------------------
(***************************************************************************)
(* What CalculatePPLNSOutputsAtTip pays.                                   *)
(***************************************************************************)
\* A share whose difficulty and address are numbers counts for something.
Payable(s) == s.addr \in Int /\ s.diff \in Nat \ {0}

LEMMA CreditPositive ==
    ASSUME NEW s, Payable(s)  PROVE Credit(s) \in Int /\ Credit(s) > 0
BY PayoutAssumption DEF Payable, Credit, AtMost

LEMMA PaidFinite ==
    ASSUME NEW c, NEW S, IsFiniteSet(S)  PROVE IsFiniteSet(Paid(c, S))
<1> DEFINE f == [i \in S |-> c[i].addr]
<1>1. f \in Surjection(S, Paid(c, S))  BY DEF Surjection, Paid
<1> QED  BY <1>1, FS_Surjection

\* The shares of the addresses in A.
By(c, S, A) == {i \in S : c[i].addr \in A}

\* The work of a set of shares: a number, positive for any share, and adding up.
LEMMA WorkFacts ==
    ASSUME NEW c, NEW S, IsFiniteSet(S), \A i \in S : Payable(c[i])
    PROVE  /\ \A T \in SUBSET S :
                 WorkIn(c, T) \in Int /\ WorkIn(c, T) >= 0 /\ (T # {} => WorkIn(c, T) > 0)
           /\ \A X, Y \in SUBSET S :
                 X \cap Y = {} => WorkIn(c, X \cup Y) = WorkIn(c, X) + WorkIn(c, Y)
<1> DEFINE g == [i \in S |-> Credit(c[i])]
           F == [T \in SUBSET S |-> WorkIn(c, T)]
<1>1. \A i \in S : Credit(c[i]) \in Int /\ Credit(c[i]) > 0  BY CreditPositive
<1>2. Additive(F, g, S)  BY <1>1, WorkAdditive
<1>3. \A i \in S : g[i] \in Int /\ g[i] > 0  BY <1>1
<1>4. ASSUME NEW T \in SUBSET S
      PROVE  WorkIn(c, T) \in Int /\ WorkIn(c, T) >= 0 /\ (T # {} => WorkIn(c, T) > 0)
  <2>1. F[T] = WorkIn(c, T)  OBVIOUS
  <2>2. F[T] \in Int  BY <1>2 DEF Additive
  <2> HIDE DEF F, g
  <2>3. F[T] >= 0 /\ (T # {} => F[T] > 0)  BY <1>2, <1>3, AdditivePositive
  <2> QED  BY <2>1, <2>2, <2>3
<1>5. ASSUME NEW X \in SUBSET S, NEW Y \in SUBSET S, X \cap Y = {}
      PROVE  WorkIn(c, X \cup Y) = WorkIn(c, X) + WorkIn(c, Y)
  <2>1. F[X \cup Y] = F[X] + F[Y]
    <3> HIDE DEF F, g
    <3> QED  BY <1>2, <1>3, <1>5, AdditiveDisjoint
  <2>2. X \cup Y \in SUBSET S  OBVIOUS
  <2> QED  BY <2>1, <2>2
<1> QED  BY <1>4, <1>5

\* A part is rounded down.
LEMMA PartFacts ==
    ASSUME NEW c, NEW S, IsFiniteSet(S), S # {}, \A i \in S : Payable(c[i]), NEW r \in Nat,
           NEW a \in Paid(c, S)
    PROVE  /\ Part(c, S, r, a) \in Nat
           /\ Part(c, S, r, a) * WorkIn(c, S) <= r * Weight(c, S, a)
<1> DEFINE W == WorkIn(c, S)
<1>1. W \in Int /\ W > 0  BY WorkFacts
<1>2. {i \in S : c[i].addr = a} \in SUBSET S  OBVIOUS
<1>3. Weight(c, S, a) \in Nat  BY <1>2, WorkFacts DEF Weight
<1>4. \A m, d \in Nat : d > 0 => m \div d \in Nat /\ (m \div d) * d <= m  OBVIOUS
<1>5. r * Weight(c, S, a) \in Nat  BY <1>3
<1> HIDE DEF W
<1> QED  BY <1>1, <1>4, <1>5 DEF Part, W

\* Parts add up.
LEMMA PartsFacts ==
    ASSUME NEW c, NEW S, IsFiniteSet(S), S # {}, \A i \in S : Payable(c[i]), NEW r \in Nat
    PROVE  /\ PartsOf(c, S, r, {}) = 0
           /\ \A B \in SUBSET Paid(c, S) : \A a \in B :
                 PartsOf(c, S, r, B) = Part(c, S, r, a) + PartsOf(c, S, r, B \ {a})
<1> DEFINE P == Paid(c, S)
           p == [a \in P |-> Part(c, S, r, a)]
           Q == [B \in SUBSET P |-> PartsOf(c, S, r, B)]
<1>1. IsFiniteSet(P)  BY PaidFinite
<1>2. \A a \in P : Part(c, S, r, a) \in Int  BY PartFacts
<1>3. Additive(Q, p, P)
  <2> HIDE DEF P
  <2> QED  BY <1>1, <1>2, PartsAdditive
<1>4. Q[{}] = 0  BY <1>3 DEF Additive
<1>5. ASSUME NEW B \in SUBSET P, NEW a \in B
      PROVE  PartsOf(c, S, r, B) = Part(c, S, r, a) + PartsOf(c, S, r, B \ {a})
  <2>1. Q[B] = p[a] + Q[B \ {a}]  BY <1>3 DEF Additive
  <2>2. B \ {a} \in SUBSET P /\ a \in P  OBVIOUS
  <2> HIDE DEF P
  <2> QED  BY <2>1, <2>2
<1> QED  BY <1>4, <1>5

\* The parts of some addresses are covered by the reward for their work.
LEMMA PartsCovered ==
    ASSUME NEW c, NEW S, IsFiniteSet(S), S # {}, \A i \in S : Payable(c[i]), NEW r \in Nat,
           NEW A \in SUBSET Paid(c, S)
    PROVE  /\ PartsOf(c, S, r, A) \in Nat
           /\ PartsOf(c, S, r, A) * WorkIn(c, S) <= r * WorkIn(c, By(c, S, A))
<1> DEFINE P == Paid(c, S)
           W == WorkIn(c, S)
           M == {B \in SUBSET P : ~(/\ PartsOf(c, S, r, B) \in Nat
                                    /\ PartsOf(c, S, r, B) * W <= r * WorkIn(c, By(c, S, B)))}
<1> SUFFICES ASSUME M # {} PROVE FALSE  OBVIOUS
<1>1. W \in Int /\ W > 0  BY WorkFacts
<1>2. M \subseteq SUBSET P /\ IsFiniteSet(P)  BY PaidFinite
<1>3. PICK B \in M : \A D \in M : D \subseteq B => D = B
  <2> HIDE DEF M, P
  <2> QED  BY <1>2, LeastSet
<1>4. \A D \in SUBSET P : By(c, S, D) \in SUBSET S  BY DEF By
<1>5. B # {}
  <2> SUFFICES ASSUME B = {} PROVE FALSE  OBVIOUS
  <2>1. PartsOf(c, S, r, B) = 0  BY PartsFacts
  <2>2. WorkIn(c, By(c, S, B)) \in Int /\ WorkIn(c, By(c, S, B)) >= 0  BY <1>4, WorkFacts
  <2>3. r * WorkIn(c, By(c, S, B)) >= 0  BY <2>2
  <2>4. 0 * W = 0  BY <1>1
  <2> QED  BY <1>3, <2>1, <2>3, <2>4
<1>6. PICK a \in B : TRUE  BY <1>5
<1> DEFINE D == B \ {a}
           X == By(c, S, D)
           Y == {i \in S : c[i].addr = a}
<1>7. D \in SUBSET P /\ D \notin M  BY <1>3, <1>6
<1>8. PartsOf(c, S, r, D) \in Nat /\ PartsOf(c, S, r, D) * W <= r * WorkIn(c, X)
  BY <1>7
<1>9. PartsOf(c, S, r, B) = Part(c, S, r, a) + PartsOf(c, S, r, D)
  BY <1>6, PartsFacts
<1>10. WorkIn(c, By(c, S, B)) = WorkIn(c, X) + Weight(c, S, a)
  <2>1. By(c, S, B) = X \cup Y /\ X \cap Y = {} /\ X \in SUBSET S /\ Y \in SUBSET S
   BY <1>6 DEF By
  <2> HIDE DEF X
  <2> QED  BY <2>1, WorkFacts DEF Weight
<1>11. Part(c, S, r, a) \in Nat /\ Part(c, S, r, a) * W <= r * Weight(c, S, a)
  BY <1>3, <1>6, PartFacts
<1>12. Weight(c, S, a) \in Int /\ WorkIn(c, X) \in Int
  <2>1. X \in SUBSET S /\ Y \in SUBSET S  BY <1>4, <1>7
  <2> HIDE DEF X
  <2> QED  BY <2>1, WorkFacts DEF Weight
<1>13. \A x, y, w, k, u, v \in Int :
         x * w <= k * u /\ y * w <= k * v => (x + y) * w <= k * (v + u)
  OBVIOUS
<1>14. PartsOf(c, S, r, B) * W <= r * WorkIn(c, By(c, S, B))
  <2> HIDE DEF W, D, M, P, X, Y
  <2> QED  BY <1>1, <1>8, <1>9, <1>10, <1>11, <1>12, <1>13
<1>15. PartsOf(c, S, r, B) \in Nat  BY <1>8, <1>9, <1>11
<1> QED  BY <1>3, <1>14, <1>15

\* So they never exceed the reward.
LEMMA PartsWithin ==
    ASSUME NEW c, NEW S, IsFiniteSet(S), S # {}, \A i \in S : Payable(c[i]), NEW r \in Nat,
           NEW A \in SUBSET Paid(c, S)
    PROVE  PartsOf(c, S, r, A) \in Nat /\ PartsOf(c, S, r, A) <= r
<1> DEFINE X == By(c, S, A)
           Y == S \ X
           x == PartsOf(c, S, r, A)
           W == WorkIn(c, S)
           U == WorkIn(c, X)
<1>1. X \in SUBSET S /\ Y \in SUBSET S /\ X \cap Y = {} /\ X \cup Y = S  BY DEF By
<1>2. U \in Int /\ U >= 0 /\ WorkIn(c, Y) \in Int /\ WorkIn(c, Y) >= 0 /\ W = U + WorkIn(c, Y)
  <2> HIDE DEF X, Y
  <2> QED  BY <1>1, WorkFacts
<1>3. W \in Int /\ W > 0 /\ U <= W
  <2>1. W \in Int /\ W > 0  BY WorkFacts
  <2> HIDE DEF W, U, Y
  <2> QED  BY <1>2, <2>1
<1>4. x \in Nat /\ x * W <= r * U  BY PartsCovered
<1>5. \A n, w, k, u \in Int : w > 0 /\ u <= w /\ k >= 0 /\ n * w <= k * u => n <= k
  <2> SUFFICES ASSUME NEW n \in Int, NEW w \in Int, NEW k \in Int, NEW u \in Int,
                      w > 0, u <= w, k >= 0, n * w <= k * u, n > k
               PROVE  FALSE
   OBVIOUS
  <2>1. k * u <= k * w  OBVIOUS
  <2>2. (n - k) * w > 0  OBVIOUS
  <2>3. n * w = (n - k) * w + k * w  OBVIOUS
  <2> QED  BY <2>1, <2>2, <2>3
<1> HIDE DEF x, W, U
<1>6. x \in Int /\ r \in Int /\ r >= 0  BY <1>4
<1>7. x <= r  BY <1>2, <1>3, <1>4, <1>5, <1>6
<1> QED  BY <1>4, <1>7 DEF x

\* What address a gets.
Output(c, S, r, a) == [addr |-> a, amount |-> Amounts(c, S, r)[a]]

\* The outputs of the addresses in B.
OutputsTo(c, S, r, B) == {Output(c, S, r, a) : a \in {b \in B : Amounts(c, S, r)[b] > 0}}

\* Nobody is owed a negative amount.
LEMMA AmountsNat ==
    ASSUME NEW c, NEW S, IsFiniteSet(S), S # {}, \A i \in S : Payable(c[i]), NEW r \in Nat
    PROVE  /\ Max(Paid(c, S)) \in Paid(c, S)
           /\ \A a \in Paid(c, S) : Amounts(c, S, r)[a] \in Nat
           /\ \A a \in Paid(c, S) \ {Max(Paid(c, S))} : Amounts(c, S, r)[a] = Part(c, S, r, a)
           /\ PartsOf(c, S, r, Paid(c, S) \ {Max(Paid(c, S))}) \in Nat
           /\ Amounts(c, S, r)[Max(Paid(c, S))]
                 = r - PartsOf(c, S, r, Paid(c, S) \ {Max(Paid(c, S))})
<1> DEFINE P == Paid(c, S)
           m == Max(P)
           A == P \ {m}
<1>1. m \in P
  <2>1. IsFiniteSet(P)  BY PaidFinite
  <2>2. \A x \in P : x \in Int  BY DEF Paid, Payable
  <2>3. P # {}  BY DEF Paid
  <2> HIDE DEF P
  <2> QED  BY <2>1, <2>2, <2>3, MaxOf
<1>2. PartsOf(c, S, r, A) \in Nat /\ PartsOf(c, S, r, A) <= r
  <2>1. A \in SUBSET Paid(c, S)  OBVIOUS
  <2> HIDE DEF A
  <2> QED  BY <2>1, PartsWithin
<1>3. Left(c, S, r) = r - PartsOf(c, S, r, A)
  BY Zenon DEF Left, PartsOf
<1>4. Amounts(c, S, r)[m] = r - PartsOf(c, S, r, A)  BY <1>1, <1>3 DEF Amounts
<1>5. \A a \in A : Amounts(c, S, r)[a] = Part(c, S, r, a)  BY DEF Amounts
<1>6. \A a \in A : Part(c, S, r, a) \in Nat  BY PartFacts
<1>7. r - PartsOf(c, S, r, A) \in Nat
  <2> HIDE DEF A
  <2> QED  BY <1>2
<1>8. \A a \in P : Amounts(c, S, r)[a] \in Nat
  <2> SUFFICES ASSUME NEW a \in P PROVE Amounts(c, S, r)[a] \in Nat  OBVIOUS
  <2>1. a = m \/ a \in A  OBVIOUS
  <2> HIDE DEF A, m, P
  <2> QED  BY <1>4, <1>5, <1>6, <1>7, <2>1
<1> HIDE DEF A
<1> QED  BY <1>1, <1>2, <1>4, <1>5, <1>8 DEF A

\* One address more adds its amount, which may be nothing.
LEMMA PayOne ==
    ASSUME NEW c, NEW S, NEW r, IsFiniteSet(S),
           \A a \in Paid(c, S) : Amounts(c, S, r)[a] \in Nat,
           NEW B \in SUBSET Paid(c, S), NEW x \in B
    PROVE  /\ AmountsOf(OutputsTo(c, S, r, {})) = 0
           /\ AmountsOf(OutputsTo(c, S, r, B \ {x})) \in Int
           /\ AmountsOf(OutputsTo(c, S, r, B))
                 = Amounts(c, S, r)[x] + AmountsOf(OutputsTo(c, S, r, B \ {x}))
<1> DEFINE P == Paid(c, S)
           All == {Output(c, S, r, a) : a \in P}
           f == [a \in P |-> Output(c, S, r, a)]
           g == [o \in All |-> o.amount]
           G == [O \in SUBSET All |-> AmountsOf(O)]
           D == B \ {x}
           y == Output(c, S, r, x)
<1>1. IsFiniteSet(All)
  <2>1. IsFiniteSet(P)  BY PaidFinite
  <2>2. f \in Surjection(P, All)  BY DEF Surjection
  <2> HIDE DEF P, All, f
  <2> QED  BY <2>1, <2>2, FS_Surjection
<1>2. \A o \in All : o.amount \in Int
  BY DEF Output
<1>3. Additive(G, g, All)
  <2> HIDE DEF All
  <2> QED  BY <1>1, <1>2, AmountsAdditive
<1>4. \A E \in SUBSET P : OutputsTo(c, S, r, E) \in SUBSET All  BY DEF OutputsTo
<1>5. \A O \in SUBSET All : G[O] = AmountsOf(O) /\ AmountsOf(O) \in Int
  BY <1>3 DEF Additive
<1>6. AmountsOf(OutputsTo(c, S, r, {})) = 0
  <2>1. OutputsTo(c, S, r, {}) = {}  BY DEF OutputsTo
  <2>2. G[{}] = 0 /\ {} \in SUBSET All  BY <1>3 DEF Additive
  <2> QED  BY <1>5, <2>1, <2>2
<1>7. D \in SUBSET P /\ B \in SUBSET P /\ x \in P  OBVIOUS
<1>8. CASE Amounts(c, S, r)[x] > 0
  <2>1. y \in OutputsTo(c, S, r, B)  BY <1>8 DEF OutputsTo
  <2>2. OutputsTo(c, S, r, B) \ {y} = OutputsTo(c, S, r, D)
    <3>1. \A a \in P : (Output(c, S, r, a)).addr = a  BY DEF Output
    <3>2. \A a \in P : Output(c, S, r, a) = y => a = x  BY <1>7, <3>1
    <3>3. ASSUME NEW o \in OutputsTo(c, S, r, B) \ {y}  PROVE o \in OutputsTo(c, S, r, D)
     BY <3>3 DEF OutputsTo
    <3>4. ASSUME NEW o \in OutputsTo(c, S, r, D)  PROVE o \in OutputsTo(c, S, r, B) \ {y}
      <4>1. PICK a \in D : o = Output(c, S, r, a) /\ Amounts(c, S, r)[a] > 0
       BY <3>4 DEF OutputsTo
      <4>2. a \in P /\ a # x  OBVIOUS
      <4>3. o # y  BY <3>2, <4>1, <4>2
      <4> QED  BY <4>1, <4>3 DEF OutputsTo
    <3> QED  BY <3>3, <3>4
  <2>3. g[y] = Amounts(c, S, r)[x]  BY <1>7 DEF Output
  <2>4. G[OutputsTo(c, S, r, B)] = g[y] + G[OutputsTo(c, S, r, B) \ {y}]
   BY <1>3, <1>4, <1>7, <2>1 DEF Additive
  <2> HIDE DEF G, g, y, All, D, P
  <2> QED  BY <1>4, <1>5, <1>6, <1>7, <2>2, <2>3, <2>4 DEF D
<1>9. CASE ~(Amounts(c, S, r)[x] > 0)
  <2>1. Amounts(c, S, r)[x] = 0  BY <1>7, <1>9
  <2>2. OutputsTo(c, S, r, B) = OutputsTo(c, S, r, D)  BY <1>9 DEF OutputsTo
  <2>3. AmountsOf(OutputsTo(c, S, r, D)) \in Int  BY <1>4, <1>5, <1>7
  <2> HIDE DEF D
  <2>4. AmountsOf(OutputsTo(c, S, r, B)) = 0 + AmountsOf(OutputsTo(c, S, r, D))  BY <2>2, <2>3
  <2> QED  BY <1>6, <2>1, <2>3, <2>4 DEF D
<1> QED  BY <1>8, <1>9

\* All but the last address get their parts.
LEMMA PayParts ==
    ASSUME NEW c, NEW S, IsFiniteSet(S), S # {}, \A i \in S : Payable(c[i]), NEW r \in Nat,
           NEW A \in SUBSET (Paid(c, S) \ {Max(Paid(c, S))})
    PROVE  AmountsOf(OutputsTo(c, S, r, A)) = PartsOf(c, S, r, A)
<1> DEFINE P == Paid(c, S) \ {Max(Paid(c, S))}
           M == {B \in SUBSET P : AmountsOf(OutputsTo(c, S, r, B)) # PartsOf(c, S, r, B)}
<1> SUFFICES ASSUME M # {} PROVE FALSE  OBVIOUS
<1>1. M \subseteq SUBSET P /\ IsFiniteSet(P)
  <2>1. IsFiniteSet(Paid(c, S))  BY PaidFinite
  <2>2. P \in SUBSET Paid(c, S)  OBVIOUS
  <2>3. IsFiniteSet(P)
    <3> HIDE DEF P
    <3> QED  BY <2>1, <2>2, FS_Subset
  <2> QED  BY <2>3
<1>2. PICK B \in M : \A D \in M : D \subseteq B => D = B
  <2> HIDE DEF M, P
  <2> QED  BY <1>1, LeastSet
<1>3. B \in SUBSET P /\ B \in SUBSET Paid(c, S)  BY <1>2
<1>4. B # {}
  <2> SUFFICES ASSUME B = {} PROVE FALSE  OBVIOUS
  <2>1. PICK x \in Paid(c, S) : TRUE  BY DEF Paid
  <2>2. {x} \in SUBSET Paid(c, S) /\ x \in {x}  OBVIOUS
  <2>3. \A a \in Paid(c, S) : Amounts(c, S, r)[a] \in Nat  BY AmountsNat
  <2>4. AmountsOf(OutputsTo(c, S, r, {})) = 0  BY <2>2, <2>3, PayOne
  <2> QED  BY <1>2, <2>4, PartsFacts
<1>5. PICK x \in B : TRUE  BY <1>4
<1>6. AmountsOf(OutputsTo(c, S, r, B \ {x})) = PartsOf(c, S, r, B \ {x})
  BY <1>2, <1>3, <1>5
<1>7. \A a \in Paid(c, S) : Amounts(c, S, r)[a] \in Nat  BY AmountsNat
<1>8. AmountsOf(OutputsTo(c, S, r, B))
         = Amounts(c, S, r)[x] + AmountsOf(OutputsTo(c, S, r, B \ {x}))
  BY <1>3, <1>5, <1>7, PayOne
<1>9. Amounts(c, S, r)[x] = Part(c, S, r, x)  BY <1>3, <1>5, AmountsNat
<1>10. PartsOf(c, S, r, B) = Part(c, S, r, x) + PartsOf(c, S, r, B \ {x})
  BY <1>3, <1>5, PartsFacts
<1> QED  BY <1>2, <1>6, <1>8, <1>9, <1>10

\* CalculatePPLNSOutputsAtTip pays out the reward, to the unit.
LEMMA OutputsPay ==
    ASSUME NEW c, NEW S, IsFiniteSet(S), \A i \in S : Payable(c[i]), NEW r \in Nat \ {0}, NEW d
    PROVE  /\ AmountsOf(Outputs(c, S, r, d)) = r
           /\ \A o \in Outputs(c, S, r, d) : o.amount > 0
<1>1. CASE S = {}
  <2> DEFINE o == [addr |-> d, amount |-> r]
             g == [x \in {o} |-> x.amount]
             G == [O \in SUBSET {o} |-> AmountsOf(O)]
  <2>1. Outputs(c, S, r, d) = {o} /\ o.amount = r  BY <1>1 DEF Outputs
  <2>2. Additive(G, g, {o})
    <3>1. IsFiniteSet({o})  BY FS_Singleton
    <3>2. \A x \in {o} : x.amount \in Int  BY <2>1
    <3> HIDE DEF o
    <3> QED  BY <3>1, <3>2, AmountsAdditive
  <2> HIDE DEF o
  <2>3. G[{o}] = AmountsOf({o}) /\ g[o] = r  BY <2>1
  <2>4. {o} \ {o} = {}  OBVIOUS
  <2> HIDE DEF G, g
  <2>5. G[{o}] = g[o] + G[{o} \ {o}] /\ G[{}] = 0  BY <2>2 DEF Additive
  <2>6. G[{o}] = r + 0  BY <2>3, <2>4, <2>5
  <2>7. AmountsOf({o}) = r  BY <2>3, <2>6
  <2> QED  BY <2>1, <2>7
<1>2. CASE S # {}
  <2> DEFINE P == Paid(c, S)
             m == Max(P)
             A == P \ {m}
  <2>1. Outputs(c, S, r, d) = OutputsTo(c, S, r, P)
   BY <1>2 DEF Outputs, OutputsTo, Output
  <2>2. /\ m \in P /\ \A a \in P : Amounts(c, S, r)[a] \in Nat
        /\ PartsOf(c, S, r, A) \in Nat
        /\ Amounts(c, S, r)[m] = r - PartsOf(c, S, r, A)
   BY <1>2, AmountsNat
  <2>3. AmountsOf(OutputsTo(c, S, r, P))
           = Amounts(c, S, r)[m] + AmountsOf(OutputsTo(c, S, r, A))
   BY <2>2, PayOne
  <2>4. AmountsOf(OutputsTo(c, S, r, A)) = PartsOf(c, S, r, A)
    <3>1. A \in SUBSET (Paid(c, S) \ {Max(Paid(c, S))})  OBVIOUS
    <3> HIDE DEF A
    <3> QED  BY <1>2, <3>1, PayParts
  <2>5. AmountsOf(OutputsTo(c, S, r, P)) = r
    <3> HIDE DEF A, m, P
    <3> QED  BY <2>2, <2>3, <2>4
  <2>6. \A o \in OutputsTo(c, S, r, P) : o.amount > 0  BY DEF OutputsTo, Output
  <2> QED  BY <2>1, <2>5, <2>6
<1> QED  BY <1>1, <1>2

-----------------------------------------------------------------------------
\* Every share of the chain counts for something, and a job pays its reward.
RewardInv == /\ PayInv
             /\ \A i \in DOMAIN chain : Payable(chain[i])
             /\ job.at # "none" => /\ AmountsOf(job.outs) = job.reward
                                  /\ \A o \in job.outs : o.amount > 0

LEMMA RewardNextInv ==
    ASSUME RewardInv, [Next]_vars PROVE RewardInv'
<1>1. PayInv'  BY PayNextInv DEF RewardInv
<1> USE DEF RewardInv
<1>2. ASSUME NEW k \in Kind, NEW t, Extend(k, t) PROVE RewardInv'
  <2> DEFINE s == [addr |-> k.addr, diff |-> k.diff, stale |-> k.stale, time |-> t]
  <2>1. s \in Share /\ Payable(s)  BY <1>2, PayoutAssumption DEF Share, Payable, PayInv, Extend
  <2>2. chain' = Append(chain, s) /\ job' = job  BY <1>2 DEF Extend
  <2> HIDE DEF s
  <2>3. /\ DOMAIN chain' = 1 .. Len(chain) + 1
        /\ \A i \in 1 .. Len(chain) : chain'[i] = chain[i]
        /\ chain'[Len(chain) + 1] = s
    BY <2>1, <2>2 DEF PayInv
  <2>4. DOMAIN chain = 1 .. Len(chain) /\ Len(chain) \in Nat  BY DEF PayInv
  <2>5. \A i \in DOMAIN chain' : Payable(chain'[i])  BY <2>1, <2>3, <2>4
  <2> QED  BY <1>1, <2>2, <2>5
<1>3. ASSUME NEW t \in 0 .. Len(chain), NEW r \in Reward, SplitCoinbase(t, r)
      PROVE  RewardInv'
  <2> DEFINE c == SubSeq(chain, 1, t)
             H == held \cap 1 .. t
             S == Window(c, H)
             O == Outputs(c, S, r, Address)
  <2>1. Len(c) = t /\ \A i \in 1 .. t : c[i] = chain[i]
    BY SubSeqProperties DEF PayInv
  <2>2. c \in Seq(Share)
    <3>1. \A i \in 1 .. t : chain[i] \in Share  BY DEF PayInv
    <3> QED  BY <3>1, SubSeqProperties DEF PayInv
  <2>3. job'.at = "split" /\ job'.reward = r /\ job'.outs = O /\ chain' = chain
    BY <1>3 DEF SplitCoinbase
  <2> HIDE DEF c, H
  <2>4. S \in SUBSET (1 .. t)  BY <2>1, <2>2 DEF Window, Counted, Walked, Reach
  <2>5. IsFiniteSet(S)
    <3>1. IsFiniteSet(1 .. t)  BY FS_Interval
    <3> HIDE DEF S
    <3> QED  BY <2>4, <3>1, FS_Subset
  <2>6. \A i \in S : Payable(c[i])
    <3>1. \A i \in 1 .. t : Payable(c[i])  BY <2>1 DEF PayInv
    <3> QED  BY <2>4, <3>1
  <2>7. r \in Nat \ {0}  BY PayoutAssumption
  <2> HIDE DEF S
  <2>8. AmountsOf(O) = r /\ \A o \in O : o.amount > 0
    BY <2>5, <2>6, <2>7, OutputsPay
  <2> HIDE DEF O
  <2> QED  BY <1>1, <2>3, <2>8
<1>4. ASSUME CommitTarget PROVE RewardInv'
  <2>1. job.at # "none" /\ chain' = chain  BY <1>4 DEF CommitTarget
  <2>2. job'.outs = job.outs /\ job'.reward = job.reward
    <3>1. JobFrom(job)
      <4>1. job # [at |-> "none"]
        <5> SUFFICES ASSUME job = [at |-> "none"] PROVE FALSE  OBVIOUS
        <5>1. job.at = "none"  OBVIOUS
        <5> QED  BY <2>1, <5>1
      <4> QED  BY <4>1 DEF PayInv
    <3> QED  BY <1>4, <3>1 DEF CommitTarget, JobFrom
  <2> QED  BY <1>1, <2>1, <2>2
<1>5. ASSUME UNCHANGED <<chain, job>> PROVE RewardInv'  BY <1>1, <1>5
<1>6. CASE UNCHANGED vars  BY <1>5, <1>6 DEF vars
<1>7. ASSUME NEW i, Receive(i) PROVE RewardInv'  BY <1>5, <1>7 DEF Receive
<1>8. CASE PruneOldShares  BY <1>5, <1>8 DEF PruneOldShares
<1>9. CASE Tick  BY <1>5, <1>9 DEF Tick
<1> QED  BY <1>2, <1>3, <1>4, <1>6, <1>7, <1>8, <1>9 DEF Next

\* Whatever the shares, their weights and the reward: rounding every payout down and
\* leaving the rest to the last address pays out the reward, to the unit, and the rest is
\* never negative.
THEOREM RewardPaidOut == Spec => []PaysReward
<1>1. Init => RewardInv
  <2> SUFFICES ASSUME Init PROVE RewardInv  OBVIOUS
  <2>1. job.at = "none" /\ DOMAIN chain = {}  BY DEF Init
  <2> QED  BY <2>1, PayInitInv DEF RewardInv
<1>2. RewardInv /\ [Next]_vars => RewardInv'  BY RewardNextInv
<1>3. RewardInv => PaysReward  BY Zenon DEF RewardInv, PaysReward, AmountsOf
<1> QED  BY <1>1, <1>2, <1>3, PTL DEF Spec
=============================================================================
