------------------------------ MODULE Payouts -------------------------------
(***************************************************************************)
(* What a coinbase pays (work/coinbase.go CalculatePPLNSOutputsAtTip and   *)
(* VerifyShareCoinbase, work/sharechain.go GetSharesForPayout,             *)
(* hasCompletePPLNSWindow and getExpectedShareDifficultyLocked).  A node   *)
(* builds a job that pays the shares behind its tip; the others work out   *)
(* the same amounts from what they hold of that chain, and reject a share  *)
(* that pays anything else.                                                *)
(*                                                                         *)
(* One chain without forks, its shares numbered from the first one, of     *)
(* which the node holds some and others may hold any part.  Addresses are  *)
(* numbers in their sort order, difficulties integers in a unit small      *)
(* enough for a tenth of the least.                                        *)
(***************************************************************************)
EXTENDS Integers, Sequences, FiniteSets, FiniteSetsExt

CONSTANTS
    Address,            \* the payout address of the node's miner
    Kind,               \* what shares there may be: addr, diff, stale
    Reward,             \* the coinbase values of templates
    TargetLookbehind,
    PPLNSWindow,        \* DefaultPPLNSWindow
    MaxWindowAge,       \* MaxPPLNSWindowAgeSecs
    maxShareAge,
    MinPoolShareDiff,
    MaxCredit,          \* 16: what one share counts for at most
    BlockCap,           \* 12 times the block difficulty, the most work in a window
    ShareTime,          \* TargetPoolShareTime
    MaxShareTimePast, MaxShareTimeFuture,
    MaxJobAge,          \* how old a job's template may be when a share is found on it
    MaxChain,           \* bound: shares
    MaxTime             \* bound: the clock

ASSUME PayoutAssumption ==
    /\ Address \in Int
    /\ \A k \in Kind : k.addr \in Int /\ k.diff \in Nat \ {0} /\ k.stale \in BOOLEAN
    /\ Reward \subseteq Nat \ {0}
    /\ TargetLookbehind \in Nat \ {0} /\ PPLNSWindow \in Nat \ {0}
    /\ MaxWindowAge \in Nat /\ maxShareAge \in Nat
    /\ MaxShareTimePast \in Nat /\ MaxShareTimeFuture \in Nat /\ MaxJobAge \in Nat
    /\ MinPoolShareDiff \in Nat \ {0} /\ MaxCredit \in Nat \ {0}
    /\ BlockCap \in Nat \ {0} /\ ShareTime \in Nat \ {0}
    /\ MaxChain \in Nat /\ MaxTime \in Nat

VARIABLES
    chain,      \* the shares of the chain, the first one first
    held,       \* the numbers of the shares the node holds
    now,        \* the clock
    job         \* the node's job: on which chain, paying what, at which difficulty

vars == <<chain, held, now, job>>

-----------------------------------------------------------------------------
(***************************************************************************)
(* The window, for a chain c of which the shares H are held.  A walk goes  *)
(* back from the end of c to the first share that is missing.              *)
(***************************************************************************)
Reach(c, H) == {i \in DOMAIN c : i .. Len(c) \subseteq H}

Counted(c, S) == {i \in S : ~c[i].stale}

\* The chainLen of the end of c.
ChainLen(c, H) == Cardinality(Counted(c, Reach(c, H)))

\* The shares that set the difficulty: the newest TargetLookbehind in reach.
Lookback(c, H) == {i \in Counted(c, Reach(c, H)) :
                      Cardinality(Counted(c, i .. Len(c))) <= TargetLookbehind}

AtLeast(a, b) == IF a < b THEN b ELSE a
AtMost(a, b) == IF a > b THEN b ELSE a

\* The difficulty that the shares in S call for, within a tenth of the last one's.
DiffFrom(c, S) ==
    LET new == Max(S)
        old == Min(S)
        due(i) == AtLeast(c[i].diff, MinPoolShareDiff)
        raw == (MapThenSumSet(due, S \ {old}) * ShareTime)
                  \div AtLeast(c[new].time - c[old].time, 1)
    IN  AtLeast(AtMost(AtLeast(raw, (9 * due(new)) \div 10), (11 * due(new)) \div 10),
                MinPoolShareDiff)

ExpectedDiff(c, H) ==
    IF Cardinality(Lookback(c, H)) < TargetLookbehind THEN MinPoolShareDiff
    ELSE DiffFrom(c, Lookback(c, H))

\* GetEffectiveShareDiff of a valid share.
Credit(s) == AtMost(s.diff, MaxCredit)

WorkIn(c, S) == LET credit(i) == Credit(c[i]) IN MapThenSumSet(credit, S)

CapWork(d) == AtMost(PPLNSWindow * d, BlockCap)

\* Older than the window may be: its age counts from its newest share that is not stale.
TooOld(c, i) == c[i].time < c[Max(Counted(c, DOMAIN c))].time - MaxWindowAge

\* The walk ends at share i: too old, or the window full, by work or by count.
Full(c, d, i) ==
    /\ ~c[i].stale
    /\ \/ TooOld(c, i)
       \/ WorkIn(c, Counted(c, i .. Len(c))) >= CapWork(d)
       \/ Cardinality(Counted(c, i .. Len(c))) >= PPLNSWindow

Walked(c, H, d) ==
    {i \in Reach(c, H) : \A j \in i + 1 .. Len(c) : ~Full(c, d, j)}

\* GetSharesForPayout.
Window(c, H) ==
    {i \in Counted(c, Walked(c, H, ExpectedDiff(c, H))) : ~TooOld(c, i)}

\* Mutant of WindowComplete: a missing share ends the walk like any other end.
WindowCompleteAnyway(c, H) == c = <<>> \/ Reach(c, H) # {}

\* hasCompletePPLNSWindow: the walk ends of itself, or at the first share.
WindowComplete(c, H) ==
    c = <<>> \/ \E i \in Walked(c, H, ExpectedDiff(c, H)) :
                    i = 1 \/ Full(c, ExpectedDiff(c, H), i)

-----------------------------------------------------------------------------
(***************************************************************************)
(* CalculatePPLNSOutputsAtTip: weights by address, each paid its part      *)
(* rounded down and the last in order what is left; those that would get   *)
(* nothing are not paid.                                                   *)
(***************************************************************************)
Weight(c, S, a) == WorkIn(c, {i \in S : c[i].addr = a})

Paid(c, S) == {c[i].addr : i \in S}

Part(c, S, r, a) == (r * Weight(c, S, a)) \div WorkIn(c, S)

\* Mutant of Left: everybody gets the rounded part.
LeftRounded(c, S, r) == Part(c, S, r, Max(Paid(c, S)))

Left(c, S, r) ==
    LET part(a) == Part(c, S, r, a)
    IN  r - MapThenSumSet(part, Paid(c, S) \ {Max(Paid(c, S))})

Amounts(c, S, r) ==
    [a \in Paid(c, S) |-> IF a = Max(Paid(c, S)) THEN Left(c, S, r) ELSE Part(c, S, r, a)]

Outputs(c, S, r, default) ==
    IF S = {} THEN {[addr |-> default, amount |-> r]}
    ELSE {[addr |-> a, amount |-> Amounts(c, S, r)[a]] :
             a \in {b \in Paid(c, S) : Amounts(c, S, r)[b] > 0}}

-----------------------------------------------------------------------------
(***************************************************************************)
(* Jobs and their verification.                                            *)
(***************************************************************************)
\* verifyPending and checkConsensus look at the payouts of a share on c, of which H is held.
Ready(c, H) == ChainLen(c, H) >= TargetLookbehind /\ WindowComplete(c, H)

\* SplitCoinbaseForStratumAtTip: the payouts of a job on the tip, share t or none...
SplitCoinbase(t, r) ==
    /\ IF held = {} THEN t = 0 ELSE t \in held
    /\ LET c == SubSeq(chain, 1, t)
           H == held \cap 1 .. t
       IN  job' = [at |-> "split", line |-> c, reward |-> r, diff |-> 0, sure |-> Ready(c, H),
                   outs |-> Outputs(c, Window(c, H), r, Address)]
    /\ UNCHANGED <<chain, held, now>>

\* ...and, under a lock of its own, the difficulty it commits to.
CommitTarget ==
    /\ job.at = "split"
    /\ LET H == held \cap DOMAIN job.line
       IN  job' = [job EXCEPT !.at = "job", !.sure = @ /\ Ready(job.line, H),
                              !.diff = ExpectedDiff(job.line, H)]
    /\ UNCHANGED <<chain, held, now>>

\* checkConsensus, at a node that holds H of its chain, of a share mined on job j: the
\* difficulty and the payouts are checked when enough of the chain is held.
VerifyShare(j, H) ==
    /\ Cardinality(Lookback(j.line, H)) >= TargetLookbehind => j.diff = ExpectedDiff(j.line, H)
    /\ Ready(j.line, H) => j.outs = Outputs(j.line, Window(j.line, H), j.reward, Address)

-----------------------------------------------------------------------------
(***************************************************************************)
(* The chain and what the node holds of it.                                *)
(***************************************************************************)
\* Somebody mines a share on the chain, dated t: CreateShare keeps the time a miner chose
\* near the clock, the template's time and the timestamp of the share it builds on.
Extend(k, t) ==
    /\ Len(chain) < MaxChain
    /\ t \in now - MaxJobAge - MaxShareTimePast .. now + MaxShareTimeFuture
    /\ chain # <<>> => t >= chain[Len(chain)].time - MaxShareTimePast
    /\ chain' = Append(chain, [addr |-> k.addr, diff |-> k.diff, stale |-> k.stale,
                               time |-> t])
    /\ UNCHANGED <<held, now, job>>

\* A share reaches the node, new or asked for, unless it is past retention (CheckShareTime).
Receive(i) ==
    /\ i \in DOMAIN chain \ held /\ chain[i].time >= now - maxShareAge
    /\ held' = held \cup {i}
    /\ UNCHANGED <<chain, now, job>>

\* Mutant of PruneOldShares: what is out of the payout window is not needed.
PruneToWindow ==
    /\ held' = {i \in held : chain[i].time >= now - MaxWindowAge}
    /\ UNCHANGED <<chain, now, job>>

PruneOldShares ==
    /\ held' = {i \in held : chain[i].time >= now - maxShareAge}
    /\ UNCHANGED <<chain, now, job>>

Tick == now < MaxTime /\ now' = now + 1 /\ UNCHANGED <<chain, held, job>>

Init == chain = <<>> /\ held = {} /\ now = 0 /\ job = [at |-> "none"]

Next == \/ \E k \in Kind, t \in -MaxJobAge - MaxShareTimePast .. MaxTime + MaxShareTimeFuture :
              Extend(k, t)
        \/ \E t \in 0 .. Len(chain), r \in Reward : SplitCoinbase(t, r)
        \/ \E i \in DOMAIN chain : Receive(i)
        \/ CommitTarget \/ PruneOldShares \/ Tick

Spec == Init /\ [][Next]_vars

-----------------------------------------------------------------------------
(***************************************************************************)
(* Properties.                                                             *)
(***************************************************************************)

\* A share mined on a job whose node held the whole window and the lookbehind passes the
\* checks of every other node, whatever part of the chain that one holds and whatever the
\* two received or pruned since: no history beyond it changes what a window that passes
\* for complete pays, or the difficulty due.
HonestVerifies ==
    job.at = "job" /\ job.sure => \A H \in SUBSET DOMAIN job.line : VerifyShare(job, H)

\* A job pays out exactly the reward: rounding neither loses nor mints a unit, and leaves
\* no output empty or negative.
PaysReward ==
    job.at # "none" =>
        LET amount(o) == o.amount
        IN  /\ MapThenSumSet(amount, job.outs) = job.reward
            /\ \A o \in job.outs : o.amount > 0

\* How far behind its ancestor's the timestamp of a share may be.
Skew == MaxJobAge + MaxShareTimePast + MaxShareTimeFuture

\* Pruning takes nothing from the payouts on a tip as long as it leaves the lookbehind, if
\* retention exceeds the age of the tip by that of a window and the skew of timestamps: it
\* goes by the clock, the window by the tip, and a stale share that is dated back is pruned
\* before the shares below it although no window counts it as old.
PruneKeepsWindow ==
    [][LET new == Counted(chain, DOMAIN chain) IN
       /\ held' # held /\ held' \subseteq held
       /\ new # {} /\ chain[Max(new)].time - MaxWindowAge - Skew >= now - maxShareAge
       /\ Cardinality(Lookback(chain, held')) = Cardinality(Lookback(chain, held))
       => Window(chain, held') = Window(chain, held)]_vars
=============================================================================
