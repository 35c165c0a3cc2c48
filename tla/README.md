# A TLA+ verification of p2pool-go-VTC

p2pool-go-VTC is a peer-to-peer mining pool for Vertcoin. Every node keeps the
same DAG of *shares* (proofs of work below the block difficulty), verifies what
peers send, hands work to miners over Stratum and pays the miners of the last
shares in the coinbase of any block they find. A *full* node has a `vertcoind`;
a *light* node takes block templates from full-node peers. This directory holds
TLA+ models of the core, the TLC configurations that check them and TLAPS proofs.

`tlc -config X.cfg M` makes a run, `tlapm M.tla` checks the proofs of a module.
PROJECT.json lists the runs, which lines each definition models, the hazards the
properties are aimed at, and a mutation of the code that each property catches.

## Inventory

How the parts interact: gossip, sync, download and Stratum feed shares into the
share chain, whose tip decides what new jobs build on. The work manager turns
templates (polled from `vertcoind`, or voted on in light mode) into jobs through
`NewBlockChan`; the Stratum server sends them to miners and takes solutions,
which become shares and sometimes blocks. Blocks go to `vertcoind` and to peers,
and into the ledger, which is settled by confirmations. The chain and the ledger
are saved to disk; sync also merges ledgers.

| Part | State | Operations | What is hard, and what makes it correct |
| --- | --- | --- | --- |
| Share chain (`work/sharechain.go`, `work/share.go`) | `shares`, `verified`, `received`, `cumWork`, `chainLen`, `children`, tip, `dirty`; locks `mutex`, `verifyMu` | `AddSharesOutcomes`, `verifyPending`, `PruneOldShares`, `pruneUnverified` | Shares arrive in any order and passes give up the lock between two reads. Incremental work equals a recompute; the tip is the best candidate; nothing verifiable is left waiting; rules cannot be dodged. |
| Share store (`work/sharestore.go`, `main.go`) | `sharechain.db`, `sharechain.json`, a commit's snapshot | `Load`, import of the older store, `Commit`, `Close`, autosave, shutdown | Crashes and failed writes between any two steps. What is on disk may be trusted; memory and disk differ on dirty shares only. |
| Block ledger (`work/manager.go`) | `PendingBlocks`, `blocks.json`, queries under way | `SubmitBlock` with retries, `WatchFoundBlocks`, `WatchMaturedBlocks`, the light-mode settlement, `MergeRemoteBlocksJSON`, `LoadBlocks` | Lost replies, late answers, rivals, restarts. One entry per height; nothing paid too early; no winning block written off; everything settled. |
| Mining jobs (`stratum/server.go`, `stratum/client.go`, `work/manager.go`) | `Templates`, `NewBlockChan`, `lastJob`, each client's `ActiveJobs` and `Submitted` | `fetchBlockTemplate`, `jobBroadcaster`, `sendMiningJob`, `NotifyNewShare`, `vardiffLoop`, `handleAuthorize`, `handleSubmit`, `dropClient` | Goroutines per job and client. Every miner gets the latest work; work counts once; a job's parts belong together. |
| Light-mode templates (`work/manager.go`, `p2p/node.go`) | `peerTmpl`, `verifiedBlocks`, `peerScores`, `lastAgreedTime`, `peerFullMode`, `peerVerifiedFull` | `handleTemplateStream`, `PullTemplateFromPeers`, `verifyPeerHeaderChallenge`, `ApplyRemoteTemplateJSON` | Votes go stale, arrive late and disagree. Transactions are vouched for by a pinned peer; blocks are self-contained; the node follows its pinned peer. |
| Share download and sync (`p2p/download.go`, `p2p/node.go`, queries of `work/sharechain.go`) | the request under way, hashes answered and when | `step`, `fetchShares`, `SyncWithPeer`, `requestBestShare`, `GetMissingParentHashes`, `GetStopHashes`, `GetSharesByHashWithParents` | Gossip is lost; answers are empty, useless, cut short. All nodes settle on one tip; the line below it is filled in. |
| Peer scores and intake (`p2p/score.go`, `main.go`) | counts per peer, `IncomingShares` | `record`, `forget`, `RecordShareOutcome` | Good and bad shares counted concurrently; an honest peer stays. |
| Block relay (`work/manager.go`, `p2p/node.go`) | `seenBlocks`, `peerScores`, relay streams | `SubmitBlock`, `SubmitRawBlockHex`, `RelaySolvedBlockHex` | A block that was seen counts as submitted; the finder waits for answers. Submitted once, never lost among light nodes, never round and round. |
| Payouts (`work/coinbase.go`, `work/sharechain.go`) | none of its own | `GetSharesForPayout`, `hasCompletePPLNSWindow`, `GetExpectedShareDifficulty`, `CalculatePPLNSOutputsAtTip`, `VerifyShareCoinbase` | Nodes hold different parts of the chain. Those that judge a share compute the same; amounts add up; pruning does not cut into a window. |
| Miner difficulty (`stratum`) | rates, reconnect cache | vardiff | Floating-point formulas with clamps. |
| Transport, RPC, Verthash, web, configuration, logging, debug proxy | connections, files | libp2p, JSON-RPC, hashing, HTTP | Not pool logic; seen here through what they deliver. |

## Modules

| Module | Models | Extends |
| --- | --- | --- |
| `ShareGraph` | shares, their parents and lines | |
| `ShareLife` | abstract: what may happen to a share | |
| `ShareChain` | the in-memory chain; implements `ShareLife` | `ShareGraph` |
| `ShareStore` | the chain over its database: every step of `ShareChain` composed with load, commit, crash and restart | `ShareChain` |
| `BlockLedger` | submission, ledger and `blocks.json`, in full and in light mode | |
| `MiningJobs` | templates to jobs to submissions | |
| `TemplateVotes` | a light node settling on a template | |
| `ShareSync` | several nodes' chains, gossip, sync and download | `ShareGraph` |
| `BlockRelay` | one block among full and light nodes | |
| `Payouts` | difficulty, payout window, amounts, their verification | |
| `ShareChainProofs`, `BlockLedgerProofs`, `MiningJobsProofs`, `TemplateVotesProofs`, `BlockRelayProofs`, `PayoutsProofs` | the theorems about each, with their proofs | the module |
| `ShareRulesProofs` | the theorems about the rules and the tip of the chain | `ShareChainProofs` |
| `ShareStoreProofs` | the theorems about the store | `ShareStore`, `ShareRulesProofs` |
| `MC*` | share graphs, heights and chains for TLC | the module |

### ShareChain

A share is its hash; parent, difficulty, timestamp and the rule it breaks are
constant functions of the hash. That the hash commits to the content is an
assumption where a share brings its own: `AddSharesOutcomes` computes the hash only
if there is none (`sharechain.go:141`), and synced shares come with one
(`main.go:272-282`). Maps of
the code are functions or sets (`held`, `verified`, `received`, `cumWork`,
`chainLen`, `children`), and every action is one critical section of `mutex`.
`AddShares` is the storing half of `AddSharesOutcomes`. Its clock reading is taken
before the lock (`sharechain.go:133`), and so is that of `pruneUnverified`, so both
go by any reading of the last `MaxWait` ticks (`Readings`). The caller then waits for
`verifyMu` (`due`) and its pass runs as a sequence of steps, one for each time
`verifyPending` takes the lock: `PassStart`, `PassNext`, the reads of
`checkConsensus` (`PassEff`, `PassTime`, `PassTarget`, `PassDiff`, `PassCoinbase`,
`PassPayout`), `PassAccept` or `PassReject`, `PassEnd`. Stores and
`PruneOldShares` come between any two of them; `pruneUnverified` takes `verifyMu`
and does not. `updateWork` is `updateWorkLocked`: work is added along the
children index. Its running totals are the constants `TotalWork` and `TotalLen`,
tied to the parent links by `TotalAssumption`, which keeps recursion out of the
module that is proved about; the work of a share whose line is cut is a
difference of totals.

`ShareLife` is the promise behind all this: a share within retention is stored,
waits, is verified at most once while it is held, and leaves, if verified, for its
age alone. The refinement mapping `Life` makes `pending` the held shares not verified
and `accepted` the held verified ones; ghosts (marked by a pass after
`PruneOldShares` took them) map to nothing. A caller that waited for the lock can
store a ghost again, which then is verified unseen and has an arrival time:
`ShareLife` allows this past retention only (`Arrive`), and `GhostsAged` says that it
happens nowhere else. `ReceivedExact`, `NoOptOut` and `DbExact` are exact within
retention for the same reason; the next prune takes such a share.

### ShareStore

`proc` is where the process is in `Load` or in shutdown; `Commit` is two steps,
the snapshot under `mutex` and the write under `commitMu`, with the chain moving
on in between. A write may fail, and the process may crash, at any point. A ghost
that was stored again is live and not dirty, so it is the one kind of share that the
database may lack unmarked.

### BlockLedger

A block is its hash. `SubmitBlock` sends, may lose the reply, retries, and then
records the block in a step of its own (`RecordSolved`); `vertcoind` answers
"duplicate" or "inconclusive" as the code expects. `WatchMatured` is a full
node's minute tick; `ApplyTemplate` and `ConfirmationsAnswered` are the two
halves of a light node's settlement. There a template may claim any height and build
on any block of the ledger, won or not, and peers may name any block they are asked
about; `Confirmed` is never cleared. So nothing is promised of what a light node calls
paid (`PaidIsMature` is about full nodes), and `SolvedKept` holds until a height is
claimed that the chain has not reached (`overclaimed`). What a merged ledger says is
taken to be true (`PeerSays`): `MergeRemoteBlocksJSON` copies it. Left out: reorganisations after a block won,
entries whose hash does not parse, and the branch of `ApplyRemoteTemplateJSON`
for a missing `CheckBlockConfirmationsFunc`, which `main.go` always sets.

### MiningJobs

A template is its number in the order `vertcoind` makes them. A job remembers the
template it was made for and, separately, the master job whose merkle links it
took. A goroutine is a member of `sending`; two with equal arguments do the same.
Left out: difficulties, addresses, the messages and their order, and the
producers of a light node.

### TemplateVotes

A template has the block it builds on, the height it claims and a list of entries, each
with the id it claims. Votes are compared by ids (`txSetHash`) and the height floor goes
by claimed heights, as in the code; a height is counted as that of the block built on. A
pinned peer serves true heights and genuine entries (`Genuine`) closed under dependency,
because they come from a `vertcoind`; any other peer may claim any height and put other
data under an id. `Lists` are the lists that are served. `SubmitBlock` is the removal of
the template once a block is solved on it, which lifts the floor. Bits are those of the
block: a vote for others agrees with none. Header checks
are reduced to whether the headers that came along lead to a block of the share
chain. Receiving and voting is one step; a delayed template is one for an earlier
block. What follows an accepted template is `ApplyTemplate` of `BlockLedger`.

### ShareSync

`held` and `verified` are the chains of several nodes, of which `ShareChain` is one;
here storing a batch and its pass are one step (`Add`, with `Pass` as what a pass
comes to when nothing interrupts it). `mail` holds gossip under way: losing a share
is never delivering it, or leaving a node out of `to`. `requestBestShare` is one
direction of a version exchange with the request it leads to, `SwapWindows` that of
the older protocol. The download loop is `Ask` and then `Fetch` or `FetchFails`, so
that the chain moves on during a request; `answered` is its memory, which `Requery`
ends. Left out: the limits of 100 hashes and 1000 shares in one message, which the
instance could not reach, stale shares, and retention.

### BlockRelay

A stream is a record in `streams`, from `RelaySolvedBlockHex` to the answer.
`Receive` is `SubmitRawBlockHex` under its lock, `RelayedAccepted` and
`RelayedRejected` the submission after it. A failed submission may or may not have
reached `vertcoind`. `SubmitOwn` is the rest of `SubmitBlock` after `wg.Wait`; its
retries are in `BlockLedger`.

### Payouts

One chain, numbered from its first share, of which the node holds a set; what
another node holds is any set, quantified over in `HonestVerifies`. Difficulties
are integers, so the tolerance of a thousandth in `checkConsensus` is equality and
the tenths of the clamp are rounded down; weights are difficulties. A job is made
under two locks, since `GetExpectedShareDifficulty` is a read of its own after the
payouts (`CommitTarget`); `sure` records that the node held enough both times.
`Extend` dates a share as `CreateShare` lets a miner do, so timestamps are only nearly
in order (`Skew`). Left out: shares without a standard payout address, which `IsValid` refuses,
metadata commitments, and shares mined on no tip, which are not judged.

## Runs

| Run | Specification | Shows |
| --- | --- | --- |
| `share_chain` | `Spec`, four shares with a fork, two callers | `ChildrenExact`, `ReceivedExact`, `WorkExact`, `TipIsBest`, `NoneLeftBehind`, `NoOptOut`, and `Lifecycle`, the refinement of `ShareLife` |
| `rules` | `Spec`, stale, solved, backdated and wrongly paying shares | `TipIsBest` with stale shares, `RejectedForCause` |
| `difficulty_enforced` | `Spec`, a line whose first share is invalid | violated, see Findings |
| `share_store` | `FairStoreSpec`, a line of two shares, one from the older store | `DbExact`, `StoredSound`, `DiskCatchesUp` |
| `ledger_full` | `Spec`, three blocks, two of one height | `OnePerHeight`, `PaidIsMature`, `SolvedKept`, `GivesUpLast` |
| `ledger_light` | `FairSpec`, claimed heights, failing peers, a restart | `SolvedKept`, `Settled` |
| `mining` | `FairSpec`, a miner, two templates on one block, three jobs of which one may be active | `CountsOnce`, `NeverStepsBack`, `CatchesUp`, `GetsWork` |
| `merkle_roots` | `Spec`, two templates on one block | violated, see Findings |
| `template_votes` | `FairSpec`, a pinned peer and one that may claim anything | `Vouched`, `SelfContained`, `NotDeserted`, `Follows` |
| `share_sync` | `FairSpec`, a node with a truncated chain and a new one | `Converges`, `FillsIn` |
| `block_relay` | `FairSpec`, two light and two full nodes, one unsteady | `OneSubmission`, `Quiet`, `Lands`, `OwnSubmitted` |
| `payouts` | `Spec`, chains of up to four shares | `HonestVerifies`, `PaysReward`, `PruneKeepsWindow` |

The runs of `ShareChain`, `ShareStore`, `BlockLedger`, `MiningJobs` and
`TemplateVotes` also check the type invariant of their module once.

### Bounds

`MaxTime`, `MaxWait`, `MaxCallers`, `MaxTip`, `MaxJobs`, `MaxJobAge`, `MaxHeight`,
`MaxQueries`, `Lists`, `MaxRestarts`, `MaxExpiries` and `MaxChain` are the only bounds
that the code does not have; each stops an environment that would go on. The limits of the code are constants, made small so that they are reached:
a lookbehind of one or two shares, retention of one tick, a channel of one or two
places, one active job, maturity after three blocks, votes that last a minute.
Four shares give a fork with a longer and a heavier branch, a late parent, and a
prune below both; a second caller is what it takes for stores during a pass, and a
reading one tick old for a ghost to come back. `share_store` has retention of no tick and
two shares, enough for a share that leaves, comes back and is written at any of these
points.
Three blocks give a rival and an unrivalled one; with two queries under way one
overtakes the other. One miner suffices for `MiningJobs`, whose clients share only the
master job and the tip; the third job evicts. The lists of `template_votes` are a
transaction with the one it spends from, without it, and with another entry under that
one's id. Two voters give every kind of agreement but that of two peers that are not pinned, which the
theorems of `TemplateVotesProofs` cover for any number.
In `ShareSync` an answer of the download loop holds one share and a line is deep
enough with three, so a gap takes several requests; the chain's first share is gone
everywhere, so the newcomer can only start by the length of what it holds, and an
invalid share with a child keeps a missing parent that no answer satisfies. In
`BlockRelay` a light node can reach `vertcoind` through another light node only,
and the ring of the other three lets copies of a block meet. In `Payouts` four
shares are one more than a window, twice the lookbehind, and with two clock
readings enough for a window cut by age, by work and by count, for a prune, and for a
share dated behind its parent.

### Fairness

- The autosave ticker calls `Commit` for ever, so `CommitBegin` is weakly fair;
  `CommitWrite` strongly, since a disk that always fails saves nothing. The
  maintenance ticker calls `PruneOldShares` every 15 seconds (`PruneStep`).
- `fetchBlockTemplate` runs on a one-second ticker; the broadcaster and started
  goroutines get their turn. Nothing is assumed of miners.
- In light mode full-node peers broadcast their template again every half minute
  at the latest, and the node asks every 15 seconds. A relay and a confirmation
  query end, because the handlers asked have deadlines of 30 and 10 seconds and a
  peer that is gone takes its streams with it. The network goes on finding blocks.
  Templates of the true height go on arriving; their fairness is strong because
  `MaxQueries` may keep one out for a while.
- In `ShareSync` the sync of every 30 seconds gets through between any two nodes
  that stay connected (weak fairness). A request ends by its deadline. The download
  loop picks hash, peer and depth at random, so a pick that stays possible is made
  again and again, and such a request succeeds again and again (strong fairness).
  Nothing is assumed of gossip or of `SwapWindows`.
- In `BlockRelay` handlers run and end and `SubmitBlock` goes on after its wait.
  That a handler ends is up to the peer: the read of its answer in
  `RelaySolvedBlockHex` has no deadline, so a peer that keeps a stream open and
  silent holds up the finder's own submission. Nothing is assumed of the Vertcoin
  network.
- `Follows` assumes that time passes, that the pinned peer answers a challenge in time
  again and again (strong fairness of its latest template), that delayed templates of it
  have all arrived some time after its latest block (`UpToDate`: streams have deadlines),
  that the sync of every 30 seconds happens, and that verified shares on every block
  arrive. It is shown for one peer that is not pinned: two that keep claiming too great a
  height together could keep the floor up.

## Proofs

Every safety property that a run checks is also a theorem, for every value of the
constants that the named assumptions allow.

| Theorem | Property | Inductive invariant |
| --- | --- | --- |
| `TypeCorrect`, `ChildrenStayExact`, `ReceivedStaysExact`, `WorkStaysExact`, `GhostsStayAged` | `TypeOK`, `ChildrenExact`, `ReceivedExact`, `WorkExact`, `GhostsAged` | `ChainInv` |
| `ImplementsShareLife` | `Lifecycle` | `ChainInv`, each action mapped to a step of `ShareLife` or a stutter |
| `VersionRuleHolds` | `NoOptOut` | `DatedInv`, with `ChainInv` |
| `RejectsForCause` | `RejectedForCause` | `CauseInv`, with `ChainInv` |
| `NothingLeftBehind` | `NoneLeftBehind` | `LenAtLeast`, `NoneMissed`, with `ChainInv` |
| `TipStaysBest` | `TipIsBest` | `TipBestOrLagging`, with `ChainInv` |
| `DatabaseStaysExact`, `StoreTypesHold` | `DbExact`, `StoreTypeOK` | `StoreInv` |
| `StoreStaysSound` | `StoredSound` | `SoundInv`, with `StoreInv` |
| `LedgerTyped` | `LedgerTypeOK` | itself |
| `PaidStaysMature` | `PaidIsMature` | `PaidInv` |
| `OneEntryPerHeight` | `OnePerHeight` | `Distinct(entry)`, with `PaidInv` |
| `GivesUpOnlyLast` | `GivesUpLast` | `GivesUpInv` |
| `SolvedStaysKept` | `SolvedKept` | `SolvedInv` |
| `TypesHold`, `TransactionsVouched`, `TemplateSelfContained`, `PinnedNotDeserted` | `VotesTypeOK`, `Vouched`, `SelfContained`, `NotDeserted` | `VotesTypeOK`, `PinnedClosed`, `AgreedSince` |
| `MiningTyped` | `MiningTypeOK` | `TypeInv` |
| `MasterNeverStepsBack`, `WorkCountsOnce` | `NeverStepsBack`, `CountsOnce` | `InOrder`, `CountInv` |
| `SubmittedOnce` | `OneSubmission` | `RelayInv` |
| `HonestSharesVerify`, `PruneKeepsPayouts` | `HonestVerifies`, `PruneKeepsWindow` | `PayInv`, `InOrder` |
| `RewardPaidOut` | `PaysReward` | `RewardInv` |

The assumptions are what the code has by its constants or by hashing: following
parents ends (`FoundedAssumption`: every set of shares has one whose parent is not in
it), the running totals are sums along the parent links (`TotalAssumption`), the
second consensus version is activated no later than it becomes mandatory
(`work/share.go:101`), the depth at which a light node gives up on an unconfirmed block
is at least one and no more than maturity, a vote is fresh for no longer than it takes
the height floor to lapse, no two genuine transactions have one id, and limits are
natural numbers.

- **Work.** `WorkExact` speaks of the chain between passes. During a pass the
  descendants of a rejected share still carry its work, so `ChainInv` says
  `WorkFitsButRejected`: only the children of a share rejected in this pass may
  be wrong. `UnderWayHeld` and `GhostsAged` are needed for `ReceivedExact`, since
  a pass may mark a share verified that `PruneOldShares` has just removed: such a
  share is past retention, and stays so when it is stored again. The step for
  `updateWorkLocked` rests on lemmas about lines of a share graph and their
  running totals, from acyclicity alone.
- **Rules.** `checkConsensus` reads the chain several times and a prune may come
  between two reads. `DatedInv` says that whatever a pass or the `verified` map still
  refers to although it is gone left by its age (`DepartedAged`): a share dated back
  below a parent that is gone is past retention itself, and one that was dated before
  its parent went stays dated (`CurDated`).
  `CauseInv` carries what one check found to the next: a full lookbehind or a complete
  window stays one, unless a share of the line left retention. `RejectedForCause` has
  one exception and names it: a first share is held to the difficulty due on our tip,
  of which its own line says nothing.
- **Nothing left behind.** `NoneMissed` is about the last pass: every share it could
  verify is still to come. A pass takes the shares that wait sorted by the length of
  their lines, so it needs that a child's length exceeds its parent's when they are
  sorted (`LenAtLeast`), and that lengths only fall while shares leave, so that no share
  becomes verifiable by a removal.
- **Tip.** While a pass has rejected a share and not yet ended, candidates below it
  carry too much work and the tip may be wrong; `TipBestOrLagging` says it is the best
  candidate unless a candidate is among those (`Lagging`), and `dropWorkLocked` looks at
  all of them again when the pass ends. For the other steps: the best of what a step
  touched and the old best is the best of all, if the old best lost no work, and a
  prune that took work from the tip selects it anew.
- **Refinement.** `AddShares` maps to `Arrive`: what it stores is not held, is past
  retention by no more than `MaxWait`, and the ghosts in it are the shares that come back
  as accepted, which `GhostsAged` says are past retention. `PassAccept` maps to `Accept`,
  or to a stutter when the share was pruned during the checks; `PassReject` and both
  prunes map to `Leave`, of verified shares past retention only (by `ReceivedExact` for
  `pruneUnverified`), everything else to a stutter.
- **Payouts.** If a walk over the held part of a line ends of itself, it ends at the
  same share in any other part in which it ends of itself, and the lookbehind of two
  nodes that both have enough of it is the same; so the difficulty due, the cap on
  work and the window agree, and with them the outputs. The invariant says that a job
  marked sure carries the outputs and the difficulty of its whole line.
  `PruneKeepsPayouts` uses that no share is dated further behind an ancestor than `Skew`
  (`InOrder`): if retention exceeds the age of the tip by that of a window and the skew,
  nothing above a share of the window is pruned. `RewardPaidOut` is about sums over any set of addresses. The
  induction theorems of the library take an operator, which the provers cannot
  instantiate; a least counterexample under strict inclusion of finite sets
  (`LeastSet`) does the same. It gives that a sum does not depend on the order in which
  `MapThenSumSet` takes the elements; that the rounded parts, times the work of the
  window, are covered by the reward times the work of the addresses paid
  (`PartsCovered`), so that what is left for the last address is not negative; and that
  dropping empty outputs changes nothing. The invariant adds that every share of the
  chain counts for something, or the division would be by zero.
- **Store.** `DbExact` is about moments without a write in flight. `DbFollows`
  strengthens it: for a share in the snapshot it is the snapshot's intention, not
  the database, that agrees with memory, up to shares past retention that came back. A failed write marks the whole snapshot
  dirty, which is why it is preserved. `SoundInv` follows the version rule from memory
  through the snapshot (`puts`) to the database and back: a load trusts what it reads,
  so the rule has to hold of what is written, the older store's shares excepted.
- **Jobs.** `InOrder`: the channel is in order between the master job and vertcoind's
  latest template; a template is offered only when it is the latest, also when it is
  fetched again after a solved block. `CountInv` adds to `CountsOnce` that every work
  that counted is still on record with a submission that is over, or has been
  evicted; that the submission is *over* is what makes the next one a duplicate.
  `TypeInv` adds to the types that there is a master job whenever somebody is about to
  send work, so the return of `sendMiningJob` without one is never taken.
- **Relay.** `OneHandler`: among the handlers between the lock of
  `SubmitRawBlockHex` and its submission no two are at the same node, and that node
  has noted the block and not submitted it.
- **Ledger.** A restart reads an older ledger, so `PaidInv` bounds what is on a full
  node's disk by the chain too.
  `SolvedInv` follows a block of ours from its submission on, while the network has it
  or may still take it: it is no orphan, and once it is to be recorded every query under
  way is harmless to it (`SafeFrom`: the query names it, it has been confirmed or paid,
  or it is within the grace period by the query's height); once recorded it
  stays. All this as long as no template claimed a height beyond the chain's. That needs that queries name only blocks below their height, that a full
  node's `vertcoind` has what is recorded, and that a disk that works is up to date.
  `GivesUpInv` adds that no block of the chain is above its top: while a height is
  open, a block `vertcoind` holds is not stale, so only a lost reply fails it.
- **Votes.** `TransactionsVouched` needs no invariant: each way of installing names ids of
  a fresh pinned vote only, since lists with equal hashes have equal ids (`HashIds`); whose
  data stand under them is left open, as in the code. `TemplateSelfContained` needs that
  votes of pinned peers are genuine and closed: what is installed has the hash of such a
  vote, or entries that depend on nothing. `PinnedNotDeserted` is about templates of true
  height and needs `AgreedSince`: a fresh pinned vote for the current block is never older
  than the last agreement, because such a vote, at that height, always is agreement; then
  the height floor cannot lapse while it is fresh, by `FreshFor <= LapseAfter`. A template
  of too great a height locks the pinned peer's out until the floor lapses; what ends that
  is `Follows`, by TLC.

Only model-checked: the liveness properties (`DiskCatchesUp`, `Settled`,
`CatchesUp`, `GetsWork`, `Follows`, `Converges`, `FillsIn`, `Quiet`, `Lands`,
`OwnSubmitted`), since fairness and `ENABLED` are out of the prover's reach. So
`ShareSync`, whose promises are all of that kind, has no theorem.

## Findings

- `difficulty_enforced`: a share built on one that the same pass rejects is
  verified without its difficulty being checked.
- `merkle_roots`: a job may join one template with the merkle links of a later
  one, and the block solved on it is refused by `SubmitBlock`.

Noticed while modelling, without a run:

- Whether to import `sharechain.json` is decided by `sharechain.db` not existing, but
  opening the database creates it before the import is written: a crash in between
  leaves the JSON unimported (`sharestore.go:41-62`). `ShareStore` has these states.
- `blocks.json` never holds `Confirmed`, which `LoadBlocks` reads back
  (`manager.go:185`): a restarted light node has to find a peer to ask again.
- `AddSharesOutcomes` reads the clock before it takes the lock (`sharechain.go:133-134`).
  A caller that waits there while a share is pruned in the middle of its verification
  stores it again past retention: held, verified, and with an arrival time. It is not
  marked dirty and the next prune takes it.
- Synced and older shares keep the hash they come with (`sharechain.go:141`,
  `main.go:272-282`).
- On a light node `Confirmed` is set for any block a template builds on, at the height its
  sender claims, and never cleared (`manager.go:1022-1031`): a block that lost, or is not
  mature, can end as paid, and one whose height the chain has not reached as an orphan.
- `MergeRemoteBlocksJSON` takes over a peer's state of a block, "paid" included.
- "Full consensus ... on exact transaction set" (`manager.go:983`) is about ids:
  `txSetHash` covers neither `Data` nor `Depends` nor `Fee` (273-281), and the list
  installed is the sender's. If it has other data under the agreed ids, a block solved on
  the template fails the merkle check of `SubmitBlock` (524) and is lost.
- The height of a template is not tied to the block it builds on (`manager.go:950`): one
  that is too great keeps true templates out until nothing was agreed on for three
  minutes. A block solved on a light node removes the template and with it the floor
  (571-573), whatever a pinned peer votes for.
- Evicting active jobs forgets what was submitted on them (`server.go:944`), so the same
  solution can count again under an equal job.
- Retention is exactly twice the age of a window: with a tip almost 36 hours old, a stale
  share dated back behind its parent can be pruned out of the middle of a window.
- A stale share can be sorted before its parent and wait although the pass verifies
  the parent (`sharechain.go:1004`).
- A second first share is checked against the difficulty due on our tip
  (`sharechain.go:320`).
- A share that another caller's pass rejected is reported to its own caller as
  pending (`sharechain.go:129-169`).
- After 72 hours without a share the tip is a hash nobody holds
  (`sharechain.go:889`); shares mined on it wait for a parent that is gone, until a
  restart or a first share of a peer.
- A newcomer cannot verify a chain shorter than the lookbehind plus one whose first
  share is gone; hence the constants of `share_sync`.
- After a gap of 36 hours or more in the chain, pruning takes the shares below the
  gap one by one and windows that reach it count as incomplete, so payouts go
  unchecked until the window has filled again.
- With fewer than 200 shares in 72 hours the difficulty due falls back to the
  minimum at the moment a node prunes, which differs between nodes.
- A pending block that `vertcoind` does not know is dropped at once
  (`manager.go:424`).

## Not modelled

- Peer scores (`p2p/score.go`) and the gossip validator: counters with thresholds;
  what the shares do once they are in is modelled.
- Vardiff and the reconnect cache: floating point, and they decide only which
  solutions a miner sends.
- The light node's producers in `MiningJobs`, where two templates accepted at once
  may reach the broadcaster in either order.
- Encodings: scripts, addresses, the metadata commitment, Stratum and RPC messages,
  compression.
- libp2p discovery and peer exchange, Verthash, the dashboard, configuration,
  logging and the debug proxy: no state of the pool.

## Plan

Order of work: the share chain and its store, on which everything else rests, then
the ledger, the mining jobs and the template votes, then what happens between nodes
(`ShareSync`, `BlockRelay`, `Payouts`) and the abstract `ShareLife`; then the theorems,
in the same order. Left is what has no property yet among the hazards of PROJECT.json:
the coinbase's commitment to a parent, the light node's producers of jobs, and the
cleaning of `peerTmpl`.
