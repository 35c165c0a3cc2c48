----------------------------- MODULE BlockLedger ----------------------------
(***************************************************************************)
(* The found-block ledger of one node (work/manager.go): submission of     *)
(* solved blocks with retries, PendingBlocks and blocks.json, and the two  *)
(* ways a pending block is settled.                                        *)
(*                                                                         *)
(* A full node asks its vertcoind once a minute (WatchMaturedBlocks).  A   *)
(* light node goes by the templates peers send it, whose height is what    *)
(* the sender claims: a template on top of a block confirms it for good,   *)
(* and blocks nothing confirmed are asked about by a goroutine whose       *)
(* answer is applied later (ApplyRemoteTemplateJSON).  Every action on the *)
(* ledger is one critical section of PendingMutex.                         *)
(*                                                                         *)
(* A block is its hash; its height, the one its template gave, is a        *)
(* function of it.  The network's chain only grows: reorganisations after  *)
(* a block won are left out.                                               *)
(***************************************************************************)
EXTENDS Integers, FiniteSets

CONSTANTS
    Block,          \* the blocks that may be found
    Mine,           \* those this node's miners solve; peers find the others
    Height,         \* BlockHeight
    LightMode,      \* config.Active.LightMode
    Required,       \* confirmations to maturity, 100
    Grace,          \* a light node gives up on an unconfirmed block this deep, 6
    Retries,        \* len(submitBlockBackoff)
    DiskMayFail,    \* whether writing blocks.json may fail
    PeersMayFail,   \* whether QueryBlockConfirmations may find no peer to ask
    MaxHeight,      \* bound: the network's chain ends here
    MaxRestarts,    \* bound: restarts of the process
    MaxQueries      \* bound: confirmation queries under way at a time

ASSUME LedgerAssumption ==
    /\ Mine \subseteq Block
    /\ Height \in [Block -> Nat \ {0}]
    /\ {LightMode, DiskMayFail, PeersMayFail} \subseteq BOOLEAN
    /\ {Required, Grace, Retries, MaxHeight, MaxRestarts, MaxQueries} \subseteq Nat
    /\ Grace \in 1 .. Required

VARIABLES
    entry,      \* PendingBlocks: the state of a block's entry, "absent" for none
    confirmed,  \* blocks whose entry has Confirmed set
    disk,       \* blocks.json: the states saved
    diskConf,   \* blocks.json: the blocks saved with "confirmed"
    asked,      \* confirmation queries under way: template height and hashes
    unheard,    \* history: blocks on the chain that a query heard nothing of
    sub,        \* where SubmitBlock is with each block
    tries,      \* retries it has made
    daemon,     \* blocks that our vertcoind holds
    won,        \* blocks on the network's chain
    top,        \* height of the network's chain
    overclaimed, \* history: a template claimed a height the chain was not at yet
    old,        \* blocks found more than seven days ago
    restarts

ledgerVars == <<entry, confirmed, disk, diskConf, asked, unheard>>
netVars == <<daemon, won, top, old, overclaimed>>
vars == <<ledgerVars, netVars, sub, tries, restarts>>

Settlements == {"pending", "paid", "orphan"}
Recorded == {b \in Block : entry[b] # "absent"}
Pending == {b \in Block : entry[b] = "pending"}

\* An entry of the same height counts as the block's own.
Known(b) == \E c \in Recorded : Height[c] = Height[b]

-----------------------------------------------------------------------------
(***************************************************************************)
(* blocks.json.                                                            *)
(***************************************************************************)

\* saveBlocksLocked writes the states; it leaves the Confirmed field out.
saveBlocks ==
    \/ disk' = entry' /\ diskConf' = {}
    \/ DiskMayFail /\ UNCHANGED <<disk, diskConf>>

\* An update of the ledger, saved if it changed something.
Update(e, c) ==
    /\ entry' = e /\ confirmed' = c
    /\ IF e # entry \/ c # confirmed THEN saveBlocks ELSE UNCHANGED <<disk, diskConf>>

\* Mutant of Record: an entry of the same height is overlooked.
RecordAlways(b, state) ==
    IF b \in Recorded THEN UNCHANGED <<entry, confirmed, disk, diskConf>>
    ELSE Update([entry EXCEPT ![b] = state], confirmed)

\* Append an entry for b unless the ledger has one.
Record(b, state) ==
    IF Known(b) THEN UNCHANGED <<entry, confirmed, disk, diskConf>>
    ELSE Update([entry EXCEPT ![b] = state], confirmed)

\* LoadBlocks keeps one entry of every height; a restart forgets what was under way.
Restart ==
    LET saved == {b \in Block : disk[b] # "absent"} IN
    /\ restarts < MaxRestarts
    /\ restarts' = restarts + 1
    /\ \E K \in SUBSET saved :
          /\ \A b, c \in K : Height[b] = Height[c] => b = c
          /\ \A b \in saved : \E c \in K : Height[c] = Height[b]
          /\ entry' = [b \in Block |-> IF b \in K THEN disk[b] ELSE "absent"]
          /\ confirmed' = diskConf \cap K
          /\ IF K = saved THEN UNCHANGED <<disk, diskConf>> ELSE saveBlocks
    /\ UNCHANGED netVars
    /\ asked' = {} /\ UNCHANGED unheard
    /\ sub' = [b \in Block |-> IF sub[b] \in {"sending", "recording"} THEN "lost" ELSE sub[b]]
    /\ UNCHANGED tries

-----------------------------------------------------------------------------
(***************************************************************************)
(* Submitting a solved block.                                              *)
(***************************************************************************)

\* SubmitBlock, of a block on a template: it is relayed to peers first.  A light node has
\* no vertcoind, and its template may lag behind the chain or claim too great a height.
SubmitBlock(b) ==
    /\ b \in Mine /\ sub[b] = "none"
    /\ IF LightMode THEN Height[b] <= top + 1 \/ overclaimed ELSE Height[b] = top + 1
    /\ sub' = [sub EXCEPT ![b] = IF LightMode THEN "recording" ELSE "sending"]
    /\ UNCHANGED <<ledgerVars, netVars, tries, restarts>>

Answered(b, point) == /\ sub' = [sub EXCEPT ![b] = point]
                      /\ UNCHANGED <<ledgerVars, won, top, old, overclaimed, tries, restarts>>

\* Mutant of AttemptAccepted: "duplicate" is not taken for success.
AttemptAcceptedOnce(b) == /\ sub[b] = "sending"
                          /\ daemon' = daemon \cup {b}
                          /\ Answered(b, IF b \in daemon THEN "failed" ELSE "recording")

\* One submitblock call that is answered: accepted, or a duplicate of what is held...
AttemptAccepted(b) == /\ sub[b] = "sending"
                      /\ daemon' = daemon \cup {b}
                      /\ Answered(b, "recording")

\* ...or rejected for good, as invalid or as "inconclusive": held, but off the chain.
AttemptRejected(b) == /\ sub[b] = "sending" /\ b \notin daemon
                      /\ daemon' \in {daemon} \cup (IF top >= Height[b] THEN {daemon \cup {b}} ELSE {})
                      /\ Answered(b, "failed")

\* Mutant of AttemptLost: one retry too many.
AttemptLostAgain(b) ==
    /\ sub[b] = "sending"
    /\ daemon' \in {daemon, daemon \cup {b}}
    /\ IF tries[b] <= Retries
       THEN tries' = [tries EXCEPT ![b] = @ + 1] /\ UNCHANGED sub
       ELSE sub' = [sub EXCEPT ![b] = "failed"] /\ UNCHANGED tries
    /\ UNCHANGED <<ledgerVars, won, top, old, overclaimed, restarts>>

\* A transient failure, which may hide that the block was accepted.
AttemptLost(b) ==
    /\ sub[b] = "sending"
    /\ daemon' \in {daemon, daemon \cup {b}}
    /\ IF tries[b] < Retries
       THEN tries' = [tries EXCEPT ![b] = @ + 1] /\ UNCHANGED sub
       ELSE sub' = [sub EXCEPT ![b] = "failed"] /\ UNCHANGED tries
    /\ UNCHANGED <<ledgerVars, won, top, old, overclaimed, restarts>>

\* The rest of SubmitBlock, once vertcoind or the relay has the block.
RecordSolved(b) ==
    /\ sub[b] = "recording"
    /\ Record(b, "pending")
    /\ sub' = [sub EXCEPT ![b] = "done"]
    /\ UNCHANGED <<asked, unheard, netVars, tries, restarts>>

-----------------------------------------------------------------------------
(***************************************************************************)
(* Blocks that peers tell of.                                              *)
(***************************************************************************)

\* WatchFoundBlocks: a verified share of a peer solved a block.
WatchFound(b) ==
    /\ b \notin Mine
    /\ Record(b, "pending")
    /\ UNCHANGED <<asked, unheard, netVars, sub, tries, restarts>>

\* What a truthful peer's ledger may say of a block.
PeerSays(b) == {"pending"} \cup (IF b \in won /\ top + 1 - Height[b] >= Required THEN {"paid"} ELSE {})
                           \cup (IF b \notin won /\ top >= Height[b] THEN {"orphan"} ELSE {})

\* MergeRemoteBlocksJSON of a peer's ledger, which has one entry per height.
Merge(theirs) ==
    LET new == {b \in DOMAIN theirs : ~Known(b)} IN
    /\ \A b \in DOMAIN theirs : (b \in Mine => sub[b] # "none") /\ theirs[b] \in PeerSays(b)
    /\ \A b, c \in DOMAIN theirs : Height[b] = Height[c] => b = c
    /\ Update([b \in Block |-> IF b \in new THEN theirs[b] ELSE entry[b]], confirmed)
    /\ UNCHANGED <<asked, unheard, netVars, sub, tries, restarts>>

-----------------------------------------------------------------------------
(***************************************************************************)
(* Settling pending blocks.                                                *)
(***************************************************************************)

\* Mutant of Mature: one confirmation early.
MatureEarly(b) == top - Height[b] + 2 >= Required

Mature(b) == top - Height[b] + 1 >= Required

\* Mutant of Lost: a block still to be decided on counts as lost.
LostUnlessWon(b) == b \notin won

\* vertcoind does not know the block, or has it off its chain.
Lost(b) == b \notin daemon \/ (b \notin won /\ top >= Height[b])

\* WatchMaturedBlocks, full nodes only: every pending block is looked up, in vain for
\* those in `fail`; orphans are dropped at once, settled entries after seven days.
WatchMatured(fail) ==
    LET mature == {b \in (Pending \cap won) \ fail : Mature(b)}
        orphaned == {b \in Pending \ fail : Lost(b)}
        dropped == orphaned \cup ((Recorded \ Pending) \cap old)
    IN  /\ ~LightMode
        /\ Update([b \in Block |-> IF b \in dropped THEN "absent"
                                   ELSE IF b \in mature THEN "paid" ELSE entry[b]],
                  confirmed \ dropped)
        /\ UNCHANGED <<asked, unheard, netVars, sub, tries, restarts>>

\* Mutant of Settle: an unconfirmed block is not given up.
SettleConfirmed(h, S, c) ==
    [b \in Block |-> IF b \in S \cap c /\ h - Height[b] >= Required THEN "paid" ELSE entry[b]]

\* A light node's verdict at height h on the entries, c being the confirmed ones and
\* S the pending ones it may settle.
Settle(h, S, c) ==
    [b \in Block |-> IF b \notin S THEN entry[b]
                     ELSE IF h - Height[b] >= Required
                     THEN IF b \in c THEN "paid" ELSE "orphan"
                     ELSE IF b \notin c /\ h - Height[b] >= Grace THEN "orphan" ELSE entry[b]]

\* A relayed block is answered within the 30 seconds a peer's handler has, so a solved
\* block is in the ledger long before the chain is Grace blocks further.
RelayInTime(h) == h <= top + 1 => \A b \in Block : sub[b] = "recording" => h - Height[b] < Grace

\* ApplyRemoteTemplateJSON accepted a template that claims height h; `on` are the entries
\* whose block it or a verified share of ours builds on, won or not.  They are confirmed,
\* the other pending ones asked about.  (TemplateVotes has the floor under the heights
\* claimed; it lapses, so here a claim may be any height.)
ApplyTemplate(h, on) ==
    LET c == confirmed \cup on
        ask == {b \in Pending \ c : h - Height[b] >= 1}
    IN  /\ LightMode
        /\ on \subseteq Recorded
        /\ RelayInTime(h)
        /\ overclaimed' = (overclaimed \/ h > top + 1)
        /\ Update(Settle(h, Pending \ ask, c), c)
        /\ ask # {} => Cardinality(asked) < MaxQueries
        /\ asked' = IF ask = {} THEN asked ELSE asked \cup {[height |-> h, hashes |-> ask]}
        /\ UNCHANGED <<unheard, daemon, won, top, old, sub, tries, restarts>>

\* Mutant of ConfirmationsAnswered: what the peers answered is not looked at.
ConfirmationsIgnored(q, found) ==
    /\ q \in asked /\ found = {}
    /\ asked' = asked \ {q}
    /\ Update(Settle(q.height, Pending, confirmed), confirmed)
    /\ UNCHANGED <<unheard, netVars, sub, tries, restarts>>

\* The goroutine of an earlier template has its answers: the blocks peers say are on the
\* chain.  It settles every entry that is pending by now, at the height it was started with.
ConfirmationsAnswered(q, found) ==
    LET c == confirmed \cup (Pending \cap found) IN
    /\ q \in asked
    /\ found \subseteq q.hashes
    /\ PeersMayFail \/ q.hashes \cap won \subseteq found
    /\ asked' = asked \ {q}
    /\ unheard' = unheard \cup ((q.hashes \cap won) \ found)
    /\ Update(Settle(q.height, Pending, c), c)
    /\ UNCHANGED <<netVars, sub, tries, restarts>>

-----------------------------------------------------------------------------
(***************************************************************************)
(* The network and time.                                                   *)
(***************************************************************************)

\* The network's chain grows, by one of the blocks or by somebody else's.
NetworkBlock ==
    /\ top < MaxHeight
    /\ top' = top + 1
    /\ \/ UNCHANGED won
       \/ \E b \in Block : /\ Height[b] = top + 1
                           /\ b \in Mine => sub[b] # "none"
                           /\ won' = won \cup {b}
    /\ daemon' = daemon \cup won'
    /\ UNCHANGED <<ledgerVars, old, overclaimed, sub, tries, restarts>>

\* Only WatchMaturedBlocks looks at the age of a block.
SevenDays == /\ ~LightMode
             /\ old # Block /\ old' = Block
             /\ UNCHANGED <<ledgerVars, daemon, won, top, overclaimed, sub, tries, restarts>>

-----------------------------------------------------------------------------
Init == /\ entry = [b \in Block |-> "absent"] /\ confirmed = {}
        /\ disk = [b \in Block |-> "absent"] /\ diskConf = {}
        /\ asked = {} /\ unheard = {}
        /\ sub = [b \in Block |-> "none"] /\ tries = [b \in Block |-> 0]
        /\ daemon = {} /\ won = {} /\ top = 0 /\ old = {} /\ overclaimed = FALSE
        /\ restarts = 0

ConfirmationsReturn(h) ==
    \E q \in asked : q.height = h /\ \E found \in SUBSET Block : ConfirmationsAnswered(q, found)
TemplateArrives(h) == \E on \in SUBSET Block : ApplyTemplate(h, on)

Next == \/ \E b \in Block : \/ SubmitBlock(b) \/ AttemptAccepted(b) \/ AttemptRejected(b)
                            \/ AttemptLost(b) \/ RecordSolved(b) \/ WatchFound(b)
        \/ \E S \in SUBSET Block : \E theirs \in [S -> Settlements] : Merge(theirs)
        \/ \E fail \in SUBSET Block : WatchMatured(fail)
        \/ \E h \in 1 .. MaxHeight + 1 : TemplateArrives(h) \/ ConfirmationsReturn(h)
        \/ NetworkBlock \/ SevenDays \/ Restart

Spec == Init /\ [][Next]_vars

\* Blocks go on being found; full-node peers broadcast their template again every half
\* minute at the latest; a relay and a confirmation query end: the handlers of the peers
\* asked have deadlines, and a peer that is gone takes its streams with it.  (Strong
\* fairness of the template's arrival, as MaxQueries may keep it out for a while.)
FairSpec == /\ Spec
            /\ WF_vars(NetworkBlock) /\ SF_vars(TemplateArrives(top + 1))
            /\ \A h \in 1 .. MaxHeight + 1 : WF_vars(ConfirmationsReturn(h))
            /\ \A b \in Block : WF_vars(RecordSolved(b))

-----------------------------------------------------------------------------
(***************************************************************************)
(* Properties.                                                             *)
(***************************************************************************)

\* The states the ledger, its file, a submission and the network can be in; at most
\* Retries retries are made.
LedgerTypeOK ==
    /\ entry \in [Block -> Settlements \cup {"absent"}] /\ confirmed \subseteq Recorded
    /\ disk \in [Block -> Settlements \cup {"absent"}] /\ diskConf \subseteq Block
    /\ \A q \in asked : q.height \in Nat /\ q.hashes \subseteq Block
    /\ unheard \subseteq Block
    /\ sub \in [Block -> {"none", "sending", "recording", "done", "failed", "lost"}]
    /\ tries \in [Block -> 0 .. Retries]
    /\ daemon \subseteq Block /\ won \subseteq Block /\ old \subseteq Block
    /\ top \in 0 .. MaxHeight /\ overclaimed \in BOOLEAN /\ restarts \in 0 .. MaxRestarts

\* However a block is learned of (solved here, found by a peer, merged from a peer's
\* ledger, read back from disk), the ledger has one entry per height.
OnePerHeight == \A b, c \in Recorded : Height[b] = Height[c] => b = c

\* On a full node a block counts as paid only when it is on the network's chain and
\* mature there, through merged ledgers and restarts from a blocks.json a failed write
\* left behind.  (A light node takes a peer's word for both.)
PaidIsMature ==
    ~LightMode => \A b \in Block : entry[b] = "paid" => b \in won /\ top + 1 - Height[b] >= Required

\* No other block of b's height is about.
Unrivalled(b) == \A c \in Block : Height[c] = Height[b] => c = b

\* A block solved and recorded here that the network has is kept, and never written
\* off as an orphan: not by a query answered late, not by a template far behind the
\* chain, not by vertcoind or a peer that heard of it later. (A rival of its height takes
\* its place in the ledger, a query that no peer answers gives it up, as may a template
\* that claims too great a height, and a restart forgets what could not be saved.)
SolvedKept ==
    \A b \in (Mine \cap won) \ (old \cup unheard) :
        sub[b] = "done" /\ Unrivalled(b) /\ ~overclaimed /\ (DiskMayFail => restarts = 0)
            => entry[b] \in {"pending", "paid"}

\* While a height is open, submitBlockWithRetry gives up on a block that vertcoind holds
\* only after its last retry, whose reply was lost.
GivesUpLast ==
    \A b \in Block : sub[b] = "failed" /\ b \in daemon /\ top < Height[b] => tries[b] = Retries

\* Every pending block of a light node is settled eventually.
Settled == \A b \in Block : entry[b] = "pending" ~> entry[b] # "pending"
=============================================================================
