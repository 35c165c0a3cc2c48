--------------------------- MODULE TemplateVotes ----------------------------
(***************************************************************************)
(* How a light node, which has no vertcoind, settles on a block template:  *)
(* full-node peers push or are asked for theirs, each template that passes *)
(* its checks is a vote, and a template is installed when enough fresh     *)
(* votes agree (ApplyRemoteTemplateJSON of work/manager.go and the         *)
(* template streams of p2p/node.go).                                       *)
(*                                                                         *)
(* What a template says of itself is its sender's claim.  Its height is    *)
(* not tied to the block it builds on (heights are given as that block's). *)
(* Its transactions are entries of which the vote compares the ids they    *)
(* claim, not the data: an entry that is not Genuine has the id of another *)
(* transaction.  A peer in Pinned is trusted to serve what its vertcoind   *)
(* gives it: true heights and genuine transactions, each with those it     *)
(* depends on.  Any other peer may serve anything on a block there is.     *)
(*                                                                         *)
(* Bits are those of the block (a vote for others agrees with none), lists *)
(* of entries are sets, time passes in minutes.  What happens after a      *)
(* template is accepted is in BlockLedger (ApplyTemplate) and, for the     *)
(* channel, MiningJobs.                                                    *)
(***************************************************************************)
EXTENDS Integers, FiniteSets

CONSTANTS
    Peer, Pinned,   \* the full-node peers, and those of config.Active.TrustedPeers
    VoterKey,       \* the subnet a peer votes for
    Block, Chain,   \* blocks; the blocks each stands on, itself included
    Tx, TxId,       \* the entries of transaction lists; the id each claims
    Genuine,        \* the entries whose data have the id they claim
    Depends,        \* Depends of an entry: those it spends from
    FreshFor,       \* minutes a vote counts, 2
    LapseAfter,     \* minutes without agreement that lift the height floor, 3
    Window,         \* how far above the current height a template may be, 100
    MaxHeaders,     \* headers a template carries: the previous block's and 4 ancestors'
    Strikes,        \* bad templates a peer is forgiven, 2
    Lists,          \* bound: the lists of transactions that are served
    MaxHeight       \* bound: the heights that are claimed

Key == {VoterKey[p] : p \in Peer}
Height(b) == Cardinality(Chain[b])
Closed(T) == \A x \in T : Depends[x] \subseteq T
Ids(T) == {TxId[x] : x \in T}

ASSUME VotesAssumption ==
    /\ Pinned \subseteq Peer
    /\ VoterKey \in [Peer -> Key]
    /\ Chain \in [Block -> SUBSET Block]
    /\ \A b \in Block : IsFiniteSet(Chain[b]) /\ b \in Chain[b]
    /\ \A b \in Block : Cardinality(Chain[b]) <= MaxHeight
    /\ IsFiniteSet(Tx) /\ Genuine \subseteq Tx /\ Depends \in [Tx -> SUBSET Tx]
    /\ \A x, y \in Genuine : TxId[x] = TxId[y] => x = y
    /\ FreshFor \in Nat /\ LapseAfter \in Nat /\ FreshFor <= LapseAfter
    /\ Window \in Nat /\ MaxHeaders \in Nat /\ Strikes \in Nat
    /\ Lists \subseteq SUBSET Tx /\ MaxHeight \in Nat

VARIABLES
    tips,       \* the latest block of each peer's vertcoind
    known,      \* blocks that verified shares of our share chain build on
    barred,     \* peers whose peerFullMode is FALSE
    proved,     \* peerVerifiedFull: peers that answered a header challenge
    verified,   \* verifiedBlocks: blocks whose header was checked and linked
    strikes,    \* how far peerScores is below zero
    votes,      \* peerTmpl: the latest vote of each key, or none
    tmpl,       \* Templates: the template installed, or none
    agreed      \* minutes since lastAgreedTime

peerVars == <<barred, proved>>
voteVars == <<strikes, votes, tmpl, agreed>>
vars == <<tips, known, peerVars, verified, voteVars>>

None == [none |-> TRUE]
Vote == [peer : Peer, prev : Block, txs : SUBSET Tx, age : 0 .. FreshFor]
Template == [prev : Block, height : 1 .. MaxHeight, txs : SUBSET Tx]
\* A template as it arrives: what it builds on, the height it claims, what is in it.
Offer == [prev : Block, height : 1 .. MaxHeight, txs : Lists]

-----------------------------------------------------------------------------
(***************************************************************************)
(* The world around the node.                                              *)
(***************************************************************************)

\* A peer's vertcoind has a higher block, on the same branch or another.
NewBlock(p, b) ==
    /\ Height(b) > Height(tips[p])
    /\ tips' = [tips EXCEPT ![p] = b]
    /\ UNCHANGED <<known, peerVars, verified, voteVars>>

\* Our share chain verifies a share that builds on a block.
Learn(b) ==
    /\ b \notin known /\ \E p \in Peer : b \in Chain[tips[p]]
    /\ known' = known \cup {b}
    /\ UNCHANGED <<tips, peerVars, verified, voteVars>>

\* Ages are counted as far as they matter.
Older(v) == IF v = None \/ v.age = FreshFor THEN v
            ELSE [peer |-> v.peer, prev |-> v.prev, txs |-> v.txs, age |-> v.age + 1]

\* A minute passes.
Tick ==
    /\ votes' = [k \in Key |-> Older(votes[k])]
    /\ agreed' = IF agreed > LapseAfter THEN agreed ELSE agreed + 1
    /\ UNCHANGED <<tips, known, peerVars, verified, strikes, tmpl>>

-----------------------------------------------------------------------------
(***************************************************************************)
(* Whether a template is looked at: p2p/node.go.                           *)
(***************************************************************************)

\* Mutant of Sync: a peer that failed a challenge stays out.
SyncNewcomer(p) ==
    /\ p \notin barred
    /\ UNCHANGED <<tips, known, barred, proved, verified, voteVars>>

\* A sync, every 30 seconds, says that the peer is a full node.
Sync(p) ==
    /\ barred' = barred \ {p}
    /\ UNCHANGED <<tips, known, proved, verified, voteVars>>

isPeerAllowedTemplate(p) == p \notin barred

\* The peer sends the header of a block our share chain builds on; it is not asked again.
Answered(p) == p \notin proved /\ proved' = proved \cup {p}

\* There is no block to ask about, no stream to the peer, or no need to ask.
Unasked(p) == UNCHANGED proved

\* The header challenge is passed...
ChallengePassed(p) == (Answered(p) \/ Unasked(p)) /\ barred' = barred \ {p}

\* ...or is answered wrongly or too late: its templates are not looked at.
ChallengeFailed(p) ==
    /\ isPeerAllowedTemplate(p) /\ p \notin proved
    /\ barred' = barred \cup {p}
    /\ UNCHANGED <<tips, known, proved, verified, voteVars>>

-----------------------------------------------------------------------------
(***************************************************************************)
(* Whether it counts as a vote.                                            *)
(***************************************************************************)

\* The header of the block b it builds on must lead, with the ancestors that came along
\* (n headers in all), to a block of our share chain, unless that was found before.
verifyTemplatePrevHeader(b, n) ==
    /\ known # {}
    /\ \/ b \in verified
       \/ n > 0 /\ \E a \in Chain[b] \cap known : Height(a) + n >= Height(b)

\* Mutant of Verified: the outcome is not kept.
VerifiedOnce(b) == UNCHANGED verified

\* The outcome is remembered.
Verified(b) == verified' = verified \cup {b}

\* What a hash of a list tells: how many entries claim each id. (Their order is left out.)
txSetHash(T) == [i \in Ids(Tx) |-> Cardinality({x \in T : TxId[x] = i})]

\* Mutant of intersectTemplateTxs: dependent transactions are kept.
intersectAll(T, U) == {x \in T : TxId[x] \in Ids(U)}

\* The entries of a vote whose ids another names too, without what depends on another.
intersectTemplateTxs(T, U) == {x \in T : TxId[x] \in Ids(U) /\ Depends[x] = {}}

\* Mutant of Agreeing: a vote counts until it is replaced.
AgreeingEver(V, b) == {k \in Key : V[k] # None /\ V[k].prev = b}

\* The fresh votes for a block.
Agreeing(V, b) == {k \in Key : V[k] # None /\ V[k].age < FreshFor /\ V[k].prev = b}

\* Two fresh votes for exactly these ids, one of them of a pinned peer.
TrustedExact(V, t) ==
    LET E == {k \in Agreeing(V, t.prev) : txSetHash(V[k].txs) = txSetHash(t.txs)}
    IN  Cardinality(E) >= 2 /\ \E k \in E : V[k].peer \in Pinned

\* A pinned vote and another: whichever the iteration over the map meets first.
Pairs(V, t) ==
    {q \in Agreeing(V, t.prev) \X Agreeing(V, t.prev) :
        /\ q[1] # q[2] /\ V[q[1]].peer \in Pinned
        /\ V[q[2]].peer \in Pinned => V[q[2]].peer # V[q[1]].peer}

\* The entries a template is installed with, the sender's own if they are agreed on; one
\* of these sets, none if the template is refused.
Outcomes(V, p, t) ==
    IF TrustedExact(V, t) THEN {t.txs}
    ELSE IF Pairs(V, t) # {}
    THEN {intersectTemplateTxs(V[q[1]].txs, V[q[2]].txs) : q \in Pairs(V, t)}
    ELSE IF \/ Cardinality(Agreeing(V, t.prev)) >= 2
            \/ p \in Pinned
            \/ Cardinality({k \in Key : V[k] # None}) = 1
    THEN {{}}
    ELSE {}

\* The template there is counts unless nothing was agreed on for long.
Current == tmpl # None /\ agreed <= LapseAfter

\* A template may claim no less a height than the current one, and not much more.
InWindow(t) == Current => t.height \in tmpl.height .. tmpl.height + Window

\* Mutant of Install: only agreement on another block counts.
InstallNew(t, T) ==
    /\ agreed' = IF tmpl # None /\ t.prev = tmpl.prev THEN agreed ELSE 0
    /\ tmpl' = [prev |-> t.prev, height |-> t.height, txs |-> T]

\* Agreement: the template is installed, unless it is for the block and the ids of the
\* current one.
Install(t, T) ==
    /\ agreed' = 0
    /\ IF Current /\ t.prev = tmpl.prev /\ txSetHash(T) = txSetHash(tmpl.txs)
       THEN UNCHANGED tmpl
       ELSE tmpl' = [prev |-> t.prev, height |-> t.height, txs |-> T]

\* A template that passes is its sender's vote; the votes decide what becomes of it.
CountVote(p, t) ==
    LET V == [votes EXCEPT ![VoterKey[p]] =
                 [peer |-> p, prev |-> t.prev, txs |-> t.txs, age |-> 0]]
        O == Outcomes(V, p, t)
    IN  /\ votes' = V /\ UNCHANGED strikes
        /\ IF InWindow(t) /\ O # {} THEN \E T \in O : Install(t, T)
           ELSE UNCHANGED <<tmpl, agreed>>

\* A peer's template may claim more than the subsidy and its fees, a pinned one's does not.
Overpaid(p) == p \notin Pinned /\ strikes' = [strikes EXCEPT ![p] = @ + 1]

\* What peers may put into a template: a pinned one sends its vertcoind's.
Serves(p, t) == p \in Pinned => /\ t.height = Height(t.prev)
                                /\ t.txs \subseteq Genuine /\ Closed(t.txs)

\* A template of p on block b with n headers: its header, its sender's score, its coinbase
\* value, and then its vote.
ApplyRemoteTemplate(p, b, n) ==
    \/ /\ ~verifyTemplatePrevHeader(b, n)
       /\ UNCHANGED <<verified, voteVars>>
    \/ /\ verifyTemplatePrevHeader(b, n)
       /\ Verified(b)
       /\ \/ strikes[p] > Strikes /\ UNCHANGED voteVars
          \/ strikes[p] <= Strikes /\ Overpaid(p) /\ UNCHANGED <<votes, tmpl, agreed>>
          \/ /\ strikes[p] <= Strikes
             /\ \E t \in Offer : t.prev = b /\ Serves(p, t) /\ CountVote(p, t)

\* A template pushed by a peer or asked of it arrives: its latest one or, delayed on the
\* way, an earlier one.
ReceiveTemplate(p, b, n) ==
    /\ b = tips[p] \/ Height(b) < Height(tips[p])
    /\ isPeerAllowedTemplate(p)
    /\ ChallengePassed(p)
    /\ ApplyRemoteTemplate(p, b, n)
    /\ UNCHANGED <<tips, known>>

\* SubmitBlock: a block solved on the current template takes it away, and with it the
\* floor under the heights.
SubmitBlock ==
    /\ tmpl # None /\ tmpl' = None
    /\ UNCHANGED <<tips, known, peerVars, verified, strikes, votes, agreed>>

-----------------------------------------------------------------------------
Init == /\ tips \in [Peer -> {b \in Block : Height(b) = 1}]
        /\ known = {} /\ verified = {}
        /\ barred = {} /\ proved = {}
        /\ strikes = [p \in Peer |-> 0]
        /\ votes = [k \in Key |-> None] /\ tmpl = None
        /\ agreed = LapseAfter + 1

Next == \/ \E p \in Peer, b \in Block : NewBlock(p, b)
        \/ \E b \in Block : Learn(b)
        \/ Tick
        \/ \E p \in Peer : Sync(p) \/ ChallengeFailed(p)
        \/ \E p \in Peer, b \in Block, n \in 0 .. MaxHeaders : ReceiveTemplate(p, b, n)
        \/ SubmitBlock

Spec == Init /\ [][Next]_vars

\* A pinned peer's latest template, with the header of the block it builds on.
Latest(p) == \E n \in 1 .. MaxHeaders : ReceiveTemplate(p, tips[p], n)

\* What was last heard of a pinned peer is its latest template, not an earlier one that
\* was delayed on the way.
UpToDate(p) == LET v == votes[VoterKey[p]] IN v # None /\ v.peer = p => v.prev = tips[p]

\* Time passes; templates are asked for every 15 seconds and peers synced with every 30;
\* a pinned peer answers challenges in time again and again, delayed templates have all
\* arrived some time after its latest block, and the pool's miners work on every block.
FairSpec == /\ Spec
            /\ WF_vars(Tick)
            /\ \A b \in Block : WF_vars(Learn(b))
            /\ \A p \in Pinned : WF_vars(Sync(p)) /\ SF_vars(Latest(p)) /\ <>[]UpToDate(p)

-----------------------------------------------------------------------------
(***************************************************************************)
(* Properties.                                                             *)
(***************************************************************************)

\* The types of the state; a vote is in the place of its peer's subnet, and the block of
\* a template or a vote is a verified one.
VotesTypeOK ==
    /\ tips \in [Peer -> Block] /\ known \subseteq Block /\ verified \subseteq Block
    /\ barred \subseteq Peer /\ proved \subseteq Peer
    /\ strikes \in [Peer -> 0 .. Strikes + 1]
    /\ agreed \in 0 .. LapseAfter + 1
    /\ tmpl # None => tmpl \in Template /\ tmpl.prev \in verified
    /\ votes \in [Key -> Vote \cup {None}]
    /\ \A k \in Key : votes[k] # None => VoterKey[votes[k].peer] = k /\ votes[k].prev \in verified

\* A pinned peer's vote for a block that is still fresh.
PinnedVote(v, b) == v # None /\ v.peer \in Pinned /\ v.prev = b /\ v.age < FreshFor

\* A step that changes the template has it name no transaction but those of a pinned vote.
Vouching ==
    \/ tmpl' \in {tmpl, None} \/ tmpl'.txs = {}
    \/ \E k \in Key : PinnedVote(votes'[k], tmpl'.prev) /\ Ids(tmpl'.txs) \subseteq Ids(votes'[k].txs)

\* A template is never installed with the id of a transaction that no fresh vote of a
\* pinned peer vouches for, whatever the other peers agree on. (The data may be another
\* peer's: nothing compares them before SubmitBlock does.)
Vouched == [][Vouching]_vars

\* By their ids, the transactions of a template never spend from one that it leaves out:
\* they are those of a closed set of genuine ones.
SelfContained ==
    tmpl = None \/ \E G \in SUBSET Genuine : Closed(G) /\ txSetHash(tmpl.txs) = txSetHash(G)

\* A step that goes below the true height of the template leaves a fresh pinned vote
\* behind.
Deserting == /\ tmpl # None /\ tmpl' # None
             /\ tmpl.height = Height(tmpl.prev) /\ tmpl'.height < tmpl.height
             /\ \E k \in Key : PinnedVote(votes[k], tmpl.prev)

\* A template of true height is replaced by one of lower height only if no pinned peer
\* has a fresh vote for its block: the height floor is not lifted while one does. (A
\* block solved here takes the template away, and the floor with it.)
NotDeserted == [][~Deserting]_vars

\* A light node with a pinned peer on the highest block works on that block, again and
\* again: a failed challenge, a template delayed on the way or the votes of other peers
\* keep it off for a while at most.
Follows == \A p \in Pinned : (\A b \in Block : Height(b) <= Height(tips[p]))
                               ~> (tmpl # None /\ tmpl.prev = tips[p])
=============================================================================
