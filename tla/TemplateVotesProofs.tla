------------------------ MODULE TemplateVotesProofs -------------------------
(***************************************************************************)
(* What the vote on templates guarantees, for any peers, chains and        *)
(* transactions.                                                           *)
(***************************************************************************)
EXTENDS TemplateVotes, FiniteSetTheorems, TLAPS

\* Heights are numbers.
LEMMA HeightNat ==
    ASSUME NEW b \in Block PROVE Height(b) \in Nat
  BY VotesAssumption, FS_CardinalityType DEF Height

\* A vote that counts goes where its peer's subnet is.
LEMMA KeyOfPeer ==
    ASSUME NEW p \in Peer PROVE VoterKey[p] \in Key
  BY VotesAssumption

\* Lists with the same hash name the same ids.
LEMMA HashIds ==
    ASSUME NEW T \in SUBSET Tx, NEW U \in SUBSET Tx, txSetHash(T) = txSetHash(U)
    PROVE  Ids(T) \subseteq Ids(U)
<1> SUFFICES ASSUME NEW x \in T PROVE \E y \in U : TxId[y] = TxId[x]
  BY DEF Ids
<1> DEFINE Having(S) == {y \in S : TxId[y] = TxId[x]}
<1>1. TxId[x] \in Ids(Tx)
  BY DEF Ids
<1>2. Cardinality(Having(T)) = Cardinality(Having(U))
  <2>1. txSetHash(T)[TxId[x]] = Cardinality(Having(T))
    BY <1>1 DEF txSetHash
  <2>2. txSetHash(U)[TxId[x]] = Cardinality(Having(U))
    BY <1>1 DEF txSetHash
  <2> QED BY <2>1, <2>2
<1>3. IsFiniteSet(Having(T)) /\ IsFiniteSet(Having(U))
  <2>1. Having(T) \subseteq Tx /\ Having(U) \subseteq Tx
    OBVIOUS
  <2> QED BY <2>1, VotesAssumption, FS_Subset
<1>4. Having(T) # {}
  OBVIOUS
<1>5. Having(U) # {}
  <2> HIDE DEF Having
  <2> QED BY <1>2, <1>3, <1>4, FS_EmptySet
<1> QED BY <1>5

-----------------------------------------------------------------------------
\* Theorem: the types hold in every reachable state, and with them that only a block whose
\* header was verified is voted for or worked on (verifyTemplatePrevHeader).
THEOREM TypesHold == Spec => []VotesTypeOK
<1>1. Init => VotesTypeOK
  BY VotesAssumption DEF Init, VotesTypeOK
<1>2. VotesTypeOK /\ [Next]_vars => VotesTypeOK'
  <2> SUFFICES ASSUME VotesTypeOK, [Next]_vars PROVE VotesTypeOK'
    OBVIOUS
  <2>1. ASSUME NEW p \in Peer, NEW b \in Block, NewBlock(p, b) PROVE VotesTypeOK'
    BY <2>1 DEF VotesTypeOK, NewBlock, peerVars, voteVars
  <2>2. ASSUME NEW b \in Block, Learn(b) PROVE VotesTypeOK'
    BY <2>2 DEF VotesTypeOK, Learn, peerVars, voteVars
  <2>3. CASE Tick
    <3>1. \A k \in Key : /\ Older(votes[k]) \in Vote \cup {None}
                         /\ Older(votes[k]) # None => /\ VoterKey[Older(votes[k]).peer] = k
                                                      /\ Older(votes[k]).prev \in verified
      BY VotesAssumption DEF VotesTypeOK, Older, Vote
    <3>2. agreed' \in 0 .. LapseAfter + 1
      BY <2>3, VotesAssumption DEF VotesTypeOK, Tick
    <3>3. votes' = [k \in Key |-> Older(votes[k])]
      BY <2>3 DEF Tick
    <3> QED BY <2>3, <3>1, <3>2, <3>3 DEF VotesTypeOK, Tick, peerVars
  <2>4. ASSUME NEW p \in Peer, Sync(p) PROVE VotesTypeOK'
    BY <2>4 DEF VotesTypeOK, Sync, voteVars
  <2>5. ASSUME NEW p \in Peer, ChallengeFailed(p) PROVE VotesTypeOK'
    BY <2>5 DEF VotesTypeOK, ChallengeFailed, voteVars
  <2>6. ASSUME NEW p \in Peer, NEW b \in Block, NEW n \in 0 .. MaxHeaders,
               ReceiveTemplate(p, b, n)
        PROVE  VotesTypeOK'
    <3>1. /\ tips' \in [Peer -> Block] /\ known' \subseteq Block
          /\ barred' \subseteq Peer /\ proved' \subseteq Peer
      BY <2>6 DEF VotesTypeOK, ReceiveTemplate, ChallengePassed, Answered, Unasked
    <3>2. ApplyRemoteTemplate(p, b, n)
      BY <2>6 DEF ReceiveTemplate
    <3>3. CASE UNCHANGED <<verified, voteVars>>
      BY <3>1, <3>3 DEF VotesTypeOK, voteVars
    <3>4. CASE Verified(b) /\ UNCHANGED voteVars
      BY <3>1, <3>4 DEF VotesTypeOK, voteVars, Verified
    <3>5. CASE Verified(b) /\ strikes[p] <= Strikes /\ Overpaid(p) /\ UNCHANGED <<votes, tmpl, agreed>>
      <4>1. strikes' \in [Peer -> 0 .. Strikes + 1]
        BY <3>5, VotesAssumption DEF VotesTypeOK, Overpaid
      <4> QED BY <3>1, <3>5, <4>1 DEF VotesTypeOK, Verified
    <3>6. ASSUME NEW t \in Offer, t.prev = b, Verified(b), CountVote(p, t) PROVE VotesTypeOK'
      <4>1. /\ votes' = [votes EXCEPT ![VoterKey[p]] =
                           [peer |-> p, prev |-> t.prev, txs |-> t.txs, age |-> 0]]
            /\ strikes' = strikes
        BY <3>6 DEF CountVote
      <4>2. [peer |-> p, prev |-> t.prev, txs |-> t.txs, age |-> 0] \in Vote
        <5>1. t.prev \in Block /\ t.txs \in SUBSET Tx
          BY VotesAssumption DEF Offer
        <5> QED BY <5>1, VotesAssumption DEF Vote
      <4>3. verified' = verified \cup {t.prev} /\ t.prev \in Block
        BY <3>6 DEF Verified
      <4>4. /\ votes' \in [Key -> Vote \cup {None}]
            /\ \A k \in Key : votes'[k] # None => /\ VoterKey[votes'[k].peer] = k
                                                  /\ votes'[k].prev \in verified'
        BY <4>1, <4>2, <4>3, KeyOfPeer DEF VotesTypeOK
      <4>5. \A T \in Outcomes(votes', p, t) : T \subseteq Tx
        <5>1. t.txs \subseteq Tx
          BY VotesAssumption DEF Offer
        <5>2. \A q \in Pairs(votes', t) : votes'[q[1]].txs \subseteq Tx
          BY <4>4 DEF Pairs, Agreeing, Vote
        <5> QED BY <5>1, <5>2 DEF Outcomes, intersectTemplateTxs
      <4>6. /\ agreed' \in 0 .. LapseAfter + 1
            /\ tmpl' # None => tmpl' \in Template /\ tmpl'.prev \in verified'
        <5>1. CASE UNCHANGED <<tmpl, agreed>>
          BY <5>1, <4>3 DEF VotesTypeOK
        <5>2. CASE \E T \in Outcomes(votes', p, t) : Install(t, T)
          <6>1. agreed' = 0 /\ t.height \in 1 .. MaxHeight
            BY <5>2 DEF Install, Offer
          <6>2. CASE UNCHANGED tmpl
            BY <4>3, <6>1, <6>2, VotesAssumption DEF VotesTypeOK
          <6>3. CASE \E T \in Outcomes(votes', p, t) : tmpl' = [prev |-> t.prev, height |-> t.height, txs |-> T]
            BY <4>3, <4>5, <6>1, <6>3, VotesAssumption DEF Template
          <6> QED BY <5>2, <6>2, <6>3 DEF Install
        <5> QED BY <3>6, <4>1, <5>1, <5>2 DEF CountVote
      <4> QED BY <3>1, <4>1, <4>3, <4>4, <4>6 DEF VotesTypeOK
    <3> QED BY <3>2, <3>3, <3>4, <3>5, <3>6 DEF ApplyRemoteTemplate
  <2>7. CASE SubmitBlock
    BY <2>7 DEF VotesTypeOK, SubmitBlock, peerVars
  <2>8. CASE UNCHANGED vars
    BY <2>8 DEF VotesTypeOK, vars, peerVars, voteVars
  <2> QED BY <2>1, <2>2, <2>3, <2>4, <2>5, <2>6, <2>7, <2>8 DEF Next
<1> QED BY <1>1, <1>2, PTL DEF Spec

-----------------------------------------------------------------------------
\* What a step does to the template: nothing, or a block solved on it takes it away, or a
\* peer's vote installs another.
LEMMA TemplateStep ==
    ASSUME [Next]_vars
    PROVE  \/ tmpl' \in {tmpl, None}
           \/ \E p \in Peer, t \in Offer :
                 /\ Serves(p, t) /\ CountVote(p, t) /\ InWindow(t)
                 /\ \E T \in Outcomes(votes', p, t) :
                       tmpl' = [prev |-> t.prev, height |-> t.height, txs |-> T]
<1>1. ASSUME NEW p \in Peer, NEW b \in Block, NEW n \in 0 .. MaxHeaders,
             ReceiveTemplate(p, b, n)
      PROVE  \/ UNCHANGED tmpl
             \/ \E t \in Offer : Serves(p, t) /\ CountVote(p, t)
  BY <1>1 DEF ReceiveTemplate, ApplyRemoteTemplate, voteVars
<1>2. ASSUME NEW p \in Peer, NEW t \in Offer, CountVote(p, t)
      PROVE  \/ UNCHANGED tmpl
             \/ /\ InWindow(t)
                /\ \E T \in Outcomes(votes', p, t) :
                      tmpl' = [prev |-> t.prev, height |-> t.height, txs |-> T]
  BY <1>2 DEF CountVote, Install
<1>3. \/ \E p \in Peer, b \in Block, n \in 0 .. MaxHeaders : ReceiveTemplate(p, b, n)
      \/ tmpl' \in {tmpl, None}
  BY DEF Next, vars, voteVars, NewBlock, Learn, Tick, Sync, ChallengeFailed, SubmitBlock
<1> QED BY <1>1, <1>2, <1>3

\* Theorem: the id of a transaction gets into the template only on a fresh vote of a pinned
\* peer (ApplyRemoteTemplateJSON), whatever the votes of the others.
THEOREM TransactionsVouched == Spec => Vouched
<1>1. ASSUME VotesTypeOK', [Next]_vars PROVE Vouching
  <2>1. ASSUME NEW p \in Peer, NEW t \in Offer, NEW T \in Outcomes(votes', p, t),
               tmpl' = [prev |-> t.prev, height |-> t.height, txs |-> T]
        PROVE  Vouching
    <3>1. tmpl'.prev = t.prev /\ tmpl'.txs = T
      BY <2>1
    <3>2. CASE TrustedExact(votes', t)
      <4>1. PICK k \in Agreeing(votes', t.prev) :
               txSetHash(votes'[k].txs) = txSetHash(t.txs) /\ votes'[k].peer \in Pinned
        BY <3>2 DEF TrustedExact
      <4>2. T = t.txs /\ t.txs \in SUBSET Tx
        BY <3>2, VotesAssumption DEF Outcomes, Offer
      <4>3. k \in Key /\ votes'[k] # None /\ votes'[k].txs \in SUBSET Tx
        BY <1>1 DEF Agreeing, VotesTypeOK, Vote
      <4>4. Ids(T) \subseteq Ids(votes'[k].txs)
        BY <4>1, <4>2, <4>3, HashIds
      <4> QED BY <3>1, <4>1, <4>3, <4>4 DEF Agreeing, PinnedVote, Vouching
    <3>3. CASE ~TrustedExact(votes', t) /\ Pairs(votes', t) # {}
      <4>1. PICK q \in Pairs(votes', t) : T = intersectTemplateTxs(votes'[q[1]].txs, votes'[q[2]].txs)
        BY <3>3 DEF Outcomes
      <4>2. Ids(T) \subseteq Ids(votes'[q[1]].txs)
        BY <4>1 DEF intersectTemplateTxs, Ids
      <4>3. q[1] \in Key /\ PinnedVote(votes'[q[1]], t.prev)
        BY DEF Pairs, Agreeing, PinnedVote
      <4> QED BY <3>1, <4>2, <4>3 DEF Vouching
    <3>4. CASE ~TrustedExact(votes', t) /\ Pairs(votes', t) = {}
      BY <3>1, <3>4 DEF Outcomes, Vouching
    <3> QED BY <3>2, <3>3, <3>4
  <2>2. CASE tmpl' \in {tmpl, None}
    BY <2>2 DEF Vouching
  <2> QED BY <1>1, <2>1, <2>2, TemplateStep
<1>2. VotesTypeOK' /\ [Next]_vars => Vouching
  BY <1>1
<1>3. Vouching => [Vouching]_vars
  OBVIOUS
<1> QED BY <1>2, <1>3, TypesHold, PTL DEF Spec, Vouched

-----------------------------------------------------------------------------
(***************************************************************************)
(* The templates of pinned peers come from a vertcoind, hence the votes of *)
(* pinned peers are closed sets of genuine transactions.                   *)
(***************************************************************************)
PinnedClosed ==
    \A k \in Key : votes[k] # None /\ votes[k].peer \in Pinned =>
                     votes[k].txs \subseteq Genuine /\ Closed(votes[k].txs)

\* A vote is cast, or grows older, or stays.
LEMMA VotesStep ==
    ASSUME VotesTypeOK, [Next]_vars
    PROVE  \/ UNCHANGED votes
           \/ \A k \in Key : votes'[k] = Older(votes[k])
           \/ \E p \in Peer, t \in Offer :
                 /\ Serves(p, t) /\ CountVote(p, t)
                 /\ \A k \in Key : votes'[k] =
                       IF k = VoterKey[p] THEN [peer |-> p, prev |-> t.prev, txs |-> t.txs, age |-> 0]
                       ELSE votes[k]
<1>1. ASSUME NEW p \in Peer, NEW b \in Block, NEW n \in 0 .. MaxHeaders,
             ReceiveTemplate(p, b, n)
      PROVE  \/ UNCHANGED votes
             \/ \E t \in Offer : Serves(p, t) /\ CountVote(p, t)
  BY <1>1 DEF ReceiveTemplate, ApplyRemoteTemplate, voteVars
<1>2. ASSUME NEW p \in Peer, NEW t \in Offer, CountVote(p, t)
      PROVE  \A k \in Key : votes'[k] =
                 IF k = VoterKey[p] THEN [peer |-> p, prev |-> t.prev, txs |-> t.txs, age |-> 0]
                 ELSE votes[k]
  BY <1>2, KeyOfPeer DEF CountVote, VotesTypeOK
<1>3. Tick => \A k \in Key : votes'[k] = Older(votes[k])
  BY DEF Tick
<1>4. \/ \E p \in Peer, b \in Block, n \in 0 .. MaxHeaders : ReceiveTemplate(p, b, n)
      \/ Tick
      \/ UNCHANGED votes
  BY DEF Next, vars, voteVars, NewBlock, Learn, Sync, ChallengeFailed, SubmitBlock
<1> QED BY <1>1, <1>2, <1>3, <1>4

\* What two votes have in common depends on nothing.
LEMMA IntersectionClosed ==
    ASSUME NEW T, NEW U
    PROVE  Closed(intersectTemplateTxs(T, U))
  BY DEF Closed, intersectTemplateTxs

LEMMA ClosedStep ==
    ASSUME PinnedClosed, SelfContained, VotesTypeOK, [Next]_vars
    PROVE  PinnedClosed' /\ SelfContained'
<1>1. PinnedClosed'
  <2>1. CASE UNCHANGED votes
    BY <2>1 DEF PinnedClosed
  <2>2. CASE \A k \in Key : votes'[k] = Older(votes[k])
    <3>1. ASSUME NEW k \in Key, votes'[k] # None
          PROVE  /\ votes[k] # None
                 /\ votes'[k].peer = votes[k].peer /\ votes'[k].txs = votes[k].txs
      <4>1. votes'[k] = Older(votes[k])
        BY <2>2
      <4>2. CASE votes[k] = None \/ votes[k].age = FreshFor
        BY <3>1, <4>1, <4>2 DEF Older
      <4>3. CASE ~(votes[k] = None \/ votes[k].age = FreshFor)
        BY <4>1, <4>3 DEF Older
      <4> QED BY <4>2, <4>3
    <3> QED BY <3>1 DEF PinnedClosed
  <2>3. ASSUME NEW p \in Peer, NEW t \in Offer, Serves(p, t),
               \A k \in Key : votes'[k] =
                  IF k = VoterKey[p] THEN [peer |-> p, prev |-> t.prev, txs |-> t.txs, age |-> 0]
                  ELSE votes[k]
        PROVE  PinnedClosed'
    <3> SUFFICES ASSUME NEW k \in Key, votes'[k] # None, votes'[k].peer \in Pinned
                 PROVE  votes'[k].txs \subseteq Genuine /\ Closed(votes'[k].txs)
      BY DEF PinnedClosed
    <3>1. CASE k = VoterKey[p]
      <4>1. votes'[k].peer = p /\ votes'[k].txs = t.txs
        BY <2>3, <3>1
      <4> QED BY <2>3, <4>1 DEF Serves
    <3>2. CASE k # VoterKey[p]
      <4>1. votes'[k] = votes[k]
        BY <2>3, <3>2
      <4> QED BY <4>1 DEF PinnedClosed
    <3> QED BY <3>1, <3>2
  <2> QED BY <2>1, <2>2, <2>3, VotesStep
<1>2. SelfContained'
  <2>1. CASE tmpl' \in {tmpl, None}
    BY <2>1 DEF SelfContained
  <2>2. ASSUME NEW p \in Peer, NEW t \in Offer, NEW T \in Outcomes(votes', p, t),
               tmpl' = [prev |-> t.prev, height |-> t.height, txs |-> T]
        PROVE  SelfContained'
    <3>1. \E G \in SUBSET Genuine : Closed(G) /\ txSetHash(T) = txSetHash(G)
      <4>1. CASE TrustedExact(votes', t)
        <5>1. PICK k \in Agreeing(votes', t.prev) :
                 txSetHash(votes'[k].txs) = txSetHash(t.txs) /\ votes'[k].peer \in Pinned
          BY <4>1 DEF TrustedExact
        <5>2. k \in Key /\ votes'[k] # None
          BY <5>1 DEF Agreeing
        <5>3. votes'[k].txs \in SUBSET Genuine /\ Closed(votes'[k].txs)
          BY <1>1, <5>1, <5>2 DEF PinnedClosed
        <5>4. T = t.txs
          BY <4>1 DEF Outcomes
        <5> QED BY <5>1, <5>3, <5>4
      <4>2. CASE ~TrustedExact(votes', t) /\ Pairs(votes', t) # {}
        <5>1. PICK q \in Pairs(votes', t) : T = intersectTemplateTxs(votes'[q[1]].txs, votes'[q[2]].txs)
          BY <4>2 DEF Outcomes
        <5>2. q[1] \in Key /\ votes'[q[1]] # None /\ votes'[q[1]].peer \in Pinned
          BY DEF Pairs, Agreeing
        <5>3. votes'[q[1]].txs \subseteq Genuine
          BY <5>2, <1>1 DEF PinnedClosed
        <5>4. T \in SUBSET Genuine
          BY <5>1, <5>3 DEF intersectTemplateTxs
        <5> QED BY <5>1, <5>4, IntersectionClosed
      <4>3. CASE ~TrustedExact(votes', t) /\ Pairs(votes', t) = {}
        <5>1. T = {}
          BY <4>3 DEF Outcomes
        <5> QED BY <5>1 DEF Closed
      <4> QED BY <4>1, <4>2, <4>3
    <3>2. tmpl'.txs = T
      BY <2>2
    <3> QED BY <3>1, <3>2 DEF SelfContained
  <2> QED BY <2>1, <2>2, TemplateStep
<1> QED BY <1>1, <1>2

\* Theorem: by their ids, the transactions of the template the miners work on spend from
\* none it leaves out, although the votes of peers that are not pinned may do so
\* (intersectTemplateTxs).
THEOREM TemplateSelfContained == Spec => []SelfContained
<1>1. Init => PinnedClosed /\ SelfContained
  BY DEF Init, PinnedClosed, SelfContained
<1>2. PinnedClosed /\ SelfContained /\ VotesTypeOK /\ [Next]_vars => PinnedClosed' /\ SelfContained'
  BY ClosedStep
<1> QED BY <1>1, <1>2, TypesHold, PTL DEF Spec

-----------------------------------------------------------------------------
(***************************************************************************)
(* While the template has the true height of its block, a fresh pinned     *)
(* vote for the block is no older than the last agreement: such a vote is  *)
(* always agreement, whatever the others say.                              *)
(***************************************************************************)
AgreedSince ==
    tmpl # None /\ tmpl.height = Height(tmpl.prev) =>
        \A k \in Key : PinnedVote(votes[k], tmpl.prev) => agreed <= votes[k].age

\* The template of a pinned peer is refused only for its height.
LEMMA PinnedInstalls ==
    ASSUME NEW V, NEW p \in Pinned, NEW t PROVE Outcomes(V, p, t) # {}
  BY DEF Outcomes

LEMMA AgreedSinceStep ==
    ASSUME VotesTypeOK, AgreedSince, [Next]_vars PROVE AgreedSince'
<1>1. CASE Tick
  <2> SUFFICES ASSUME tmpl' # None, tmpl'.height = Height(tmpl'.prev),
                      NEW k \in Key, PinnedVote(votes'[k], tmpl'.prev)
               PROVE  agreed' <= votes'[k].age
    BY DEF AgreedSince
  <2>1. tmpl' = tmpl /\ votes'[k] = Older(votes[k])
    BY <1>1 DEF Tick
  <2>2. votes[k] # None /\ votes[k].age \in 0 .. FreshFor
    BY <2>1 DEF VotesTypeOK, Older, PinnedVote, Vote
  <2>3. votes[k].age # FreshFor
    BY <2>1, <2>2, VotesAssumption DEF Older, PinnedVote
  <2>4. votes'[k] = [peer |-> votes[k].peer, prev |-> votes[k].prev, txs |-> votes[k].txs,
                     age |-> votes[k].age + 1]
    BY <2>1, <2>2, <2>3 DEF Older
  <2>5. PinnedVote(votes[k], tmpl.prev)
    BY <2>1, <2>2, <2>3, <2>4, VotesAssumption DEF PinnedVote
  <2>6. agreed <= votes[k].age /\ agreed \in Nat
    BY <2>1, <2>5 DEF AgreedSince, VotesTypeOK
  <2>7. agreed' \in Nat /\ agreed' <= agreed + 1
    BY <1>1, <2>6 DEF Tick
  <2> QED BY <2>2, <2>4, <2>6, <2>7
<1>2. CASE UNCHANGED <<votes, tmpl, agreed>>
  BY <1>2 DEF AgreedSince
<1>3. ASSUME NEW p \in Peer, NEW t \in Offer, CountVote(p, t), Serves(p, t) PROVE AgreedSince'
  <2>1. \A k \in Key : votes'[k] =
            IF k = VoterKey[p] THEN [peer |-> p, prev |-> t.prev, txs |-> t.txs, age |-> 0]
            ELSE votes[k]
    BY <1>3, KeyOfPeer DEF CountVote, VotesTypeOK
  <2>2. \A k \in Key : votes'[k] # None => votes'[k].age \in Nat
    BY <2>1 DEF VotesTypeOK, Vote
  <2>3. CASE \E T \in Outcomes(votes', p, t) : Install(t, T)
    BY <2>2, <2>3 DEF Install, AgreedSince, PinnedVote
  <2>4. CASE UNCHANGED <<tmpl, agreed>> /\ (~InWindow(t) \/ Outcomes(votes', p, t) = {})
    <3> SUFFICES ASSUME tmpl # None, tmpl.height = Height(tmpl.prev),
                        NEW k \in Key, PinnedVote(votes'[k], tmpl.prev)
                 PROVE  agreed <= votes'[k].age
      BY <2>4 DEF AgreedSince
    <3>1. CASE k = VoterKey[p]
      <4>1. p \in Pinned /\ t.prev = tmpl.prev /\ t.height = tmpl.height
        BY <1>3, <2>1, <3>1 DEF PinnedVote, Serves
      <4>2. ~InWindow(t)
        BY <2>4, <4>1, PinnedInstalls
      <4>3. tmpl.prev \in Block
        BY DEF VotesTypeOK, Template
      <4> QED BY <4>1, <4>2, <4>3, HeightNat, VotesAssumption DEF InWindow
    <3>2. CASE k # VoterKey[p]
      BY <2>1, <3>2 DEF AgreedSince
    <3> QED BY <3>1, <3>2
  <2> QED BY <1>3, <2>3, <2>4 DEF CountVote
<1>4. ASSUME NEW p \in Peer, NEW b \in Block, NEW n \in 0 .. MaxHeaders,
             ReceiveTemplate(p, b, n)
      PROVE  AgreedSince'
  BY <1>2, <1>3, <1>4 DEF ReceiveTemplate, ApplyRemoteTemplate, voteVars
<1>5. CASE SubmitBlock
  BY <1>5 DEF SubmitBlock, AgreedSince
<1>6. \/ \E p \in Peer, b \in Block, n \in 0 .. MaxHeaders : ReceiveTemplate(p, b, n)
      \/ Tick
      \/ SubmitBlock
      \/ UNCHANGED <<votes, tmpl, agreed>>
  BY DEF Next, vars, voteVars, NewBlock, Learn, Sync, ChallengeFailed
<1> QED BY <1>1, <1>2, <1>4, <1>5, <1>6

\* Theorem: a template of true height gives way to one of lower height only when no pinned
\* peer has a fresh vote for its block; lastAgreedTime and the two limits of
\* ApplyRemoteTemplateJSON see to it.
THEOREM PinnedNotDeserted == Spec => NotDeserted
<1>1. Init => AgreedSince
  BY DEF Init, AgreedSince
<1>2. ASSUME VotesTypeOK, AgreedSince, [Next]_vars PROVE ~Deserting
  <2> SUFFICES ASSUME Deserting PROVE FALSE
    OBVIOUS
  <2>1. PICK k \in Key : PinnedVote(votes[k], tmpl.prev)
    BY DEF Deserting
  <2>2. tmpl # None /\ tmpl' # None /\ tmpl.height \in Nat /\ tmpl.height = Height(tmpl.prev)
    BY <1>2 DEF Deserting, VotesTypeOK, Template
  <2>3. votes[k].age \in Nat /\ votes[k].age < FreshFor /\ agreed \in Nat
    BY <1>2, <2>1 DEF PinnedVote, VotesTypeOK, Vote
  <2>4. agreed <= LapseAfter
    BY <1>2, <2>1, <2>2, <2>3, VotesAssumption DEF AgreedSince
  <2>5. CASE tmpl' \in {tmpl, None}
    BY <2>2, <2>5 DEF Deserting
  <2>6. ASSUME NEW t \in Offer, NEW T, InWindow(t),
               tmpl' = [prev |-> t.prev, height |-> t.height, txs |-> T]
        PROVE  FALSE
    <3>1. t.height >= tmpl.height
      BY <2>2, <2>4, <2>6, VotesAssumption DEF InWindow, Current
    <3>2. tmpl'.height = t.height /\ t.height \in Nat
      BY <2>6 DEF Offer
    <3> QED BY <2>2, <3>1, <3>2 DEF Deserting
  <2> QED BY <1>2, <2>5, <2>6, TemplateStep
<1>3. VotesTypeOK /\ AgreedSince /\ [Next]_vars => AgreedSince'
  BY AgreedSinceStep
<1>4. VotesTypeOK /\ AgreedSince /\ [Next]_vars => ~Deserting
  BY <1>2
<1> QED BY <1>1, <1>3, <1>4, TypesHold, PTL DEF Spec, NotDeserted
=============================================================================
