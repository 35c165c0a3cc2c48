------------------------- MODULE BlockLedgerProofs --------------------------
(***************************************************************************)
(* Proofs about BlockLedger, for any blocks, heights and limits.           *)
(***************************************************************************)
EXTENDS BlockLedger, TLAPS

\* What is known to be on the chain and mature there.
MatureAt(b, t, w) == b \in w /\ t + 1 - Height[b] >= Required

States == Settlements \cup {"absent"}

\* A full node's ledger e has as paid what is mature, and only that.
PaidOnly(e, t, w) == ~LightMode => \A b \in Block : e[b] = "paid" => MatureAt(b, t, w)

\* The inductive invariant of PaidIsMature: the file may hold an older ledger than
\* memory, so it is bounded by the chain as well; a full node asks no peers.
PaidInv ==
    /\ entry \in [Block -> States] /\ disk \in [Block -> States]
    /\ PaidOnly(entry, top, won) /\ PaidOnly(disk, top, won)
    /\ ~LightMode => asked = {}
    /\ top \in Int

USE LedgerAssumption

LEMMA SavedPaid ==
    ASSUME PaidInv, saveBlocks, entry' \in [Block -> States], PaidOnly(entry', top, won)
    PROVE  disk' \in [Block -> States] /\ PaidOnly(disk', top, won)
BY DEF PaidInv, saveBlocks

LEMMA UpdatePaid ==
    ASSUME PaidInv, NEW e \in [Block -> States], NEW c, Update(e, c), PaidOnly(e, top, won),
           top' = top, won' = won, ~LightMode => asked' = {}
    PROVE  PaidInv'
<1>1. entry' = e  BY DEF Update
<1>2. CASE saveBlocks  BY <1>1, <1>2, SavedPaid DEF PaidInv
<1>3. CASE UNCHANGED <<disk, diskConf>>  BY <1>1, <1>3 DEF PaidInv
<1> QED  BY <1>2, <1>3 DEF Update

LEMMA SettleStates ==
    ASSUME entry \in [Block -> States], NEW h, NEW S, NEW c
    PROVE  Settle(h, S, c) \in [Block -> States]
BY DEF Settle, States, Settlements

LEMMA RecordPaid ==
    ASSUME PaidInv, NEW b \in Block, Record(b, "pending"), UNCHANGED <<asked, netVars>>
    PROVE  PaidInv'
<1>1. CASE Known(b)
  BY <1>1 DEF Record, PaidInv, netVars
<1>2. CASE ~Known(b)
  <2> DEFINE e == [entry EXCEPT ![b] = "pending"]
  <2>1. e \in [Block -> States]  BY DEF PaidInv, States, Settlements
  <2>2. PaidOnly(e, top, won)  BY DEF PaidInv, PaidOnly
  <2>3. Update(e, confirmed)  BY <1>2 DEF Record
  <2> HIDE DEF e
  <2> QED  BY <2>1, <2>2, <2>3, UpdatePaid DEF PaidInv, netVars
<1> QED  BY <1>1, <1>2

LEMMA PaidInit == Init => PaidInv
BY DEF Init, PaidInv, PaidOnly, States

LEMMA PaidNext == PaidInv /\ [Next]_vars => PaidInv'
<1> SUFFICES ASSUME PaidInv, [Next]_vars PROVE PaidInv'  OBVIOUS
<1>1. ASSUME NEW b \in Block,
             SubmitBlock(b) \/ AttemptAccepted(b) \/ AttemptRejected(b) \/ AttemptLost(b)
      PROVE  PaidInv'
  BY <1>1 DEF SubmitBlock, AttemptAccepted, AttemptRejected, AttemptLost, Answered, PaidInv,
              ledgerVars, netVars
<1>2. ASSUME NEW b \in Block, RecordSolved(b) \/ WatchFound(b)  PROVE PaidInv'
  BY <1>2, RecordPaid DEF RecordSolved, WatchFound
<1>3. ASSUME NEW S \in SUBSET Block, NEW theirs \in [S -> Settlements], Merge(theirs)
      PROVE  PaidInv'
  <2> DEFINE new == {b \in S : ~Known(b)}
             e == [b \in Block |-> IF b \in new THEN theirs[b] ELSE entry[b]]
  <2>1. e \in [Block -> States]  BY DEF PaidInv, States, Settlements
  <2>2. PaidOnly(e, top, won)
    BY <1>3 DEF Merge, PeerSays, PaidInv, PaidOnly, MatureAt
  <2>3. Update(e, confirmed)  BY <1>3 DEF Merge
  <2> HIDE DEF e
  <2> QED  BY <1>3, <2>1, <2>2, <2>3, UpdatePaid DEF Merge, PaidInv, netVars
<1>4. ASSUME NEW fail \in SUBSET Block, WatchMatured(fail)  PROVE PaidInv'
  <2> DEFINE mature == {b \in (Pending \cap won) \ fail : Mature(b)}
             orphaned == {b \in Pending \ fail : Lost(b)}
             dropped == orphaned \cup ((Recorded \ Pending) \cap old)
             e == [b \in Block |-> IF b \in dropped THEN "absent"
                                   ELSE IF b \in mature THEN "paid" ELSE entry[b]]
  <2>1. e \in [Block -> States]  BY DEF PaidInv, States, Settlements
  <2>2. PaidOnly(e, top, won)  BY DEF PaidInv, PaidOnly, MatureAt, Mature
  <2>3. Update(e, confirmed \ dropped)  BY <1>4 DEF WatchMatured
  <2> HIDE DEF e, dropped
  <2> QED  BY <1>4, <2>1, <2>2, <2>3, UpdatePaid DEF WatchMatured, PaidInv, netVars
<1>5. ASSUME NEW h, NEW on, ApplyTemplate(h, on)  PROVE PaidInv'
  <2>1. LightMode /\ top' = top /\ won' = won  BY <1>5 DEF ApplyTemplate
  <2>2. PICK S, c : Update(Settle(h, S, c), c)  BY <1>5 DEF ApplyTemplate
  <2> QED  BY <2>1, <2>2, SettleStates, UpdatePaid DEF PaidInv, PaidOnly
<1>6. ASSUME NEW q \in asked, NEW found, ConfirmationsAnswered(q, found)  PROVE PaidInv'
  <2>1. LightMode /\ top' = top /\ won' = won
    BY <1>6 DEF ConfirmationsAnswered, PaidInv, netVars
  <2>2. PICK c : Update(Settle(q.height, Pending, c), c)  BY <1>6 DEF ConfirmationsAnswered
  <2> QED  BY <2>1, <2>2, SettleStates, UpdatePaid DEF PaidInv, PaidOnly
<1>7. CASE NetworkBlock
  <2>1. top' = top + 1 /\ won \subseteq won'  BY <1>7 DEF NetworkBlock
  <2>2. \A b \in Block : MatureAt(b, top, won) => MatureAt(b, top', won')
    BY <2>1 DEF MatureAt, PaidInv
  <2>3. UNCHANGED ledgerVars  BY <1>7 DEF NetworkBlock
  <2> QED  BY <2>1, <2>2, <2>3 DEF PaidInv, PaidOnly, ledgerVars
<1>8. CASE SevenDays  BY <1>8 DEF SevenDays, PaidInv, ledgerVars
<1>9. CASE Restart
  <2> DEFINE saved == {b \in Block : disk[b] # "absent"}
  <2>1. PICK K \in SUBSET saved :
          /\ entry' = [b \in Block |-> IF b \in K THEN disk[b] ELSE "absent"]
          /\ confirmed' = diskConf \cap K
          /\ IF K = saved THEN UNCHANGED <<disk, diskConf>> ELSE saveBlocks
    BY <1>9 DEF Restart
  <2>2. entry' \in [Block -> States]  BY <2>1 DEF PaidInv, States
  <2>3. PaidOnly(entry', top, won)  BY <2>1 DEF PaidInv, PaidOnly
  <2>4. top' = top /\ won' = won /\ asked' = {}  BY <1>9 DEF Restart, netVars
  <2>5. CASE saveBlocks  BY <2>2, <2>3, <2>4, <2>5, SavedPaid DEF PaidInv
  <2>6. CASE UNCHANGED <<disk, diskConf>>  BY <2>2, <2>3, <2>4, <2>6 DEF PaidInv
  <2> QED  BY <2>1, <2>5, <2>6
<1>10. CASE UNCHANGED vars
  BY <1>10 DEF vars, ledgerVars, netVars, PaidInv
<1> QED
  BY <1>1, <1>2, <1>3, <1>4, <1>5, <1>6, <1>7, <1>8, <1>9, <1>10
     DEF Next, TemplateArrives, ConfirmationsReturn

\* In any network and with any failures, a full node's ledger has as paid only blocks
\* that are on the network's chain and mature there: neither WatchMaturedBlocks, a merged
\* ledger nor a restart from an outdated blocks.json says so too early.
THEOREM PaidStaysMature == Spec => []PaidIsMature
<1>1. PaidInv => PaidIsMature  BY DEF PaidInv, PaidOnly, PaidIsMature, MatureAt
<1> QED  BY <1>1, PaidInit, PaidNext, PTL DEF Spec

-----------------------------------------------------------------------------
(***************************************************************************)
(* One entry per height.                                                   *)
(***************************************************************************)

\* The ledger e has one entry per height.
Distinct(e) == \A b, c \in Block : e[b] # "absent" /\ e[c] # "absent" /\ Height[b] = Height[c] => b = c

\* No new entries.
Within(e) == \A b \in Block : entry[b] = "absent" => e[b] = "absent"

LEMMA WithinDistinct ==
    ASSUME Distinct(entry), NEW e, Within(e)  PROVE Distinct(e)
BY DEF Distinct, Within

LEMMA SettleWithin ==
    ASSUME NEW h, NEW S, S \subseteq Pending, NEW c  PROVE Within(Settle(h, S, c))
BY DEF Settle, Within, Pending

LEMMA RecordDistinct ==
    ASSUME Distinct(entry), entry \in [Block -> States], NEW b \in Block, Record(b, "pending")
    PROVE  Distinct(entry')
<1>1. CASE Known(b)  BY <1>1 DEF Record, Distinct
<1>2. CASE ~Known(b)
  <2>1. entry' = [entry EXCEPT ![b] = "pending"]  BY <1>2 DEF Record, Update
  <2>2. \A c \in Block : entry[c] # "absent" => Height[c] # Height[b]
    BY <1>2 DEF Known, Recorded
  <2> QED  BY <2>1, <2>2 DEF Distinct
<1> QED  BY <1>1, <1>2

LEMMA DistinctNext == Distinct(entry) /\ PaidInv /\ [Next]_vars => Distinct(entry')
<1> SUFFICES ASSUME Distinct(entry), PaidInv, [Next]_vars  PROVE Distinct(entry')  OBVIOUS
<1>0. entry \in [Block -> States]  BY DEF PaidInv
<1>1. ASSUME NEW b \in Block,
             SubmitBlock(b) \/ AttemptAccepted(b) \/ AttemptRejected(b) \/ AttemptLost(b)
      PROVE  Distinct(entry')
  BY <1>1 DEF SubmitBlock, AttemptAccepted, AttemptRejected, AttemptLost, Answered, ledgerVars, Distinct
<1>2. ASSUME NEW b \in Block, RecordSolved(b) \/ WatchFound(b)  PROVE Distinct(entry')
  BY <1>0, <1>2, RecordDistinct DEF RecordSolved, WatchFound
<1>3. ASSUME NEW S \in SUBSET Block, NEW theirs \in [S -> Settlements], Merge(theirs)
      PROVE  Distinct(entry')
  <2> DEFINE new == {b \in S : ~Known(b)}
  <2>1. entry' = [b \in Block |-> IF b \in new THEN theirs[b] ELSE entry[b]]
    BY <1>3 DEF Merge, Update
  <2>2. \A b, c \in S : Height[b] = Height[c] => b = c  BY <1>3 DEF Merge
  <2>3. \A b \in new, c \in Block : entry[c] # "absent" => Height[c] # Height[b]
    BY DEF Known, Recorded
  <2> QED  BY <2>1, <2>2, <2>3 DEF Distinct
<1>4. ASSUME NEW fail \in SUBSET Block, WatchMatured(fail)  PROVE Distinct(entry')
  <2>1. Within(entry')  BY <1>4 DEF WatchMatured, Update, Within, Pending
  <2> QED  BY <2>1, WithinDistinct
<1>5. ASSUME NEW h, NEW on, ApplyTemplate(h, on)  PROVE Distinct(entry')
  <2>1. Within(entry')  BY <1>5, SettleWithin DEF ApplyTemplate, Update
  <2> QED  BY <2>1, WithinDistinct
<1>6. ASSUME NEW q, NEW found, ConfirmationsAnswered(q, found)  PROVE Distinct(entry')
  <2>1. Within(entry')  BY <1>6, SettleWithin DEF ConfirmationsAnswered, Update
  <2> QED  BY <2>1, WithinDistinct
<1>7. CASE NetworkBlock \/ SevenDays  BY <1>7 DEF NetworkBlock, SevenDays, ledgerVars, Distinct
<1>8. CASE Restart
  <2>1. PICK K \in SUBSET {b \in Block : disk[b] # "absent"} :
          /\ \A b, c \in K : Height[b] = Height[c] => b = c
          /\ entry' = [b \in Block |-> IF b \in K THEN disk[b] ELSE "absent"]
    BY <1>8 DEF Restart
  <2> QED  BY <2>1 DEF Distinct
<1>9. CASE UNCHANGED vars  BY <1>9 DEF vars, ledgerVars, Distinct
<1> QED
  BY <1>1, <1>2, <1>3, <1>4, <1>5, <1>6, <1>7, <1>8, <1>9
     DEF Next, TemplateArrives, ConfirmationsReturn

\* Whatever SubmitBlock, WatchFoundBlocks, MergeRemoteBlocksJSON and LoadBlocks learn,
\* and in whatever order, the ledger holds one entry per height.
THEOREM OneEntryPerHeight == Spec => []OnePerHeight
<1>1. Init => Distinct(entry)  BY DEF Init, Distinct
<1>2. Distinct(entry) => OnePerHeight  BY DEF Distinct, OnePerHeight, Recorded
<1>3. Distinct(entry) /\ PaidInv /\ [Next]_vars => (Distinct(entry) /\ PaidInv)'
  BY DistinctNext, PaidNext DEF Distinct
<1> QED  BY <1>1, <1>2, <1>3, PaidInit, PTL DEF Spec

-----------------------------------------------------------------------------
(***************************************************************************)
(* Types, and how submitBlockWithRetry gives up.                           *)
(***************************************************************************)

LEMMA SavedTyped ==
    ASSUME LedgerTypeOK, saveBlocks, entry' \in [Block -> States]
    PROVE  disk' \in [Block -> States] /\ diskConf' \subseteq Block
BY DEF LedgerTypeOK, saveBlocks, States

\* What an update leaves alone keeps its type.
LEMMA UpdateTyped ==
    ASSUME LedgerTypeOK, NEW e \in [Block -> States], NEW c, Update(e, c),
           \A b \in c : b \in Block /\ e[b] # "absent",
           \A q \in asked' : q.height \in Nat /\ q.hashes \subseteq Block,
           unheard' \subseteq Block,
           sub' \in [Block -> {"none", "sending", "recording", "done", "failed", "lost"}],
           overclaimed' \in BOOLEAN,
           UNCHANGED <<tries, daemon, won, old, top, restarts>>
    PROVE  LedgerTypeOK'
<1>1. entry' = e /\ confirmed' = c  BY DEF Update
<1>2. confirmed' \subseteq Recorded'  BY <1>1 DEF Recorded
<1>3. disk' \in [Block -> States] /\ diskConf' \subseteq Block
  <2>1. CASE saveBlocks  BY <1>1, <2>1, SavedTyped
  <2>2. CASE UNCHANGED <<disk, diskConf>>  BY <2>2 DEF LedgerTypeOK, States
  <2> QED  BY <2>1, <2>2 DEF Update
<1> QED  BY <1>1, <1>2, <1>3 DEF LedgerTypeOK, States

LEMMA SettleTyped ==
    ASSUME LedgerTypeOK, NEW h \in Int, NEW S, S \subseteq Pending, NEW c
    PROVE  /\ Settle(h, S, c) \in [Block -> States]
           /\ \A b \in Block : entry[b] # "absent" => Settle(h, S, c)[b] # "absent"
BY DEF Settle, LedgerTypeOK, States, Settlements

LEMMA RecordTyped ==
    ASSUME LedgerTypeOK, NEW b \in Block, Record(b, "pending"),
           UNCHANGED <<asked, unheard, netVars, tries, restarts>>,
           sub' \in [Block -> {"none", "sending", "recording", "done", "failed", "lost"}]
    PROVE  LedgerTypeOK'
<1>1. CASE Known(b)
  BY <1>1 DEF Record, LedgerTypeOK, Recorded, netVars
<1>2. CASE ~Known(b)
  <2> DEFINE e == [entry EXCEPT ![b] = "pending"]
  <2>1. e \in [Block -> States]  BY DEF LedgerTypeOK, States, Settlements
  <2>2. \A c \in confirmed : c \in Block /\ e[c] # "absent"  BY DEF LedgerTypeOK, Recorded
  <2>3. Update(e, confirmed)  BY <1>2 DEF Record
  <2> HIDE DEF e
  <2> QED  BY <2>1, <2>2, <2>3, UpdateTyped DEF LedgerTypeOK, netVars
<1> QED  BY <1>1, <1>2

LEMMA TypeInit == Init => LedgerTypeOK
<1>1. Init => overclaimed \in BOOLEAN  BY Zenon DEF Init
<1> QED  BY <1>1 DEF Init, LedgerTypeOK, Recorded

LEMMA TypeNext == LedgerTypeOK /\ [Next]_vars => LedgerTypeOK'
<1> SUFFICES ASSUME LedgerTypeOK, [Next]_vars PROVE LedgerTypeOK'  OBVIOUS
<1> DEFINE Points == {"none", "sending", "recording", "done", "failed", "lost"}
<1>0. sub \in [Block -> Points] /\ tries \in [Block -> 0 .. Retries]  BY DEF LedgerTypeOK
<1>1. ASSUME NEW b \in Block,
             SubmitBlock(b) \/ AttemptAccepted(b) \/ AttemptRejected(b) \/ AttemptLost(b)
      PROVE  LedgerTypeOK'
  <2>1. sub' \in [Block -> Points]
    BY <1>0, <1>1 DEF SubmitBlock, AttemptAccepted, AttemptRejected, AttemptLost, Answered
  <2>2. tries' \in [Block -> 0 .. Retries]
    <3>1. CASE tries' = tries  BY <1>0, <3>1
    <3>2. CASE tries[b] < Retries /\ tries' = [tries EXCEPT ![b] = @ + 1]  BY <1>0, <3>2
    <3> QED  BY <1>1, <3>1, <3>2
               DEF SubmitBlock, AttemptAccepted, AttemptRejected, AttemptLost, Answered
  <2>3. daemon' \subseteq daemon \cup {b}
    BY <1>1 DEF SubmitBlock, AttemptAccepted, AttemptRejected, AttemptLost, netVars
  <2>4. UNCHANGED <<ledgerVars, won, top, old, overclaimed, restarts>>
    BY <1>1 DEF SubmitBlock, AttemptAccepted, AttemptRejected, AttemptLost, Answered, netVars
  <2> QED  BY <2>1, <2>2, <2>3, <2>4 DEF LedgerTypeOK, Recorded, ledgerVars
<1>2. ASSUME NEW b \in Block, RecordSolved(b) \/ WatchFound(b)  PROVE LedgerTypeOK'
  <2>1. sub' \in [Block -> Points]  BY <1>0, <1>2 DEF RecordSolved, WatchFound
  <2> QED  BY <1>2, <2>1, RecordTyped DEF RecordSolved, WatchFound
<1>3. ASSUME NEW S \in SUBSET Block, NEW theirs \in [S -> Settlements], Merge(theirs)
      PROVE  LedgerTypeOK'
  <2> DEFINE new == {b \in S : ~Known(b)}
             e == [b \in Block |-> IF b \in new THEN theirs[b] ELSE entry[b]]
  <2>1. e \in [Block -> States]  BY DEF LedgerTypeOK, States, Settlements
  <2>2. \A c \in confirmed : c \in Block /\ e[c] # "absent"
    BY DEF LedgerTypeOK, Recorded, Settlements
  <2>3. Update(e, confirmed)  BY <1>3 DEF Merge
  <2> HIDE DEF e
  <2> QED  BY <1>3, <2>1, <2>2, <2>3, UpdateTyped DEF Merge, LedgerTypeOK, netVars
<1>4. ASSUME NEW fail \in SUBSET Block, WatchMatured(fail)  PROVE LedgerTypeOK'
  <2> DEFINE mature == {b \in (Pending \cap won) \ fail : Mature(b)}
             orphaned == {b \in Pending \ fail : Lost(b)}
             dropped == orphaned \cup ((Recorded \ Pending) \cap old)
             e == [b \in Block |-> IF b \in dropped THEN "absent"
                                   ELSE IF b \in mature THEN "paid" ELSE entry[b]]
  <2>1. e \in [Block -> States]  BY DEF LedgerTypeOK, States, Settlements
  <2>2. \A c \in confirmed \ dropped : c \in Block /\ e[c] # "absent"
    BY DEF LedgerTypeOK, Recorded
  <2>3. Update(e, confirmed \ dropped)  BY <1>4 DEF WatchMatured
  <2> HIDE DEF e, dropped
  <2> QED  BY <1>4, <2>1, <2>2, <2>3, UpdateTyped DEF WatchMatured, LedgerTypeOK, netVars
<1>5. ASSUME NEW h \in 1 .. MaxHeight + 1, NEW on \in SUBSET Block, ApplyTemplate(h, on)
      PROVE  LedgerTypeOK'
  <2> DEFINE c == confirmed \cup on
             ask == {b \in Pending \ c : h - Height[b] >= 1}
             e == Settle(h, Pending \ ask, c)
  <2>1. /\ e \in [Block -> States]
        /\ \A b \in Block : entry[b] # "absent" => e[b] # "absent"
    BY SettleTyped
  <2>2. c \subseteq Recorded  BY <1>5 DEF ApplyTemplate, LedgerTypeOK
  <2>3. \A b \in c : b \in Block /\ e[b] # "absent"  BY <2>1, <2>2 DEF Recorded
  <2>4. Update(e, c)  BY <1>5 DEF ApplyTemplate
  <2>5. ask \subseteq Block  BY DEF Pending
  <2>6. \A q \in asked' : q.height \in Nat /\ q.hashes \subseteq Block
    BY <1>5, <2>5 DEF ApplyTemplate, LedgerTypeOK
  <2>7. overclaimed' \in BOOLEAN  BY <1>5 DEF ApplyTemplate, LedgerTypeOK
  <2>8. UNCHANGED <<unheard, daemon, won, top, old, sub, tries, restarts>>
    BY <1>5 DEF ApplyTemplate
  <2> HIDE DEF c, ask, e
  <2> QED  BY <2>1, <2>3, <2>4, <2>6, <2>7, <2>8, UpdateTyped DEF LedgerTypeOK
<1>6. ASSUME NEW q \in asked, NEW found \in SUBSET Block, ConfirmationsAnswered(q, found)
      PROVE  LedgerTypeOK'
  <2> DEFINE c == confirmed \cup (Pending \cap found)
             e == Settle(q.height, Pending, c)
  <2>0. q.height \in Int /\ q.hashes \subseteq Block  BY DEF LedgerTypeOK
  <2>1. /\ e \in [Block -> States]
        /\ \A b \in Block : entry[b] # "absent" => e[b] # "absent"
    BY <2>0, SettleTyped
  <2>2. c \subseteq Recorded  BY DEF LedgerTypeOK, Recorded, Pending
  <2>3. \A b \in c : b \in Block /\ e[b] # "absent"  BY <2>1, <2>2 DEF Recorded
  <2>4. Update(e, c)  BY <1>6 DEF ConfirmationsAnswered
  <2>5. unheard' \subseteq Block  BY <1>6, <2>0 DEF ConfirmationsAnswered, LedgerTypeOK
  <2>6. \A r \in asked' : r.height \in Nat /\ r.hashes \subseteq Block
    BY <1>6 DEF ConfirmationsAnswered, LedgerTypeOK
  <2>7. UNCHANGED <<daemon, won, top, old, overclaimed, sub, tries, restarts>>
    BY <1>6 DEF ConfirmationsAnswered, netVars
  <2> HIDE DEF c, e
  <2> QED  BY <2>1, <2>3, <2>4, <2>5, <2>6, <2>7, UpdateTyped DEF LedgerTypeOK
<1>7. CASE NetworkBlock
  <2>1. top' \in 0 .. MaxHeight /\ won' \subseteq Block /\ daemon' \subseteq Block
    BY <1>7 DEF NetworkBlock, LedgerTypeOK
  <2>2. UNCHANGED <<ledgerVars, old, overclaimed, sub, tries, restarts>>  BY <1>7 DEF NetworkBlock
  <2> QED  BY <2>1, <2>2 DEF LedgerTypeOK, Recorded, ledgerVars
<1>8. CASE SevenDays
  BY <1>8 DEF SevenDays, LedgerTypeOK, Recorded, ledgerVars
<1>9. CASE Restart
  <2> DEFINE saved == {b \in Block : disk[b] # "absent"}
  <2>1. PICK K \in SUBSET saved :
          /\ entry' = [b \in Block |-> IF b \in K THEN disk[b] ELSE "absent"]
          /\ confirmed' = diskConf \cap K
          /\ IF K = saved THEN UNCHANGED <<disk, diskConf>> ELSE saveBlocks
    BY <1>9 DEF Restart
  <2>2. entry' \in [Block -> States]  BY <2>1 DEF LedgerTypeOK, States
  <2>3. confirmed' \subseteq Recorded'  BY <2>1 DEF Recorded
  <2>4. disk' \in [Block -> States] /\ diskConf' \subseteq Block
    <3>1. CASE saveBlocks  BY <2>2, <3>1, SavedTyped
    <3>2. CASE UNCHANGED <<disk, diskConf>>  BY <3>2 DEF LedgerTypeOK, States
    <3> QED  BY <2>1, <3>1, <3>2
  <2>5. sub' \in [Block -> Points]  BY <1>0, <1>9 DEF Restart
  <2>6. restarts' \in 0 .. MaxRestarts  BY <1>9 DEF Restart, LedgerTypeOK
  <2>7. asked' = {} /\ UNCHANGED <<unheard, tries, daemon, won, top, old, overclaimed>>
    BY <1>9 DEF Restart, netVars
  <2> QED  BY <2>2, <2>3, <2>4, <2>5, <2>6, <2>7 DEF LedgerTypeOK, States
<1>10. CASE UNCHANGED vars
  BY <1>10 DEF vars, ledgerVars, netVars, LedgerTypeOK, Recorded
<1> QED
  BY <1>1, <1>2, <1>3, <1>4, <1>5, <1>6, <1>7, <1>8, <1>9, <1>10
     DEF Next, TemplateArrives, ConfirmationsReturn

\* The ledger, blocks.json, the submissions and the network keep to their states, and
\* submitBlockWithRetry never retries more often than submitBlockBackoff says.
THEOREM LedgerTyped == Spec => []LedgerTypeOK
BY TypeInit, TypeNext, PTL DEF Spec

\* The chain holds no block above its top.
WonBelow == \A b \in won : Height[b] <= top

\* The inductive invariant of GivesUpLast: a block the network takes closes its height.
GivesUpInv == LedgerTypeOK /\ WonBelow /\ GivesUpLast

LEMMA GivesUpNext == GivesUpInv /\ [Next]_vars => GivesUpInv'
<1> SUFFICES ASSUME GivesUpInv, [Next]_vars  PROVE WonBelow' /\ GivesUpLast'
  BY TypeNext DEF GivesUpInv
<1> USE DEF GivesUpInv
<1>0. /\ top \in Int /\ won \subseteq Block
      /\ sub \in [Block -> {"none", "sending", "recording", "done", "failed", "lost"}]
      /\ tries \in [Block -> 0 .. Retries]
  BY DEF LedgerTypeOK
<1>1. ASSUME NEW b \in Block,
             SubmitBlock(b) \/ AttemptAccepted(b) \/ AttemptRejected(b) \/ AttemptLost(b)
      PROVE  WonBelow' /\ GivesUpLast'
  <2>1. won' = won /\ top' = top
    BY <1>1 DEF SubmitBlock, AttemptAccepted, AttemptRejected, AttemptLost, Answered, netVars
  <2>2. \A c \in Block \ {b} : sub'[c] = sub[c] /\ tries'[c] = tries[c]
                               /\ (c \in daemon' <=> c \in daemon)
    BY <1>0, <1>1
       DEF SubmitBlock, AttemptAccepted, AttemptRejected, AttemptLost, Answered, netVars
  <2>3. ASSUME sub'[b] = "failed", b \in daemon', top < Height[b]  PROVE tries'[b] = Retries
    <3>1. CASE SubmitBlock(b) \/ AttemptAccepted(b)
      BY <1>0, <2>3, <3>1 DEF SubmitBlock, AttemptAccepted, Answered
    <3>2. CASE AttemptRejected(b)  BY <1>0, <2>3, <3>2 DEF AttemptRejected
    <3>3. CASE AttemptLost(b)  BY <1>0, <2>3, <3>3 DEF AttemptLost
    <3> QED  BY <1>1, <3>1, <3>2, <3>3
  <2> QED  BY <2>1, <2>2, <2>3 DEF WonBelow, GivesUpLast
<1>2. CASE NetworkBlock
  <2>1. top' = top + 1 /\ UNCHANGED <<sub, tries>> /\ daemon' = daemon \cup won'
    BY <1>2 DEF NetworkBlock
  <2>2. WonBelow'  BY <1>0, <1>2 DEF NetworkBlock, WonBelow
  <2> QED  BY <1>0, <2>1, <2>2 DEF WonBelow, GivesUpLast
<1>3. CASE Restart
  <2>1. \A b \in Block : sub'[b] = "failed" => sub[b] = "failed"  BY <1>0, <1>3 DEF Restart
  <2> QED  BY <1>3, <2>1 DEF Restart, netVars, WonBelow, GivesUpLast
<1>4. ASSUME NEW b \in Block, RecordSolved(b)  PROVE WonBelow' /\ GivesUpLast'
  <2>1. \A c \in Block : sub'[c] = "failed" => sub[c] = "failed"
    BY <1>0, <1>4 DEF RecordSolved
  <2> QED  BY <1>4, <2>1 DEF RecordSolved, netVars, WonBelow, GivesUpLast
<1>5. CASE UNCHANGED <<won, top, daemon, sub, tries>>
  BY <1>5 DEF WonBelow, GivesUpLast
<1> QED
  BY <1>1, <1>2, <1>3, <1>4, <1>5
     DEF Next, WatchFound, Merge, WatchMatured, TemplateArrives, ApplyTemplate,
         ConfirmationsReturn, ConfirmationsAnswered, SevenDays, vars, netVars

\* While a height is open, submitBlockWithRetry gives up on a block that vertcoind holds
\* only after its last retry: an earlier answer would have been "duplicate".
THEOREM GivesUpOnlyLast == Spec => []GivesUpLast
<1>1. Init => GivesUpInv  BY TypeInit DEF Init, GivesUpInv, WonBelow, GivesUpLast
<1>2. GivesUpInv => GivesUpLast  BY DEF GivesUpInv
<1> QED  BY <1>1, <1>2, GivesUpNext, PTL DEF Spec

-----------------------------------------------------------------------------
(***************************************************************************)
(* Solved blocks are kept.                                                 *)
(***************************************************************************)

\* The network has b, or may still take it.
Alive(b) == b \in won \/ top < Height[b]

\* The blocks SolvedKept speaks of, and those that may become one.
Ours == {b \in Mine \ (old \cup unheard) :
            Unrivalled(b) /\ Alive(b) /\ ~overclaimed /\ (DiskMayFail => restarts = 0)}

\* A query is about blocks below a height the chain has got to, if no template claimed
\* more.
AskedOf ==
    \A q \in asked : /\ ~overclaimed => q.height <= top + 1
                    /\ \A b \in q.hashes : Height[b] < q.height

\* Only a full node talks to a vertcoind, which then has what is to be recorded; only a
\* light node asks peers.
ModeInv ==
    /\ LightMode => \A b \in Block : sub[b] # "sending"
    /\ ~LightMode => asked = {} /\ \A b \in Block : sub[b] \in {"recording", "done"} => b \in daemon

\* Nobody tells of a block before it is solved, and a disk that works is up to date.
SavedInv ==
    /\ \A b \in Mine : sub[b] = "none" => entry[b] = "absent" /\ disk[b] = "absent"
    /\ ~DiskMayFail => disk = entry

\* The answer to query q cannot make an orphan of b.
SafeFrom(q, b) ==
    b \in q.hashes \/ b \in confirmed \/ entry[b] = "paid" \/ q.height - Height[b] < Grace

\* The inductive invariant of SolvedKept: from its submission on a block of ours is no
\* orphan, every query under way is harmless to it, and once recorded it stays.
Kept(b) ==
    /\ sub[b] \in {"sending", "recording", "done"} => entry[b] # "orphan"
    /\ sub[b] \in {"recording", "done"} => \A q \in asked : SafeFrom(q, b)
    /\ sub[b] = "done" => entry[b] # "absent"

KeptInv == \A b \in Ours : Kept(b)

\* The network has a block of ours from us.
WonSolved == \A b \in Mine \cap won : sub[b] # "none"

SolvedInv == LedgerTypeOK /\ AskedOf /\ ModeInv /\ SavedInv /\ WonSolved /\ KeptInv

\* Nothing that happens makes a block one of ours again.
LEMMA OursShrinks == SolvedInv /\ [Next]_vars => Ours' \subseteq Ours
<1> SUFFICES ASSUME SolvedInv, [Next]_vars  PROVE Ours' \subseteq Ours  OBVIOUS
<1>0. top \in Int /\ restarts \in Nat  BY DEF SolvedInv, LedgerTypeOK
<1>1. old \subseteq old' /\ unheard \subseteq unheard' /\ (overclaimed => overclaimed')
  BY DEF Next, SubmitBlock, AttemptAccepted, AttemptRejected, AttemptLost, Answered, RecordSolved,
         WatchFound, Merge, WatchMatured, TemplateArrives, ApplyTemplate, ConfirmationsReturn,
         ConfirmationsAnswered, NetworkBlock, SevenDays, Restart, vars, netVars, ledgerVars,
         SolvedInv, LedgerTypeOK
<1>2. restarts' = restarts \/ restarts' = restarts + 1
  BY DEF Next, SubmitBlock, AttemptAccepted, AttemptRejected, AttemptLost, Answered, RecordSolved,
         WatchFound, Merge, WatchMatured, TemplateArrives, ApplyTemplate, ConfirmationsReturn,
         ConfirmationsAnswered, NetworkBlock, SevenDays, Restart, vars
<1>3. \A b \in Block : Alive(b)' => Alive(b)
  <2>1. CASE NetworkBlock  BY <1>0, <2>1 DEF NetworkBlock, Alive
  <2>2. CASE UNCHANGED <<won, top>>  BY <2>2 DEF Alive
  <2> QED
    BY <2>1, <2>2
       DEF Next, SubmitBlock, AttemptAccepted, AttemptRejected, AttemptLost, Answered, RecordSolved,
           WatchFound, Merge, WatchMatured, TemplateArrives, ApplyTemplate, ConfirmationsReturn,
           ConfirmationsAnswered, SevenDays, Restart, vars, netVars
<1>4. \A b \in Block : Unrivalled(b)' = Unrivalled(b)  BY DEF Unrivalled
<1> QED  BY <1>0, <1>1, <1>2, <1>3, <1>4 DEF Ours

LEMMA ClaimKnown ==
    ASSUME top \in Int, NEW h \in Int, NEW on, ApplyTemplate(h, on), ~overclaimed'
    PROVE  ~overclaimed /\ h <= top + 1
<1>1. ~overclaimed /\ ~(h > top + 1)  BY Zenon DEF ApplyTemplate
<1> QED  BY <1>1

LEMMA AskedNext == SolvedInv /\ [Next]_vars => AskedOf'
<1> SUFFICES ASSUME SolvedInv, [Next]_vars  PROVE AskedOf'  OBVIOUS
<1>0. top \in Int /\ AskedOf /\ \A q \in asked : q.height \in Int
  BY DEF SolvedInv, LedgerTypeOK
<1>1. ASSUME NEW h \in 1 .. MaxHeight + 1, NEW on \in SUBSET Block, ApplyTemplate(h, on)
      PROVE  AskedOf'
  <2>1. \A q \in asked' : \/ q \in asked
                          \/ q.height = h /\ \A b \in q.hashes : b \in Block /\ h - Height[b] >= 1
    BY <1>1 DEF ApplyTemplate, Pending
  <2>2. ~overclaimed' => ~overclaimed /\ h <= top + 1  BY <1>0, <1>1, ClaimKnown
  <2>3. top' = top  BY <1>1 DEF ApplyTemplate
  <2> QED  BY <1>0, <2>1, <2>2, <2>3 DEF AskedOf
<1>2. CASE asked' \subseteq asked /\ overclaimed' = overclaimed /\ (top' = top \/ top' = top + 1)
  BY <1>0, <1>2 DEF AskedOf
<1> QED
  BY <1>1, <1>2
     DEF Next, SubmitBlock, AttemptAccepted, AttemptRejected, AttemptLost, Answered, RecordSolved,
         WatchFound, Merge, WatchMatured, TemplateArrives, ConfirmationsReturn,
         ConfirmationsAnswered, NetworkBlock, SevenDays, Restart, vars, netVars, ledgerVars

LEMMA ModeNext == SolvedInv /\ [Next]_vars => ModeInv'
<1> SUFFICES ASSUME SolvedInv, [Next]_vars  PROVE ModeInv'  OBVIOUS
<1>0. /\ sub \in [Block -> {"none", "sending", "recording", "done", "failed", "lost"}]
      /\ ModeInv
  BY DEF SolvedInv, LedgerTypeOK
<1>1. daemon \subseteq daemon'
  BY DEF Next, SubmitBlock, AttemptAccepted, AttemptRejected, AttemptLost, RecordSolved,
         WatchFound, Merge, WatchMatured, TemplateArrives, ApplyTemplate, ConfirmationsReturn,
         ConfirmationsAnswered, NetworkBlock, SevenDays, Restart, vars, netVars
<1>2. ASSUME NEW b \in Block, SubmitBlock(b)  PROVE ModeInv'
  BY <1>0, <1>2 DEF SubmitBlock, ModeInv, ledgerVars, netVars
<1>3. ASSUME NEW b \in Block, AttemptAccepted(b) \/ AttemptRejected(b) \/ AttemptLost(b)
      PROVE  ModeInv'
  BY <1>0, <1>1, <1>3
     DEF AttemptAccepted, AttemptRejected, AttemptLost, Answered, ModeInv, ledgerVars
<1>4. ASSUME NEW b \in Block, RecordSolved(b)  PROVE ModeInv'
  BY <1>0, <1>1, <1>4 DEF RecordSolved, ModeInv
<1>5. CASE LightMode /\ UNCHANGED sub  BY <1>0, <1>5 DEF ModeInv
<1>6. CASE UNCHANGED <<sub, asked>>  BY <1>0, <1>1, <1>6 DEF ModeInv
<1>7. CASE Restart  BY <1>0, <1>1, <1>7 DEF Restart, ModeInv
<1>8. ASSUME NEW q \in asked, NEW found, ConfirmationsAnswered(q, found)  PROVE ModeInv'
  BY <1>0, <1>1, <1>8 DEF ConfirmationsAnswered, ModeInv
<1> QED
  BY <1>2, <1>3, <1>4, <1>5, <1>6, <1>7, <1>8
     DEF Next, WatchFound, Merge, WatchMatured, TemplateArrives, ApplyTemplate, ConfirmationsReturn,
         NetworkBlock, SevenDays, vars, ledgerVars

LEMMA WonNext == SolvedInv /\ [Next]_vars => WonSolved'
<1> SUFFICES ASSUME SolvedInv, [Next]_vars  PROVE WonSolved'  OBVIOUS
<1>0. /\ sub \in [Block -> {"none", "sending", "recording", "done", "failed", "lost"}]
      /\ WonSolved /\ Mine \subseteq Block
  BY DEF SolvedInv, LedgerTypeOK
<1>1. \A b \in Block : sub'[b] = "none" => sub[b] = "none"
  BY <1>0
     DEF Next, SubmitBlock, AttemptAccepted, AttemptRejected, AttemptLost, Answered, RecordSolved,
         WatchFound, Merge, WatchMatured, TemplateArrives, ApplyTemplate, ConfirmationsReturn,
         ConfirmationsAnswered, NetworkBlock, SevenDays, Restart, vars
<1>2. CASE NetworkBlock  BY <1>0, <1>2 DEF NetworkBlock, WonSolved
<1>3. CASE UNCHANGED won  BY <1>0, <1>1, <1>3 DEF WonSolved
<1> QED
  BY <1>2, <1>3
     DEF Next, SubmitBlock, AttemptAccepted, AttemptRejected, AttemptLost, Answered, RecordSolved,
         WatchFound, Merge, WatchMatured, TemplateArrives, ApplyTemplate, ConfirmationsReturn,
         ConfirmationsAnswered, SevenDays, Restart, vars, netVars

\* A step through Update keeps a working disk up to date.
LEMMA UpdateSaved ==
    ASSUME SavedInv, NEW e, NEW c, Update(e, c), UNCHANGED sub,
           \A b \in Mine : sub[b] = "none" => e[b] = "absent"
    PROVE  SavedInv'
<1>1. entry' = e /\ (disk' = e \/ disk' = disk)  BY DEF Update, saveBlocks
<1>2. ~DiskMayFail => disk' = entry'  BY DEF Update, saveBlocks, SavedInv
<1> QED  BY <1>1, <1>2 DEF SavedInv

LEMMA SavedNext == SolvedInv /\ [Next]_vars => SavedInv'
<1> SUFFICES ASSUME SolvedInv, [Next]_vars  PROVE SavedInv'  OBVIOUS
<1>0. /\ sub \in [Block -> {"none", "sending", "recording", "done", "failed", "lost"}]
      /\ entry \in [Block -> States] /\ disk \in [Block -> States]
      /\ SavedInv /\ Mine \subseteq Block
  BY DEF SolvedInv, LedgerTypeOK, States
<1>1. ASSUME NEW b \in Block,
             SubmitBlock(b) \/ AttemptAccepted(b) \/ AttemptRejected(b) \/ AttemptLost(b)
      PROVE  SavedInv'
  <2>1. \A c \in Block : sub'[c] = "none" => sub[c] = "none"
    BY <1>0, <1>1 DEF SubmitBlock, AttemptAccepted, AttemptRejected, AttemptLost, Answered
  <2>2. UNCHANGED <<entry, disk>>
    BY <1>1 DEF SubmitBlock, AttemptAccepted, AttemptRejected, AttemptLost, Answered, ledgerVars
  <2> QED  BY <1>0, <2>1, <2>2 DEF SavedInv
<1>2. ASSUME NEW b \in Block, RecordSolved(b) \/ WatchFound(b)  PROVE SavedInv'
  <2>1. \A c \in Block : sub'[c] = "none" => sub[c] = "none"
    BY <1>0, <1>2 DEF RecordSolved, WatchFound
  <2>2. b \in Mine => sub[b] # "none"  BY <1>2 DEF RecordSolved, WatchFound
  <2>3. Record(b, "pending")  BY <1>2 DEF RecordSolved, WatchFound
  <2>4. CASE UNCHANGED <<entry, disk>>  BY <1>0, <2>1, <2>4 DEF SavedInv
  <2>5. CASE Update([entry EXCEPT ![b] = "pending"], confirmed)
    <3>1. entry' = [entry EXCEPT ![b] = "pending"] /\ (disk' = entry' \/ disk' = disk)
      BY <2>5 DEF Update, saveBlocks
    <3>2. ~DiskMayFail => disk' = entry'  BY <1>0, <2>5 DEF Update, saveBlocks, SavedInv
    <3> QED  BY <1>0, <2>1, <2>2, <3>1, <3>2 DEF SavedInv
  <2> QED  BY <2>3, <2>4, <2>5 DEF Record
<1>3. ASSUME NEW S \in SUBSET Block, NEW theirs \in [S -> Settlements], Merge(theirs)
      PROVE  SavedInv'
  <2> DEFINE new == {b \in S : ~Known(b)}
             e == [b \in Block |-> IF b \in new THEN theirs[b] ELSE entry[b]]
  <2>1. \A b \in Mine : sub[b] = "none" => e[b] = "absent"  BY <1>0, <1>3 DEF Merge, SavedInv
  <2>2. Update(e, confirmed) /\ UNCHANGED sub  BY <1>3 DEF Merge
  <2> HIDE DEF e
  <2> QED  BY <1>0, <2>1, <2>2, UpdateSaved
<1>4. ASSUME NEW fail \in SUBSET Block, WatchMatured(fail)  PROVE SavedInv'
  <2> DEFINE mature == {b \in (Pending \cap won) \ fail : Mature(b)}
             orphaned == {b \in Pending \ fail : Lost(b)}
             dropped == orphaned \cup ((Recorded \ Pending) \cap old)
             e == [b \in Block |-> IF b \in dropped THEN "absent"
                                   ELSE IF b \in mature THEN "paid" ELSE entry[b]]
  <2>1. \A b \in Mine : sub[b] = "none" => e[b] = "absent"  BY <1>0 DEF Pending, SavedInv
  <2>2. Update(e, confirmed \ dropped) /\ UNCHANGED sub  BY <1>4 DEF WatchMatured
  <2> HIDE DEF e, dropped
  <2> QED  BY <1>0, <2>1, <2>2, UpdateSaved
<1>5. ASSUME NEW h, NEW S, S \subseteq Pending, NEW c, Update(Settle(h, S, c), c), UNCHANGED sub
      PROVE  SavedInv'
  <2>1. \A b \in Mine : sub[b] = "none" => Settle(h, S, c)[b] = "absent"
    BY <1>0, <1>5, SettleWithin DEF Within, SavedInv
  <2> QED  BY <1>0, <1>5, <2>1, UpdateSaved
<1>6. ASSUME NEW h, NEW on, ApplyTemplate(h, on)  PROVE SavedInv'
  BY <1>5, <1>6 DEF ApplyTemplate
<1>7. ASSUME NEW q, NEW found, ConfirmationsAnswered(q, found)  PROVE SavedInv'
  BY <1>5, <1>7 DEF ConfirmationsAnswered
<1>8. CASE Restart
  <2> DEFINE saved == {b \in Block : disk[b] # "absent"}
  <2>1. PICK K \in SUBSET saved :
          /\ entry' = [b \in Block |-> IF b \in K THEN disk[b] ELSE "absent"]
          /\ IF K = saved THEN UNCHANGED <<disk, diskConf>> ELSE saveBlocks
    BY <1>8 DEF Restart
  <2>2. \A b \in Block : sub'[b] = "none" => sub[b] = "none"  BY <1>0, <1>8 DEF Restart
  <2>3. \A b \in Block : disk[b] = "absent" => entry'[b] = "absent"  BY <2>1
  <2>4. disk' = disk \/ disk' = entry'  BY <2>1 DEF saveBlocks
  <2>5. ASSUME ~DiskMayFail  PROVE disk' = entry'
    <3>1. CASE K = saved
      <4>1. \A b \in Block : entry'[b] = disk[b]  BY <2>1, <3>1
      <4> QED  BY <1>0, <2>1, <3>1, <4>1
    <3> QED  BY <2>1, <2>5, <3>1 DEF saveBlocks
  <2> QED  BY <1>0, <2>2, <2>3, <2>4, <2>5 DEF SavedInv
<1>9. CASE UNCHANGED <<entry, disk, sub>>  BY <1>0, <1>9 DEF SavedInv
<1> QED
  BY <1>1, <1>2, <1>3, <1>4, <1>6, <1>7, <1>8, <1>9
     DEF Next, TemplateArrives, ConfirmationsReturn, NetworkBlock, SevenDays, vars, ledgerVars

\* A verdict at height h on a block that is safe there leaves it in the ledger.
LEMMA SettleKeeps ==
    ASSUME LedgerTypeOK, NEW h \in Int, NEW S, NEW c, NEW b \in Block,
           entry[b] # "orphan",
           b \in S => b \in c \/ h - Height[b] < Grace
    PROVE  /\ Settle(h, S, c)[b] # "orphan"
           /\ entry[b] # "absent" => Settle(h, S, c)[b] # "absent"
           /\ b \notin S => Settle(h, S, c)[b] = entry[b]
<1>1. Grace <= Required /\ Height[b] \in Int /\ Grace \in Int /\ Required \in Int  OBVIOUS
<1>2. h - Height[b] < Grace => ~(h - Height[b] >= Required) /\ ~(h - Height[b] >= Grace)
  BY <1>1
<1> QED  BY <1>2 DEF Settle

\* Recording one block or several leaves b's entry alone, unless it had none.
LEMMA KeptUntouched ==
    ASSUME NEW b \in Block, Kept(b), sub'[b] = sub[b], asked' = asked,
           confirmed' = confirmed, entry'[b] = entry[b]
    PROVE  Kept(b)'
BY DEF Kept, SafeFrom

LEMMA KeptNext == SolvedInv /\ [Next]_vars => KeptInv'
<1> SUFFICES ASSUME SolvedInv, [Next]_vars, NEW b \in Ours'  PROVE Kept(b)'
  BY DEF KeptInv
<1>0. /\ b \in Ours /\ b \in Block /\ b \in Mine /\ Kept(b)
      /\ sub \in [Block -> {"none", "sending", "recording", "done", "failed", "lost"}]
      /\ entry \in [Block -> States]
      /\ top \in Int /\ Height[b] \in Int /\ Grace \in Int /\ Grace >= 1
  BY OursShrinks DEF Ours, SolvedInv, KeptInv, LedgerTypeOK, States
<1>a. /\ Alive(b) /\ Unrivalled(b) /\ ~overclaimed /\ ~overclaimed'
      /\ b \notin old /\ b \notin unheard'
  BY <1>0 DEF Ours
<1>b. \A q \in asked : q.height \in Int /\ q.hashes \subseteq Block
  BY DEF SolvedInv, LedgerTypeOK
<1>c. LedgerTypeOK /\ AskedOf /\ ModeInv /\ SavedInv /\ WonSolved  BY DEF SolvedInv
<1>1. ASSUME NEW c \in Block, SubmitBlock(c)  PROVE Kept(b)'
  <2>1. UNCHANGED <<asked, confirmed, entry>>  BY <1>1 DEF SubmitBlock, ledgerVars
  <2>2. CASE c # b
    <3>1. sub'[b] = sub[b]  BY <1>0, <1>1, <2>2 DEF SubmitBlock
    <3> QED  BY <1>0, <2>1, <3>1, KeptUntouched
  <2>3. CASE c = b
    <3>1. entry[b] = "absent"  BY <1>0, <1>1, <1>c, <2>3 DEF SubmitBlock, SavedInv
    <3>2. sub'[b] # "done"  BY <1>0, <1>1, <2>3 DEF SubmitBlock
    <3>3. ASSUME sub'[b] = "recording", NEW q \in asked  PROVE q.height - Height[b] < Grace
      <4>1. top < Height[b]  BY <1>1, <1>a, <1>c, <2>3 DEF SubmitBlock, Alive, WonSolved
      <4>2. q.height <= top + 1 /\ q.height \in Int  BY <1>a, <1>b, <1>c DEF AskedOf
      <4> QED  BY <1>0, <4>1, <4>2
    <3> QED  BY <2>1, <3>1, <3>2, <3>3 DEF Kept, SafeFrom
  <2> QED  BY <2>2, <2>3
<1>2. ASSUME NEW c \in Block, AttemptAccepted(c) \/ AttemptRejected(c) \/ AttemptLost(c)
      PROVE  Kept(b)'
  <2>1. UNCHANGED <<asked, confirmed, entry>>
    BY <1>2 DEF AttemptAccepted, AttemptRejected, AttemptLost, Answered, ledgerVars
  <2>2. asked = {}  BY <1>2, <1>c DEF AttemptAccepted, AttemptRejected, AttemptLost, ModeInv
  <2>3. \/ sub'[b] = sub[b]
        \/ sub'[b] = "failed"
        \/ sub[b] = "sending" /\ sub'[b] = "recording"
    BY <1>0, <1>2 DEF AttemptAccepted, AttemptRejected, AttemptLost, Answered
  <2> QED  BY <1>0, <2>1, <2>2, <2>3 DEF Kept
<1>3. ASSUME NEW c \in Block, RecordSolved(c) \/ WatchFound(c)  PROVE Kept(b)'
  <2>1. Record(c, "pending") /\ UNCHANGED asked  BY <1>3 DEF RecordSolved, WatchFound
  <2>2. confirmed' = confirmed  BY <2>1 DEF Record, Update
  <2>3. CASE c # b
    <3>1. sub'[b] = sub[b]  BY <1>0, <1>3, <2>3 DEF RecordSolved, WatchFound
    <3>2. entry'[b] = entry[b]  BY <1>0, <2>1, <2>3 DEF Record, Update
    <3> QED  BY <1>0, <2>1, <2>2, <3>1, <3>2, KeptUntouched
  <2>4. CASE c = b
    <3>1. sub[b] = "recording" /\ sub'[b] = "done"
      BY <1>0, <1>3, <2>4 DEF RecordSolved, WatchFound
    <3>2. CASE Known(b)
      <4>1. entry[b] # "absent"  BY <1>0, <1>a, <3>2 DEF Known, Recorded, Unrivalled
      <4>2. entry' = entry  BY <2>1, <2>4, <3>2 DEF Record
      <4> QED  BY <1>0, <2>1, <2>2, <3>1, <4>1, <4>2 DEF Kept, SafeFrom
    <3>3. CASE ~Known(b)
      <4>1. entry'[b] = "pending"  BY <1>0, <2>1, <2>4, <3>3 DEF Record, Update
      <4>2. entry[b] = "absent"  BY <1>0, <3>3 DEF Known, Recorded
      <4> QED  BY <1>0, <2>1, <2>2, <3>1, <4>1, <4>2 DEF Kept, SafeFrom
    <3> QED  BY <3>2, <3>3
  <2> QED  BY <2>3, <2>4
<1>4. ASSUME NEW S \in SUBSET Block, NEW theirs \in [S -> Settlements], Merge(theirs)
      PROVE  Kept(b)'
  <2> DEFINE new == {d \in S : ~Known(d)}
  <2>1. /\ entry' = [d \in Block |-> IF d \in new THEN theirs[d] ELSE entry[d]]
        /\ confirmed' = confirmed /\ asked' = asked /\ sub' = sub
    BY <1>4 DEF Merge, Update
  <2>2. CASE b \in new
    <3>1. entry[b] = "absent"  BY <1>0, <2>2 DEF Known, Recorded
    <3>2. theirs[b] \in PeerSays(b)  BY <1>4, <2>2 DEF Merge
    <3>3. theirs[b] # "orphan"  BY <1>0, <1>a, <3>2 DEF PeerSays, Alive
    <3>4. entry'[b] = theirs[b]  BY <1>0, <2>1, <2>2
    <3> QED  BY <1>0, <2>1, <3>1, <3>3, <3>4 DEF Kept, SafeFrom
  <2>3. CASE b \notin new
    <3>1. entry'[b] = entry[b]  BY <1>0, <2>1, <2>3
    <3> QED  BY <1>0, <2>1, <3>1, KeptUntouched
  <2> QED  BY <2>2, <2>3
<1>5. ASSUME NEW fail \in SUBSET Block, WatchMatured(fail)  PROVE Kept(b)'
  <2> DEFINE mature == {d \in (Pending \cap won) \ fail : Mature(d)}
             orphaned == {d \in Pending \ fail : Lost(d)}
             dropped == orphaned \cup ((Recorded \ Pending) \cap old)
  <2>1. /\ entry' = [d \in Block |-> IF d \in dropped THEN "absent"
                                     ELSE IF d \in mature THEN "paid" ELSE entry[d]]
        /\ asked' = asked /\ sub' = sub
    BY <1>5 DEF WatchMatured, Update
  <2>2. asked = {}  BY <1>5, <1>c DEF WatchMatured, ModeInv
  <2>3. ASSUME sub[b] = "done"  PROVE b \notin dropped
    <3>1. b \in daemon  BY <1>0, <1>5, <1>c, <2>3 DEF WatchMatured, ModeInv
    <3>2. ~Lost(b)  BY <1>0, <1>a, <3>1 DEF Lost, Alive
    <3> QED  BY <1>a, <3>2
  <2>4. entry'[b] \in {"absent", "paid", entry[b]}  BY <1>0, <2>1
  <2>5. sub[b] = "done" => entry'[b] \in {"paid", entry[b]}  BY <1>0, <2>1, <2>3
  <2> QED  BY <1>0, <2>1, <2>2, <2>4, <2>5 DEF Kept
<1>6. ASSUME NEW h \in 1 .. MaxHeight + 1, NEW on \in SUBSET Block, ApplyTemplate(h, on)
      PROVE  Kept(b)'
  <2> DEFINE c == confirmed \cup on
             ask == {d \in Pending \ c : h - Height[d] >= 1}
  <2>1. /\ entry' = Settle(h, Pending \ ask, c) /\ confirmed' = c /\ sub' = sub
        /\ \A q \in asked' : q \in asked \/ (q.height = h /\ q.hashes = ask)
    BY <1>6 DEF ApplyTemplate, Update
  <2>2. LightMode /\ RelayInTime(h) /\ h <= top + 1
    <3>1. h <= top + 1  BY <1>0, <1>6, <1>a, ClaimKnown
    <3> QED  BY <1>6, <3>1 DEF ApplyTemplate
  <2>3. sub[b] # "sending"  BY <1>0, <1>c, <2>2 DEF ModeInv
  <2>4. b \in Pending \ ask => b \in c \/ h - Height[b] < Grace  BY <1>0
  <2>5. confirmed \subseteq c  OBVIOUS
  <2>6. entry[b] = "pending" => b \in Pending  BY <1>0 DEF Pending
  <2>7. entry[b] # "pending" => b \notin Pending  BY DEF Pending
  <2>8. CASE sub[b] \notin {"recording", "done"}  BY <2>1, <2>3, <2>8 DEF Kept
  <2>9. CASE sub[b] \in {"recording", "done"}
    <3>1. entry[b] # "orphan"  BY <1>0, <2>9 DEF Kept
    <3>2. /\ entry'[b] # "orphan"
          /\ entry[b] # "absent" => entry'[b] # "absent"
          /\ b \notin Pending \ ask => entry'[b] = entry[b]
      <4> HIDE DEF c, ask
      <4> QED  BY <1>0, <1>c, <2>1, <2>4, <3>1, SettleKeeps
    <3>3. entry[b] = "paid" => entry'[b] = "paid"  BY <2>7, <3>2
    <3>4. ASSUME NEW q \in asked, SafeFrom(q, b)  PROVE SafeFrom(q, b)'
      <4> HIDE DEF c
      <4> QED  BY <2>1, <2>5, <3>3, <3>4 DEF SafeFrom
    <3>5. ASSUME NEW q \in asked', q.height = h, q.hashes = ask  PROVE SafeFrom(q, b)'
      <4>1. CASE sub[b] = "recording"
        BY <1>0, <2>2, <3>5, <4>1 DEF RelayInTime, SafeFrom
      <4>2. CASE sub[b] = "done"
        <5>1. entry[b] \in {"pending", "paid"}
          BY <1>0, <3>1, <4>2 DEF Kept, States, Settlements
        <5>2. CASE entry[b] = "paid"  BY <3>3, <5>2 DEF SafeFrom
        <5>3. CASE entry[b] = "pending"
          <6>1. b \in c \/ b \in ask \/ h - Height[b] < Grace  BY <1>0, <2>6, <5>3
          <6> HIDE DEF c, ask
          <6> QED  BY <2>1, <3>5, <6>1 DEF SafeFrom
        <5> QED  BY <5>1, <5>2, <5>3
      <4> QED  BY <2>9, <4>1, <4>2
    <3>6. \A q \in asked' : SafeFrom(q, b)'
      <4> HIDE DEF c, ask
      <4> QED  BY <1>0, <2>1, <2>9, <3>4, <3>5 DEF Kept
    <3> QED  BY <1>0, <2>1, <3>2, <3>6 DEF Kept
  <2> QED  BY <2>8, <2>9
<1>7. ASSUME NEW q \in asked, NEW found \in SUBSET Block, ConfirmationsAnswered(q, found)
      PROVE  Kept(b)'
  <2> DEFINE c == confirmed \cup (Pending \cap found)
  <2>1. /\ entry' = Settle(q.height, Pending, c) /\ confirmed' = c /\ sub' = sub
        /\ asked' = asked \ {q} /\ unheard' = unheard \cup ((q.hashes \cap won) \ found)
    BY <1>7 DEF ConfirmationsAnswered, Update
  <2>2. LightMode  BY <1>c DEF ModeInv
  <2>3. sub[b] # "sending"  BY <1>0, <1>c, <2>2 DEF ModeInv
  <2>4. CASE sub[b] \notin {"recording", "done"}  BY <2>1, <2>3, <2>4 DEF Kept
  <2>5. CASE sub[b] \in {"recording", "done"}
    <3>1. entry[b] # "orphan" /\ SafeFrom(q, b)  BY <1>0, <2>5 DEF Kept
    <3>2. ASSUME b \in q.hashes  PROVE b \in found
      <4>1. Height[b] < q.height /\ q.height <= top + 1  BY <1>a, <1>c, <3>2 DEF AskedOf
      <4>2. b \in won  BY <1>0, <1>a, <1>b, <4>1 DEF Alive
      <4> QED  BY <1>a, <2>1, <3>2, <4>2
    <3>3. b \in Pending => b \in c \/ q.height - Height[b] < Grace
      BY <3>1, <3>2 DEF SafeFrom, Pending
    <3>4. /\ entry'[b] # "orphan"
          /\ entry[b] # "absent" => entry'[b] # "absent"
          /\ b \notin Pending => entry'[b] = entry[b]
      <4> HIDE DEF c
      <4> QED  BY <1>0, <1>b, <1>c, <2>1, <3>1, <3>3, SettleKeeps
    <3>5. entry[b] = "paid" => entry'[b] = "paid"  BY <3>4 DEF Pending
    <3>6. confirmed \subseteq confirmed'  BY <2>1
    <3>7. \A r \in asked' : SafeFrom(r, b)'
      BY <1>0, <2>1, <2>5, <3>5, <3>6 DEF Kept, SafeFrom
    <3> QED  BY <1>0, <2>1, <3>4, <3>7 DEF Kept
  <2> QED  BY <2>4, <2>5
<1>8. CASE UNCHANGED <<sub, asked, confirmed, entry>>  BY <1>0, <1>8, KeptUntouched
<1>9. CASE Restart
  <2> DEFINE saved == {d \in Block : disk[d] # "absent"}
  <2>1. PICK K \in SUBSET saved :
          /\ \A d \in saved : \E c \in K : Height[c] = Height[d]
          /\ entry' = [d \in Block |-> IF d \in K THEN disk[d] ELSE "absent"]
    BY <1>9 DEF Restart
  <2>2. asked' = {} /\ sub'[b] \in {"lost", sub[b]} /\ sub'[b] # "sending"
    BY <1>0, <1>9 DEF Restart
  <2>3. ~DiskMayFail
    <3>1. restarts' = restarts + 1 /\ restarts \in Nat
      BY <1>9, <1>c DEF Restart, LedgerTypeOK
    <3> QED  BY <3>1 DEF Ours
  <2>4. disk = entry  BY <1>c, <2>3 DEF SavedInv
  <2>5. entry[b] # "absent" => b \in K  BY <1>0, <1>a, <2>1, <2>4 DEF Unrivalled
  <2>6. entry'[b] = entry[b]  BY <1>0, <2>1, <2>4, <2>5
  <2> QED  BY <1>0, <2>2, <2>6 DEF Kept
<1> QED
  BY <1>1, <1>2, <1>3, <1>4, <1>5, <1>6, <1>7, <1>8, <1>9
     DEF Next, TemplateArrives, ConfirmationsReturn, NetworkBlock, SevenDays, vars, ledgerVars

\* A block solved here (SubmitBlock) that the network takes stays in the ledger, pending
\* or paid, whatever WatchMaturedBlocks, the answers to ApplyRemoteTemplateJSON's
\* queries, MergeRemoteBlocksJSON and restarts do in between.
THEOREM SolvedStaysKept == Spec => []SolvedKept
<1>1. Init => SolvedInv
  BY TypeInit DEF Init, SolvedInv, AskedOf, ModeInv, SavedInv, WonSolved, KeptInv, Kept, Ours
<1>2. SolvedInv /\ [Next]_vars => SolvedInv'
  <2>1. SolvedInv => LedgerTypeOK  BY DEF SolvedInv
  <2> QED  BY <2>1, TypeNext, AskedNext, ModeNext, SavedNext, WonNext, KeptNext
             DEF SolvedInv
<1>3. SolvedInv => SolvedKept
  <2> SUFFICES ASSUME SolvedInv, NEW b \in (Mine \cap won) \ (old \cup unheard),
                      sub[b] = "done", Unrivalled(b), ~overclaimed,
                      DiskMayFail => restarts = 0
               PROVE  entry[b] \in {"pending", "paid"}
    BY DEF SolvedKept
  <2>1. b \in Ours  BY DEF Ours, Alive
  <2>2. Kept(b)  BY <2>1 DEF SolvedInv, KeptInv
  <2>3. entry[b] \in Settlements \cup {"absent"}  BY DEF SolvedInv, LedgerTypeOK
  <2> QED  BY <2>2, <2>3 DEF Kept, Settlements
<1> QED  BY <1>1, <1>2, <1>3, PTL DEF Spec
=============================================================================
