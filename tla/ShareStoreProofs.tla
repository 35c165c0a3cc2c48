-------------------------- MODULE ShareStoreProofs --------------------------
(***************************************************************************)
(* The database never drifts from memory (DbExact) and never takes in a    *)
(* share that evades the version rule (StoredSound), for every share graph *)
(* and every interleaving of commits, prunes, passes, failures and crashes.*)
(***************************************************************************)
EXTENDS ShareStore, ShareRulesProofs

memVars == <<held, verified, received, children, workVars, passVars, now>>

-----------------------------------------------------------------------------
(***************************************************************************)
(* The chain marks dirty every share whose stored state it changes.        *)
(***************************************************************************)

\* A share leaves the verified held set only if it is marked dirty, and enters it so
\* unless it is past retention.
Marked == /\ dirty \subseteq dirty' /\ now' = now
          /\ \A h \in Hash \ dirty' :
                 /\ h \in Live => h \in Live'
                 /\ h \in Live' => h \in Live \/ Aged(h)

\* A stored share that is verified already was a ghost, past retention.
LEMMA AddMarks ==
  ASSUME ChainInv, NEW B \in SUBSET Hash, NEW t \in Readings, AddShares(B, t)
  PROVE  Marked
<1> DEFINE new == {h \in B \ held : CheckShareTime(h, t) /\ ValidAlone(h)}
<1>1. held' = held \cup new /\ verified' = verified /\ dirty' = dirty /\ now' = now
  BY DEF AddShares
<1>2. \A h \in new \cap verified : Aged(h)
  BY DEF ChainInv, GhostsAged
<1> HIDE DEF new
<1> QED
  BY <1>1, <1>2 DEF Marked, Live

LEMMA PassMarks == Pass => Marked
<1>1. ASSUME UNCHANGED <<storeVars, now>> PROVE Marked
  BY <1>1 DEF Marked, Live, storeVars
<1>2. PassAccept => Marked
  BY DEF PassAccept, TurnOver, Marked, Live
<1>3. PassReject => Marked
  <2> SUFFICES ASSUME PassReject PROVE Marked
    OBVIOUS
  <2> QED
    BY DEF PassReject, TurnOver, unlinkShares, Marked, Live
<1>4. PassStart \/ (\E h \in Hash : PassNext(h)) \/ PassEnd => UNCHANGED <<storeVars, now>>
  BY DEF PassStart, PassNext, TakeTurn, PassEnd
<1>5. PassEff \/ PassTime \/ PassTarget \/ PassDiff \/ PassCoinbase \/ PassPayout
        => UNCHANGED <<storeVars, now>>
  BY DEF PassEff, PassTime, PassTarget, PassDiff, PassCoinbase, PassPayout, Verdict
<1> QED
  BY <1>1, <1>2, <1>3, <1>4, <1>5 DEF Pass

LEMMA MaintenanceMarks == Maintenance => Marked
<1>1. Maintenance => now' = now /\ \E D : unlinkShares(D)
  BY DEF Maintenance, PruneOldShares, pruneUnverified, dropUnverified, removeShares
<1>2. ASSUME NEW D, unlinkShares(D), now' = now PROVE Marked
  BY <1>2 DEF unlinkShares, Marked, Live
<1> QED
  BY <1>1, <1>2

-----------------------------------------------------------------------------
(***************************************************************************)
(* The actions preserve StoreInv.                                          *)
(***************************************************************************)

\* ChainInv says nothing about dirty beyond its type.
LEMMA ChainInvIgnoresDirty ==
  ASSUME ChainInv, UNCHANGED memVars, dirty' \in SUBSET Hash
  PROVE  ChainInv'
BY DEF ChainInv, memVars, workVars, passVars, TypeOK, ChildrenExact, ReceivedExact,
       Unverified, GhostsAged, Aged, UnderWayHeld, UnderWay, WorkFitsButRejected, WorkFits,
       PassLocals

LEMMA ChainStepInv == StoreInv /\ ChainStep => StoreInv'
<1> SUFFICES ASSUME StoreInv, ChainStep PROVE StoreInv'
  OBVIOUS
<1>1. ChainInv /\ proc \in Running /\ UNCHANGED <<proc, diskVars, commitVars>>
  BY DEF StoreInv, ChainStep
<1>2. ChainInv'
  BY <1>1, AddSharesInv, PassInv, MaintenanceInv DEF ChainStep, Arrivals
<1>3. Marked
  BY <1>1, AddMarks, PassMarks, MaintenanceMarks DEF ChainStep, Arrivals
<1>4. StoreTypeOK'
  BY <1>1, <1>2 DEF StoreInv, StoreTypeOK, ChainInv, diskVars, commitVars
<1>5. DbFollows'
  <2> SUFFICES ASSUME NEW h \in Hash \ dirty', NEW stored,
                      stored = IF h \in snap THEN puts ELSE db
               PROVE  /\ h \in stored => h \in Live'
                      /\ h \in Live' => h \in stored \/ Aged(h)
    BY <1>1, <1>3 DEF DbFollows, Marked, Aged, diskVars, commitVars
  <2>1. /\ h \in stored => h \in Live
        /\ h \in Live => h \in stored \/ Aged(h)
    BY <1>1, <1>3 DEF StoreInv, DbFollows, Marked
  <2> QED
    BY <1>3, <2>1 DEF Marked, Live
<1>6. EmptyUntilLoaded' /\ (cpc = "idle" => snap = {})'
  BY <1>1 DEF StoreInv, EmptyUntilLoaded, commitVars
<1> QED
  BY <1>2, <1>4, <1>5, <1>6 DEF StoreInv

LEMMA ClockStepInv == StoreInv /\ ClockStep => StoreInv'
<1> SUFFICES ASSUME StoreInv, ClockStep PROVE StoreInv'
  OBVIOUS
<1>1. Tick /\ UNCHANGED <<proc, diskVars, commitVars>>
  BY DEF ClockStep
<1>2. ChainInv'
  BY <1>1, TickInv DEF StoreInv
<1>3. UNCHANGED <<storeVars, passVars>>
  BY <1>1 DEF Tick
<1>4. StoreTypeOK'
  BY <1>1, <1>2 DEF StoreInv, StoreTypeOK, ChainInv, diskVars, commitVars
<1>5. \A h \in Hash : Aged(h) => Aged(h)'
  BY <1>1, ShareAssumption, BoundAssumption DEF Tick, Aged, StoreInv, StoreTypeOK, TypeOK
<1>6. DbFollows' /\ EmptyUntilLoaded' /\ (cpc = "idle" => snap = {})'
  BY <1>1, <1>3, <1>5 DEF StoreInv, DbFollows, EmptyUntilLoaded, Live, storeVars, passVars,
                          diskVars, commitVars
<1> QED
  BY <1>2, <1>4, <1>6 DEF StoreInv

\* The steps of Load before memory is filled.
LEMMA OpeningInv ==
  StoreInv /\ (OpenDB \/ MigrateWrite \/ MigrateRename \/ MigrateFail) => StoreInv'
<1> SUFFICES ASSUME StoreInv, OpenDB \/ MigrateWrite \/ MigrateRename \/ MigrateFail
             PROVE  StoreInv'
  OBVIOUS
<1>1. /\ proc \notin Running /\ proc' \in {"down", "open", "written", "ready"}
      /\ UNCHANGED <<vars, commitVars>>
  BY DEF OpenDB, MigrateWrite, MigrateRename, MigrateFail, Running
<1>2. ChainInv'
  BY <1>1, ChainInvStutter DEF StoreInv
<1>3. db' \in SUBSET Hash /\ dbFile' \in BOOLEAN /\ json' \in {"none", "present", "migrated"}
  BY LegacyAssumption
     DEF OpenDB, MigrateWrite, MigrateRename, MigrateFail, StoreInv, StoreTypeOK
<1>4. StoreTypeOK'
  BY <1>1, <1>2, <1>3 DEF StoreInv, StoreTypeOK, ChainInv, commitVars
<1>5. DbFollows' /\ EmptyUntilLoaded' /\ (cpc = "idle" => snap = {})'
  BY <1>1 DEF StoreInv, DbFollows, EmptyUntilLoaded, Running, vars, storeVars, passVars,
              commitVars
<1> QED
  BY <1>2, <1>4, <1>5 DEF StoreInv

\* loadTrusted: everything stored is held and verified, and its work is recomputed.
LEMMA LoadSharesInv == StoreInv /\ LoadShares => StoreInv'
<1> SUFFICES ASSUME StoreInv, LoadShares PROVE StoreInv'
  OBVIOUS
<1>1. /\ TypeOK /\ db \in SUBSET Hash /\ dirty = {} /\ pc = "idle" /\ cpc = "idle" /\ snap = {}
      /\ received = [h \in Hash |-> NotReceived] /\ rejected = {} /\ pend = {}
      /\ cur \notin pend /\ PassLocals
  BY DEF StoreInv, StoreTypeOK, ChainInv, PassLocals, EmptyUntilLoaded, LoadShares, Running
<1>2. /\ held' = db /\ verified' = db
      /\ children' = [p \in Hash |-> {h \in db : Parent[h] = p}]
      /\ updateWork(db) /\ selectTip /\ proc' = "up"
      /\ UNCHANGED <<received, dirty, now, passVars, diskVars, commitVars>>
  BY DEF LoadShares
<1>3. cumWork' \in [Hash -> Int] /\ chainLen' \in [Hash -> Int]
  BY <1>1, <1>2, WorkTyped
<1>4. tip' \in Hash \cup {Genesis}
  <2>1. moveTip(Candidates') /\ Candidates' \subseteq Hash
    BY <1>1, <1>2 DEF selectTip, Candidates
  <2> QED
    BY <1>1, <2>1, TipTyped
<1>5. TypeOK'
  <2>1. children' \in [Hash -> SUBSET Hash]
    BY <1>1, <1>2
  <2> QED
    BY <1>1, <1>2, <1>3, <1>4, <2>1 DEF TypeOK, passVars
<1>6. ChildrenExact' /\ GhostsAged' /\ UnderWayHeld' /\ (cur \notin pend)' /\ PassLocals'
  BY <1>1, <1>2 DEF ChildrenExact, GhostsAged, UnderWayHeld, UnderWay, PassLocals, passVars
<1>7. ReceivedExact'
  BY <1>1, <1>2 DEF ReceivedExact, Unverified
<1>8. WorkFitsButRejected'
  <2>1. ASSUME NEW h \in db PROVE WorkFits(h)'
    <3> DEFINE p == Parent[h]
    <3>1. /\ cumWork \in [Hash -> Int] /\ chainLen \in [Hash -> Int]
          /\ TotalWork \in [Hash -> Nat] /\ TotalLen \in [Hash -> Nat]
      BY <1>1, TotalAssumption DEF TypeOK
    <3>2. /\ cumWork' = Accumulated(cumWork, TotalWork, db, db)
          /\ chainLen' = Accumulated(chainLen, TotalLen, db, db)
      BY <1>2 DEF updateWork
    <3>3. cumWork'[h] = TotalWork[h] - At(TotalWork, p) + (IF p \in db THEN cumWork'[p] ELSE 0)
      BY <1>1, <3>1, <3>2, AccumulatedFits
    <3>4. chainLen'[h] = TotalLen[h] - At(TotalLen, p) + (IF p \in db THEN chainLen'[p] ELSE 0)
      BY <1>1, <3>1, <3>2, AccumulatedFits
    <3>5. /\ TotalWork[h] = OwnWork(h) + At(TotalWork, p)
          /\ TotalLen[h] = OwnLen(h) + At(TotalLen, p)
          /\ OwnWork(h) \in Int /\ OwnLen(h) \in Int
          /\ At(TotalWork, p) \in Int /\ At(TotalLen, p) \in Int
      BY <1>1, <3>1, TotalAssumption, ShareAssumption, BoundAssumption DEF OwnWork, OwnLen, At
    <3> QED
      BY <1>2, <3>3, <3>4, <3>5 DEF WorkFits
  <2> QED
    BY <1>2, <2>1 DEF WorkFitsButRejected
<1>9. ChainInv'
  BY <1>5, <1>6, <1>7, <1>8 DEF ChainInv
<1>10. StoreTypeOK'
  BY <1>2, <1>5 DEF StoreInv, StoreTypeOK, Running, diskVars, commitVars
<1>11. DbFollows' /\ EmptyUntilLoaded' /\ (cpc = "idle" => snap = {})'
  BY <1>1, <1>2 DEF DbFollows, EmptyUntilLoaded, Running, Live, diskVars, commitVars
<1> QED
  BY <1>9, <1>10, <1>11 DEF StoreInv

\* Taking a snapshot moves each dirty share's promise from dirty to snap.
LEMMA SnapshotInv == StoreInv /\ (CommitBegin \/ Shutdown) => StoreInv'
<1> SUFFICES ASSUME StoreInv, CommitBegin \/ Shutdown PROVE StoreInv'
  OBVIOUS
<1>1. /\ proc \in Running /\ proc' \in Running /\ UNCHANGED <<memVars, diskVars>>
      /\ cpc = "idle" /\ snap = {}
      /\ \/ Snapshot
         \/ UNCHANGED <<dirty, commitVars>>
  BY DEF StoreInv, CommitBegin, Shutdown, Snapshot, Running, memVars
<1>2. dirty' \in SUBSET Hash /\ cpc' \in {"idle", "write"} /\ snap' \subseteq Hash
      /\ puts' \subseteq snap' /\ (cpc' = "idle" => snap' = {})
  BY <1>1 DEF StoreInv, StoreTypeOK, TypeOK, Snapshot, commitVars
<1>3. ChainInv'
  BY <1>1, <1>2, ChainInvIgnoresDirty DEF StoreInv
<1>4. StoreTypeOK'
  BY <1>1, <1>2, <1>3 DEF StoreInv, StoreTypeOK, ChainInv, Running, diskVars
<1>5. DbFollows'
  BY <1>1 DEF StoreInv, DbFollows, Aged, Snapshot, Live, memVars, diskVars, commitVars
<1> QED
  BY <1>1, <1>2, <1>3, <1>4, <1>5 DEF StoreInv, EmptyUntilLoaded

\* A commit returns: its promise is on disk, or back in dirty.
LEMMA CommitInv == StoreInv /\ (CommitWrite \/ CommitFail) => StoreInv'
<1> SUFFICES ASSUME StoreInv, CommitWrite \/ CommitFail PROVE StoreInv'
  OBVIOUS
<1>1. /\ cpc = "write" /\ cpc' = "idle" /\ snap' = {} /\ puts' = {}
      /\ proc' = IF proc = "saving" THEN "closing" ELSE proc
      /\ UNCHANGED <<memVars, dbFile, json>>
      /\ \/ db' = (db \cup puts) \ (snap \ puts) /\ dirty' = dirty
         \/ db' = db /\ dirty' = dirty \cup snap
  BY DEF CommitWrite, CommitFail, CommitReturn, memVars
<1>2. proc \in Running /\ proc' \in Running
  BY <1>1 DEF StoreInv, EmptyUntilLoaded, Running
<1>3. dirty' \in SUBSET Hash /\ db' \in SUBSET Hash
  BY <1>1 DEF StoreInv, StoreTypeOK, TypeOK
<1>4. ChainInv'
  BY <1>1, <1>3, ChainInvIgnoresDirty DEF StoreInv
<1>5. StoreTypeOK'
  BY <1>1, <1>2, <1>3, <1>4 DEF StoreInv, StoreTypeOK, ChainInv, Running
<1>6. DbFollows'
  BY <1>1, <1>2 DEF StoreInv, StoreTypeOK, DbFollows, Aged, Live, memVars
<1> QED
  BY <1>1, <1>2, <1>4, <1>5, <1>6 DEF StoreInv, EmptyUntilLoaded

\* A crash or a clean exit forgets memory and keeps the disk.
LEMMA ForgetInv == StoreInv /\ Forget => StoreInv'
<1> SUFFICES ASSUME StoreInv, Forget PROVE StoreInv'
  OBVIOUS
<1>1. TypeOK'
  BY DEF StoreInv, StoreTypeOK, Forget, PassReset, TypeOK, PassPoints, NotReceived
<1>2. /\ ChildrenExact' /\ ReceivedExact' /\ GhostsAged'
      /\ UnderWayHeld' /\ WorkFitsButRejected' /\ (cur \notin pend)' /\ PassLocals'
  BY DEF Forget, PassReset, ChildrenExact, ReceivedExact, Unverified, GhostsAged,
         UnderWayHeld, UnderWay, WorkFitsButRejected, PassLocals
<1>3. ChainInv'
  BY <1>1, <1>2 DEF ChainInv
<1>4. StoreTypeOK'
  BY <1>1 DEF StoreInv, StoreTypeOK, Forget, diskVars
<1>5. DbFollows' /\ EmptyUntilLoaded' /\ (cpc = "idle" => snap = {})'
  BY DEF Forget, PassReset, DbFollows, EmptyUntilLoaded, Running
<1> QED
  BY <1>3, <1>4, <1>5 DEF StoreInv

LEMMA StoreInvInit == StoreInit => StoreInv
<1> SUFFICES ASSUME StoreInit PROVE StoreInv
  OBVIOUS
<1>1. ChainInv
  BY ChainInvInit DEF StoreInit
<1> QED
  BY <1>1 DEF StoreInit, Init, InitPass, StoreInv, StoreTypeOK, ChainInv, DbFollows,
              EmptyUntilLoaded, Running

LEMMA StoreInvStutter == StoreInv /\ UNCHANGED allVars => StoreInv'
<1> SUFFICES ASSUME StoreInv, UNCHANGED allVars PROVE StoreInv'
  OBVIOUS
<1>1. UNCHANGED <<vars, proc, dbFile, db, json, cpc, snap, puts>>
  BY DEF allVars, diskVars, commitVars
<1>2. ChainInv'
  BY <1>1, ChainInvStutter DEF StoreInv
<1>3. StoreTypeOK'
  BY <1>1, <1>2 DEF StoreInv, StoreTypeOK, ChainInv
<1>4. DbFollows' /\ EmptyUntilLoaded' /\ (cpc = "idle" => snap = {})'
  BY <1>1 DEF StoreInv, DbFollows, Aged, EmptyUntilLoaded, Live, vars, storeVars, passVars
<1> QED
  BY <1>2, <1>3, <1>4 DEF StoreInv

\* The inductive invariant of the chain and its database.
THEOREM StoreCorrect == StoreSpec => []StoreInv
<1>1. StoreInv /\ [StoreNext]_allVars => StoreInv'
  <2>1. StoreInv /\ StoreNext => StoreInv'
    BY ChainStepInv, ClockStepInv, OpeningInv, LoadSharesInv, SnapshotInv, CommitInv, ForgetInv
       DEF StoreNext, Exit, Crash
  <2> QED
    BY <2>1, StoreInvStutter
<1> QED
  BY StoreInvInit, <1>1, PTL DEF StoreSpec

\* Types of the chain over its database, through crashes and restarts; what Commit stores
\* is part of the snapshot it took.
THEOREM StoreTypesHold == StoreSpec => []StoreTypeOK
<1>1. StoreInv => StoreTypeOK
  BY DEF StoreInv
<1> QED
  BY StoreCorrect, <1>1, PTL

\* sharechain.db agrees with memory on every share not marked dirty, but for shares past
\* retention that came back, so what a restart loads is what was verified and not since
\* removed, up to the last commit.
THEOREM DatabaseStaysExact == StoreSpec => []DbExact
<1>1. StoreInv => DbExact
  BY DEF StoreInv, DbFollows, DbExact
<1> QED
  BY StoreCorrect, <1>1, PTL

-----------------------------------------------------------------------------
(***************************************************************************)
(* The version rule, through the database.                                 *)
(***************************************************************************)

\* What is stored, about to be stored, or verified in memory keeps the version rule,
\* the older version's shares excepted.
SoundInv == /\ DatedInv(Legacy)
            /\ \A h \in (db \cup puts) \ Legacy : Dated(h)

LEMMA SoundStep ==
  ASSUME StoreInv, SoundInv, StoreNext
  PROVE  SoundInv'
<1>1. ChainInv /\ EmptyUntilLoaded /\ TypeOK /\ PassLocals /\ Genesis \notin Hash /\ db \subseteq Hash
  BY HashAssumption DEF StoreInv, ChainInv, StoreTypeOK
<1>2. CASE ChainStep \/ ClockStep
  <2>1. DatedInv(Legacy)'
    BY <1>1, <1>2, AddSharesDated, PassDated, MaintenanceDated, TickDated
       DEF ChainStep, Arrivals, ClockStep, SoundInv
  <2>2. UNCHANGED <<db, puts>>
    BY <1>2 DEF ChainStep, ClockStep, diskVars, commitVars
  <2>3. now' = now \/ now' = now + 1
    <3>1. ChainStep => now' = now
      BY <1>1, AddMarks, PassMarks, MaintenanceMarks DEF ChainStep, Arrivals, Marked
    <3> QED
      BY <1>2, <3>1 DEF ClockStep, Tick
  <2>4. \A h \in Hash : Aged(h) => Aged(h)'
    BY <1>1, <2>3, ShareAssumption, BoundAssumption DEF Aged, TypeOK
  <2>5. db \cup puts \subseteq Hash
    BY DEF StoreInv, StoreTypeOK
  <2> QED
    BY <2>1, <2>2, <2>4, <2>5 DEF SoundInv, Dated
<1>3. CASE OpenDB \/ MigrateWrite \/ MigrateRename \/ MigrateFail
  <2>1. UNCHANGED <<vars, puts>> /\ db' \subseteq db \cup Legacy
    BY <1>3 DEF OpenDB, MigrateWrite, MigrateRename, MigrateFail, commitVars
  <2>2. DatedInv(Legacy)'
    BY <2>1, DatedStutter DEF SoundInv, vars, storeVars, passVars
  <2> QED
    BY <2>1, <2>2 DEF SoundInv, Dated, Aged, vars
<1>4. CASE LoadShares
  <2>1. /\ held' = db /\ verified' = db /\ UNCHANGED <<now, pc, cur, pend, db, puts>>
        /\ pc = "idle" /\ pend = {} /\ cur = Genesis
    BY <1>1, <1>4 DEF LoadShares, passVars, diskVars, commitVars, EmptyUntilLoaded, Running, PassLocals
  <2>2. DepartedAged'
    BY <2>1 DEF DepartedAged, Departed, UnderWay, InTurn
  <2> QED
    BY <1>1, <2>1, <2>2 DEF SoundInv, DatedInv, CurUnverified, CurDated, Dated, Aged
<1>5. CASE CommitBegin \/ Shutdown
  <2>1. /\ UNCHANGED <<held, verified, now, pc, cur, pend, db>>
        /\ puts' \subseteq puts \cup (verified \cap held)
    BY <1>5 DEF CommitBegin, Shutdown, Snapshot, Live, passVars, diskVars, commitVars
  <2>2. DatedInv(Legacy)'
    BY <2>1, DatedStutter DEF SoundInv
  <2> QED
    BY <2>1, <2>2 DEF SoundInv, DatedInv, Dated, Aged
<1>6. CASE CommitWrite \/ CommitFail
  <2>1. /\ UNCHANGED <<held, verified, now, pc, cur, pend>>
        /\ puts' = {} /\ db' \subseteq db \cup puts
    BY <1>6 DEF CommitWrite, CommitFail, CommitReturn, passVars
  <2>2. DatedInv(Legacy)'
    BY <2>1, DatedStutter DEF SoundInv
  <2> QED
    BY <2>1, <2>2 DEF SoundInv, Dated, Aged
<1>7. CASE Exit \/ Crash
  <2>1. /\ held' = {} /\ verified' = {} /\ pc' = "idle" /\ pend' = {} /\ puts' = {}
        /\ cur' = Genesis /\ db' = db /\ now' = now
    BY <1>7 DEF Exit, Crash, Forget, PassReset, diskVars
  <2>2. DepartedAged'
    BY <2>1 DEF DepartedAged, Departed, UnderWay, InTurn
  <2> QED
    BY <2>1, <2>2 DEF SoundInv, DatedInv, CurUnverified, CurDated, Dated, Aged
<1> QED
  BY <1>2, <1>3, <1>4, <1>5, <1>6, <1>7 DEF StoreNext

\* No share this version stored evades the version rule, so a restart, which trusts
\* what it reads, brings none back: through failed writes, crashes and reloads.
THEOREM StoreStaysSound == StoreSpec => []StoredSound
<1>1. StoreInit => SoundInv
  BY DEF StoreInit, Init, InitPass, SoundInv, DatedInv, CurUnverified, DepartedAged, Departed,
         UnderWay, InTurn, CurDated
<1>2. ASSUME StoreInv, SoundInv, [StoreNext]_allVars PROVE SoundInv'
  <2>1. CASE UNCHANGED allVars
    <3>1. UNCHANGED <<held, verified, now, pc, cur, pend, db, puts>>
      BY <2>1 DEF allVars, vars, storeVars, passVars, diskVars, commitVars
    <3>2. DatedInv(Legacy)'
      BY <1>2, <3>1, DatedStutter DEF SoundInv
    <3> QED
      BY <1>2, <3>1, <3>2 DEF SoundInv, Dated, Aged
  <2> QED
    BY <1>2, <2>1, SoundStep
<1>3. SoundInv => StoredSound
  BY DEF SoundInv, Dated, StoredSound
<1> QED
  BY <1>1, <1>2, <1>3, StoreCorrect, PTL DEF StoreSpec
=============================================================================
