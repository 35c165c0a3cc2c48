----------------------------- MODULE ShareStore -----------------------------
(***************************************************************************)
(* The share chain with its database (work/sharestore.go and the startup,  *)
(* autosave and shutdown code of main.go that drives it).                  *)
(*                                                                         *)
(* Load opens sharechain.db, imports a sharechain.json left by an older    *)
(* version if the database file did not exist, and trusts every share it   *)
(* reads.  Commit snapshots `dirty` under mutex, then writes in one bbolt  *)
(* transaction under commitMu alone, so the chain moves on meanwhile; a    *)
(* failed write marks the snapshot dirty again.  The process may crash     *)
(* between any two steps; the disk keeps what was written.                 *)
(***************************************************************************)
EXTENDS ShareChain

CONSTANTS Legacy        \* the shares in the older version's sharechain.json

ASSUME LegacyAssumption == Legacy \subseteq Hash

VARIABLES
    proc,       \* the process: down, the points of Load, up, and of shutdown
    dbFile,     \* sharechain.db exists
    db,         \* keys of its "shares" bucket
    json,       \* sharechain.json: "none", "present" or "migrated"
    cpc,        \* "write" while a Commit holds commitMu with a snapshot to write
    snap,       \* the dirty set that Commit took
    puts        \* the part of it to store; the rest is deleted

diskVars == <<dbFile, db, json>>
commitVars == <<cpc, snap, puts>>
allVars == <<vars, proc, diskVars, commitVars>>

Running == {"up", "saving", "closing"}

-----------------------------------------------------------------------------
(***************************************************************************)
(* Load.                                                                   *)
(***************************************************************************)

\* bbolt.Open creates the file; only a fresh one leads to the JSON import.
OpenDB == /\ proc = "down"
          /\ proc' = IF ~dbFile /\ json = "present" THEN "open" ELSE "ready"
          /\ dbFile' = TRUE
          /\ UNCHANGED <<vars, db, json, commitVars>>

\* migrateJSONLocked stores every share of the JSON file in one transaction...
MigrateWrite == /\ proc = "open"
                /\ db' = db \cup Legacy
                /\ proc' = "written"
                /\ UNCHANGED <<vars, dbFile, json, commitVars>>

\* ...then renames the file.
MigrateRename == /\ proc = "written"
                 /\ json' = "migrated"
                 /\ proc' = "ready"
                 /\ UNCHANGED <<vars, dbFile, db, commitVars>>

\* A migration error removes the new database; main exits.
MigrateFail == /\ proc \in {"open", "written"}
               /\ dbFile' = FALSE /\ db' = {}
               /\ proc' = "down"
               /\ UNCHANGED <<vars, json, commitVars>>

\* loadTrusted and recomputeWorkAndTipLocked.
LoadShares == /\ proc = "ready"
              /\ held' = db /\ verified' = db
              /\ children' = [p \in Hash |-> {h \in db : Parent[h] = p}]
              /\ updateWork(db)
              /\ selectTip
              /\ proc' = "up"
              /\ UNCHANGED <<received, dirty, now, passVars, diskVars, commitVars>>

-----------------------------------------------------------------------------
(***************************************************************************)
(* Commit, shutdown and crash.                                             *)
(***************************************************************************)

Live == verified \cap held

\* Commit up to its first Unlock of mutex: take the dirty set.
Snapshot == /\ cpc = "idle" /\ dirty # {}
            /\ snap' = dirty
            /\ puts' = dirty \cap Live
            /\ dirty' = {}
            /\ cpc' = "write"

CommitBegin == /\ proc \in {"up", "closing"}
               /\ Snapshot
               /\ UNCHANGED <<held, verified, received, children, workVars, passVars, now,
                              proc, diskVars>>

\* Mutant of CommitReturn: the puts survive the snapshot they belong to.
CommitReturnKeepsPuts == /\ cpc' = "idle" /\ snap' = {} /\ puts' = puts
                         /\ proc' = IF proc = "saving" THEN "closing" ELSE proc
                         /\ UNCHANGED <<held, verified, received, children, workVars, passVars,
                                        now, dbFile, json>>

\* Commit lets go of commitMu; at shutdown main goes on to close the store.
CommitReturn == /\ cpc' = "idle" /\ snap' = {} /\ puts' = {}
                /\ proc' = IF proc = "saving" THEN "closing" ELSE proc
                /\ UNCHANGED <<held, verified, received, children, workVars, passVars, now,
                               dbFile, json>>

\* The transaction commits.
CommitWrite == /\ cpc = "write"
               /\ db' = (db \cup puts) \ (snap \ puts)
               /\ UNCHANGED dirty
               /\ CommitReturn

\* Mutant of CommitFail: the snapshot is lost.
CommitFailForgets == /\ cpc = "write"
                     /\ UNCHANGED <<db, dirty>>
                     /\ CommitReturn

\* The write fails and nothing of it is stored: mark the snapshot dirty again.
CommitFail == /\ cpc = "write"
              /\ dirty' = dirty \cup snap
              /\ UNCHANGED db
              /\ CommitReturn

\* A shutdown signal: main commits once more (an empty dirty set returns at once)...
Shutdown == /\ proc = "up" /\ cpc = "idle"
            /\ IF dirty = {} THEN proc' = "closing" /\ UNCHANGED <<dirty, commitVars>>
               ELSE proc' = "saving" /\ Snapshot
            /\ UNCHANGED <<held, verified, received, children, workVars, passVars, now, diskVars>>

\* Memory as NewShareChain leaves it; the clock goes on.
Forget == /\ held' = {} /\ verified' = {} /\ dirty' = {}
          /\ received' = [h \in Hash |-> NotReceived]
          /\ cumWork' = [h \in Hash |-> 0]
          /\ chainLen' = [h \in Hash |-> 0]
          /\ children' = [h \in Hash |-> {}]
          /\ tip' = Genesis
          /\ PassReset /\ due' = 0
          /\ cpc' = "idle" /\ snap' = {} /\ puts' = {}
          /\ proc' = "down"
          /\ UNCHANGED <<now, diskVars>>

\* ...and closes the store, once no Commit holds commitMu.
Exit == proc = "closing" /\ cpc = "idle" /\ Forget

\* The process dies at any point.
Crash == proc # "down" /\ Forget

-----------------------------------------------------------------------------
\* The chain's own actions, once Load has returned. Right after a restart the readings
\* allowed include some from before it, which no caller can have: more than the code does.
ChainStep == /\ proc \in Running
             /\ Arrivals \/ Pass \/ Maintenance
             /\ UNCHANGED <<proc, diskVars, commitVars>>

ClockStep == Tick /\ UNCHANGED <<proc, diskVars, commitVars>>

StoreInit == /\ Init
             /\ proc = "down" /\ dbFile = FALSE /\ db = {}
             /\ json \in {"none", "present"}
             /\ cpc = "idle" /\ snap = {} /\ puts = {}

StoreNext == \/ OpenDB \/ MigrateWrite \/ MigrateRename \/ MigrateFail \/ LoadShares
             \/ CommitBegin \/ CommitWrite \/ CommitFail \/ Shutdown \/ Exit \/ Crash
             \/ ChainStep \/ ClockStep

StoreSpec == StoreInit /\ [][StoreNext]_allVars

\* The autosave ticker calls Commit and the maintenance ticker PruneOldShares for ever,
\* and the disk does not fail for ever.
PruneStep == proc \in Running /\ PruneOldShares /\ UNCHANGED <<proc, diskVars, commitVars>>
FairStoreSpec == /\ StoreSpec
                 /\ WF_allVars(CommitBegin) /\ SF_allVars(CommitWrite) /\ WF_allVars(PruneStep)

-----------------------------------------------------------------------------
(***************************************************************************)
(* Properties.                                                             *)
(***************************************************************************)

\* The types of the store; what a Commit stores is part of the snapshot it took.
StoreTypeOK ==
    /\ TypeOK
    /\ proc \in {"down", "open", "written", "ready"} \cup Running
    /\ dbFile \in BOOLEAN /\ db \subseteq Hash
    /\ json \in {"none", "present", "migrated"}
    /\ cpc \in {"idle", "write"} /\ snap \subseteq Hash /\ puts \subseteq snap

\* While no write is in flight, the database agrees with memory on every share that is
\* not marked dirty: what it stores is held and verified, and it lacks a held, verified
\* share only past retention, which the next prune takes from memory too. No
\* verification, rejection, prune, failed write or crash lets the two drift apart,
\* which is what makes it right for Load to trust everything it reads back.
DbExact == proc \in Running /\ cpc = "idle" =>
               \A h \in Hash \ dirty : /\ h \in db => h \in Live
                                       /\ h \in Live => h \in db \/ Aged(h)

\* The inductive form: for a share in a snapshot being written, what will be written
\* agrees with memory unless the share was marked dirty again since.
DbFollows == proc \in Running =>
                 \A h \in Hash \ dirty :
                     LET stored == IF h \in snap THEN puts ELSE db
                     IN  /\ h \in stored => h \in Live
                         /\ h \in Live => h \in stored \/ Aged(h)

\* Before Load returns, memory is as NewShareChain left it and no Commit runs.
EmptyUntilLoaded ==
    proc \notin Running =>
        /\ held = {} /\ verified = {} /\ dirty = {} /\ pc = "idle" /\ cpc = "idle"
        /\ received = [h \in Hash |-> NotReceived]

StoreInv == /\ StoreTypeOK /\ ChainInv
            /\ DbFollows /\ EmptyUntilLoaded
            /\ cpc = "idle" => snap = {}

\* No share within retention that a node of this version stored breaks the version rule
\* by backdating, so a restart cannot bring one back as trusted.
StoredSound == \A h \in db \ Legacy :
                   ~Aged(h) /\ Defect[h] = "version" =>
                       Ts[h] < V2MandatoryActivation /\ At(Ts, Parent[h]) < V2MandatoryActivation

\* A share on which the database and memory differ does not stay so: through failed
\* writes and shares marked dirty while they are being written, Commit brings the two
\* together, unless the process dies first. A share past retention that came back as
\* verified is not marked dirty: the prune that takes it settles it.
DiskCatchesUp ==
    \A h \in Hash : proc \in Running /\ (h \in db) # (h \in Live)
                     ~> (proc \in Running => (h \in db) = (h \in Live))
=============================================================================
