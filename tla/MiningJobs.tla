----------------------------- MODULE MiningJobs -----------------------------
(***************************************************************************)
(* How a full node's block template becomes mining work: the template      *)
(* poller and its channel (work/manager.go), the job broadcaster, the      *)
(* goroutines that hand a job to a miner and the submission of solutions   *)
(* (stratum/server.go).                                                    *)
(*                                                                         *)
(* A template is a number, in the order vertcoind makes them; Prev is the  *)
(* block it builds on.  A job is what sendMiningJob stores: a template,    *)
(* the merkle links and witness commitment that go with it, named by the   *)
(* template they were computed from, and the share tip its coinbase pays   *)
(* out for.  Difficulties, addresses, times and the messages sent to the   *)
(* miner are left out.                                                     *)
(***************************************************************************)
EXTENDS Integers, Sequences, FiniteSets

CONSTANTS
    Miner,          \* the connections
    Prev,           \* the block each template builds on
    Nonce,          \* what a miner can vary within a job
    ChanSize,       \* capacity of NewBlockChan, 10
    MaxActive,      \* active jobs of a client before half are evicted, 20
    MaxTip,         \* bound: moves of the share chain's tip
    MaxJobs         \* bound: jobs made

ASSUME MiningAssumption ==
    /\ Prev \in Seq(Nat)
    /\ {ChanSize, MaxActive, MaxTip, MaxJobs} \subseteq Nat

VARIABLES
    node,       \* vertcoind's latest template
    cur,        \* WorkManager.Templates: the one held, 0 for none
    chan,       \* NewBlockChan
    missed,     \* history: a template found the channel full
    lastJob,    \* template of StratumServer.lastJob, 0 for none
    bpc,        \* jobBroadcaster: "wait", or "notify" once lastJob is set
    tip,        \* ShareChain.TipHash, 0 for none
    moved,      \* a share was added and NotifyNewShare is due
    conn,       \* state of each connection whose first message has arrived
    sending,    \* sendMiningJob goroutines: the miner, the template they were given, clean
    jobs,       \* ActiveJobs of each client
    seen,       \* Submitted of each client's active jobs: job and nonce
    nextID,     \* jobCounter
    solving,    \* submission being handled: the job and nonce, or {}
    credited,   \* history: work that counted as an accepted share
    twice,      \* history: work that counted again
    evicted,    \* history: evicted jobs
    blocks      \* solved blocks handed to SubmitBlock

poolVars == <<node, cur, chan, missed>>
castVars == <<lastJob, bpc>>
shareVars == <<tip, moved>>
jobVars == <<jobs, seen, nextID, evicted>>
countVars == <<credited, twice, blocks>>
vars == <<poolVars, castVars, shareVars, conn, sending, jobVars, solving, countVars>>

Template == DOMAIN Prev
Authorized(m) == conn[m] \in {"greeting", "authorized"}
Open(m) == conn[m] \in {"open", "greeting", "authorized"}

\* What a miner's hashes depend on: two jobs may be the same work.
Work(m, j, n) == [miner |-> m, tmpl |-> j.tmpl, links |-> j.links, tip |-> j.tip, nonce |-> n]

-----------------------------------------------------------------------------
(***************************************************************************)
(* Templates.                                                              *)
(***************************************************************************)

\* vertcoind has a new block or new transactions.
NewTemplate == /\ node < Len(Prev) /\ node' = node + 1
               /\ UNCHANGED <<cur, chan, missed, castVars, shareVars, conn, sending, jobVars, solving, countVars>>

\* Mutant of Offer: the channel is taken to have room.
OfferAlways(t) == chan' = Append(chan, t) /\ UNCHANGED missed

\* A send on NewBlockChan that drops what finds it full.
Offer(t) == IF Len(chan) < ChanSize
            THEN chan' = Append(chan, t) /\ UNCHANGED missed
            ELSE UNCHANGED chan /\ missed' = TRUE

\* Mutant of fetchBlockTemplate: new transactions are not passed on.
fetchOnNewBlock ==
    /\ node # 0
    /\ cur' = node
    /\ IF cur # 0 /\ Prev[cur] = Prev[node] THEN UNCHANGED <<chan, missed>> ELSE Offer(node)
    /\ UNCHANGED <<node, castVars, shareVars, conn, sending, jobVars, solving, countVars>>

\* Every second: a template for a new block, or with new transactions, is passed on.
fetchBlockTemplate ==
    /\ node # 0
    /\ cur' = node
    /\ IF cur = node THEN UNCHANGED <<chan, missed>> ELSE Offer(node)
    /\ UNCHANGED <<node, castVars, shareVars, conn, sending, jobVars, solving, countVars>>

-----------------------------------------------------------------------------
(***************************************************************************)
(* The broadcaster and the other sources of jobs.                          *)
(***************************************************************************)

\* Mutant of Broadcast: the newest template overtakes those waiting.
BroadcastNewest ==
    /\ bpc = "wait" /\ chan # <<>>
    /\ lastJob' = chan[Len(chan)]
    /\ chan' = SubSeq(chan, 1, Len(chan) - 1)
    /\ bpc' = "notify"
    /\ UNCHANGED <<node, cur, missed, shareVars, conn, sending, jobVars, solving, countVars>>

\* jobBroadcaster takes a template and makes the master job of it...
Broadcast ==
    /\ bpc = "wait" /\ chan # <<>>
    /\ lastJob' = Head(chan)
    /\ chan' = Tail(chan)
    /\ bpc' = "notify"
    /\ UNCHANGED <<node, cur, missed, shareVars, conn, sending, jobVars, solving, countVars>>

Send(m, t, clean) == [miner |-> m, tmpl |-> t, clean |-> clean]

\* Mutant of Notify: clients that have no job yet are passed over.
NotifyBusy ==
    /\ bpc = "notify" /\ bpc' = "wait"
    /\ sending' = sending \cup {Send(m, lastJob, TRUE) : m \in {c \in Miner : Authorized(c) /\ jobs[c] # {}}}
    /\ UNCHANGED <<lastJob, poolVars, shareVars, conn, jobVars, solving, countVars>>

\* ...and starts a goroutine for every authorized client.
Notify ==
    /\ bpc = "notify" /\ bpc' = "wait"
    /\ sending' = sending \cup {Send(m, lastJob, TRUE) : m \in {c \in Miner : Authorized(c)}}
    /\ UNCHANGED <<lastJob, poolVars, shareVars, conn, jobVars, solving, countVars>>

\* The share chain has a new tip...
TipMoves ==
    /\ tip < MaxTip /\ tip' = tip + 1 /\ moved' = TRUE
    /\ UNCHANGED <<poolVars, castVars, conn, sending, jobVars, solving, countVars>>

\* ...and whoever added the share calls NotifyNewShare.
NotifyNewShare ==
    /\ moved /\ moved' = FALSE
    /\ sending' = IF lastJob = 0 THEN sending
                  ELSE sending \cup {Send(m, lastJob, FALSE) :
                           m \in {c \in Miner : Authorized(c) /\ \A j \in jobs[c] : j.tip = 0 \/ j.tip # tip}}
    /\ UNCHANGED <<tip, poolVars, castVars, conn, jobVars, solving, countVars>>

\* vardiffLoop changed the difficulty and sends the work again.
VardiffTick(m) ==
    /\ Authorized(m) /\ lastJob # 0
    /\ sending' = sending \cup {Send(m, lastJob, TRUE)}
    /\ UNCHANGED <<poolVars, castVars, shareVars, conn, jobVars, solving, countVars>>

\* handleAuthorize marks the client as authorized...
Authorize(m) ==
    /\ conn[m] = "open" /\ conn' = [conn EXCEPT ![m] = "greeting"]
    /\ UNCHANGED <<poolVars, castVars, shareVars, sending, jobVars, solving, countVars>>

\* ...and then sends it the latest work, if any.
Greet(m) ==
    /\ conn[m] = "greeting" /\ conn' = [conn EXCEPT ![m] = "authorized"]
    /\ sending' = IF lastJob = 0 THEN sending ELSE sending \cup {Send(m, lastJob, TRUE)}
    /\ UNCHANGED <<poolVars, castVars, shareVars, jobVars, solving, countVars>>

\* dropClient.
Drop(m) == /\ Open(m) /\ conn' = [conn EXCEPT ![m] = "closed"]
           /\ UNCHANGED <<poolVars, castVars, shareVars, sending, jobVars, solving, countVars>>

-----------------------------------------------------------------------------
(***************************************************************************)
(* sendMiningJob.                                                          *)
(***************************************************************************)

\* Half of the jobs, in no order, go when a clean job finds too many.
Evictions(m, clean) ==
    IF clean /\ Cardinality(jobs[m]) > MaxActive
    THEN {E \in SUBSET jobs[m] : Cardinality(E) = Cardinality(jobs[m]) \div 2}
    ELSE {{}}

\* The job is put together from the template the goroutine was started with and the
\* links of the master job there is by now. Work for a new tip that the client already
\* has (at the same difficulty) is not repeated.
StoreJob(s) ==
    LET m == s.miner
        job == [id |-> nextID, tmpl |-> s.tmpl, links |-> lastJob, tip |-> tip]
    IN  /\ s \in sending /\ Open(m) /\ nextID <= MaxJobs
        /\ \E E \in Evictions(m, s.clean) :
              /\ jobs' = [jobs EXCEPT ![m] = (@ \ E) \cup {job}]
              /\ seen' = [seen EXCEPT ![m] = {x \in @ : x.job \notin E}]
              /\ evicted' = evicted \cup E
        /\ nextID' = nextID + 1
        /\ sending' = sending \ {s}
        /\ UNCHANGED <<poolVars, castVars, shareVars, conn, solving, countVars>>

\* A goroutine that finds the client closed, or the work known, has nothing to do.
SkipJob(s) ==
    /\ s \in sending
    /\ \/ ~Open(s.miner)
       \/ ~s.clean /\ tip # 0 /\ \E j \in jobs[s.miner] : j.tip = tip
    /\ sending' = sending \ {s}
    /\ UNCHANGED <<poolVars, castVars, shareVars, conn, jobVars, solving, countVars>>

-----------------------------------------------------------------------------
(***************************************************************************)
(* handleSubmit.                                                           *)
(***************************************************************************)

\* The job is looked up and the nonce noted; a repetition or an unknown job ends it.
SubmitLookup(m, j, n) ==
    /\ Open(m) /\ solving[m] = {}
    /\ j \in jobs[m] /\ [job |-> j, nonce |-> n] \notin seen[m]
    /\ seen' = [seen EXCEPT ![m] = @ \cup {[job |-> j, nonce |-> n]}]
    /\ solving' = [solving EXCEPT ![m] = {[job |-> j, nonce |-> n]}]
    /\ UNCHANGED <<jobs, nextID, evicted, poolVars, castVars, shareVars, conn, sending, countVars>>

\* Mutant of Duplicate: only the job itself is looked at.
DuplicateInJob(m, x) == FALSE

\* The same share was sent in under another job that is still active.
Duplicate(m, x) ==
    \E y \in seen[m] : y # x /\ Work(m, y.job, y.nonce) = Work(m, x.job, x.nonce)

\* The share counts if it is no duplicate and its job builds on the latest block; if it
\* solves a block, the block goes to SubmitBlock.
SubmitDecide(m, x, solves) ==
    LET w == Work(m, x.job, x.nonce)
        counts == ~Duplicate(m, x) /\ (lastJob = 0 \/ Prev[x.job.tmpl] = Prev[lastJob])
    IN  /\ x \in solving[m]
        /\ solving' = [solving EXCEPT ![m] = {}]
        /\ credited' = IF counts THEN credited \cup {w} ELSE credited
        /\ twice' = IF counts /\ w \in credited THEN twice \cup {w} ELSE twice
        /\ blocks' = IF counts /\ solves THEN blocks \cup {x.job} ELSE blocks
        /\ UNCHANGED <<poolVars, castVars, shareVars, conn, sending, jobVars>>

\* SubmitBlock of work/manager.go: a block whose merkle root is not that of its
\* transactions is refused; after any other the template is fetched anew.
SubmitBlock(j) ==
    /\ j \in blocks /\ blocks' = blocks \ {j}
    /\ cur' = IF j.links = j.tmpl /\ cur # 0 /\ Prev[cur] = Prev[j.tmpl] THEN 0 ELSE cur
    /\ UNCHANGED <<node, chan, missed, castVars, shareVars, conn, sending, jobVars, solving, credited, twice>>

-----------------------------------------------------------------------------
Init == /\ node = 0 /\ cur = 0 /\ chan = <<>> /\ missed = FALSE
        /\ lastJob = 0 /\ bpc = "wait" /\ tip = 0 /\ moved = FALSE
        /\ conn = [m \in Miner |-> "open"] /\ sending = {}
        /\ jobs = [m \in Miner |-> {}] /\ seen = [m \in Miner |-> {}]
        /\ nextID = 1
        /\ solving = [m \in Miner |-> {}]
        /\ credited = {} /\ twice = {} /\ evicted = {} /\ blocks = {}

Serve == \E s \in sending : StoreJob(s) \/ SkipJob(s)

Next == \/ NewTemplate \/ fetchBlockTemplate \/ Broadcast \/ Notify
        \/ TipMoves \/ NotifyNewShare
        \/ \E m \in Miner : VardiffTick(m) \/ Authorize(m) \/ Greet(m) \/ Drop(m)
        \/ Serve
        \/ \E m \in Miner : \E j \in jobs[m], n \in Nonce : SubmitLookup(m, j, n)
        \/ \E m \in Miner : \E x \in solving[m], solves \in BOOLEAN : SubmitDecide(m, x, solves)
        \/ \E j \in blocks : SubmitBlock(j)

Spec == Init /\ [][Next]_vars

\* The poller has a ticker; the broadcaster and every goroutine get their turn.
FairSpec == /\ Spec
            /\ WF_vars(fetchBlockTemplate) /\ WF_vars(Broadcast) /\ WF_vars(Notify)
            /\ WF_vars(Serve)
            /\ \A m \in Miner : WF_vars(Greet(m))

-----------------------------------------------------------------------------
(***************************************************************************)
(* Properties.                                                             *)
(***************************************************************************)

Job == [id : 1 .. MaxJobs, tmpl : Template, links : Template, tip : 0 .. MaxTip]
Submission == [job : Job, nonce : Nonce]

\* The types of the state; a client's noted submissions belong to its active jobs, and
\* NewBlockChan never holds more than it has room for.
MiningTypeOK ==
    /\ {node, cur, lastJob} \subseteq Template \cup {0}
    /\ chan \in Seq(Template) /\ Len(chan) <= ChanSize
    /\ bpc \in {"wait", "notify"} /\ {missed, moved} \subseteq BOOLEAN /\ tip \in 0 .. MaxTip
    /\ conn \in [Miner -> {"open", "greeting", "authorized", "closed"}]
    /\ sending \subseteq [miner : Miner, tmpl : Template, clean : BOOLEAN]
    /\ nextID \in 1 .. MaxJobs + 1
    /\ evicted \cup blocks \subseteq Job
    /\ \A m \in Miner :
          /\ jobs[m] \subseteq Job /\ solving[m] \subseteq Submission
          /\ seen[m] \subseteq Submission /\ {x.job : x \in seen[m]} \subseteq jobs[m]

\* Work counts once, under whichever of a miner's equal jobs it is sent in and however
\* often, unless a job it was done for has been evicted and its record with it.
CountsOnce == \A w \in twice : \E j \in evicted : Work(w.miner, j, w.nonce) = w

\* The master job never goes back to an older template.
NeverStepsBack == [][lastJob' >= lastJob]_vars

\* The master job catches up with vertcoind's latest template (of finitely many) again and
\* again, also when a solved block makes the node fetch it anew, unless NewBlockChan
\* overflowed.
CatchesUp == []<>(lastJob = node \/ missed)

\* An authorized miner gets work once there is any: a client that authorizes while the
\* broadcaster is between making the first job and looking for clients is not missed.
\* (Up to the bound on jobs.)
GetsWork == \A m \in Miner : Authorized(m) /\ lastJob # 0
                               ~> jobs[m] # {} \/ ~Open(m) \/ nextID > MaxJobs

\* manager.go:524: the merkle root of a solved block is the root of its transactions.
RootsMatch == \A j \in blocks : j.links = j.tmpl
=============================================================================
