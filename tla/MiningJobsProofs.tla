-------------------------- MODULE MiningJobsProofs --------------------------
(***************************************************************************)
(* Proofs about MiningJobs, for any number of miners, templates and jobs,  *)
(* any size of NewBlockChan and any limit on active jobs.                  *)
(***************************************************************************)
EXTENDS MiningJobs, TLAPS

(***************************************************************************)
(* The order of templates.                                                 *)
(***************************************************************************)

\* What waits in NewBlockChan is in order, between the master job and vertcoind's latest.
InOrder ==
    /\ node \in Nat /\ lastJob \in Nat /\ chan \in Seq(Nat)
    /\ lastJob <= node
    /\ \A i \in 1 .. Len(chan) : lastJob <= chan[i] /\ chan[i] <= node
    /\ \A i, k \in 1 .. Len(chan) : i <= k => chan[i] <= chan[k]

LEMMA InOrderInit == Init => InOrder
  BY DEF Init, InOrder

\* A template that is offered is vertcoind's latest and goes behind all others.
LEMMA OfferInOrder ==
    ASSUME InOrder, Offer(node), node' = node, lastJob' = lastJob
    PROVE  InOrder'
<1>1. CASE chan' = chan
  BY <1>1 DEF InOrder
<1>2. CASE chan' = Append(chan, node)
  <2>1. /\ chan' \in Seq(Nat) /\ Len(chan') = Len(chan) + 1 /\ Len(chan) \in Nat
        /\ \A i \in 1 .. Len(chan) : chan'[i] = chan[i]
        /\ chan'[Len(chan) + 1] = node
    BY <1>2 DEF InOrder
  <2>2. ASSUME NEW i \in 1 .. Len(chan') PROVE lastJob <= chan'[i] /\ chan'[i] <= node
    <3>1. CASE i = Len(chan) + 1
      BY <2>1, <3>1 DEF InOrder
    <3>2. CASE i \in 1 .. Len(chan)
      BY <2>1, <3>2 DEF InOrder
    <3>3. QED
      BY <2>1, <3>1, <3>2
  <2>3. ASSUME NEW i \in 1 .. Len(chan'), NEW k \in 1 .. Len(chan'), i <= k
        PROVE  chan'[i] <= chan'[k]
    <3>1. CASE k = Len(chan) + 1
      BY <2>1, <2>2, <2>3, <3>1
    <3>2. CASE k \in 1 .. Len(chan)
      <4>1. i \in 1 .. Len(chan)
        BY <2>1, <2>3, <3>2
      <4>2. QED
        BY <2>1, <2>3, <3>2, <4>1 DEF InOrder
    <3>3. QED
      BY <2>1, <2>3, <3>1, <3>2
  <2>4. QED
    BY <2>1, <2>2, <2>3 DEF InOrder
<1>3. QED
  BY <1>1, <1>2 DEF Offer

\* The broadcaster takes the oldest of them, which is no older than the master job.
LEMMA BroadcastInOrder ==
    ASSUME InOrder, Broadcast
    PROVE  InOrder' /\ lastJob <= lastJob'
<1>1. /\ chan # <<>> /\ lastJob' = Head(chan) /\ chan' = Tail(chan) /\ node' = node
      /\ chan \in Seq(Nat)
  BY DEF Broadcast, InOrder
<1>2. /\ Len(chan) \in Nat \ {0} /\ lastJob' = chan[1]
      /\ chan' \in Seq(Nat) /\ Len(chan') = Len(chan) - 1
      /\ \A i \in 1 .. Len(chan') : chan'[i] = chan[i + 1]
  BY <1>1
<1>3. lastJob <= lastJob' /\ lastJob' \in Nat /\ lastJob' <= node'
  BY <1>1, <1>2 DEF InOrder
<1>4. ASSUME NEW i \in 1 .. Len(chan') PROVE lastJob' <= chan'[i] /\ chan'[i] <= node'
  <2>1. 1 \in 1 .. Len(chan) /\ i + 1 \in 1 .. Len(chan) /\ 1 <= i + 1
    BY <1>2
  <2>2. chan[1] <= chan[i + 1] /\ chan[i + 1] <= node
    BY <2>1 DEF InOrder
  <2>3. QED
    BY <1>1, <1>2, <2>2
<1>5. ASSUME NEW i \in 1 .. Len(chan'), NEW k \in 1 .. Len(chan'), i <= k
      PROVE  chan'[i] <= chan'[k]
  <2>1. i + 1 \in 1 .. Len(chan) /\ k + 1 \in 1 .. Len(chan) /\ i + 1 <= k + 1
    BY <1>2, <1>5
  <2>2. chan[i + 1] <= chan[k + 1]
    BY <2>1 DEF InOrder
  <2>3. QED
    BY <1>2, <2>2
<1>6. QED
  BY <1>1, <1>2, <1>3, <1>4, <1>5 DEF InOrder

\* Nothing else touches the channel or the master job.
LEMMA OthersKeepOrder ==
    ASSUME InOrder, [Next]_vars, ~Broadcast, ~fetchBlockTemplate
    PROVE  InOrder' /\ lastJob' = lastJob
<1>1. lastJob' = lastJob /\ chan' = chan /\ (node' = node \/ node' = node + 1)
  BY DEF Next, vars, poolVars, castVars, shareVars, NewTemplate, Notify, TipMoves,
         NotifyNewShare, VardiffTick, Authorize, Greet, Drop, Serve, StoreJob, SkipJob,
         SubmitLookup, SubmitDecide, SubmitBlock
<1>2. QED
  BY <1>1 DEF InOrder

LEMMA InOrderNext == InOrder /\ [Next]_vars => InOrder' /\ lastJob' >= lastJob
<1> SUFFICES ASSUME InOrder, [Next]_vars PROVE InOrder' /\ lastJob' >= lastJob
  OBVIOUS
<1>1. CASE Broadcast
  BY <1>1, BroadcastInOrder DEF InOrder
<1>2. CASE fetchBlockTemplate
  <2>1. /\ node' = node /\ lastJob' = lastJob
        /\ chan' = chan \/ Offer(node)
    BY <1>2 DEF fetchBlockTemplate, castVars
  <2>2. InOrder'
    BY <2>1, OfferInOrder DEF InOrder
  <2>3. QED
    BY <2>1, <2>2 DEF InOrder
<1>3. CASE ~Broadcast /\ ~fetchBlockTemplate
  BY <1>3, OthersKeepOrder DEF InOrder
<1>4. QED
  BY <1>1, <1>2, <1>3

\* The master job never goes back to an older template, whatever the poller, a solved
\* block that makes it fetch again, and a full channel do.
THEOREM MasterNeverStepsBack == Spec => NeverStepsBack
<1>1. InOrder /\ [Next]_vars => [lastJob' >= lastJob]_vars
  BY InOrderNext
<1>2. InOrder /\ [Next]_vars => InOrder'
  BY InOrderNext
<1>3. QED
  BY <1>1, <1>2, InOrderInit, PTL DEF Spec, NeverStepsBack

-----------------------------------------------------------------------------
(***************************************************************************)
(* Work counts once.                                                       *)
(***************************************************************************)

\* A submission of work w that is over is on record.
Recorded(w) ==
    \E y \in seen[w.miner] \ solving[w.miner] : Work(w.miner, y.job, y.nonce) = w

\* The record of work w may have gone with an evicted job.
Evicted(w) == \E j \in evicted : Work(w.miner, j, w.nonce) = w

\* The submission under way is on record unless its job has been evicted since; each
\* work that counted is on record with a submission that is over, or has been evicted.
OnRecord ==
    /\ DOMAIN seen = Miner /\ DOMAIN solving = Miner
    /\ \A m \in Miner : \A x \in solving[m] : x \in seen[m] \/ x.job \in evicted
    /\ \A m \in Miner : \A x, y \in solving[m] : x = y
    /\ \A w \in credited :
          /\ w.miner \in Miner
          /\ Recorded(w) \/ Evicted(w)

CountInv == OnRecord /\ CountsOnce

LEMMA CountInit == Init => CountInv
  BY DEF Init, CountInv, OnRecord, CountsOnce

\* Steps that leave the records and the counts alone.
LEMMA CountStutter ==
    ASSUME CountInv, UNCHANGED <<seen, evicted, solving, credited, twice>>
    PROVE  CountInv'
  BY DEF CountInv, OnRecord, CountsOnce, Recorded, Evicted

\* A new submission is not on record, so it hides none that is over.
LEMMA LookupCounts ==
    ASSUME CountInv, NEW m \in Miner, NEW j, NEW n, SubmitLookup(m, j, n)
    PROVE  CountInv'
<1> DEFINE x == [job |-> j, nonce |-> n]
<1>1. /\ x \notin seen[m] /\ solving[m] = {}
      /\ seen' = [seen EXCEPT ![m] = @ \cup {x}]
      /\ solving' = [solving EXCEPT ![m] = {x}]
      /\ UNCHANGED <<evicted, credited, twice>>
  BY DEF SubmitLookup, countVars
<1> HIDE DEF x
<1>2. /\ DOMAIN seen = Miner /\ DOMAIN solving = Miner
      /\ seen'[m] = seen[m] \cup {x} /\ solving'[m] = {x}
      /\ \A p \in Miner \ {m} : seen'[p] = seen[p] /\ solving'[p] = solving[p]
      /\ DOMAIN seen' = Miner /\ DOMAIN solving' = Miner
  BY <1>1 DEF CountInv, OnRecord
<1>3. ASSUME NEW w \in credited, w.miner \in Miner, Recorded(w) PROVE Recorded(w)'
  <2>1. seen[w.miner] \ solving[w.miner] \subseteq seen'[w.miner] \ solving'[w.miner]
    BY <1>1, <1>2, <1>3
  <2>2. QED
    BY <1>3, <2>1 DEF Recorded
<1>4. OnRecord'
  BY <1>1, <1>2, <1>3 DEF CountInv, OnRecord, Evicted
<1>5. CountsOnce'
  BY <1>1 DEF CountInv, CountsOnce
<1>6. QED
  BY <1>4, <1>5 DEF CountInv

\* What leaves the record belonged to a job that is evicted.
LEMMA StoreCounts ==
    ASSUME CountInv, NEW s, s.miner \in Miner, StoreJob(s)
    PROVE  CountInv'
<1>1. PICK E : /\ seen' = [seen EXCEPT ![s.miner] = {x \in @ : x.job \notin E}]
               /\ evicted' = evicted \cup E
  BY DEF StoreJob
<1>2. UNCHANGED <<solving, credited, twice>>
  BY DEF StoreJob, countVars
<1>3. /\ DOMAIN seen' = Miner
      /\ \A p \in Miner : \A x \in seen[p] : x \in seen'[p] \/ x.job \in evicted'
  BY <1>1 DEF CountInv, OnRecord
<1>4. ASSUME NEW w \in credited PROVE w.miner \in Miner /\ (Recorded(w)' \/ Evicted(w)')
  <2>1. w.miner \in Miner /\ (Recorded(w) \/ Evicted(w))
    BY DEF CountInv, OnRecord
  <2>2. CASE Evicted(w)
    BY <1>1, <2>1, <2>2 DEF Evicted
  <2>3. CASE Recorded(w)
    <3>1. PICK y \in seen[w.miner] \ solving[w.miner] : Work(w.miner, y.job, y.nonce) = w
      BY <2>3 DEF Recorded
    <3>2. Work(w.miner, y.job, w.nonce) = w
      BY <3>1 DEF Work
    <3>3. CASE y \in seen'[w.miner]
      BY <1>2, <2>1, <3>1, <3>3 DEF Recorded
    <3>4. CASE y.job \in evicted'
      BY <2>1, <3>2, <3>4 DEF Evicted
    <3>5. QED
      BY <1>3, <2>1, <3>1, <3>3, <3>4
  <2>4. QED
    BY <2>1, <2>2, <2>3
<1>5. OnRecord'
  BY <1>1, <1>2, <1>3, <1>4 DEF CountInv, OnRecord
<1>6. CountsOnce'
  BY <1>1, <1>2 DEF CountInv, CountsOnce
<1>7. QED
  BY <1>5, <1>6 DEF CountInv

\* Work that counted before is a duplicate of what is on record, and if it counts now
\* its submission is on record from here on.
LEMMA DecideCounts ==
    ASSUME CountInv, NEW m \in Miner, NEW x, NEW solves, SubmitDecide(m, x, solves)
    PROVE  CountInv'
<1> DEFINE w == Work(m, x.job, x.nonce)
<1>1. /\ x \in solving[m]
      /\ solving' = [solving EXCEPT ![m] = {}]
      /\ credited' \in {credited, credited \cup {w}}
      /\ twice' = twice \/ (twice' = twice \cup {w} /\ w \in credited /\ ~Duplicate(m, x))
      /\ UNCHANGED <<seen, evicted>>
  BY DEF SubmitDecide, jobVars
<1>2. /\ DOMAIN seen = Miner /\ DOMAIN solving = Miner
      /\ solving'[m] = {} /\ DOMAIN solving' = Miner
      /\ \A p \in Miner \ {m} : solving'[p] = solving[p]
  BY <1>1 DEF CountInv, OnRecord
<1>3. w.miner = m /\ w.nonce = x.nonce
  BY DEF Work
<1>4. Recorded(w)' \/ Evicted(w)'
  <2>1. x \in seen[m] \/ x.job \in evicted
    BY <1>1 DEF CountInv, OnRecord
  <2>2. CASE x \in seen[m]
    <3>1. x \in seen'[m] \ solving'[m]
      BY <1>1, <1>2, <2>2
    <3>2. QED
      BY <1>3, <3>1 DEF Recorded
  <2>3. CASE x.job \in evicted
    BY <1>1, <1>3, <2>3 DEF Evicted
  <2>4. QED
    BY <2>1, <2>2, <2>3
<1>5. ASSUME w \in credited, ~Duplicate(m, x) PROVE Evicted(w)
  <2>1. Recorded(w) \/ Evicted(w)
    BY <1>5 DEF CountInv, OnRecord
  <2>2. ASSUME NEW y \in seen[m] \ solving[m], Work(m, y.job, y.nonce) = w PROVE FALSE
    BY <1>1, <1>5, <2>2 DEF Duplicate
  <2>3. QED
    BY <1>3, <2>1, <2>2 DEF Recorded
<1> HIDE DEF w
<1>6. ASSUME NEW v \in credited PROVE v.miner \in Miner /\ (Recorded(v)' \/ Evicted(v)')
  <2>1. v.miner \in Miner /\ (Recorded(v) \/ Evicted(v))
    BY DEF CountInv, OnRecord
  <2>2. seen[v.miner] \ solving[v.miner] \subseteq seen'[v.miner] \ solving'[v.miner]
    BY <1>1, <1>2, <2>1
  <2>3. QED
    BY <1>1, <2>1, <2>2 DEF Recorded, Evicted
<1>7. OnRecord'
  <2>1. \A v \in credited' : v.miner \in Miner /\ (Recorded(v)' \/ Evicted(v)')
    BY <1>1, <1>3, <1>4, <1>6
  <2>2. QED
    BY <1>1, <1>2, <2>1 DEF CountInv, OnRecord
<1>8. CountsOnce'
  BY <1>1, <1>5 DEF CountInv, CountsOnce, Evicted
<1>9. QED
  BY <1>7, <1>8 DEF CountInv

\* Goroutines are started for miners.
SendersKnown == \A s \in sending : s.miner \in Miner

LEMMA SendersNext == SendersKnown /\ [Next]_vars => SendersKnown'
<1> SUFFICES ASSUME SendersKnown, [Next]_vars PROVE SendersKnown'
  OBVIOUS
<1>1. CASE Notify
  BY <1>1 DEF Notify, SendersKnown, Send
<1>2. CASE NotifyNewShare
  BY <1>2 DEF NotifyNewShare, SendersKnown, Send
<1>3. ASSUME NEW m \in Miner, VardiffTick(m) \/ Greet(m) PROVE SendersKnown'
  BY <1>3 DEF VardiffTick, Greet, SendersKnown, Send
<1>4. CASE Serve
  BY <1>4 DEF Serve, StoreJob, SkipJob, SendersKnown
<1>5. ASSUME UNCHANGED sending PROVE SendersKnown'
  BY <1>5 DEF SendersKnown
<1>6. ASSUME NewTemplate \/ fetchBlockTemplate \/ Broadcast \/ TipMoves PROVE UNCHANGED sending
  BY <1>6 DEF NewTemplate, fetchBlockTemplate, Broadcast, TipMoves
<1>7. ASSUME NEW m \in Miner, Authorize(m) \/ Drop(m) PROVE UNCHANGED sending
  BY <1>7 DEF Authorize, Drop
<1>8. ASSUME NEW m \in Miner, NEW j, NEW n, SubmitLookup(m, j, n) PROVE UNCHANGED sending
  BY <1>8 DEF SubmitLookup
<1>9. ASSUME NEW m \in Miner, NEW x, NEW solves, SubmitDecide(m, x, solves)
      PROVE  UNCHANGED sending
  BY <1>9 DEF SubmitDecide
<1>10. ASSUME NEW j, SubmitBlock(j) PROVE UNCHANGED sending
  BY <1>10 DEF SubmitBlock
<1>11. UNCHANGED vars => UNCHANGED sending
  BY DEF vars
<1>12. QED
  BY <1>1, <1>2, <1>3, <1>4, <1>5, <1>6, <1>7, <1>8, <1>9, <1>10, <1>11 DEF Next

LEMMA CountNext == SendersKnown /\ CountInv /\ [Next]_vars => CountInv'
<1> SUFFICES ASSUME SendersKnown, CountInv, [Next]_vars PROVE CountInv'
  OBVIOUS
<1>1. ASSUME NEW m \in Miner, NEW j, NEW n, SubmitLookup(m, j, n) PROVE CountInv'
  BY <1>1, LookupCounts
<1>2. ASSUME NEW s \in sending, StoreJob(s) PROVE CountInv'
  BY <1>2, StoreCounts DEF SendersKnown
<1>3. ASSUME NEW m \in Miner, NEW x, NEW solves, SubmitDecide(m, x, solves) PROVE CountInv'
  BY <1>3, DecideCounts
<1>4. ASSUME UNCHANGED <<seen, evicted, solving, credited, twice>> PROVE CountInv'
  BY <1>4, CountStutter
<1>5. ASSUME NEW m \in Miner, VardiffTick(m) \/ Authorize(m) \/ Greet(m) \/ Drop(m)
      PROVE  UNCHANGED <<seen, evicted, solving, credited, twice>>
  BY <1>5 DEF VardiffTick, Authorize, Greet, Drop, jobVars, countVars
<1>6. ASSUME NewTemplate \/ fetchBlockTemplate \/ Broadcast \/ Notify \/ TipMoves \/ NotifyNewShare
      PROVE  UNCHANGED <<seen, evicted, solving, credited, twice>>
  BY <1>6 DEF NewTemplate, fetchBlockTemplate, Broadcast, Notify, TipMoves, NotifyNewShare,
              jobVars, countVars
<1>7. ASSUME NEW s \in sending, SkipJob(s)
      PROVE  UNCHANGED <<seen, evicted, solving, credited, twice>>
  BY <1>7 DEF SkipJob, jobVars, countVars
<1>8. ASSUME NEW j \in blocks, SubmitBlock(j)
      PROVE  UNCHANGED <<seen, evicted, solving, credited, twice>>
  BY <1>8 DEF SubmitBlock, jobVars
<1>9. UNCHANGED vars => UNCHANGED <<seen, evicted, solving, credited, twice>>
  BY DEF vars, jobVars, countVars
<1>10. QED
  BY <1>1, <1>2, <1>3, <1>4, <1>5, <1>6, <1>7, <1>8, <1>9 DEF Next, Serve

\* Under any number of equal jobs, in any order of jobs, submissions and evictions,
\* handleSubmit counts a miner's work once unless a job with it on record was evicted.
THEOREM WorkCountsOnce == Spec => []CountsOnce
<1>1. Init => SendersKnown /\ CountInv
  BY CountInit DEF Init, SendersKnown
<1>2. SendersKnown /\ CountInv /\ [Next]_vars => (SendersKnown /\ CountInv)'
  BY SendersNext, CountNext
<1>3. CountInv => CountsOnce
  BY DEF CountInv
<1>4. QED
  BY <1>1, <1>2, <1>3, PTL DEF Spec

-----------------------------------------------------------------------------
(***************************************************************************)
(* Types.                                                                  *)
(***************************************************************************)

\* The inductive invariant of MiningTypeOK: whoever sends work has a master job to take
\* the links from.
TypeInv ==
    /\ MiningTypeOK
    /\ DOMAIN jobs = Miner /\ DOMAIN seen = Miner /\ DOMAIN solving = Miner
    /\ bpc = "notify" \/ sending # {} => lastJob # 0

LEMMA TypeInit == Init => TypeInv
<1> SUFFICES ASSUME Init  PROVE TypeInv  OBVIOUS
<1>1. {ChanSize, MaxTip, MaxJobs} \subseteq Nat  BY MiningAssumption
<1>2. chan \in Seq(Template) /\ Len(chan) <= ChanSize  BY <1>1 DEF Init
<1>3. {missed, moved} \subseteq BOOLEAN  BY Zenon DEF Init
<1>4. tip \in 0 .. MaxTip /\ nextID \in 1 .. MaxJobs + 1  BY <1>1 DEF Init
<1>5. MiningTypeOK  BY <1>2, <1>3, <1>4 DEF Init, MiningTypeOK
<1> QED  BY <1>5 DEF Init, TypeInv

\* Steps of the template poller and the broadcaster.
LEMMA PoolTyped ==
    ASSUME TypeInv, NewTemplate \/ fetchBlockTemplate \/ Broadcast
    PROVE  TypeInv'
<1>0. /\ chan \in Seq(Template) /\ Len(chan) \in Nat /\ Len(chan) <= ChanSize /\ ChanSize \in Nat
      /\ node \in Template \cup {0} /\ cur \in Template \cup {0} /\ lastJob \in Template \cup {0}
      /\ Template = 1 .. Len(Prev) /\ Len(Prev) \in Nat
      /\ missed \in BOOLEAN /\ bpc \in {"wait", "notify"}
  BY MiningAssumption DEF TypeInv, MiningTypeOK, Template
<1>1. /\ node' \in Template \cup {0} /\ cur' \in Template \cup {0}
      /\ lastJob' \in Template \cup {0} /\ (lastJob # 0 => lastJob' # 0)
      /\ bpc' \in {"wait", "notify"} /\ (bpc' = "notify" => bpc = "notify" \/ lastJob' # 0)
  <2>1. CASE Broadcast
    <3>1. Head(chan) \in Template  BY <1>0, <2>1 DEF Broadcast
    <3> QED  BY <1>0, <2>1, <3>1 DEF Broadcast
  <2>2. CASE NewTemplate \/ fetchBlockTemplate
    BY <1>0, <2>2 DEF NewTemplate, fetchBlockTemplate, castVars
  <2> QED  BY <2>1, <2>2
<1>2. chan' \in Seq(Template) /\ Len(chan') <= ChanSize /\ missed' \in BOOLEAN
  <2>1. CASE Broadcast
    <3>1. chan # <<>> /\ chan' = Tail(chan) /\ missed' = missed  BY <2>1 DEF Broadcast
    <3>2. chan' \in Seq(Template) /\ Len(chan') = Len(chan) - 1  BY <1>0, <3>1
    <3> QED  BY <1>0, <3>1, <3>2
  <2>2. CASE NewTemplate  BY <1>0, <2>2 DEF NewTemplate
  <2>3. CASE fetchBlockTemplate
    <3>1. CASE UNCHANGED <<chan, missed>>  BY <1>0, <3>1
    <3>2. CASE Offer(node)
      <4>1. node \in Template  BY <1>0, <2>3 DEF fetchBlockTemplate
      <4>2. chan' \in Seq(Template) /\ Len(chan') <= ChanSize
        <5>1. CASE chan' = chan  BY <1>0, <5>1
        <5>2. CASE Len(chan) < ChanSize /\ chan' = Append(chan, node)  BY <1>0, <4>1, <5>2
        <5> QED  BY <3>2, <5>1, <5>2 DEF Offer
      <4>3. missed' \in BOOLEAN  BY <1>0, <3>2, Zenon DEF Offer
      <4> QED  BY <4>2, <4>3
    <3> QED  BY <2>3, <3>1, <3>2 DEF fetchBlockTemplate
  <2> QED  BY <2>1, <2>2, <2>3
<1>3. UNCHANGED <<shareVars, conn, sending, jobVars, solving, countVars>>
  BY DEF NewTemplate, fetchBlockTemplate, Broadcast
<1>4. MiningTypeOK'
  BY <1>1, <1>2, <1>3 DEF TypeInv, MiningTypeOK, shareVars, jobVars, countVars
<1> QED  BY <1>1, <1>3, <1>4 DEF TypeInv, jobVars

\* Steps that start goroutines, each with the master job.
LEMMA SendTyped ==
    ASSUME TypeInv,
           sending' \subseteq sending \cup [miner : Miner, tmpl : {lastJob}, clean : BOOLEAN],
           sending' \subseteq sending \/ lastJob # 0,
           bpc' \in {"wait", bpc}, moved' \in BOOLEAN, tip' \in 0 .. MaxTip,
           conn' \in [Miner -> {"open", "greeting", "authorized", "closed"}],
           UNCHANGED <<lastJob, poolVars, jobVars, solving, countVars>>
    PROVE  TypeInv'
<1>1. lastJob # 0 => lastJob \in Template  BY DEF TypeInv, MiningTypeOK
<1>2. sending' \subseteq [miner : Miner, tmpl : Template, clean : BOOLEAN]
  <2>1. sending \subseteq [miner : Miner, tmpl : Template, clean : BOOLEAN]
    BY DEF TypeInv, MiningTypeOK
  <2>2. CASE lastJob = 0  BY <2>1, <2>2
  <2>3. CASE lastJob # 0  BY <1>1, <2>1, <2>3
  <2> QED  BY <2>2, <2>3
<1>3. bpc' \in {"wait", "notify"} /\ (bpc' = "notify" \/ sending' # {} => lastJob # 0)
  BY DEF TypeInv, MiningTypeOK
<1>4. MiningTypeOK'
  BY <1>2, <1>3 DEF TypeInv, MiningTypeOK, poolVars, jobVars, countVars
<1> QED  BY <1>3, <1>4 DEF TypeInv, jobVars

LEMMA StoreTyped ==
    ASSUME TypeInv, NEW s \in sending, StoreJob(s)
    PROVE  TypeInv'
<1> DEFINE m == s.miner
           job == [id |-> nextID, tmpl |-> s.tmpl, links |-> lastJob, tip |-> tip]
<1>1. m \in Miner /\ s.tmpl \in Template /\ lastJob \in Template
  BY DEF TypeInv, MiningTypeOK
<1>2. job \in Job /\ nextID' \in 1 .. MaxJobs + 1
  BY <1>1, MiningAssumption DEF StoreJob, TypeInv, MiningTypeOK, Job
<1>3. PICK E \in SUBSET jobs[m] : /\ jobs' = [jobs EXCEPT ![m] = (@ \ E) \cup {job}]
                                  /\ seen' = [seen EXCEPT ![m] = {x \in @ : x.job \notin E}]
                                  /\ evicted' = evicted \cup E
  BY DEF StoreJob, Evictions
<1> HIDE DEF m, job
<1>4. E \subseteq Job  BY <1>1, <1>3 DEF TypeInv, MiningTypeOK
<1>5. /\ DOMAIN jobs' = Miner /\ DOMAIN seen' = Miner
      /\ jobs'[m] = (jobs[m] \ E) \cup {job} /\ seen'[m] = {x \in seen[m] : x.job \notin E}
      /\ \A p \in Miner \ {m} : jobs'[p] = jobs[p] /\ seen'[p] = seen[p]
  BY <1>1, <1>3 DEF TypeInv
<1>6. UNCHANGED <<poolVars, castVars, shareVars, conn, solving, countVars>>
      /\ sending' \subseteq sending
  BY DEF StoreJob
<1>7. ASSUME NEW p \in Miner
      PROVE  /\ jobs'[p] \subseteq Job /\ solving'[p] \subseteq Submission
             /\ seen'[p] \subseteq Submission /\ {x.job : x \in seen'[p]} \subseteq jobs'[p]
  <2>1. /\ jobs[p] \subseteq Job /\ solving[p] \subseteq Submission
        /\ seen[p] \subseteq Submission /\ {x.job : x \in seen[p]} \subseteq jobs[p]
    BY DEF TypeInv, MiningTypeOK
  <2>2. CASE p = m  BY <1>2, <1>5, <1>6, <2>1, <2>2
  <2>3. CASE p # m  BY <1>5, <1>6, <2>1, <2>3
  <2> QED  BY <2>2, <2>3
<1>8. evicted' \cup blocks' \subseteq Job
  BY <1>3, <1>4, <1>6 DEF TypeInv, MiningTypeOK, countVars
<1>9. MiningTypeOK'
  BY <1>2, <1>6, <1>7, <1>8 DEF TypeInv, MiningTypeOK, poolVars, castVars, shareVars
<1> QED  BY <1>5, <1>6, <1>9 DEF TypeInv, castVars

LEMMA LookupTyped ==
    ASSUME TypeInv, NEW m \in Miner, NEW j \in jobs[m], NEW n \in Nonce, SubmitLookup(m, j, n)
    PROVE  TypeInv'
<1> DEFINE x == [job |-> j, nonce |-> n]
<1>1. x \in Submission /\ x.job \in jobs[m]  BY DEF TypeInv, MiningTypeOK, Submission
<1>2. /\ seen' = [seen EXCEPT ![m] = @ \cup {x}] /\ solving' = [solving EXCEPT ![m] = {x}]
      /\ UNCHANGED <<jobs, nextID, evicted, poolVars, castVars, shareVars, conn, sending, countVars>>
  BY DEF SubmitLookup
<1> HIDE DEF x
<1>3. /\ DOMAIN seen' = Miner /\ DOMAIN solving' = Miner
      /\ seen'[m] = seen[m] \cup {x} /\ solving'[m] = {x}
      /\ \A p \in Miner \ {m} : seen'[p] = seen[p] /\ solving'[p] = solving[p]
  BY <1>2 DEF TypeInv
<1>4. ASSUME NEW p \in Miner
      PROVE  /\ jobs'[p] \subseteq Job /\ solving'[p] \subseteq Submission
             /\ seen'[p] \subseteq Submission /\ {y.job : y \in seen'[p]} \subseteq jobs'[p]
  <2>1. /\ jobs[p] \subseteq Job /\ solving[p] \subseteq Submission
        /\ seen[p] \subseteq Submission /\ {y.job : y \in seen[p]} \subseteq jobs[p]
    BY DEF TypeInv, MiningTypeOK
  <2>2. CASE p = m  BY <1>1, <1>2, <1>3, <2>1, <2>2
  <2>3. CASE p # m  BY <1>2, <1>3, <2>1, <2>3
  <2> QED  BY <2>2, <2>3
<1>5. MiningTypeOK'
  BY <1>2, <1>4 DEF TypeInv, MiningTypeOK, poolVars, castVars, shareVars, countVars
<1> QED  BY <1>2, <1>3, <1>5 DEF TypeInv, castVars

LEMMA DecideTyped ==
    ASSUME TypeInv, NEW m \in Miner, NEW x \in solving[m], NEW solves, SubmitDecide(m, x, solves)
    PROVE  TypeInv'
<1>1. /\ solving' = [solving EXCEPT ![m] = {}] /\ blocks' \subseteq blocks \cup {x.job}
      /\ UNCHANGED <<poolVars, castVars, shareVars, conn, sending, jobVars>>
  BY DEF SubmitDecide
<1>2. x.job \in Job  BY DEF TypeInv, MiningTypeOK, Submission
<1>3. DOMAIN solving' = Miner /\ \A p \in Miner : solving'[p] \subseteq solving[p]
  BY <1>1 DEF TypeInv
<1>4. MiningTypeOK'
  BY <1>1, <1>2, <1>3 DEF TypeInv, MiningTypeOK, poolVars, castVars, shareVars, jobVars
<1> QED  BY <1>1, <1>3, <1>4 DEF TypeInv, castVars, jobVars

LEMMA TypeNext == TypeInv /\ [Next]_vars => TypeInv'
<1> SUFFICES ASSUME TypeInv, [Next]_vars  PROVE TypeInv'  OBVIOUS
<1> DEFINE Jobs == [miner : Miner, tmpl : {lastJob}, clean : BOOLEAN]
           States == {"open", "greeting", "authorized", "closed"}
<1>0. /\ tip \in 0 .. MaxTip /\ moved \in BOOLEAN /\ conn \in [Miner -> States] /\ MaxTip \in Nat
      /\ bpc = "notify" => lastJob # 0
  BY MiningAssumption DEF TypeInv, MiningTypeOK
<1>1. \A m \in Miner, clean \in BOOLEAN : Send(m, lastJob, clean) \in Jobs  BY DEF Send
<1>2. CASE NewTemplate \/ fetchBlockTemplate \/ Broadcast  BY <1>2, PoolTyped
<1>3. CASE Notify
  <2>1. sending' \subseteq sending \cup Jobs  BY <1>1, <1>3 DEF Notify
  <2>2. lastJob # 0 /\ bpc' = "wait"  BY <1>0, <1>3 DEF Notify
  <2>3. UNCHANGED <<lastJob, poolVars, shareVars, conn, jobVars, solving, countVars>>
    BY <1>3 DEF Notify
  <2> QED  BY <1>0, <2>1, <2>2, <2>3, SendTyped DEF shareVars
<1>4. CASE TipMoves
  <2>1. tip' \in 0 .. MaxTip /\ moved' \in BOOLEAN  BY <1>0, <1>4 DEF TipMoves
  <2>2. UNCHANGED <<poolVars, castVars, conn, sending, jobVars, solving, countVars>>
    BY <1>4 DEF TipMoves
  <2> QED  BY <1>0, <2>1, <2>2, SendTyped DEF castVars
<1>5. CASE NotifyNewShare
  <2>1. sending' \subseteq sending \/ (lastJob # 0 /\ sending' \subseteq sending \cup Jobs)
    BY <1>1, <1>5 DEF NotifyNewShare
  <2>2. moved' \in BOOLEAN /\ UNCHANGED <<tip, poolVars, castVars, conn, jobVars, solving, countVars>>
    BY <1>5 DEF NotifyNewShare
  <2> QED  BY <1>0, <2>1, <2>2, SendTyped DEF castVars
<1>6. ASSUME NEW m \in Miner, VardiffTick(m) \/ Authorize(m) \/ Greet(m) \/ Drop(m)
      PROVE  TypeInv'
  <2>1. sending' \subseteq sending \/ (lastJob # 0 /\ sending' \subseteq sending \cup Jobs)
    BY <1>1, <1>6 DEF VardiffTick, Authorize, Greet, Drop
  <2>2. conn' \in [Miner -> States]
    BY <1>0, <1>6 DEF VardiffTick, Authorize, Greet, Drop
  <2>3. UNCHANGED <<poolVars, castVars, shareVars, jobVars, solving, countVars>>
    BY <1>6 DEF VardiffTick, Authorize, Greet, Drop
  <2> QED  BY <1>0, <2>1, <2>2, <2>3, SendTyped DEF castVars, shareVars
<1>7. ASSUME NEW s \in sending, StoreJob(s)  PROVE TypeInv'  BY <1>7, StoreTyped
<1>8. ASSUME NEW s \in sending, SkipJob(s)  PROVE TypeInv'
  <2>1. /\ sending' \subseteq sending
        /\ UNCHANGED <<poolVars, castVars, shareVars, conn, jobVars, solving, countVars>>
    BY <1>8 DEF SkipJob
  <2> QED  BY <1>0, <2>1, SendTyped DEF castVars, shareVars
<1>9. ASSUME NEW m \in Miner, NEW j \in jobs[m], NEW n \in Nonce, SubmitLookup(m, j, n)
      PROVE  TypeInv'
  BY <1>9, LookupTyped
<1>10. ASSUME NEW m \in Miner, NEW x \in solving[m], NEW solves, SubmitDecide(m, x, solves)
       PROVE  TypeInv'
  BY <1>10, DecideTyped
<1>11. ASSUME NEW j \in blocks, SubmitBlock(j)  PROVE TypeInv'
  <2>1. /\ blocks' \subseteq blocks /\ cur' \in {0, cur}
        /\ UNCHANGED <<node, chan, missed, castVars, shareVars, conn, sending, jobVars, solving>>
    BY <1>11 DEF SubmitBlock
  <2>2. MiningTypeOK'
    BY <2>1 DEF TypeInv, MiningTypeOK, castVars, shareVars, jobVars
  <2> QED  BY <2>1, <2>2 DEF TypeInv, castVars, jobVars
<1>12. CASE UNCHANGED vars
  BY <1>12 DEF vars, poolVars, castVars, shareVars, jobVars, countVars, TypeInv, MiningTypeOK
<1> QED
  BY <1>2, <1>3, <1>4, <1>5, <1>6, <1>7, <1>8, <1>9, <1>10, <1>11, <1>12 DEF Next, Serve

\* Whatever miners, the poller and the share chain do, NewBlockChan holds no more than
\* its capacity, every job has links of a master job, and no record of submissions
\* outlives the job it belongs to.
THEOREM MiningTyped == Spec => []MiningTypeOK
<1>1. TypeInv => MiningTypeOK  BY DEF TypeInv
<1> QED  BY <1>1, TypeInit, TypeNext, PTL DEF Spec
=============================================================================
