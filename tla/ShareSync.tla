----------------------------- MODULE ShareSync ------------------------------
(***************************************************************************)
(* How nodes come to hold the same shares (p2p/download.go, p2p/node.go    *)
(* and the queries of work/sharechain.go they use).  Gossip carries new    *)
(* shares and may lose them.  Every 30 seconds two nodes tell each other   *)
(* their best share, which a node that lacks it asks for; a peer that      *)
(* fails to answer is sent the whole window instead.  A download loop asks *)
(* random peers for missing parents.                                       *)
(*                                                                         *)
(* The chain of a node is the one ShareChain describes, with a batch and   *)
(* its verification pass in one step, since OnSyncDataFunc returns after   *)
(* its own pass.  Nothing here comes near the retention of 72 hours.       *)
(***************************************************************************)
EXTENDS Integers, FiniteSets, FiniteSetsExt, ShareGraph

CONSTANTS
    Node,
    Diff,                   \* work of a share
    Invalid,                \* shares that break a consensus rule
    Foreign,                \* shares of miners outside Node, who may follow other rules
    Loaded,                 \* the verified shares each node starts with
    TargetLookbehind, PPLNSWindow, StopDepth, MaxDownloadParents,
    MaxExpiries             \* bound: unverified shares that wait too long

VARIABLES
    held,       \* per node, keys of sc.shares
    verified,   \* per node, keys of sc.verified
    mined,      \* shares that exist
    mail,       \* gossiped shares under way to a node
    request,    \* per node, the downloader's request under way, if any
    answered,   \* per node, the downloader's memory of hashes answered with shares
    expiries    \* unverified shares dropped so far

chainVars == <<held, verified>>
vars == <<chainVars, mined, mail, request, answered, expiries>>

ASSUME SyncAssumption ==
    /\ Parent \in [Hash -> Hash \cup {Genesis}]
    /\ Diff \in [Hash -> Nat \ {0}]
    /\ Invalid \subseteq Hash /\ Foreign \subseteq Hash /\ Invalid \subseteq Foreign
    /\ Loaded \in [Node -> SUBSET (Hash \ Invalid)]
    /\ {TargetLookbehind, PPLNSWindow, StopDepth, MaxDownloadParents} \subseteq Nat \ {0}
    /\ MaxExpiries \in Nat

-----------------------------------------------------------------------------
(***************************************************************************)
(* One node's chain, H being the shares it holds and V the verified ones.  *)
(***************************************************************************)

\* The work of a share and all its ancestors.
Total[h \in Hash] == Diff[h] + IF Parent[h] \in Hash THEN Total[Parent[h]] ELSE 0

\* The shares held without a gap from h backwards: their number is chainLen,
\* their work cumWork.
Path == [h \in Hash |-> [a \in Line[h] |-> Between(a, h)]]
Stretch(h, H) == {a \in Line[h] : Path[h][a] \subseteq H}
Len(h, H) == Cardinality(Stretch(h, H))
Work(h, H) == Total[h] - Min({Total[a] - Diff[a] : a \in Stretch(h, H)})

\* The verified share of most work, ties by hash; the null hash if there is none.
Best(H, V) ==
    LET work == [c \in V |-> Work(c, H)] IN
    IF V = {} THEN Genesis
    ELSE CHOOSE c \in V : \A d \in V \ {c} : work[c] > work[d] \/ (work[c] = work[d] /\ c > d)

\* Mutant of Fate: only on a verified parent.
FateStrict(h, parent, H, V) ==
    IF h \notin H THEN "absent"
    ELSE IF h \in V THEN "verified"
    ELSE IF Parent[h] = Genesis \/ parent = "verified"
         THEN IF h \in Invalid THEN "rejected" ELSE "verified"
    ELSE "waits"

\* What a pass makes of h, its parent having met that fate: a share is judged once its
\* parent is verified, or held with a full lookbehind.
Fate(h, parent, H, V) ==
    IF h \notin H THEN "absent"
    ELSE IF h \in V THEN "verified"
    ELSE IF \/ Parent[h] = Genesis
            \/ parent = "verified"
            \/ parent = "waits" /\ Len(Parent[h], H) >= TargetLookbehind
         THEN IF h \in Invalid THEN "rejected" ELSE "verified"
    ELSE "waits"

\* A verification pass over H, parents first.
Pass(H, V) ==
    LET fate[h \in Hash] ==
            Fate(h, IF Parent[h] \in Hash THEN fate[Parent[h]] ELSE "absent", H, V)
    IN  fate

\* AddShares at n of the shares of B.
Add(n, B) ==
    LET H == held[n] \cup B
        fate == Pass(H, verified[n])
    IN  /\ held' = [held EXCEPT ![n] = {h \in H : fate[h] # "rejected"}]
        /\ verified' = [verified EXCEPT ![n] = {h \in H : fate[h] = "verified"}]

Tip(n) == Best(held[n], verified[n])

\* Shares no held share builds on (headsLocked).
Heads(n) == {h \in held[n] : \A c \in held[n] : Parent[c] # h}

\* Mutant of GetMissingParentHashes: without the lookbehind.
MissingForWindow(n) ==
    LET shallow == {h \in Heads(n) : Len(h, held[n]) < PPLNSWindow}
        ends == {Parent[a] : a \in UNION {Stretch(h, held[n]) : h \in shallow}}
    IN  ends \ (held[n] \cup {Genesis})

\* The missing parents at the ends of lines that are not deep enough yet.
GetMissingParentHashes(n) ==
    LET shallow == {h \in Heads(n) : Len(h, held[n]) < PPLNSWindow + TargetLookbehind}
        ends == {Parent[a] : a \in UNION {Stretch(h, held[n]) : h \in shallow}}
    IN  ends \ (held[n] \cup {Genesis})

\* Each head, and its ancestor StopDepth back or else the oldest held.
GetStopHashes(n) ==
    UNION {LET back == Stretch(h, held[n])
               far == {a \in back : Cardinality(Between(a, h)) <= StopDepth + 1}
           IN  {h} \cup {a \in far : Parent[a] \notin far} : h \in Heads(n)}

\* A requested share and up to k of its ancestors, ending before a stop.
GetSharesByHashWithParents(n, h, k, stops) ==
    {a \in Stretch(h, held[n] \ stops) : Cardinality(Between(a, h)) <= k + 1}

-----------------------------------------------------------------------------
(***************************************************************************)
(* Gossip.                                                                 *)
(***************************************************************************)

\* n finds a share on its tip, adds it and publishes it; gossip reaches some nodes.
Mine(n, h, to) ==
    /\ h \notin mined \cup Foreign /\ Parent[h] = Tip(n)
    /\ Add(n, {h})
    /\ mined' = mined \cup {h}
    /\ mail' = mail \cup ((to \ {n}) \X {h})
    /\ UNCHANGED <<request, answered, expiries>>

\* A share of somebody else is published.
Publish(h, to) ==
    /\ h \in Foreign \ mined /\ Parent[h] \in mined
    /\ mined' = mined \cup {h}
    /\ mail' = mail \cup (to \X {h})
    /\ UNCHANGED <<chainVars, request, answered, expiries>>

\* A gossiped share arrives, in any order and at any time.
Deliver(n, h) ==
    /\ <<n, h>> \in mail
    /\ Add(n, {h})
    /\ mail' = mail \ {<<n, h>>}
    /\ UNCHANGED <<mined, request, answered, expiries>>

-----------------------------------------------------------------------------
(***************************************************************************)
(* The periodic sync. An exchange that is lost changes nothing.            *)
(***************************************************************************)

\* n hears of p's best share, from SyncWithPeer or from handleVersionStream, and asks p
\* for it, with all ancestors one answer may hold, unless it holds it.
requestBestShare(n, p) ==
    /\ n # p
    /\ \E best \in {Tip(p)} \ (held[n] \cup {Genesis}), stops \in {GetStopHashes(n)} :
          Add(n, GetSharesByHashWithParents(p, best, MaxDownloadParents, stops))
    /\ UNCHANGED <<mined, mail, request, answered, expiries>>

\* Where the version exchange failed each side sends the line of its tip instead.
SwapWindows(n, p) ==
    /\ n # p
    /\ \E best \in {Tip(p)} \ {Genesis} : Add(n, Stretch(best, held[p]))
    /\ UNCHANGED <<mined, mail, request, answered, expiries>>

-----------------------------------------------------------------------------
(***************************************************************************)
(* The download loop.                                                      *)
(***************************************************************************)

\* step up to its request: a random missing parent, of a random peer, with a random
\* number of ancestors.
Ask(n, h, p, k) ==
    /\ request[n] = {} /\ p # n
    /\ h \in GetMissingParentHashes(n) \ answered[n]
    /\ request' = [request EXCEPT ![n] = {[h |-> h, to |-> p, k |-> k, stops |-> GetStopHashes(n)]}]
    /\ UNCHANGED <<chainVars, mined, mail, answered, expiries>>

\* What the downloader notes of an answer: its hash if it held shares.
Remembered(h, got) == IF got = {} THEN {} ELSE {h}

\* fetchShares: the peer walks its chain, the answer is added to ours, and the hash
\* waits if the answer held anything.
Fetch(n) ==
    \E r \in request[n] : \E got \in {GetSharesByHashWithParents(r.to, r.h, r.k, r.stops)} :
        /\ Add(n, got)
        /\ answered' = [answered EXCEPT ![n] = @ \cup Remembered(r.h, got)]
        /\ request' = [request EXCEPT ![n] = {}]
        /\ UNCHANGED <<mined, mail, expiries>>

\* The request fails or its deadline passes.
FetchFails(n) ==
    /\ request[n] # {}
    /\ request' = [request EXCEPT ![n] = {}]
    /\ UNCHANGED <<chainVars, mined, mail, answered, expiries>>

\* downloadRequeryDelay has passed since h was answered.
Requery(n, h) ==
    /\ h \in answered[n]
    /\ answered' = [answered EXCEPT ![n] = @ \ {h}]
    /\ UNCHANGED <<chainVars, mined, mail, request, expiries>>

\* pruneUnverified drops a share that no verified share stands on.
Expire(n, h) ==
    /\ expiries < MaxExpiries
    /\ h \in held[n] \ verified[n]
    /\ \A v \in verified[n] : h \notin Stretch(v, held[n])
    /\ held' = [held EXCEPT ![n] = @ \ {h}]
    /\ expiries' = expiries + 1
    /\ UNCHANGED <<verified, mined, mail, request, answered>>

-----------------------------------------------------------------------------
Init == /\ held = Loaded /\ verified = Loaded
        /\ mined = UNION {UNION {Line[h] : h \in Loaded[n]} : n \in Node}
        /\ mail = {}
        /\ request = [n \in Node |-> {}]
        /\ answered = [n \in Node |-> {}]
        /\ expiries = 0

Gossip == \E n \in Node, h \in Hash : \/ Deliver(n, h)
                                      \/ \E to \in SUBSET Node : Mine(n, h, to)

Sync == \E n, p \in Node : requestBestShare(n, p) \/ SwapWindows(n, p)

Counts == 0 .. MaxDownloadParents - 1

Download == \E n \in Node : \/ \E p \in Node, h \in Hash, k \in Counts : Ask(n, h, p, k)
                            \/ Fetch(n) \/ FetchFails(n)

Elapse == \E n \in Node, h \in Hash : Requery(n, h) \/ Expire(n, h)

Next == Gossip \/ Sync \/ Download \/ Elapse
        \/ \E h \in Hash, to \in SUBSET Node : Publish(h, to)

Spec == Init /\ [][Next]_vars

\* The sync of every 30 seconds gets through, requests end and succeed again and again,
\* and the random choices fall again and again on a parent and a peer that holds it.
FairSpec ==
    /\ Spec
    /\ \A n \in Node :
          /\ \A p \in Node \ {n} : WF_vars(requestBestShare(n, p))
          /\ WF_vars(Fetch(n) \/ FetchFails(n))
          /\ SF_vars(Fetch(n) /\ \E r \in request[n] : r.h \in held[r.to] \ Invalid)
          /\ WF_vars(\E h \in Hash : Requery(n, h))
          /\ SF_vars(\E p \in Node, h \in Hash, k \in Counts :
                        h \in held[p] \ Invalid /\ Ask(n, h, p, k))

-----------------------------------------------------------------------------
(***************************************************************************)
(* Properties.                                                             *)
(***************************************************************************)

\* Once no more shares are found, all nodes settle on the same tip, although any gossip
\* and any request may have been lost, a node may have started without history and
\* invalid shares are about: the sync of best shares and the download loop suffice.
Converges == <>[](Cardinality({Tip(n) : n \in Node}) = 1)

\* The line below n's tip is held back to the first share, to the depth that payouts
\* and difficulty need, or to where no node has more.
Hydrated(n) ==
    \E a \in {Tip(n)} \cap Hash :
        LET line == Stretch(a, held[n]) IN
        \/ Cardinality(line) >= PPLNSWindow + TargetLookbehind
        \/ \E b \in line : /\ Parent[b] \notin line
                           /\ \A p \in Node : Parent[b] \notin held[p]

\* Every node that has a tip ends up with its line hydrated: gaps larger than one
\* answer are crossed, and answers that brought nothing useful do not end the search.
FillsIn == \A n \in Node : <>[](Tip(n) # Genesis => Hydrated(n))
=============================================================================
