----------------------------- MODULE BlockRelay -----------------------------
(***************************************************************************)
(* A solved block on its way through the pool (work/manager.go SubmitBlock *)
(* and SubmitRawBlockHex, p2p/node.go RelaySolvedBlockHex): the finder     *)
(* sends it to all its peers and waits for their answers before it gives   *)
(* it to its own vertcoind; a peer that has not seen it submits it or,     *)
(* without a vertcoind, passes it on.                                      *)
(*                                                                         *)
(* One block, found by one node: blocks do not meet.  What happens fits    *)
(* into the 30 minutes for which a block counts as seen.                   *)
(***************************************************************************)
EXTENDS Integers, FiniteSets

CONSTANTS
    Node,
    Full,           \* the nodes with a vertcoind
    Peers,          \* the peers each node is connected to
    Unsteady        \* nodes whose streams and vertcoind may fail

ASSUME RelayAssumption ==
    /\ Full \subseteq Node /\ Unsteady \subseteq Node
    /\ Peers \in [Node -> SUBSET Node]
    /\ \A n, p \in Node : n \in Peers[p] => p \in Peers[n]

VARIABLES
    sub,        \* where SubmitBlock is at the finder, "none" at the others
    streams,    \* relay streams: from, to, whether of SubmitBlock, and how far
    oks,        \* the peers that answered the finder OK
    seen,       \* nodes that have the block in seenBlocks
    daemon,     \* nodes whose vertcoind holds the block
    score,      \* peerScores of the full nodes
    submits     \* submitblock calls each node made for relayed copies

vars == <<sub, streams, oks, seen, daemon, score, submits>>

-----------------------------------------------------------------------------
\* RelaySolvedBlockHex opens a stream to every peer.
Relay(n, own) == {[from |-> n, to |-> p, own |-> own, at |-> "sent"] : p \in Peers[n]}

\* SubmitBlock of a block that n's miner solved, up to the answers of the relay.
Find(n) ==
    /\ \A m \in Node : sub[m] = "none"
    /\ sub' = [sub EXCEPT ![n] = "relaying"]
    /\ streams' = Relay(n, TRUE)
    /\ UNCHANGED <<oks, seen, daemon, score, submits>>

\* The handler is done with stream s, ok or not, and has started the relays in new.
Answer(s, ok, new) ==
    /\ streams' = (streams \ {s}) \cup new
    /\ oks' = IF s.own /\ ok THEN oks \cup {s.to} ELSE oks

\* Mutant of Receive: the block is looked up and noted under two locks.
ReceiveUnnoted(s) ==
    /\ s \in streams /\ s.at = "sent"
    /\ IF s.to \in seen
       THEN Answer(s, TRUE, {}) /\ UNCHANGED seen
       ELSE IF s.to \notin Full
       THEN Answer(s, FALSE, Relay(s.to, FALSE)) /\ seen' = seen \cup {s.to}
       ELSE /\ streams' = (streams \ {s}) \cup {[s EXCEPT !.at = "handled"]}
            /\ UNCHANGED <<oks, seen>>
    /\ UNCHANGED <<sub, daemon, score, submits>>

\* Mutant of Receive: seenBlocks is for full nodes.
ReceiveLightAgain(s) ==
    /\ s \in streams /\ s.at = "sent"
    /\ IF s.to \in seen /\ s.to \in Full
       THEN Answer(s, TRUE, {}) /\ UNCHANGED seen
       ELSE /\ seen' = seen \cup {s.to}
            /\ IF s.to \notin Full THEN Answer(s, FALSE, Relay(s.to, FALSE))
               ELSE /\ streams' = (streams \ {s}) \cup {[s EXCEPT !.at = "handled"]}
                    /\ UNCHANGED oks
    /\ UNCHANGED <<sub, daemon, score, submits>>

\* Mutant of Receive: a light node has no use for a block.
ReceiveLightKeeps(s) ==
    /\ s \in streams /\ s.at = "sent"
    /\ IF s.to \in seen \/ s.to \notin Full
       THEN Answer(s, TRUE, {}) /\ seen' = seen \cup {s.to}
       ELSE /\ seen' = seen \cup {s.to}
            /\ streams' = (streams \ {s}) \cup {[s EXCEPT !.at = "handled"]}
            /\ UNCHANGED oks
    /\ UNCHANGED <<sub, daemon, score, submits>>

\* SubmitRawBlockHex up to its submission: a block seen before is answered OK, a light
\* node passes a new one on and answers nothing.
Receive(s) ==
    /\ s \in streams /\ s.at = "sent"
    /\ IF s.to \in seen
       THEN Answer(s, TRUE, {}) /\ UNCHANGED seen
       ELSE /\ seen' = seen \cup {s.to}
            /\ IF s.to \notin Full THEN Answer(s, FALSE, Relay(s.to, FALSE))
               ELSE /\ streams' = (streams \ {s}) \cup {[s EXCEPT !.at = "handled"]}
                    /\ UNCHANGED oks
    /\ UNCHANGED <<sub, daemon, score, submits>>

\* vertcoind takes a relayed block, which is then passed on...
RelayedAccepted(s) ==
    /\ s \in streams /\ s.at = "handled" /\ s.to \notin daemon
    /\ daemon' = daemon \cup {s.to}
    /\ score' = [score EXCEPT ![s.to][s.from] = @ + 2]
    /\ submits' = [submits EXCEPT ![s.to] = @ + 1]
    /\ Answer(s, TRUE, Relay(s.to, FALSE))
    /\ UNCHANGED <<sub, seen>>

\* ...or holds it already, or the call fails, whether or not vertcoind got the block:
\* there is no retry, the relay ends here and counts against the peer.
RelayedRejected(s) ==
    /\ s \in streams /\ s.at = "handled"
    /\ \/ s.to \in daemon /\ UNCHANGED daemon
       \/ s.to \in Unsteady /\ daemon' \in {daemon, daemon \cup {s.to}}
    /\ score' = [score EXCEPT ![s.to][s.from] = @ - 1]
    /\ submits' = [submits EXCEPT ![s.to] = @ + 1]
    /\ Answer(s, FALSE, {})
    /\ UNCHANGED <<sub, seen>>

\* A peer is gone, or cannot be reached in time.
StreamFails(s) ==
    /\ s \in streams /\ s.at = "sent" /\ {s.from, s.to} \cap Unsteady # {}
    /\ Answer(s, FALSE, {})
    /\ UNCHANGED <<sub, seen, daemon, score, submits>>

\* Mutant of Relayed: somebody must have taken the block.
RelayedSomewhere(n) == oks # {} /\ \A s \in streams : ~(s.own /\ s.from = n)

\* Every peer has answered or closed its stream (wg.Wait).
Relayed(n) == \A s \in streams : ~(s.own /\ s.from = n)

\* SubmitBlock goes on: a full node turns to its own vertcoind, which may hold the block
\* by now, as a "duplicate"; the retries of an unsteady one may all fail.
SubmitOwn(n) ==
    /\ sub[n] = "relaying" /\ Relayed(n)
    /\ \/ n \notin Full /\ sub' = [sub EXCEPT ![n] = "done"] /\ UNCHANGED daemon
       \/ n \in Full /\ sub' = [sub EXCEPT ![n] = "done"] /\ daemon' = daemon \cup {n}
       \/ n \in Full \cap Unsteady /\ sub' = [sub EXCEPT ![n] = "failed"] /\ UNCHANGED daemon
    /\ UNCHANGED <<streams, oks, seen, score, submits>>

\* The Vertcoin network carries the block from one vertcoind to another.
Propagate(n) ==
    /\ daemon # {} /\ n \in Full \ daemon
    /\ daemon' = daemon \cup {n}
    /\ UNCHANGED <<sub, streams, oks, seen, score, submits>>

-----------------------------------------------------------------------------
Init == /\ sub = [n \in Node |-> "none"]
        /\ streams = {} /\ oks = {} /\ seen = {} /\ daemon = {}
        /\ score = [n \in Full |-> [p \in Node |-> 0]]
        /\ submits = [n \in Full |-> 0]

Handle(s) == Receive(s) \/ RelayedAccepted(s) \/ RelayedRejected(s)

Next == \/ \E n \in Node : Find(n) \/ SubmitOwn(n) \/ Propagate(n)
        \/ \E s \in streams : Handle(s) \/ StreamFails(s)

\* Handlers run and end, by their calls' timeouts if by nothing else, and SubmitBlock goes
\* on after the wait.
FairSpec ==
    /\ Init /\ [][Next]_vars
    /\ \A n \in Node : WF_vars(SubmitOwn(n))
    /\ \A n, p \in Node : WF_vars(\E s \in streams : s.from = n /\ s.to = p /\ Handle(s))

-----------------------------------------------------------------------------
(***************************************************************************)
(* Properties.                                                             *)
(***************************************************************************)

\* However many peers pass a block on at once, a node submits it to its vertcoind for
\* them once: seenBlocks is read and marked under one lock.
OneSubmission == \A n \in Full : submits[n] <= 1

\* Relaying ends: the block does not go round and round among light nodes.
Quiet == <>[](streams = {})

\* The nodes a block reaches from n through light nodes that can be relied on.
Nearby(n) ==
    LET hop(S) == S \cup UNION {Peers[m] : m \in (S \ (Full \cup Unsteady)) \cup {n}}
        ring[i \in 0 .. Cardinality(Node)] == IF i = 0 THEN {n} ELSE hop(ring[i - 1])
    IN  ring[Cardinality(Node)]

\* A block found anywhere comes to some vertcoind, as long as light nodes connect the
\* finder with a full node that can be relied on: neither the echo of the finder's own
\* relay nor a node that saw the block and failed to submit it keeps it from there.
Lands ==
    \A n \in Node \ Unsteady :
        sub[n] # "none" /\ Nearby(n) \cap (Full \ Unsteady) # {} ~> daemon # {}

\* A full node that finds a block gives it to its own vertcoind: waiting for the peers'
\* answers does not keep it from that, be their calls refused, the streams lost or the
\* block its own by relay, as long as every handler ends (the read has no deadline).
OwnSubmitted ==
    \A n \in Full : sub[n] # "none" ~> n \in daemon \/ sub[n] = "failed"
=============================================================================
