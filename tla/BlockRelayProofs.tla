-------------------------- MODULE BlockRelayProofs --------------------------
(***************************************************************************)
(* Proofs about BlockRelay, for any nodes, connections and failures.       *)
(***************************************************************************)
EXTENDS BlockRelay, TLAPS

Stream == [from : Node, to : Node, own : BOOLEAN, at : {"sent", "handled"}]

RelayTypes ==
    /\ streams \subseteq Stream
    /\ seen \subseteq Node
    /\ submits \in [Full -> Nat]

\* Submission by SubmitRawBlockHex belongs to the one stream that found the block new: it
\* is at a full node that noted the block and has not submitted it yet.
OneHandler ==
    \A s \in streams : s.at = "handled" =>
        /\ s.to \in Full \cap seen /\ submits[s.to] = 0
        /\ \A t \in streams : t.at = "handled" /\ t.to = s.to => t = s

\* Who submitted a relayed block has seen it.
SubmittersSaw == \A n \in Full : submits[n] > 0 => n \in seen

RelayInv == RelayTypes /\ OneHandler /\ SubmittersSaw /\ OneSubmission

Submission(s) == RelayedAccepted(s) \/ RelayedRejected(s)

-----------------------------------------------------------------------------
\* What RelaySolvedBlockHex opens are new streams on their way.
LEMMA RelaySends ==
    ASSUME NEW n \in Node, NEW own \in BOOLEAN
    PROVE  /\ Relay(n, own) \subseteq Stream
           /\ \A s \in Relay(n, own) : s.at = "sent"
  BY RelayAssumption DEF Relay, Stream

\* A step that leaves the submissions and the handlers alone keeps the invariant.
LEMMA Undisturbed ==
    ASSUME RelayInv,
           RelayTypes',
           seen \subseteq seen',
           submits' = submits,
           \A s \in streams' : s.at = "handled" => s \in streams
    PROVE  RelayInv'
<1>1. OneHandler'
  BY DEF RelayInv, OneHandler
<1>2. SubmittersSaw' /\ OneSubmission'
  BY DEF RelayInv, SubmittersSaw, OneSubmission
<1>3. QED
  BY <1>1, <1>2 DEF RelayInv

\* The lock of SubmitRawBlockHex: the block is noted as it becomes this handler's.
LEMMA ReceiveKeeps ==
    ASSUME RelayInv, NEW s, Receive(s)
    PROVE  RelayInv'
<1>1. s \in streams /\ s \in Stream /\ s.at = "sent" /\ s.to \in Node
  BY DEF RelayInv, RelayTypes, Receive, Stream
<1>2. CASE s.to \in seen
  <2>1. streams' = streams \ {s} /\ seen' = seen /\ submits' = submits
    BY <1>2 DEF Receive, Answer
  <2>2. QED
    BY <2>1, Undisturbed DEF RelayInv, RelayTypes
<1>3. CASE s.to \notin seen /\ s.to \notin Full
  <2>1. /\ streams' = (streams \ {s}) \cup Relay(s.to, FALSE)
        /\ seen' = seen \cup {s.to} /\ submits' = submits
    BY <1>3 DEF Receive, Answer
  <2>2. RelayTypes'
    BY <1>1, <2>1, RelaySends DEF RelayInv, RelayTypes
  <2>3. \A t \in streams' : t.at = "handled" => t \in streams
    BY <1>1, <2>1, RelaySends
  <2>4. QED
    BY <2>1, <2>2, <2>3, Undisturbed
<1>4. CASE s.to \notin seen /\ s.to \in Full
  <2> DEFINE h == [s EXCEPT !.at = "handled"]
  <2>1. /\ streams' = (streams \ {s}) \cup {h}
        /\ seen' = seen \cup {s.to} /\ submits' = submits
    BY <1>4 DEF Receive
  <2>2. h \in Stream /\ h.at = "handled" /\ h.to = s.to
    BY <1>1 DEF Stream
  <2> HIDE DEF h
  <2>3. RelayTypes'
    BY <1>1, <2>1, <2>2 DEF RelayInv, RelayTypes
  <2>4. \A t \in streams : t.at = "handled" => t.to # s.to
    BY <1>4 DEF RelayInv, OneHandler
  <2>5. submits[s.to] = 0
    BY <1>4 DEF RelayInv, RelayTypes, SubmittersSaw
  <2>6. OneHandler'
    BY <1>4, <2>1, <2>2, <2>4, <2>5 DEF RelayInv, OneHandler
  <2>7. SubmittersSaw' /\ OneSubmission'
    BY <2>1 DEF RelayInv, SubmittersSaw, OneSubmission
  <2>8. QED
    BY <2>3, <2>6, <2>7 DEF RelayInv
<1>5. QED
  BY <1>2, <1>3, <1>4

\* The submission itself is the first of its node, and the last of its stream.
LEMMA SubmissionKeeps ==
    ASSUME RelayInv, NEW s, Submission(s)
    PROVE  RelayInv'
<1>1. /\ s \in streams /\ s \in Stream /\ s.at = "handled"
      /\ s.to \in Full \cap seen /\ submits[s.to] = 0 /\ s.to \in Node
  BY DEF RelayInv, RelayTypes, OneHandler, Submission, RelayedAccepted, RelayedRejected, Stream
<1>2. /\ seen' = seen
      /\ submits' = [submits EXCEPT ![s.to] = @ + 1]
      /\ streams' \subseteq (streams \ {s}) \cup Relay(s.to, FALSE)
  BY DEF Submission, RelayedAccepted, RelayedRejected, Answer
<1>3. RelayTypes'
  <2>1. streams' \subseteq Stream /\ seen' \subseteq Node
    BY <1>1, <1>2, RelaySends DEF RelayInv, RelayTypes
  <2>2. submits' \in [Full -> Nat]
    BY <1>1, <1>2 DEF RelayInv, RelayTypes
  <2>3. QED
    BY <2>1, <2>2 DEF RelayTypes
<1>4. \A t \in streams' : t.at = "handled" => t \in streams /\ t # s
  BY <1>1, <1>2, RelaySends
<1>5. \A t \in streams' : t.at = "handled" => t.to # s.to
  BY <1>1, <1>4 DEF RelayInv, OneHandler
<1>6. /\ \A n \in Full \ {s.to} : submits'[n] = submits[n]
      /\ submits'[s.to] = 1
  BY <1>1, <1>2 DEF RelayInv, RelayTypes
<1>7. OneHandler'
  BY <1>2, <1>4, <1>5, <1>6 DEF RelayInv, OneHandler
<1>8. SubmittersSaw' /\ OneSubmission'
  BY <1>1, <1>2, <1>6 DEF RelayInv, SubmittersSaw, OneSubmission
<1>9. QED
  BY <1>3, <1>7, <1>8 DEF RelayInv

LEMMA RelayInitInv == Init => RelayInv
  BY DEF Init, RelayInv, RelayTypes, OneHandler, SubmittersSaw, OneSubmission

LEMMA RelayNextInv == RelayInv /\ [Next]_vars => RelayInv'
<1> SUFFICES ASSUME RelayInv, [Next]_vars PROVE RelayInv'
  OBVIOUS
<1>1. CASE UNCHANGED vars
  BY <1>1, Undisturbed DEF vars, RelayInv, RelayTypes
<1>2. ASSUME NEW n \in Node, Find(n) PROVE RelayInv'
  <2>1. streams' = Relay(n, TRUE) /\ seen' = seen /\ submits' = submits
    BY <1>2 DEF Find
  <2>2. QED
    BY <2>1, RelaySends, Undisturbed DEF RelayInv, RelayTypes
<1>3. ASSUME NEW n \in Node, SubmitOwn(n) \/ Propagate(n) PROVE RelayInv'
  BY <1>3, Undisturbed DEF SubmitOwn, Propagate, RelayInv, RelayTypes
<1>4. ASSUME NEW s \in streams, StreamFails(s) PROVE RelayInv'
  <2>1. streams' = streams \ {s} /\ seen' = seen /\ submits' = submits
    BY <1>4 DEF StreamFails, Answer
  <2>2. QED
    BY <2>1, Undisturbed DEF RelayInv, RelayTypes
<1>5. ASSUME NEW s \in streams, Handle(s) PROVE RelayInv'
  BY <1>5, ReceiveKeeps, SubmissionKeeps DEF Handle, Submission
<1>6. QED
  BY <1>1, <1>2, <1>3, <1>4, <1>5 DEF Next

\* However many peers pass a block on at once, over any connections and through any
\* failures, seenBlocks lets a node submit it to its vertcoind once for all of them.
THEOREM SubmittedOnce == FairSpec => []OneSubmission
<1>1. RelayInv => OneSubmission
  BY DEF RelayInv
<1>2. QED
  BY <1>1, RelayInitInv, RelayNextInv, PTL DEF FairSpec
=============================================================================
