------------------------------ MODULE ShareLife -----------------------------
(***************************************************************************)
(* What a share chain promises of the shares it holds, whatever locks,     *)
(* passes and prunes it is made of: a share within retention waits for its *)
(* verification, is verified once, and once verified leaves for its age    *)
(* alone.                                                                  *)
(*                                                                         *)
(* ShareChain implements this specification.                               *)
(***************************************************************************)
EXTENDS Integers

CONSTANTS
    Hash,           \* the shares that may ever arrive
    Ts,             \* their timestamps
    MaxShareAge,    \* retention
    MaxWait         \* how old the clock reading a share is stored by may be

VARIABLES
    pending,        \* held, not verified
    accepted,       \* held and verified
    now             \* the node's clock

lifeVars == <<pending, accepted, now>>

\* Past the retention window.
Old(h) == Ts[h] < now - MaxShareAge

\* New shares are stored, past retention by no more than the age of the reading, and
\* wait. Only one past retention may be there as verified at once: it was pruned while
\* it was being verified.
Arrive(B) ==
    /\ B \cap (pending \cup accepted) = {}
    /\ \A h \in B : Ts[h] >= now - MaxShareAge - MaxWait
    /\ \E back \in SUBSET {h \in B : Old(h)} :
          /\ accepted' = accepted \cup back
          /\ pending' = pending \cup (B \ back)
    /\ UNCHANGED now

\* A waiting share is verified.
Accept(h) ==
    /\ h \in pending
    /\ pending' = pending \ {h}
    /\ accepted' = accepted \cup {h}
    /\ UNCHANGED now

\* Shares leave: waiting ones because they are rejected, have waited too long or are
\* too many; verified ones past retention only.
Leave(B) ==
    /\ \A h \in B \cap accepted : Old(h)
    /\ pending' = pending \ B
    /\ accepted' = accepted \ B
    /\ UNCHANGED now

Elapse == now' = now + 1 /\ UNCHANGED <<pending, accepted>>

Init == pending = {} /\ accepted = {} /\ now = 0

Next == \/ \E B \in SUBSET Hash : Arrive(B) \/ Leave(B)
        \/ \E h \in Hash : Accept(h)
        \/ Elapse

Spec == Init /\ [][Next]_lifeVars
=============================================================================
