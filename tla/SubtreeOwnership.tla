---------------------------- MODULE SubtreeOwnership ----------------------------
(***************************************************************************)
(* What subtree migration promises.  A subtree has one owner, the rank     *)
(* that the journals give it to.  It is served by its owner or, while it   *)
(* is frozen or its owner is down, by nobody.  Ownership moves to a rank   *)
(* that holds an offer, and only while nobody serves.                      *)
(***************************************************************************)
CONSTANTS Ranks, Owner0, NONE

VARIABLES
    owner,      \* who has the subtree after a restart of every rank
    offered,    \* ranks whose journal holds an import that is not settled
    server      \* who serves it, or NONE

vars == <<owner, offered, server>>

Init == owner = Owner0 /\ offered = {} /\ server = Owner0

(* The tree is frozen, or its server dies.                                 *)
Suspend ==
    /\ server # NONE
    /\ server' = NONE
    /\ UNCHANGED <<owner, offered>>

(* A reversed import may reach the journal after the owner went on, so an  *)
(* offer can come, and go, at any time.                                    *)
Offer(q) ==
    /\ q # owner
    /\ offered' = offered \cup {q}
    /\ UNCHANGED <<owner, server>>

Withdraw(q) ==
    /\ offered' = offered \ {q}
    /\ UNCHANGED <<owner, server>>

Transfer(q) ==
    /\ server = NONE
    /\ q \in offered
    /\ owner' = q
    /\ offered' = offered \ {q}
    /\ UNCHANGED server

Resume ==
    /\ server = NONE
    /\ server' = owner
    /\ UNCHANGED <<owner, offered>>

Next ==
    \/ Suspend \/ Resume
    \/ \E q \in Ranks : Offer(q) \/ Withdraw(q) \/ Transfer(q)

Spec == Init /\ [][Next]_vars

=============================================================================
