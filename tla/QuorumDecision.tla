--------------------------- MODULE QuorumDecision ---------------------------
(***************************************************************************)
(* What a vote of M out of N promises, whatever carries it out: everybody  *)
(* votes at most once, the decision is taken once and never changes, an    *)
(* approval rests on a quorum of different people, a rejection is declared *)
(* only when no quorum can come about any more, a quorum once reached      *)
(* cannot expire, and the approved action is performed only after an       *)
(* approval.                                                               *)
(***************************************************************************)
EXTENDS Naturals, FiniteSets

CONSTANTS Users, None

VARIABLES
    members,    \* who may vote
    quorum,     \* how many approvals it takes
    votes,      \* what each of them voted
    decision,
    performed   \* has the approved action been performed?

vars == <<members, quorum, votes, decision, performed>>
Ballots == {"APPROVE", "REJECT", "ABSTAIN"}

For(b) == {u \in Users : votes[u] = b}
Open == {u \in members : votes[u] = None}
QuorumReached == Cardinality(For("APPROVE")) >= quorum
QuorumPossible == Cardinality(For("APPROVE") \cup Open) >= quorum

Init ==
    /\ members \subseteq Users
    /\ quorum \in Nat \ {0}
    /\ votes = [u \in Users |-> None]
    /\ decision = None
    /\ performed = FALSE

Vote(u, b) ==
    /\ decision = None
    /\ ~QuorumReached
    /\ u \in Open
    /\ votes' = [votes EXCEPT ![u] = b]
    /\ UNCHANGED <<members, quorum, decision, performed>>

Decide(d) ==
    /\ decision = None
    /\ decision' = d
    /\ UNCHANGED <<members, quorum, votes, performed>>

Approve == QuorumReached /\ Decide("APPROVED")
Reject == ~QuorumPossible /\ Decide("REJECTED")
Expire == ~QuorumReached /\ Decide("EXPIRED")
Cancel == For("APPROVE") = {} /\ Decide("CANCELLED")

Perform ==
    /\ decision = "APPROVED"
    /\ performed' = TRUE
    /\ UNCHANGED <<members, quorum, votes, decision>>

Next ==
    \/ \E u \in Users, b \in Ballots : Vote(u, b)
    \/ Approve \/ Reject \/ Expire \/ Cancel
    \/ Perform

Spec == Init /\ [][Next]_vars
=============================================================================
