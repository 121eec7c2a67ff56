------------------------- MODULE MCApprovalWorkflow -------------------------
(* Instances of ApprovalWorkflow for TLC. *)
EXTENDS ApprovalWorkflow

CONSTANTS a, b, c

ThreeUsers == {a, b, c}

\* Two of three, all of two, and one named twice with a quorum that needs both.
TwoOfThree == [ids |-> <<a, b, c>>, quorum |-> 2, hours |-> 1]
Both == [ids |-> <<a, b>>, quorum |-> 2, hours |-> 1]
Doubled == [ids |-> <<a, b, a>>, quorum |-> 2, hours |-> 1]
NoTime == [ids |-> <<a, b>>, quorum |-> 1, hours |-> 0]

SeveralRequests == {TwoOfThree, Both, Doubled, NoTime}
OneRequest == {Both}

\* Failures with the smaller requests, enough to exhaust one activity.
SeveralFaults ==
    [r \in SeveralRequests |-> CASE r = TwoOfThree -> 0 [] r = Doubled -> 1
                                [] OTHER -> 2]
NoFaults == [r \in OneRequest |-> 0]
=============================================================================
