-------------------------- MODULE MCPaymentAdapter --------------------------
(* Instances of PaymentAdapter for TLC. *)
EXTENDS PaymentAdapter, TLC

CONSTANTS a, b, w1, w2, f1

TwoPayloads == {a, b}
Malformed == {b}
\* A payment sent twice, and a message that does not parse.
ThreeMessages == <<a, a, b>>
TwoWorkers == {w1, w2}
OneFile == {f1}
FileContents == f1 :> <<a>>
\* A crash and a fault together, or an expired record.
Troubles == {[crash |-> 1, fault |-> 1, expiry |-> 0], [crash |-> 0, fault |-> 0, expiry |-> 1]}
=============================================================================
