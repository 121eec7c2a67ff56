--------------------------- MODULE MCEvidenceChain --------------------------
(* Instances of EvidenceChain for TLC: calls for two types.                *)
EXTENDS EvidenceChain

CONSTANTS r1, r2, r3, r4, anomaly, manual

MCCalls == {r1, r2, r3, r4}
MCType == [r \in MCCalls |-> IF r = r4 THEN manual ELSE anomaly]
=============================================================================
