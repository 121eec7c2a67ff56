------------------------- MODULE MCDeadlockDetector -------------------------
(* Instances of DeadlockDetector for TLC. *)
EXTENDS DeadlockDetector, TLC

CONSTANTS t1, t2, t3, r1, r2, r3

ThreeTxs == {t1, t2, t3}
ThreeResources == {r1, r2, r3}

\* Each takes one resource of its own; t2 may wait for those of both others,
\* and so closes cycles of two and of three that overlap in it and t1.
OwnResource == (t1 :> {r1}) @@ (t2 :> {r2}) @@ (t3 :> {r3})
OverlappingWants == (t1 :> {r2}) @@ (t2 :> {r1, r3}) @@ (t3 :> {r1})

\* t1 and t2 have no priority above 0, t3 has.
MixedPriority == (t1 :> -1) @@ (t2 :> 0) @@ (t3 :> 1)
=============================================================================
