---------------------------- MODULE WaitForGraph ----------------------------
(***************************************************************************)
(* What DetectCycles (deadlock_detector.go) owes its caller, whatever the  *)
(* order in which Go ranges over the maps: sets of transactions that the   *)
(* edges lead around, and at least one of them if there are any.  Module   *)
(* CycleSearch says how the search finds them, module DeadlockDetector     *)
(* what becomes of them.  Two cycles through the same transactions count   *)
(* as one here.                                                            *)
(***************************************************************************)
EXTENDS Integers, FiniteSets

\* The edges E lead around C.
IsCycleOf(E, C) ==
    \E s \in [1..Cardinality(C) -> C] :
        /\ C = {s[i] : i \in 1..Cardinality(C)}
        /\ \A i \in 1..Cardinality(C) : <<s[i], s[(i % Cardinality(C)) + 1]>> \in E

CyclesOf(E, N) == {C \in (SUBSET N) \ {{}} : IsCycleOf(E, C)}

\* The results DetectCycles may have on a graph with nodes N and edges E.
SearchResults(E, N) ==
    IF CyclesOf(E, N) = {} THEN {{}} ELSE (SUBSET CyclesOf(E, N)) \ {{}}
=============================================================================
