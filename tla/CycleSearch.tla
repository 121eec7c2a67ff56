---------------------------- MODULE CycleSearch ----------------------------
(***************************************************************************)
(* LockGraph.DetectCycles (deadlock_detector.go): the depth-first search   *)
(* that looks for cycles in the wait-for graph.  The call holds the        *)
(* graph's mutex, so the edges do not change under it.  Go ranges over a   *)
(* map in an arbitrary order, and each recursive call is a frame with      *)
(* neighbours still to come: a frame is an element of path, and todo holds *)
(* its neighbours.                                                         *)
(***************************************************************************)
EXTENDS WaitForGraph, Sequences

CONSTANT Nodes      \* transaction IDs in the graph

ASSUME NodesAssumption == IsFiniteSet(Nodes)

VARIABLES
    edges,      \* LockGraph.edges; nobody waits for itself
    visited,
    recStack,
    path,
    todo,       \* neighbours the frame of a node has not ranged over yet
    cycles      \* the result: each cycle from the top of path back to its entry

vars == <<edges, visited, recStack, path, todo, cycles>>

Arcs == {e \in Nodes \X Nodes : e[1] # e[2]}
Successors(n) == {m \in Nodes : <<n, m>> \in edges}
Top == path[Len(path)]

TypeOK ==
    /\ edges \subseteq Arcs
    /\ visited \subseteq Nodes
    /\ recStack \subseteq Nodes
    /\ path \in Seq(Nodes)
    /\ todo \in [Nodes -> SUBSET Nodes]
    /\ cycles \subseteq Seq(Nodes)

----------------------------------------------------------------------------
Init ==
    /\ edges \in SUBSET Arcs
    /\ visited = {}
    /\ recStack = {}
    /\ path = <<>>
    /\ todo = [n \in Nodes |-> {}]
    /\ cycles = {}

\* Mutant of Enter: the node is not put on recStack.
EnterUnmarked(n) ==
    /\ visited' = visited \cup {n}
    /\ path' = Append(path, n)
    /\ UNCHANGED <<edges, recStack, cycles>>

\* The head of dfs: mark n and push it.
Enter(n) ==
    /\ visited' = visited \cup {n}
    /\ recStack' = recStack \cup {n}
    /\ path' = Append(path, n)
    /\ UNCHANGED <<edges, cycles>>

\* Mutant of Start: only the first transaction of the map is searched from.
StartOnce(n) ==
    /\ path = <<>>
    /\ visited = {}
    /\ Enter(n)
    /\ todo' = [todo EXCEPT ![n] = Successors(n)]

\* The outer loop calls dfs on a node no search has reached.
Start(n) ==
    /\ path = <<>>
    /\ n \notin visited
    /\ Enter(n)
    /\ todo' = [todo EXCEPT ![n] = Successors(n)]

\* The next neighbour of the top frame.
Ahead(m) == path # <<>> /\ m \in todo[Top]
Drop(m) == [todo EXCEPT ![Top] = @ \ {m}]

Descend(m) ==
    /\ Ahead(m)
    /\ m \notin visited
    /\ Enter(m)
    /\ todo' = [Drop(m) EXCEPT ![m] = Successors(m)]

\* path is copied backwards until m is met, or to its start.
EntryIndex(m) == IF \E i \in 1..Len(path) : path[i] = m
                 THEN CHOOSE i \in 1..Len(path) : path[i] = m
                 ELSE 1
CycleTo(m) == [j \in 1..(Len(path) + 1 - EntryIndex(m)) |-> path[Len(path) + 1 - j]]

Report(m) ==
    /\ Ahead(m)
    /\ m \in visited
    /\ m \in recStack
    /\ cycles' = cycles \cup {CycleTo(m)}
    /\ todo' = Drop(m)
    /\ UNCHANGED <<edges, visited, recStack, path>>

Skip(m) ==
    /\ Ahead(m)
    /\ m \in visited
    /\ m \notin recStack
    /\ todo' = Drop(m)
    /\ UNCHANGED <<edges, visited, recStack, path, cycles>>

\* Mutant of Return: recStack keeps the node.
ReturnMarked ==
    /\ path # <<>>
    /\ todo[Top] = {}
    /\ path' = SubSeq(path, 1, Len(path) - 1)
    /\ UNCHANGED <<edges, visited, recStack, todo, cycles>>

\* The tail of dfs: pop the path.
Return ==
    /\ path # <<>>
    /\ todo[Top] = {}
    /\ path' = SubSeq(path, 1, Len(path) - 1)
    /\ recStack' = recStack \ {Top}
    /\ UNCHANGED <<edges, visited, todo, cycles>>

Done == path = <<>> /\ visited = Nodes

Next ==
    \/ \E n \in Nodes : Start(n) \/ Descend(n) \/ Report(n) \/ Skip(n)
    \/ Return

Spec == Init /\ [][Next]_vars
FairSpec == Spec /\ WF_vars(Next)

----------------------------------------------------------------------------
(* What a cycle is.  A reported cycle runs against the edges: each element *)
(* waits for the one before it, and the first one for the last.            *)

IsCycle(c) ==
    /\ Len(c) > 1
    /\ \A i, j \in 1..Len(c) : c[i] = c[j] => i = j
    /\ \A i \in 1..(Len(c) - 1) : <<c[i + 1], c[i]>> \in edges
    /\ <<c[1], c[Len(c)]>> \in edges

\* A set in which everyone waits for a member of it contains a cycle.
Knot(S) == S # {} /\ \A n \in S : \E m \in S : <<n, m>> \in edges

\* Every cycle the search reports is one: no transaction is blamed for a
\* deadlock it is not in, whatever the order of the map iteration.
OnlyCycles == \A c \in cycles : IsCycle(c)

\* A search that ends without a cycle has seen a graph without one, cross
\* edges between searches begun at different roots included.
NoCycleMissed == Done /\ cycles = {} => \A S \in SUBSET Nodes : ~Knot(S)

\* The transactions n waits for, directly or through others.
Closed(S) == \A k \in S : Successors(k) \subseteq S
Reaches(n) ==
    {m \in Nodes : \A S \in SUBSET Nodes : Successors(n) \subseteq S /\ Closed(S) => m \in S}

\* Every deadlock is met in one pass: a strongly connected set of
\* transactions with a cycle has a reported cycle in its component, even
\* when others were found before.
EveryDeadlockReported ==
    Done => \A n \in Nodes : n \in Reaches(n) =>
                \E c \in cycles : c[1] \in Reaches(n) /\ n \in Reaches(c[1])

\* The transactions of a reported cycle.
Members(c) == {c[i] : i \in 1..Len(c)}

\* The search answers as the detector relies on: with the transactions of
\* cycles, and not with nothing if there is a cycle.
AnswersDetector == Done => {Members(c) : c \in cycles} \in SearchResults(edges, Nodes)

\* The recursion ends, with every transaction looked at.
Terminates == <>Done

\* The edges still to be ranged over, the calls still to be made, each of which
\* has to return, and those still to return.
ToRange == {e \in edges : e[1] \notin visited \/ e[2] \in todo[e[1]]}
WorkLeft == Cardinality(ToRange) + 2 * Cardinality(Nodes \ visited) + Cardinality(recStack)

\* The search never goes over its own work again: it holds the graph's mutex
\* for at most twice as many steps as there are transactions, plus one for
\* each edge.
LinearTime == [][WorkLeft' \in Nat /\ WorkLeft' < WorkLeft]_vars

----------------------------------------------------------------------------
(* The inductive invariant behind OnlyCycles and EveryDeadlockReported *)

OnPath == {path[i] : i \in 1..Len(path)}

\* path is a simple path of the graph and recStack its set of nodes.
PathInv ==
    /\ \A i, j \in 1..Len(path) : path[i] = path[j] => i = j
    /\ \A i \in 1..(Len(path) - 1) : <<path[i], path[i + 1]>> \in edges
    /\ recStack = OnPath
    /\ recStack \subseteq visited
    /\ \A n \in Nodes : todo[n] \subseteq Successors(n)

\* The nodes whose search has ended.
Finished == visited \ recStack

\* The search as seen from the nodes of K alone: a node already ranged over by
\* a frame is finished, or is the next frame; a finished node leads only to
\* finished ones; no cycle is finished.
Front(K) ==
    /\ \A i \in 1..Len(path) : path[i] \in K =>
          \A m \in (Successors(path[i]) \cap K) \ todo[path[i]] :
              m \in Finished \/ (i < Len(path) /\ m = path[i + 1])
    /\ \A n \in Finished \cap K : Successors(n) \cap K \subseteq Finished
    /\ \A S \in SUBSET (Finished \cap K) : ~Knot(S)

\* A cycle is reported from the node that closes it.  As long as none was
\* reported from a node of K, whatever was reported elsewhere does not matter.
FrontInv ==
    \A K \in SUBSET Nodes : (\A c \in cycles : c[1] \notin K) => Front(K)

IInv == TypeOK /\ PathInv /\ FrontInv /\ OnlyCycles
=============================================================================
